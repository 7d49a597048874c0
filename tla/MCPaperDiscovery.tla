--------------------------- MODULE MCPaperDiscovery ---------------------------
EXTENDS PaperDiscovery, TLC

CONSTANTS A, B

Newest(p) == [paper |-> p, lag |-> 0]
Older(p) == [paper |-> p, lag |-> 1]
Unversioned(p) == [paper |-> p, lag |-> None]

\* Both orders of two papers, a repeated paper, an id without a version.
Pages == {<<Newest(A), Newest(B)>>, <<Newest(B), Newest(A)>>,
          <<Newest(A), Older(A)>>, <<Unversioned(B)>>}

\* The third version takes the first one's title back.
Titles == [v \in Version |-> IF v = 2 THEN "second" ELSE "first"]

\* No date range, and one that B is out of.
Ranges == {Paper, {A}}
=============================================================================
