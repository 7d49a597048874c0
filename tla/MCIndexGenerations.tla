-------------------------- MODULE MCIndexGenerations --------------------------
EXTENDS IndexGenerations, TLC
Symmetry == Permutations(Request)

\* Points: no two versions share a chunk id. The two generations of version 1 share
\* one of their two ids, those of version 2 have the same one.
Points == {1} \X (0..2) \cup {<<2, 0>>}
PointKeys == [v \in Version |-> [g \in Generation |->
                 IF v = 1 THEN {<<1, g - 1>>, <<1, g>>} ELSE {<<2, 0>>}]]

\* Edges: every version of a paper has the same ids. (Indexing edges of two versions
\* refutes OtherVersionsKept.)
Edges == 0..2
EdgeKeys == [v \in Version |-> [g \in Generation |-> {g - 1, g}]]
==============================================================================
