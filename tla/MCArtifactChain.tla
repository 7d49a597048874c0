--------------------------- MODULE MCArtifactChain ---------------------------
EXTENDS ArtifactChain, TLC

Symmetry == Permutations(Request)

\* One setting at a time differs from the defaults.
OneChanged == {f \in [Operation -> Config] : Cardinality({s \in Operation : f[s] = 2}) <= 1}

\* The second answer has the relationships of the first and one more; other
\* canonicalization settings rename one.
Relationships == 1..3
RelationshipIds == [c \in Config |-> [v \in Variant |-> IF v = 1 THEN {c} ELSE {c, 3}]]
=============================================================================
