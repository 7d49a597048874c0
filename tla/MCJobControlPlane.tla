-------------------------- MODULE MCJobControlPlane --------------------------
EXTENDS JobControlPlane, TLC
Symmetry == Permutations(Request) \cup Permutations(JobId)
==============================================================================
