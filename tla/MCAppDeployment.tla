--------------------------- MODULE MCAppDeployment ---------------------------
(***************************************************************************)
(* Instances of AppDeployment for TLC.                                     *)
(***************************************************************************)
EXTENDS AppDeployment, TLC

CONSTANTS n1, n2, g1, g2, a1, a2, r1, r2

Symmetric == Permutations(Nodes) \cup Permutations(Groups)
             \cup Permutations(Apps) \cup Permutations(Reqs)
=============================================================================
