--------------------------- MODULE MCCertRotation ---------------------------
(***************************************************************************)
(* Instances of CertRotation for TLC: one or two nodes and one or two      *)
(* rotations.  Nodes are interchangeable where the sets that name them are.*)
(***************************************************************************)
EXTENDS CertRotation, TLC

CONSTANTS n1, n2

Symmetric == Permutations(Nodes)
=============================================================================
