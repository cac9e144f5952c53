-------------------------- MODULE MCNodeConnection --------------------------
(***************************************************************************)
(* Instances of NodeConnection for TLC: one or two nodes, links that fail, *)
(* edge hubs that restart.  Connections, and nodes, are interchangeable.   *)
(***************************************************************************)
EXTENDS NodeConnection, TLC

CONSTANTS n1, n2, c1, c2

Symmetric == Permutations(Nodes) \cup Permutations(Conns)
=============================================================================
