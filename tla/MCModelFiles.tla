----------------------------- MODULE MCModelFiles -----------------------------
(***************************************************************************)
(* Instances of ModelFiles for TLC.                                        *)
(***************************************************************************)
EXTENDS ModelFiles, TLC

CONSTANTS f1, f2, u1, u2, r1, r2, d1, d2

\* Every file has a uuid of its own, or both have one.
MCUuidOf == [f \in Files |-> IF f = f1 \/ u2 \notin Uuids THEN u1 ELSE u2]

Symmetric == Permutations(Reqs) \cup Permutations(Downloads)
=============================================================================
