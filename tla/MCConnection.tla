---------------------------- MODULE MCConnection ----------------------------
(* Instances of Connection for TLC. *)
EXTENDS Connection, TLC

CONSTANTS r1, r2, hb

Symmetry == Permutations(Requests)

\* Connection: closing ends, and a request that was written is finished or
\* handed back for a retry.
ConnectionCompletes == CloseCompletes /\ WrittenRequestLeaves
=============================================================================
