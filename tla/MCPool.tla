------------------------------- MODULE MCPool -------------------------------
(* Instances of Pool for TLC. *)
EXTENDS Pool, TLC

CONSTANTS c1, c2, c3, r1, r2, r3

Symmetry == Permutations(Connections) \cup Permutations(Requests)

\* Pool: connecting ends with a notice to the worker, and closing ends.
PoolCompletes == CloseCompletes /\ ConnectCompletes
=============================================================================
