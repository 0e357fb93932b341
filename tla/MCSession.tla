----------------------------- MODULE MCSession -----------------------------
(* Instances of Session for TLC. *)
EXTENDS Session, TLC

CONSTANTS r1, r2, w1, w2, h1, h2

Symmetry == Permutations(Requests) \cup Permutations(Workers) \cup Permutations(Hosts)
=============================================================================
