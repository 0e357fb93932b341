----------------------------- MODULE MCImg2Web -----------------------------
(* Instances of Img2Web for TLC: the requests the clients may send. *)
EXTENDS Img2Web, TLC

CONSTANTS alice, bob, cat

Request(c, l, a) == [component |-> c, login |-> l, arg |-> a]

\* alice follows bob, both post and alice reads: with three requests, in every
\* order.  Besides, an early return, a "top" that is no number and /users.
Following ==
  {Request("PostImage", alice, cat), Request("PostImage", bob, cat),
   Request("SubscribeTo", alice, bob), Request("GetFeed", alice, 1),
   Request("GetFeed", alice, Garbage), Request("PostImage", alice, NoArg),
   Request("ShowUsers", NoArg, NoArg)}

Symmetry == Permutations(Threads)
=============================================================================
