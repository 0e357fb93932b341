---------------------------- MODULE BoundedQueue ----------------------------
(***************************************************************************)
(* What the threads of the driver expect of the queue between them: a      *)
(* bounded first-in first-out queue whose operations take time.  An entry  *)
(* gets its place when it enters, is ready when its producer has stored    *)
(* it, and gives its place back when its consumer has copied it out.       *)
(* Tickets number the places in the order they are given, from 0.          *)
(***************************************************************************)
EXTENDS Integers, Sequences

CONSTANTS
  Capacity,  \* places of the queue
  Items      \* what is queued

VARIABLES
  entered,   \* items by ticket; the item of ticket k is entered[k + 1]
  ready,     \* tickets whose item is stored
  taken,     \* tickets below this one belong to a consumer
  left       \* ticket -> the item its consumer copied out

vars == <<entered, ready, taken, left>>

Init ==
  /\ entered = <<>> /\ ready = {} /\ taken = 0
  /\ left \in [{} -> Items]

\* All places are in use: the last Capacity tickets start with one that was
\* not given back.
Full == Len(entered) >= Capacity /\ Len(entered) - Capacity \notin DOMAIN left

Enter(x) ==
  /\ ~Full
  /\ entered' = Append(entered, x)
  /\ UNCHANGED <<ready, taken, left>>

Store(k) ==
  /\ k \in 0..(Len(entered) - 1) /\ k \notin ready
  /\ ready' = ready \cup {k}
  /\ UNCHANGED <<entered, taken, left>>

Take ==
  /\ taken \in ready
  /\ taken' = taken + 1
  /\ UNCHANGED <<entered, ready, left>>

\* The consumer of a ticket leaves with exactly the item that entered with it.
Leave(k) ==
  /\ k \in 0..(taken - 1) /\ k \notin DOMAIN left
  /\ left' = [t \in DOMAIN left \cup {k} |-> IF t = k THEN entered[k + 1] ELSE left[t]]
  /\ UNCHANGED <<entered, ready, taken>>

Next ==
  \/ \E x \in Items : Enter(x)
  \/ \E k \in 0..(Len(entered) - 1) : Store(k) \/ Leave(k)
  \/ Take

Spec == Init /\ [][Next]_vars
=============================================================================
