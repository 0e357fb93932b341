----------------------------- MODULE StreamPool -----------------------------
(***************************************************************************)
(* What a connection expects of its stream manager (stream_manager.hpp):   *)
(* a pool of stream ids in which an id names at most one request that is   *)
(* still waiting for its response.  Which free id is handed out is left    *)
(* open, but a free id is never denied.                                    *)
(***************************************************************************)
EXTENDS Integers

CONSTANTS
  Streams,   \* the stream ids of the connection
  Items,     \* the handlers that may wait for a response
  NoItem     \* a call returned nothing

VARIABLES
  pending,   \* the ids in use, each with its handler: [a subset of Streams -> Items]
  result     \* what the last call returned: an id, -1, an item, or NoItem

Init ==
  /\ pending \in [{} -> Items]
  /\ result = NoItem

With(f, s, x) == [t \in DOMAIN f \cup {s} |-> IF t = s THEN x ELSE f[t]]
Without(f, s) == [t \in DOMAIN f \ {s} |-> f[t]]

Acquire(x) ==
  \/ \E s \in Streams \ DOMAIN pending :
       /\ pending' = With(pending, s, x)
       /\ result' = s
  \/ /\ DOMAIN pending = Streams
     /\ pending' = pending
     /\ result' = -1

Release(s) ==
  /\ s \in DOMAIN pending
  /\ pending' = Without(pending, s)
  /\ result' = NoItem

GetPendingAndRelease(s) ==
  \/ /\ s \in DOMAIN pending
     /\ result' = pending[s]
     /\ pending' = Without(pending, s)
  \/ /\ s \notin DOMAIN pending
     /\ result' = NoItem
     /\ pending' = pending

Next ==
  \/ \E x \in Items : Acquire(x)
  \/ \E s \in Streams : Release(s) \/ GetPendingAndRelease(s)

Spec == Init /\ [][Next]_<<pending, result>>
=============================================================================
