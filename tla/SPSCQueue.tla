----------------------------- MODULE SPSCQueue -----------------------------
(***************************************************************************)
(* The queue from the session thread to an I/O worker (spsc_queue.hpp):    *)
(* one producer, one consumer, two indices into a ring.  The producer owns *)
(* tail_ and the consumer owns head_; each loads the other's with acquire  *)
(* order, which may still give an older value.  One place stays free, so   *)
(* that equal indices always mean an empty queue.                          *)
(***************************************************************************)
EXTENDS Integers, Sequences

CONSTANTS
  Size,        \* size_, a power of two
  Items,       \* what is queued
  MaxEntries   \* bound: entries in a behaviour

QueueAssumption ==
  /\ Size \in Nat \ {0, 1}      \* next_pow_2 gives at least 2
  /\ MaxEntries \in Nat

VARIABLES
  tail, head,              \* tail_, head_
  buffer,                  \* buffer_
  enqueueing, dequeueing,  \* where the producer and the consumer are
  input, output,           \* the entry enqueued, the entry dequeued
  seen_head, seen_tail,    \* the index last loaded from the other side
  entered, left            \* history: the entries in the order they were enqueued, dequeued

producer == <<tail, enqueueing, input, seen_head, entered>>
consumer == <<head, dequeueing, output, seen_tail, left>>
vars == <<producer, consumer, buffer>>

Indices == 0..(Size - 1)
NextIndex(i) == (i + 1) % Size       \* (pos + 1) & mask_

\* The values an index had since it was seen as "from": a load may give any.
Between(from, to) == {i \in Indices : (i - from) % Size <= (to - from) % Size}

Init ==
  /\ tail = 0 /\ head = 0 /\ seen_head = 0 /\ seen_tail = 0
  /\ buffer \in [Indices -> Items] /\ input \in Items /\ output \in Items
  /\ enqueueing = "idle" /\ dequeueing = "idle"
  /\ entered = <<>> /\ left = <<>>

\* enqueue: load head_, and give up if the ring is full.
Enqueue ==
  /\ enqueueing = "idle" /\ Len(entered) < MaxEntries
  /\ \E h \in Between(seen_head, head), x \in Items :
       /\ seen_head' = h
       /\ input' = x
       /\ \/ /\ NextIndex(tail) = h
             /\ UNCHANGED <<enqueueing, entered>>
          \/ /\ NextIndex(tail) # h
             /\ enqueueing' = "data"
             /\ entered' = Append(entered, x)
  /\ UNCHANGED <<tail, consumer, buffer>>

EnqueueStores ==
  /\ enqueueing = "data"
  /\ buffer' = [buffer EXCEPT ![tail] = input]
  /\ enqueueing' = "release"
  /\ UNCHANGED <<tail, input, seen_head, entered, consumer>>

EnqueueReleases ==
  /\ enqueueing = "release"
  /\ tail' = NextIndex(tail)
  /\ enqueueing' = "idle"
  /\ UNCHANGED <<input, seen_head, entered, consumer, buffer>>

\* dequeue: load tail_, and give up if the ring is empty.
Dequeue ==
  /\ dequeueing = "idle"
  /\ \E t \in Between(seen_tail, tail) :
       /\ seen_tail' = t
       /\ dequeueing' = IF head = t THEN "idle" ELSE "data"
  /\ UNCHANGED <<head, output, left, producer, buffer>>

DequeueCopies ==
  /\ dequeueing = "data"
  /\ output' = buffer[head]
  /\ dequeueing' = "release"
  /\ UNCHANGED <<head, seen_tail, left, producer, buffer>>

DequeueReleases ==
  /\ dequeueing = "release"
  /\ head' = NextIndex(head)
  /\ left' = Append(left, output)
  /\ dequeueing' = "idle"
  /\ UNCHANGED <<output, seen_tail, producer, buffer>>
----------------------------------------------------------------------------
Next ==
  \/ Enqueue \/ EnqueueStores \/ EnqueueReleases
  \/ Dequeue \/ DequeueCopies \/ DequeueReleases

Spec == Init /\ [][Next]_vars

\* Types: both indices stay inside the ring.
TypeOK ==
  /\ {tail, head, seen_head, seen_tail} \subseteq Indices
  /\ buffer \in [Indices -> Items] /\ input \in Items /\ output \in Items
  /\ {enqueueing, dequeueing} \subseteq {"idle", "data", "release"}
  /\ entered \in Seq(Items) /\ left \in Seq(Items)

\* The producer never stores into the place the consumer copies from: the two
\* threads share a ring without a lock and never touch the same place.
ExclusivePlaces ==
  enqueueing \in {"data", "release"} /\ dequeueing \in {"data", "release"} => tail # head

Abstract == INSTANCE BoundedQueue WITH
  Capacity <- Size - 1,
  ready <- 0..(Len(entered) - (IF enqueueing = "idle" THEN 1 ELSE 2)),
  taken <- Len(left) + (IF dequeueing = "idle" THEN 0 ELSE 1),
  left <- [k \in 0..(Len(left) - 1) |-> left[k + 1]]

\* The ring implements the bounded first-in first-out queue, with one place
\* less than it has.
ImplementsBoundedQueue == Abstract!Spec
=============================================================================
