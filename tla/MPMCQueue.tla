----------------------------- MODULE MPMCQueue -----------------------------
(***************************************************************************)
(* The lock-free queue between the threads of the driver (mpmc_queue.hpp): *)
(* a ring of nodes, each with a sequence number that tells whose turn it   *)
(* is.  One step is one access to shared memory.                           *)
(*                                                                         *)
(* tail_ and head_ are loaded with relaxed order: a load may give any      *)
(* older value.  seq is stored with release and loaded with acquire order, *)
(* which orders the plain accesses to data around them.  The counters have *)
(* 64 bits and do not wrap in the life of a process.                       *)
(***************************************************************************)
EXTENDS Integers, Sequences

CONSTANTS
  Producers, Consumers,  \* threads
  Size,                  \* size_, a power of two
  Items,                 \* what is queued
  MaxEntries             \* bound: no enqueue begins after so many entries

QueueAssumption ==
  /\ Size \in Nat \ {0, 1}    \* next_pow_2 gives at least 2
  /\ MaxEntries \in Nat
  /\ Producers \cap Consumers = {}

VARIABLES
  tail, head,     \* tail_, head_
  seq, data,      \* the fields of the nodes of buffer_
  pc, pos,        \* where a thread is, and its local variable pos
  value,          \* the entry a producer enqueues, or a consumer dequeued
  entered,        \* history: the entries in the order of their places
  left            \* history: place -> the entry dequeued from it

nodes == <<seq, data>>
history == <<entered, left>>
vars == <<tail, head, seq, data, pc, pos, value, entered, left>>

Threads == Producers \cup Consumers
Slots == 0..(Size - 1)
Slot(p) == p % Size          \* pos & mask_

Init ==
  /\ tail = 0 /\ head = 0
  /\ seq = [i \in Slots |-> i]
  /\ data \in [Slots -> Items] /\ value \in [Threads -> Items]
  /\ pc = [t \in Threads |-> "idle"]
  /\ pos = [t \in Threads |-> 0]
  /\ entered = <<>>
  /\ left \in [{} -> Items]

\* A relaxed load of a counter that only grows.
Load(t, counter) == \E p \in 0..counter : pos' = [pos EXCEPT ![t] = p]
Goto(t, label) == pc' = [pc EXCEPT ![t] = label]
Node(t) == seq[Slot(pos[t])]

----------------------------------------------------------------------------
(* bool enqueue(const T& data) *)

Enqueue(p) ==
  /\ pc[p] = "idle" /\ Len(entered) < MaxEntries
  /\ \E x \in Items : value' = [value EXCEPT ![p] = x]
  /\ Load(p, tail)
  /\ Goto(p, "seq")
  /\ UNCHANGED <<tail, head, nodes, history>>

\* The node is free: try to claim it.
EnqueueSeesFree(p) ==
  /\ pc[p] = "seq" /\ Node(p) = pos[p]
  /\ Goto(p, "claim")
  /\ UNCHANGED <<tail, head, nodes, pos, value, history>>

\* The node is still in use: the queue is full.
EnqueueFails(p) ==
  /\ pc[p] = "seq" /\ Node(p) < pos[p]
  /\ Goto(p, "idle")
  /\ UNCHANGED <<tail, head, nodes, pos, value, history>>

\* The place is gone, the counter is loaded again.
EnqueueSeesGone(p) ==
  /\ pc[p] = "seq" /\ Node(p) > pos[p]
  /\ Load(p, tail)
  /\ UNCHANGED <<tail, head, nodes, pc, value, history>>

\* Faulty: the node is released before its data is stored.
EnqueueClaimsAndReleases(p) ==
  /\ pc[p] = "claim" /\ tail = pos[p]
  /\ tail' = pos[p] + 1
  /\ seq' = [seq EXCEPT ![Slot(pos[p])] = pos[p] + 1]
  /\ entered' = Append(entered, value[p])
  /\ Goto(p, "data")
  /\ UNCHANGED <<head, data, pos, value, left>>

EnqueueClaims(p) ==
  /\ pc[p] = "claim" /\ tail = pos[p]
  /\ tail' = pos[p] + 1
  /\ entered' = Append(entered, value[p])
  /\ Goto(p, "data")
  /\ UNCHANGED <<head, nodes, pos, value, left>>

\* compare_exchange_weak fails, for a reason or spuriously, and loads pos.
EnqueueLoses(p) ==
  /\ pc[p] = "claim"
  /\ Load(p, tail)
  /\ Goto(p, "seq")
  /\ UNCHANGED <<tail, head, nodes, value, history>>

EnqueueStores(p) ==
  /\ pc[p] = "data"
  /\ data' = [data EXCEPT ![Slot(pos[p])] = value[p]]
  /\ Goto(p, "release")
  /\ UNCHANGED <<tail, head, seq, pos, value, history>>

EnqueueReleases(p) ==
  /\ pc[p] = "release"
  /\ seq' = [seq EXCEPT ![Slot(pos[p])] = pos[p] + 1]
  /\ Goto(p, "idle")
  /\ UNCHANGED <<tail, head, data, pos, value, history>>

----------------------------------------------------------------------------
(* bool dequeue(T& data) *)

Dequeue(c) ==
  /\ pc[c] = "idle"
  /\ Load(c, head)
  /\ Goto(c, "seq")
  /\ UNCHANGED <<tail, head, nodes, value, history>>

DequeueSeesEntry(c) ==
  /\ pc[c] = "seq" /\ Node(c) = pos[c] + 1
  /\ Goto(c, "claim")
  /\ UNCHANGED <<tail, head, nodes, pos, value, history>>

DequeueFails(c) ==
  /\ pc[c] = "seq" /\ Node(c) < pos[c] + 1
  /\ Goto(c, "idle")
  /\ UNCHANGED <<tail, head, nodes, pos, value, history>>

DequeueSeesGone(c) ==
  /\ pc[c] = "seq" /\ Node(c) > pos[c] + 1
  /\ Load(c, head)
  /\ UNCHANGED <<tail, head, nodes, pc, value, history>>

DequeueClaims(c) ==
  /\ pc[c] = "claim" /\ head = pos[c]
  /\ head' = pos[c] + 1
  /\ Goto(c, "data")
  /\ UNCHANGED <<tail, nodes, pos, value, history>>

DequeueLoses(c) ==
  /\ pc[c] = "claim"
  /\ Load(c, head)
  /\ Goto(c, "seq")
  /\ UNCHANGED <<tail, head, nodes, value, history>>

DequeueCopies(c) ==
  /\ pc[c] = "data"
  /\ value' = [value EXCEPT ![c] = data[Slot(pos[c])]]
  /\ Goto(c, "release")
  /\ UNCHANGED <<tail, head, nodes, pos, history>>

\* The node is given to the producer that comes round next: pos + mask_ + 1.
DequeueReleases(c) ==
  /\ pc[c] = "release"
  /\ seq' = [seq EXCEPT ![Slot(pos[c])] = pos[c] + Size]
  /\ left' = [k \in DOMAIN left \cup {pos[c]} |-> IF k = pos[c] THEN value[c] ELSE left[k]]
  /\ Goto(c, "idle")
  /\ UNCHANGED <<tail, head, data, pos, value, entered>>

----------------------------------------------------------------------------
ProducerStep(p) ==
  \/ Enqueue(p) \/ EnqueueSeesFree(p) \/ EnqueueFails(p) \/ EnqueueSeesGone(p)
  \/ EnqueueClaims(p) \/ EnqueueLoses(p) \/ EnqueueStores(p) \/ EnqueueReleases(p)

ConsumerStep(c) ==
  \/ Dequeue(c) \/ DequeueSeesEntry(c) \/ DequeueFails(c) \/ DequeueSeesGone(c)
  \/ DequeueClaims(c) \/ DequeueLoses(c) \/ DequeueCopies(c) \/ DequeueReleases(c)

Next ==
  \/ \E p \in Producers : ProducerStep(p)
  \/ \E c \in Consumers : ConsumerStep(c)

Spec == Init /\ [][Next]_vars

----------------------------------------------------------------------------
(* Properties *)

\* The plain accesses to the data of a node never overlap: between claiming a
\* place and releasing it a thread has the node for itself.
ExclusiveNodes ==
  \A t, u \in Threads :
    t # u /\ pc[t] \in {"data", "release"} /\ pc[u] \in {"data", "release"}
      => Slot(pos[t]) # Slot(pos[u])

\* enqueue refuses an entry only when all the places are in use, dequeue only
\* when the next place holds no complete entry, whatever was read meanwhile.
TrueRefusals ==
  /\ \A p \in Producers : EnqueueFails(p) => Len(entered) >= Size /\ Len(entered) - Size \notin DOMAIN left
  /\ \A c \in Consumers : DequeueFails(c) => seq[Slot(head)] <= head
RefusalsAreTrue == [][TrueRefusals]_vars

\* The producer of place k has stored its entry.
Published(k) == seq[Slot(k)] > k

Abstract == INSTANCE BoundedQueue WITH
  Capacity <- Size, taken <- head,
  ready <- {k \in 0..(tail - 1) : Published(k)}

\* The ring implements the bounded first-in first-out queue: no entry is lost,
\* given out twice, torn or reordered.
ImplementsBoundedQueue == Abstract!Spec
=============================================================================
