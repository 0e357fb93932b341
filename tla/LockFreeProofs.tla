--------------------------- MODULE LockFreeProofs ---------------------------
(***************************************************************************)
(* Proofs about what threads share without a lock, for every number of     *)
(* threads.                                                                *)
(*                                                                         *)
(* MPMCQueue and SPSCQueue: each ring, of any size, is a bounded first-in  *)
(* first-out queue, no two threads touch one place at a time, and an       *)
(* operation of the first is refused only when the queue is full, or       *)
(* empty.                                                                  *)
(*                                                                         *)
(* Clocks: whatever the clock does, the timestamps of writes increase, and *)
(* a time is given to two UUIDs at most.                                   *)
(*                                                                         *)
(* Metrics: a snapshot adds a histogram while nobody records into it, and  *)
(* has every latency that was recorded before it began.                    *)
(***************************************************************************)
EXTENDS MPMCQueue, SequenceTheorems, FiniteSetTheorems, TLAPS

-----------------------------------------------------------------------------
(* Arithmetic of the rings: a place k has the index Slot(k), k modulo Size. *)

\* Two nodes at least.
RingSize == Size \in Nat \ {0, 1}

\* A number determines its quotient and its remainder.
LEMMA RemainderUnique ==
  ASSUME RingSize, NEW q \in Int, NEW r \in 0..(Size - 1)
  PROVE  (Size * q + r) % Size = r
<1> DEFINE k == Size * q + r
           b == k \div Size
           t == k % Size
<1>1. Size \in Nat /\ Size > 0 /\ k \in Int
  BY DEF RingSize
<1>2. b \in Int /\ t \in 0..(Size - 1) /\ k = Size * b + t
  BY <1>1
<1>3. k = Size * q + r
  OBVIOUS
<1> HIDE DEF k, b, t
<1> DEFINE d == q - b
<1>4. d \in Int /\ Size * d = t - r
  <2>1. Size * (q - b) = Size * q - Size * b
    BY <1>1, <1>2
  <2> QED
    BY <1>1, <1>2, <1>3, <2>1
<1> HIDE DEF d
<1>5. d = 0
  <2>1. CASE d >= 1
    <3>1. Size * d >= Size
      BY <1>1, <1>4, <2>1
    <3> QED
      BY <1>1, <1>2, <1>4, <3>1
  <2>2. CASE d <= -1
    <3>1. Size * d <= -Size
      BY <1>1, <1>4, <2>2
    <3> QED
      BY <1>1, <1>2, <1>4, <3>1
  <2> QED
    BY <1>4, <2>1, <2>2
<1>6. Size * d = 0
  BY <1>1, <1>5
<1>7. t = r
  BY <1>2, <1>4, <1>6
<1> QED
  BY <1>7 DEF t, k

\* The remainders of two numbers less than one round apart.
LEMMA RemainderSum ==
  ASSUME RingSize, NEW k \in Nat, NEW d \in 0..(Size - 1)
  PROVE  Slot(k + d) = IF Slot(k) + d < Size THEN Slot(k) + d ELSE Slot(k) + d - Size
<1> DEFINE a == k \div Size
           r == Slot(k)
<1>1. Size \in Nat /\ Size > 0
  BY DEF RingSize
<1>2. a \in Int /\ r \in 0..(Size - 1) /\ k = Size * a + r
  BY <1>1 DEF Slot
<1> HIDE DEF a, r
<1>3. CASE r + d < Size
  <2>1. r + d \in 0..(Size - 1) /\ k + d = Size * a + (r + d)
    BY <1>1, <1>2, <1>3
  <2>2. (k + d) % Size = r + d
    BY <1>2, <2>1, RemainderUnique
  <2> QED
    BY <1>3, <2>2 DEF Slot, r
<1>4. CASE ~(r + d < Size)
  <2>1. Size * (a + 1) = Size * a + Size
    BY <1>1, <1>2
  <2>2. r + d - Size \in 0..(Size - 1) /\ k + d = Size * (a + 1) + (r + d - Size)
    BY <1>1, <1>2, <1>4, <2>1
  <2>3. (k + d) % Size = r + d - Size
    BY <1>2, <2>2, RemainderUnique
  <2> QED
    BY <1>4, <2>3 DEF Slot, r
<1> QED
  BY <1>3, <1>4

\* Differences of two indices, modulo the size.
LEMMA RemainderDifference ==
  ASSUME RingSize, NEW i \in Slots, NEW j \in Slots
  PROVE  (i - j) % Size = IF i < j THEN i - j + Size ELSE i - j
<1>1. Size \in Nat /\ Size > 0 /\ i \in 0..(Size - 1) /\ j \in 0..(Size - 1)
  BY DEF RingSize, Slots
<1>2. CASE i < j
  <2>1. Size * (-1) = -Size
    BY <1>1
  <2>2. i - j + Size \in 0..(Size - 1) /\ i - j = Size * (-1) + (i - j + Size)
    BY <1>1, <1>2, <2>1
  <2>3. (Size * (-1) + (i - j + Size)) % Size = i - j + Size
    BY <2>2, RemainderUnique
  <2>4. (i - j) % Size = i - j + Size
    BY ONLY <2>2, <2>3
  <2> QED
    BY <1>2, <2>4
<1>3. CASE ~(i < j)
  <2>1. Size * 0 = 0
    BY <1>1
  <2>2. i - j \in 0..(Size - 1) /\ i - j = Size * 0 + (i - j)
    BY <1>1, <1>3, <2>1
  <2>3. (Size * 0 + (i - j)) % Size = i - j
    BY <2>2, RemainderUnique
  <2>4. (i - j) % Size = i - j
    BY ONLY <2>2, <2>3
  <2> QED
    BY <1>3, <2>4
<1> QED
  BY <1>2, <1>3

\* Places less than a round apart have different indices.
LEMMA PlacesApart ==
  ASSUME RingSize, NEW j \in Nat, NEW k \in Nat, j < k, k - j < Size
  PROVE  Slot(j) # Slot(k)
<1> DEFINE d == k - j
<1>1. Size \in Nat /\ Size >= 2 /\ d \in 0..(Size - 1) /\ d > 0 /\ k = j + d
  BY DEF RingSize
<1>2. Slot(j) \in 0..(Size - 1)
  BY <1>1 DEF Slot
<1>3. Slot(j + d) = IF Slot(j) + d < Size THEN Slot(j) + d ELSE Slot(j) + d - Size
  BY <1>1, RemainderSum
<1>4. Slot(j + d) # Slot(j)
  <2> HIDE DEF d
  <2> QED
    BY <1>1, <1>2, <1>3
<1> QED
  BY <1>1, <1>4

\* ... and places a whole round apart the same one.
LEMMA PlaceAgain ==
  ASSUME RingSize, NEW k \in Nat
  PROVE  Slot(k + Size) = Slot(k)
<1>1. Size \in Nat /\ Size >= 2 /\ Slot(k) \in 0..(Size - 1) /\ 1 \in 0..(Size - 1)
      /\ Size - 1 \in 0..(Size - 1)
  BY DEF RingSize, Slot
<1>2. Slot(k + 1) = IF Slot(k) + 1 < Size THEN Slot(k) + 1 ELSE Slot(k) + 1 - Size
  BY <1>1, RemainderSum
<1>3. k + 1 \in Nat /\ (k + 1) + (Size - 1) = k + Size
  BY <1>1
<1>4. Slot((k + 1) + (Size - 1)) =
        IF Slot(k + 1) + (Size - 1) < Size THEN Slot(k + 1) + (Size - 1)
        ELSE Slot(k + 1) + (Size - 1) - Size
  BY <1>1, <1>3, RemainderSum
<1> QED
  BY <1>1, <1>2, <1>3, <1>4

-----------------------------------------------------------------------------
(* The ring of many producers and consumers *)

(* The inductive invariant.  A place is a number that a thread gets from    *)
(* tail_ or head_; the node of place k is the one with the index Slot(k).  *)

Owning == {"data", "release"}

Types ==
  /\ tail \in Nat /\ head \in Nat /\ head <= tail
  /\ seq \in [Slots -> Nat] /\ data \in [Slots -> Items]
  /\ pc \in [Threads -> {"idle", "seq", "claim"} \cup Owning]
  /\ pos \in [Threads -> Nat] /\ value \in [Threads -> Items]
  /\ entered \in Seq(Items) /\ Len(entered) = tail
  /\ DOMAIN left \subseteq 0..(head - 1)

\* What the sequence number of the node of place k says: it has reached k when
\* the place was given to a producer, is k + 1 while the entry is there, and
\* k + Size or more once the consumer of the place has left.
Places ==
  /\ \A k \in Nat : k < Size => seq[Slot(k)] >= k
  /\ \A k \in Nat : k < tail => seq[Slot(k)] >= k
  /\ \A k \in Nat : k < head => seq[Slot(k)] > k
  /\ \A k \in Nat : seq[Slot(k)] = k + 1 => k < tail /\ data[Slot(k)] = entered[k + 1]
  /\ \A k \in Nat : seq[Slot(k)] > k + 1 => k \in DOMAIN left
  /\ \A k \in DOMAIN left : seq[Slot(k)] >= k + Size

\* A producer that claimed a place has it for itself until it releases it; one
\* that is about to claim a place which is still the next saw its node free.
ProducerFits(p) ==
  /\ pos[p] <= tail
  /\ pc[p] = "claim" /\ pos[p] = tail => seq[Slot(tail)] = tail
  /\ pc[p] \in Owning =>
       /\ pos[p] < tail /\ seq[Slot(pos[p])] = pos[p] /\ entered[pos[p] + 1] = value[p]
       /\ \A q \in Producers \ {p} : pc[q] \in Owning => pos[q] # pos[p]
  /\ pc[p] = "release" => data[Slot(pos[p])] = value[p]

\* The same for a consumer, whose node holds an entry.
ConsumerFits(c) ==
  /\ pos[c] <= head
  /\ pc[c] = "claim" /\ pos[c] = head => seq[Slot(head)] = head + 1
  /\ pc[c] \in Owning =>
       /\ pos[c] < head /\ seq[Slot(pos[c])] = pos[c] + 1 /\ pos[c] \notin DOMAIN left
       /\ \A d \in Consumers \ {c} : pc[d] \in Owning => pos[d] # pos[c]
  /\ pc[c] = "release" => value[c] = entered[pos[c] + 1]

ProducersFit == \A p \in Producers : ProducerFits(p)
ConsumersFit == \A c \in Consumers : ConsumerFits(c)

Inv == Types /\ Places /\ ProducersFit /\ ConsumersFit

-----------------------------------------------------------------------------
(* The nodes of the places *)

\* A place has a node.
LEMMA SlotType ==
  ASSUME QueueAssumption
  PROVE  \A k \in Nat : Slot(k) \in Slots
BY DEF QueueAssumption, Slot, Slots

\* Places have the same node only when they are whole rounds apart.
LEMMA SlotPeriod ==
  ASSUME QueueAssumption
  PROVE  \A k \in Nat : Slot(k + Size) = Slot(k)
BY PlaceAgain DEF QueueAssumption, RingSize

\* ... at least one round apart.
LEMMA SlotDistinct ==
  ASSUME QueueAssumption
  PROVE  \A j, k \in Nat : Slot(j) = Slot(k) /\ j < k => j + Size <= k
<1>1. RingSize /\ Size \in Nat
  BY DEF QueueAssumption, RingSize
<1>2. \A j, k \in Nat : j < k /\ k - j < Size => Slot(j) # Slot(k)
  BY <1>1, PlacesApart
<1> QED
  BY <1>1, <1>2


\* The assumption, in the form the proofs cite.
LEMMA Constants ==
  ASSUME QueueAssumption
  PROVE  /\ Size \in Nat /\ Size >= 2 /\ Producers \cap Consumers = {}
         /\ Producers \subseteq Threads /\ Consumers \subseteq Threads
BY DEF QueueAssumption, Threads

-----------------------------------------------------------------------------
(* Init and the steps of a thread between its claims *)

\* The ring begins empty, each node with its own place.
LEMMA InvInit ==
  ASSUME QueueAssumption
  PROVE  Init => Inv
<1> SUFFICES ASSUME Init PROVE Inv
  OBVIOUS
<1>1. Size \in Nat /\ Size >= 2
  BY Constants
<1>2. Types
  BY <1>1 DEF Init, Types, Slots, Owning
<1>3. \A k \in Nat : Slot(k) \in Slots /\ seq[Slot(k)] = Slot(k)
  BY SlotType DEF Init
<1>4. \A k \in Nat : Slot(k) <= k
  BY <1>1 DEF Slot
<1>5. \A k \in Nat : k < Size => Slot(k) = k
  BY <1>1 DEF Slot
<1>6. DOMAIN left = {}
  BY DEF Init
<1>7. Places
  BY <1>3, <1>4, <1>5, <1>6, <1>1 DEF Init, Places, Slots
<1>8. ProducersFit /\ ConsumersFit
  BY Constants DEF Init, ProducersFit, ProducerFits, ConsumersFit, ConsumerFits, Owning
<1> QED
  BY <1>2, <1>7, <1>8 DEF Inv

\* The thread t alone takes a step, to the label l.
Moves(t, l) ==
  /\ pc' = [pc EXCEPT ![t] = l]
  /\ pos' \in [Threads -> Nat] /\ value' \in [Threads -> Items]
  /\ \A u \in Threads \ {t} : pos'[u] = pos[u] /\ value'[u] = value[u]

\* A thread that moves changes its own registers only.
LEMMA MovesPc ==
  ASSUME Inv, NEW t \in Threads, NEW l \in {"idle", "seq", "claim"} \cup Owning, Moves(t, l)
  PROVE  /\ pc' \in [Threads -> {"idle", "seq", "claim"} \cup Owning] /\ pc'[t] = l
         /\ \A u \in Threads \ {t} : pc'[u] = pc[u] /\ pos'[u] = pos[u] /\ value'[u] = value[u]
BY DEF Inv, Types, Moves

\* A step that changes no shared memory and claims nothing.
LEMMA LocalStep ==
  ASSUME QueueAssumption, Inv, NEW t \in Threads, NEW l \in {"idle", "seq", "claim"},
         Moves(t, l), UNCHANGED <<tail, head, nodes, history>>,
         t \in Producers => pos'[t] <= tail
           /\ (l = "claim" /\ pos'[t] = tail => seq[Slot(tail)] = tail),
         t \in Consumers => pos'[t] <= head
           /\ (l = "claim" /\ pos'[t] = head => seq[Slot(head)] = head + 1)
  PROVE  Inv'
<1> USE DEF nodes, history
<1>1. /\ pc' \in [Threads -> {"idle", "seq", "claim"} \cup Owning] /\ pc'[t] = l
      /\ \A u \in Threads \ {t} : pc'[u] = pc[u] /\ pos'[u] = pos[u] /\ value'[u] = value[u]
  BY MovesPc
<1>2. Types' /\ Places'
  BY <1>1 DEF Inv, Types, Places, Moves
<1>3. l \notin Owning
  BY DEF Owning
<1>4. Producers \subseteq Threads /\ Consumers \subseteq Threads
  BY Constants
<1>5. ProducersFit'
  <2> SUFFICES ASSUME NEW p \in Producers PROVE ProducerFits(p)'
    BY DEF ProducersFit
  <2>1. CASE p = t
    BY <1>1, <1>3, <2>1 DEF Owning, ProducerFits
  <2>2. CASE p # t
    BY <1>1, <1>3, <1>4, <2>2 DEF Inv, ProducersFit, ProducerFits
  <2> QED
    BY <2>1, <2>2
<1>6. ConsumersFit'
  <2> SUFFICES ASSUME NEW c \in Consumers PROVE ConsumerFits(c)'
    BY DEF ConsumersFit
  <2>1. CASE c = t
    BY <1>1, <1>3, <2>1 DEF Owning, ConsumerFits
  <2>2. CASE c # t
    BY <1>1, <1>3, <1>4, <2>2 DEF Inv, ConsumersFit, ConsumerFits
  <2> QED
    BY <2>1, <2>2
<1> QED
  BY <1>2, <1>5, <1>6 DEF Inv

\* A producer reads an index or a sequence number, or gives up.
LEMMA ProducerLooks ==
  ASSUME QueueAssumption, Inv, NEW p \in Producers,
         Enqueue(p) \/ EnqueueSeesFree(p) \/ EnqueueFails(p) \/ EnqueueSeesGone(p) \/ EnqueueLoses(p)
  PROVE  Inv'
<1>1. p \in Threads /\ p \notin Consumers /\ pos[p] \in Nat /\ pos[p] <= tail
  BY Constants DEF Inv, Types, ProducersFit, ProducerFits
<1>2. UNCHANGED <<tail, head, nodes, history>>
  BY DEF Enqueue, EnqueueSeesFree, EnqueueFails, EnqueueSeesGone, EnqueueLoses
<1>3. /\ pos' \in [Threads -> Nat] /\ pos'[p] <= tail
      /\ \A u \in Threads \ {p} : pos'[u] = pos[u]
  <2>1. pos' = pos \/ \E k \in 0..tail : pos' = [pos EXCEPT ![p] = k]
    BY DEF Enqueue, EnqueueSeesFree, EnqueueFails, EnqueueSeesGone, EnqueueLoses, Load
  <2>2. pos \in [Threads -> Nat] /\ tail \in Nat
    BY DEF Inv, Types
  <2>3. CASE pos' = pos
    BY <1>1, <2>2, <2>3
  <2>4. ASSUME NEW k \in 0..tail, pos' = [pos EXCEPT ![p] = k]
        PROVE  /\ pos' \in [Threads -> Nat] /\ pos'[p] <= tail
               /\ \A u \in Threads \ {p} : pos'[u] = pos[u]
    BY <1>1, <2>2, <2>4
  <2> QED
    BY <2>1, <2>3, <2>4
<1>4. value' \in [Threads -> Items] /\ \A u \in Threads \ {p} : value'[u] = value[u]
  <2>1. value' = value \/ \E x \in Items : value' = [value EXCEPT ![p] = x]
    BY DEF Enqueue, EnqueueSeesFree, EnqueueFails, EnqueueSeesGone, EnqueueLoses
  <2>2. value \in [Threads -> Items]
    BY DEF Inv, Types
  <2>3. CASE value' = value
    BY <2>2, <2>3
  <2>4. ASSUME NEW x \in Items, value' = [value EXCEPT ![p] = x]
        PROVE  value' \in [Threads -> Items] /\ \A u \in Threads \ {p} : value'[u] = value[u]
    BY <2>2, <2>4
  <2> QED
    BY <2>1, <2>3, <2>4
<1>5. PICK l \in {"idle", "seq", "claim"} :
        /\ pc' = [pc EXCEPT ![p] = l]
        /\ l = "claim" => pos' = pos /\ Node(p) = pos[p]
  <2>1. CASE EnqueueSeesGone(p)
    <3>1. pc' = [pc EXCEPT ![p] = "seq"]
      BY <1>1, <2>1 DEF EnqueueSeesGone, Inv, Types
    <3> QED
      BY <3>1
  <2>2. CASE EnqueueSeesFree(p)
    BY <2>2 DEF EnqueueSeesFree, Goto
  <2>3. CASE Enqueue(p) \/ EnqueueFails(p) \/ EnqueueLoses(p)
    BY <2>3 DEF Enqueue, EnqueueFails, EnqueueLoses, Goto
  <2> QED
    BY <2>1, <2>2, <2>3
<1>6. Moves(p, l)
  BY <1>3, <1>4, <1>5 DEF Moves
<1>7. l = "claim" /\ pos'[p] = tail => seq[Slot(tail)] = tail
  BY <1>5 DEF Node
<1> QED
  BY <1>1, <1>2, <1>3, <1>6, <1>7, LocalStep

\* A consumer reads an index or a sequence number, or gives up.
LEMMA ConsumerLooks ==
  ASSUME QueueAssumption, Inv, NEW c \in Consumers,
         Dequeue(c) \/ DequeueSeesEntry(c) \/ DequeueFails(c) \/ DequeueSeesGone(c) \/ DequeueLoses(c)
  PROVE  Inv'
<1>1. c \in Threads /\ c \notin Producers /\ pos[c] \in Nat /\ pos[c] <= head
  BY Constants DEF Inv, Types, ConsumersFit, ConsumerFits
<1>2. UNCHANGED <<tail, head, nodes, history>>
  BY DEF Dequeue, DequeueSeesEntry, DequeueFails, DequeueSeesGone, DequeueLoses
<1>3. /\ pos' \in [Threads -> Nat] /\ pos'[c] <= head
      /\ \A u \in Threads \ {c} : pos'[u] = pos[u]
  <2>1. pos' = pos \/ \E k \in 0..head : pos' = [pos EXCEPT ![c] = k]
    BY DEF Dequeue, DequeueSeesEntry, DequeueFails, DequeueSeesGone, DequeueLoses, Load
  <2>2. pos \in [Threads -> Nat] /\ head \in Nat
    BY DEF Inv, Types
  <2>3. CASE pos' = pos
    BY <1>1, <2>2, <2>3
  <2>4. ASSUME NEW k \in 0..head, pos' = [pos EXCEPT ![c] = k]
        PROVE  /\ pos' \in [Threads -> Nat] /\ pos'[c] <= head
               /\ \A u \in Threads \ {c} : pos'[u] = pos[u]
    BY <1>1, <2>2, <2>4
  <2> QED
    BY <2>1, <2>3, <2>4
<1>4. value' = value /\ value \in [Threads -> Items]
  BY DEF Inv, Types, Dequeue, DequeueSeesEntry, DequeueFails, DequeueSeesGone, DequeueLoses
<1>5. PICK l \in {"idle", "seq", "claim"} :
        /\ pc' = [pc EXCEPT ![c] = l]
        /\ l = "claim" => pos' = pos /\ Node(c) = pos[c] + 1
  <2>1. CASE DequeueSeesGone(c)
    <3>1. pc' = [pc EXCEPT ![c] = "seq"]
      BY <1>1, <2>1 DEF DequeueSeesGone, Inv, Types
    <3> QED
      BY <3>1
  <2>2. CASE DequeueSeesEntry(c)
    BY <2>2 DEF DequeueSeesEntry, Goto
  <2>3. CASE Dequeue(c) \/ DequeueFails(c) \/ DequeueLoses(c)
    BY <2>3 DEF Dequeue, DequeueFails, DequeueLoses, Goto
  <2> QED
    BY <2>1, <2>2, <2>3
<1>6. Moves(c, l)
  BY <1>3, <1>4, <1>5 DEF Moves
<1>7. l = "claim" /\ pos'[c] = head => seq[Slot(head)] = head + 1
  BY <1>5 DEF Node
<1> QED
  BY <1>1, <1>2, <1>3, <1>6, <1>7, LocalStep

-----------------------------------------------------------------------------
(* Claiming, storing or copying, and releasing a node *)

\* A producer takes the place at the tail.
LEMMA EnqueueClaimsInv ==
  ASSUME QueueAssumption, Inv, NEW p \in Producers, EnqueueClaims(p)
  PROVE  Inv'
<1> USE DEF nodes
<1>1. p \in Threads /\ Producers \subseteq Threads /\ Consumers \subseteq Threads /\ p \notin Consumers
  BY Constants
<1>2. /\ pc[p] = "claim" /\ tail = pos[p] /\ tail' = tail + 1 /\ entered' = Append(entered, value[p])
      /\ UNCHANGED <<head, seq, data, pos, value, left>>
  BY DEF EnqueueClaims
<1>3. Types
  BY DEF Inv
<1>4. Moves(p, "data")
  BY <1>2, <1>3 DEF EnqueueClaims, Goto, Moves, Types
<1>5. /\ pc' \in [Threads -> {"idle", "seq", "claim"} \cup Owning] /\ pc'[p] = "data"
      /\ \A u \in Threads \ {p} : pc'[u] = pc[u]
  BY <1>1, <1>4, MovesPc DEF Owning
<1>6. /\ entered' \in Seq(Items) /\ Len(entered') = tail + 1
      /\ entered'[tail + 1] = value[p]
      /\ \A k \in Nat : k < tail => entered'[k + 1] = entered[k + 1]
  <2>1. value[p] \in Items
    BY <1>1, <1>3 DEF Types
  <2> QED
    BY <1>2, <1>3, <2>1 DEF Types
<1>7. Types'
  BY <1>2, <1>3, <1>5, <1>6 DEF Types
<1>8. seq[Slot(tail)] = tail
  BY <1>2 DEF Inv, ProducersFit, ProducerFits
<1>9. Places'
  <2>1. \A k \in Nat : k < tail + 1 => seq[Slot(k)] >= k
    BY <1>3, <1>8 DEF Inv, Places, Types
  <2>2. \A k \in Nat : k < tail => k < tail + 1
    BY <1>3 DEF Types
  <2> QED
    BY <1>2, <1>6, <2>1, <2>2 DEF Inv, Places
<1>10. ProducersFit'
  <2> SUFFICES ASSUME NEW q \in Producers PROVE ProducerFits(q)'
    BY DEF ProducersFit
  <2>1. \A u \in Producers : pc[u] \in Owning => pos[u] \in Nat /\ pos[u] < tail
    BY <1>1, <1>3 DEF Inv, ProducersFit, ProducerFits, Types
  <2>2. CASE q = p
    <3>1. \A u \in Producers \ {p} : pc'[u] \in Owning => pos'[u] # pos'[p]
      BY <1>1, <1>2, <1>3, <1>5, <2>1 DEF Types
    <3> QED
      BY <1>2, <1>3, <1>5, <1>6, <1>8, <2>2, <3>1 DEF ProducerFits, Types
  <2>3. CASE q # p
    <3>1. pos[q] <= tail /\ pos[q] \in Nat
      BY <1>1, <1>3 DEF Inv, ProducersFit, ProducerFits, Types
    <3>2. pc'[q] = pc[q] /\ pos'[q] = pos[q] /\ value'[q] = value[q] /\ ProducerFits(q)
      BY <1>1, <1>2, <1>5, <2>3 DEF Inv, ProducersFit
    <3>3. pc[q] \in Owning => \A u \in Producers \ {q} : pc'[u] \in Owning => pos'[u] # pos'[q]
      <4> SUFFICES ASSUME pc[q] \in Owning, NEW u \in Producers \ {q}, pc'[u] \in Owning
                   PROVE  pos[u] # pos[q]
        BY <1>2
      <4>1. CASE u = p
        BY <1>2, <2>1, <3>1, <4>1
      <4>2. CASE u # p
        <5>1. pc[u] \in Owning
          BY <1>1, <1>5, <4>2
        <5> QED
          BY <3>2, <5>1 DEF ProducerFits
      <4> QED
        BY <4>1, <4>2
    <3>4. pos'[q] # tail'
      BY <1>2, <1>3, <3>1 DEF Types
    <3>5. pos'[q] <= tail' /\ (pos[q] < tail => pos'[q] < tail')
      BY <1>2, <1>3, <3>1 DEF Types
    <3> QED
      BY <1>2, <1>6, <3>1, <3>2, <3>3, <3>4, <3>5 DEF ProducerFits
  <2> QED
    BY <2>2, <2>3
<1>11. ConsumersFit'
  <2> SUFFICES ASSUME NEW c \in Consumers PROVE ConsumerFits(c)'
    BY DEF ConsumersFit
  <2>1. \A d \in Consumers : pc'[d] = pc[d]
    BY <1>1, <1>5
  <2>2. ConsumerFits(c) /\ pos[c] \in Nat
    BY <1>1, <1>3 DEF Inv, ConsumersFit, Types
  <2>3. pc[c] = "release" => pos[c] < tail
    BY <1>3, <2>2 DEF ConsumerFits, Types, Owning
  <2> QED
    BY <1>2, <1>6, <2>1, <2>2, <2>3 DEF ConsumerFits
<1> QED
  BY <1>7, <1>9, <1>10, <1>11 DEF Inv

\* A producer stores its entry into the node it has taken.
LEMMA EnqueueStoresInv ==
  ASSUME QueueAssumption, Inv, NEW p \in Producers, EnqueueStores(p)
  PROVE  Inv'
<1> USE DEF history
<1>1. p \in Threads /\ Producers \subseteq Threads /\ Consumers \subseteq Threads /\ p \notin Consumers
  BY Constants
<1>2. /\ pc[p] = "data" /\ data' = [data EXCEPT ![Slot(pos[p])] = value[p]]
      /\ UNCHANGED <<tail, head, seq, pos, value, entered, left>>
  BY DEF EnqueueStores
<1>3. Types
  BY DEF Inv
<1>4. Moves(p, "release")
  BY <1>2, <1>3 DEF EnqueueStores, Goto, Moves, Types
<1>5. /\ pc' \in [Threads -> {"idle", "seq", "claim"} \cup Owning] /\ pc'[p] = "release"
      /\ \A u \in Threads \ {p} : pc'[u] = pc[u]
  BY <1>1, <1>4, MovesPc DEF Owning
<1>6. /\ pos[p] \in Nat /\ Slot(pos[p]) \in Slots /\ seq[Slot(pos[p])] = pos[p] /\ pos[p] < tail
      /\ entered[pos[p] + 1] = value[p] /\ value[p] \in Items
      /\ \A q \in Producers \ {p} : pc[q] \in Owning => pos[q] # pos[p]
  BY <1>1, <1>2, <1>3, SlotType DEF Inv, ProducersFit, ProducerFits, Owning, Types
<1>7. /\ data' \in [Slots -> Items] /\ data'[Slot(pos[p])] = value[p]
      /\ \A i \in Slots : i # Slot(pos[p]) => data'[i] = data[i]
  BY <1>2, <1>3, <1>6 DEF Types
<1>8. Types'
  BY <1>2, <1>3, <1>5, <1>7 DEF Types
<1>9. Places'
  <2>1. ASSUME NEW k \in Nat, seq[Slot(k)] = k + 1
        PROVE  data'[Slot(k)] = data[Slot(k)]
    <3>1. Slot(k) # Slot(pos[p])
      <4>1. CASE Slot(k) = Slot(pos[p])
        <5>1. pos[p] = k + 1
          BY <1>6, <2>1, <4>1
        <5>2. k + Size <= k + 1
          BY <1>6, <4>1, <5>1, SlotDistinct
        <5> QED
          BY <5>2, Constants
      <4> QED
        BY <4>1
    <3> QED
      BY <1>7, <3>1, SlotType
  <2> QED
    BY <1>2, <2>1 DEF Inv, Places
<1>10. ProducersFit'
  <2> SUFFICES ASSUME NEW q \in Producers PROVE ProducerFits(q)'
    BY DEF ProducersFit
  <2>1. ProducerFits(q) /\ pos[q] \in Nat
    BY <1>1, <1>3 DEF Inv, ProducersFit, Types
  <2>2. \A u \in Producers : pc'[u] \in Owning <=> pc[u] \in Owning
    BY <1>1, <1>2, <1>5 DEF Owning
  <2>3. CASE q = p
    BY <1>2, <1>5, <1>6, <1>7, <2>1, <2>2, <2>3 DEF ProducerFits
  <2>4. CASE q # p
    <3>1. pc'[q] = pc[q]
      BY <1>1, <1>5, <2>4
    <3>2. pc[q] = "release" => Slot(pos[q]) # Slot(pos[p])
      BY <1>6, <2>1, <2>4 DEF ProducerFits, Owning
    <3>3. pc[q] = "release" => data'[Slot(pos[q])] = data[Slot(pos[q])]
      BY <1>7, <2>1, <3>2, SlotType
    <3> QED
      BY <1>2, <2>1, <2>2, <3>1, <3>3 DEF ProducerFits
  <2> QED
    BY <2>3, <2>4
<1>11. ConsumersFit'
  BY <1>1, <1>2, <1>5 DEF Inv, ConsumersFit, ConsumerFits
<1> QED
  BY <1>8, <1>9, <1>10, <1>11 DEF Inv

\* A producer releases the node to the consumers.
LEMMA EnqueueReleasesInv ==
  ASSUME QueueAssumption, Inv, NEW p \in Producers, EnqueueReleases(p)
  PROVE  Inv'
<1> USE DEF history
<1>1. p \in Threads /\ Producers \subseteq Threads /\ Consumers \subseteq Threads /\ p \notin Consumers
  BY Constants
<1>2. /\ pc[p] = "release" /\ seq' = [seq EXCEPT ![Slot(pos[p])] = pos[p] + 1]
      /\ UNCHANGED <<tail, head, data, pos, value, entered, left>>
  BY DEF EnqueueReleases
<1>3. Types
  BY DEF Inv
<1>4. Moves(p, "idle")
  BY <1>2, <1>3 DEF EnqueueReleases, Goto, Moves, Types
<1>5. /\ pc' \in [Threads -> {"idle", "seq", "claim"} \cup Owning] /\ pc'[p] = "idle"
      /\ \A u \in Threads \ {p} : pc'[u] = pc[u]
  BY <1>1, <1>4, MovesPc DEF Owning
<1>6. PICK P \in Nat : P = pos[p]
  BY <1>1, <1>3 DEF Types
<1>7. /\ Slot(P) \in Slots /\ seq[Slot(P)] = P /\ P < tail
      /\ data[Slot(P)] = entered[P + 1]
      /\ \A q \in Producers \ {p} : pc[q] \in Owning => pos[q] # P
  BY <1>2, <1>6, SlotType DEF Inv, ProducersFit, ProducerFits, Owning
<1>8. /\ seq' \in [Slots -> Nat] /\ seq'[Slot(P)] = P + 1
      /\ \A i \in Slots : i # Slot(P) => seq'[i] = seq[i]
  BY <1>2, <1>3, <1>6, <1>7 DEF Types
<1>9. \A k \in Nat : Slot(k) # Slot(P) => seq'[Slot(k)] = seq[Slot(k)]
  BY <1>8, SlotType
<1>10. \A k \in Nat : Slot(k) = Slot(P) /\ k < P => k + Size <= P
  BY SlotDistinct
<1>11. Size \in Nat /\ Size >= 2
  BY Constants
<1>12. Types'
  BY <1>2, <1>3, <1>5, <1>8 DEF Types
<1>13. Places'
  <2>1. ASSUME NEW k \in Nat
        PROVE  /\ seq[Slot(k)] >= k => seq'[Slot(k)] >= k
               /\ seq[Slot(k)] > k => seq'[Slot(k)] > k
               /\ seq'[Slot(k)] = k + 1 => k < tail /\ data[Slot(k)] = entered[k + 1]
               /\ seq'[Slot(k)] > k + 1 => seq[Slot(k)] > k + 1
               /\ seq[Slot(k)] >= k + Size => seq'[Slot(k)] >= k + Size
    <3>1. CASE Slot(k) = Slot(P)
      BY <1>7, <1>8, <1>10, <1>11, <3>1
    <3>2. CASE Slot(k) # Slot(P)
      BY <1>9, <3>2 DEF Inv, Places
    <3> QED
      BY <3>1, <3>2
  <2>2. \A k \in DOMAIN left : k \in Nat
    BY <1>3 DEF Types
  <2> QED
    BY <1>2, <2>1, <2>2 DEF Inv, Places
<1>14. ProducersFit'
  <2> SUFFICES ASSUME NEW q \in Producers PROVE ProducerFits(q)'
    BY DEF ProducersFit
  <2>1. ProducerFits(q) /\ pos[q] \in Nat /\ tail \in Nat
    BY <1>1, <1>3 DEF Inv, ProducersFit, Types
  <2>2. CASE q = p
    BY <1>2, <1>5, <2>1, <2>2 DEF ProducerFits, Owning
  <2>3. CASE q # p
    <3>1. pc'[q] = pc[q] /\ \A u \in Producers : pc'[u] \in Owning => pc[u] \in Owning
      BY <1>1, <1>5, <2>3 DEF Owning
    <3>2. pc[q] = "claim" /\ pos[q] = tail => Slot(tail) # Slot(P)
      BY <1>7, <2>1 DEF ProducerFits
    <3>3. pc[q] \in Owning => Slot(pos[q]) # Slot(P)
      BY <1>7, <2>1, <2>3 DEF ProducerFits
    <3> QED
      BY <1>2, <1>9, <2>1, <3>1, <3>2, <3>3 DEF ProducerFits
  <2> QED
    BY <2>2, <2>3
<1>15. ConsumersFit'
  <2> SUFFICES ASSUME NEW c \in Consumers PROVE ConsumerFits(c)'
    BY DEF ConsumersFit
  <2>1. ConsumerFits(c) /\ pos[c] \in Nat /\ head \in Nat
    BY <1>1, <1>3 DEF Inv, ConsumersFit, Types
  <2>2. \A d \in Consumers : pc'[d] = pc[d]
    BY <1>1, <1>5
  <2>3. \A k \in Nat : seq[Slot(k)] = k + 1 => Slot(k) # Slot(P)
    BY <1>7, <1>10, <1>11
  <2> QED
    BY <1>2, <1>9, <2>1, <2>2, <2>3 DEF ConsumerFits
<1> QED
  BY <1>12, <1>13, <1>14, <1>15 DEF Inv

\* A consumer takes the place at the head.
LEMMA DequeueClaimsInv ==
  ASSUME QueueAssumption, Inv, NEW c \in Consumers, DequeueClaims(c)
  PROVE  Inv'
<1> USE DEF nodes, history
<1>1. c \in Threads /\ Producers \subseteq Threads /\ Consumers \subseteq Threads /\ c \notin Producers
  BY Constants
<1>2. /\ pc[c] = "claim" /\ head = pos[c] /\ head' = head + 1
      /\ UNCHANGED <<tail, seq, data, pos, value, entered, left>>
  BY DEF DequeueClaims
<1>3. Types
  BY DEF Inv
<1>4. Moves(c, "data")
  BY <1>2, <1>3 DEF DequeueClaims, Goto, Moves, Types
<1>5. /\ pc' \in [Threads -> {"idle", "seq", "claim"} \cup Owning] /\ pc'[c] = "data"
      /\ \A u \in Threads \ {c} : pc'[u] = pc[u]
  BY <1>1, <1>4, MovesPc DEF Owning
<1>6. seq[Slot(head)] = head + 1
  BY <1>2 DEF Inv, ConsumersFit, ConsumerFits
<1>7. head \in Nat /\ tail \in Nat /\ head < tail
  BY <1>3, <1>6 DEF Inv, Places, Types
<1>8. DOMAIN left \subseteq 0..head /\ head \notin DOMAIN left
  BY <1>3, <1>7 DEF Types
<1>9. Types'
  BY <1>2, <1>3, <1>5, <1>7, <1>8 DEF Types
<1>10. Places'
  <2>1. \A k \in Nat : k < head + 1 => seq[Slot(k)] > k
    BY <1>6, <1>7 DEF Inv, Places
  <2> QED
    BY <1>2, <2>1 DEF Inv, Places
<1>11. ProducersFit'
  <2> SUFFICES ASSUME NEW p \in Producers PROVE ProducerFits(p)'
    BY DEF ProducersFit
  <2>1. \A q \in Producers : pc'[q] = pc[q]
    BY <1>1, <1>5
  <2>2. ProducerFits(p)
    BY DEF Inv, ProducersFit
  <2> QED
    BY <1>2, <2>1, <2>2 DEF ProducerFits
<1>12. ConsumersFit'
  <2> SUFFICES ASSUME NEW d \in Consumers PROVE ConsumerFits(d)'
    BY DEF ConsumersFit
  <2>1. \A u \in Consumers : pc[u] \in Owning => pos[u] \in Nat /\ pos[u] < head
    BY <1>1, <1>3 DEF Inv, ConsumersFit, ConsumerFits, Types
  <2>2. CASE d = c
    <3>1. \A u \in Consumers \ {c} : pc'[u] \in Owning => pos'[u] # pos'[c]
      BY <1>1, <1>2, <1>5, <1>7, <2>1
    <3> QED
      BY <1>2, <1>5, <1>6, <1>7, <1>8, <2>2, <3>1 DEF ConsumerFits
  <2>3. CASE d # c
    <3>1. pc'[d] = pc[d] /\ ConsumerFits(d) /\ pos[d] \in Nat /\ pos[d] <= head
      BY <1>1, <1>3, <1>5, <2>3 DEF Inv, ConsumersFit, ConsumerFits, Types
    <3>2. pc[d] \in Owning => \A u \in Consumers \ {d} : pc'[u] \in Owning => pos'[u] # pos'[d]
      <4> SUFFICES ASSUME pc[d] \in Owning, NEW u \in Consumers \ {d}, pc'[u] \in Owning
                   PROVE  pos[u] # pos[d]
        BY <1>2
      <4>1. CASE u = c
        BY <1>2, <1>7, <2>1, <3>1, <4>1
      <4>2. CASE u # c
        <5>1. pc[u] \in Owning
          BY <1>1, <1>5, <4>2
        <5> QED
          BY <3>1, <5>1 DEF ConsumerFits
      <4> QED
        BY <4>1, <4>2
    <3>3. pos'[d] # head' /\ pos'[d] <= head' /\ (pos[d] < head => pos'[d] < head')
      BY <1>2, <1>7, <3>1
    <3> QED
      BY <1>2, <3>1, <3>2, <3>3 DEF ConsumerFits
  <2> QED
    BY <2>2, <2>3
<1> QED
  BY <1>9, <1>10, <1>11, <1>12 DEF Inv

\* A consumer copies the entry of the node it has taken.
LEMMA DequeueCopiesInv ==
  ASSUME QueueAssumption, Inv, NEW c \in Consumers, DequeueCopies(c)
  PROVE  Inv'
<1> USE DEF nodes, history
<1>1. c \in Threads /\ Producers \subseteq Threads /\ Consumers \subseteq Threads /\ c \notin Producers
  BY Constants
<1>2. /\ pc[c] = "data" /\ value' = [value EXCEPT ![c] = data[Slot(pos[c])]]
      /\ UNCHANGED <<tail, head, seq, data, pos, entered, left>>
  BY DEF DequeueCopies
<1>3. Types
  BY DEF Inv
<1>4. /\ pos[c] \in Nat /\ Slot(pos[c]) \in Slots /\ seq[Slot(pos[c])] = pos[c] + 1
      /\ data[Slot(pos[c])] \in Items /\ data[Slot(pos[c])] = entered[pos[c] + 1]
  <2>1. pos[c] \in Nat /\ Slot(pos[c]) \in Slots
    BY <1>1, <1>3, SlotType DEF Types
  <2>2. seq[Slot(pos[c])] = pos[c] + 1
    BY <1>2 DEF Inv, ConsumersFit, ConsumerFits, Owning
  <2> QED
    BY <1>3, <2>1, <2>2 DEF Types, Inv, Places
<1>5. /\ value' \in [Threads -> Items] /\ value'[c] = entered[pos[c] + 1]
      /\ \A u \in Threads \ {c} : value'[u] = value[u]
  BY <1>1, <1>2, <1>3, <1>4 DEF Types
<1>6. Moves(c, "release")
  BY <1>2, <1>3, <1>5 DEF DequeueCopies, Goto, Moves, Types
<1>7. /\ pc' \in [Threads -> {"idle", "seq", "claim"} \cup Owning] /\ pc'[c] = "release"
      /\ \A u \in Threads \ {c} : pc'[u] = pc[u]
  BY <1>1, <1>6, MovesPc DEF Owning
<1>8. Types' /\ Places'
  BY <1>2, <1>3, <1>5, <1>7 DEF Types, Places, Inv
<1>9. ProducersFit'
  <2> SUFFICES ASSUME NEW p \in Producers PROVE ProducerFits(p)'
    BY DEF ProducersFit
  <2>1. value'[p] = value[p] /\ \A q \in Producers : pc'[q] = pc[q]
    BY <1>1, <1>5, <1>7
  <2>2. ProducerFits(p)
    BY DEF Inv, ProducersFit
  <2> QED
    BY <1>2, <2>1, <2>2 DEF ProducerFits
<1>10. ConsumersFit'
  <2> SUFFICES ASSUME NEW d \in Consumers PROVE ConsumerFits(d)'
    BY DEF ConsumersFit
  <2>1. ConsumerFits(d) /\ \A u \in Consumers : pc'[u] \in Owning <=> pc[u] \in Owning
    BY <1>1, <1>2, <1>7 DEF Inv, ConsumersFit, Owning
  <2>2. CASE d = c
    BY <1>2, <1>5, <1>7, <2>1, <2>2 DEF ConsumerFits
  <2>3. CASE d # c
    BY <1>1, <1>2, <1>5, <1>7, <2>1, <2>3 DEF ConsumerFits
  <2> QED
    BY <2>2, <2>3
<1> QED
  BY <1>8, <1>9, <1>10 DEF Inv

\* A consumer releases the node for the next round.
LEMMA DequeueReleasesInv ==
  ASSUME QueueAssumption, Inv, NEW c \in Consumers, DequeueReleases(c)
  PROVE  Inv'
<1>1. c \in Threads /\ Producers \subseteq Threads /\ Consumers \subseteq Threads /\ c \notin Producers
  BY Constants
<1>2. /\ pc[c] = "release" /\ seq' = [seq EXCEPT ![Slot(pos[c])] = pos[c] + Size]
      /\ DOMAIN left' = DOMAIN left \cup {pos[c]}
      /\ UNCHANGED <<tail, head, data, pos, value, entered>>
  BY DEF DequeueReleases
<1>3. Types
  BY DEF Inv
<1>4. Moves(c, "idle")
  BY <1>2, <1>3 DEF DequeueReleases, Goto, Moves, Types
<1>5. /\ pc' \in [Threads -> {"idle", "seq", "claim"} \cup Owning] /\ pc'[c] = "idle"
      /\ \A u \in Threads \ {c} : pc'[u] = pc[u]
  BY <1>1, <1>4, MovesPc DEF Owning
<1>6. PICK P \in Nat : P = pos[c]
  BY <1>1, <1>3 DEF Types
<1>7. /\ Slot(P) \in Slots /\ seq[Slot(P)] = P + 1 /\ P < head
      /\ \A d \in Consumers \ {c} : pc[d] \in Owning => pos[d] # P
  BY <1>2, <1>6, SlotType DEF Inv, ConsumersFit, ConsumerFits, Owning
<1>8. Size \in Nat /\ Size >= 2
  BY Constants
<1>9. /\ seq' \in [Slots -> Nat] /\ seq'[Slot(P)] = P + Size
      /\ \A i \in Slots : i # Slot(P) => seq'[i] = seq[i]
  BY <1>2, <1>3, <1>6, <1>7, <1>8 DEF Types
<1>10. \A k \in Nat : Slot(k) # Slot(P) => seq'[Slot(k)] = seq[Slot(k)]
  BY <1>9, SlotType
<1>11. \A k \in Nat : Slot(k) = Slot(P) =>
         (k < P => k + Size <= P) /\ (P < k => P + Size <= k)
  BY SlotDistinct
<1>12. \A k \in DOMAIN left : k \in Nat
  BY <1>3 DEF Types
<1>13. DOMAIN left' \subseteq 0..(head - 1)
  BY <1>2, <1>3, <1>6, <1>7 DEF Types
<1>14. Types'
  BY <1>2, <1>3, <1>5, <1>9, <1>13 DEF Types
<1>15. Places'
  <2>1. ASSUME NEW k \in Nat
        PROVE  /\ seq[Slot(k)] >= k => seq'[Slot(k)] >= k
               /\ seq[Slot(k)] > k => seq'[Slot(k)] > k
               /\ seq'[Slot(k)] = k + 1 => seq[Slot(k)] = k + 1
               /\ seq'[Slot(k)] > k + 1 => seq[Slot(k)] > k + 1 \/ k = P
               /\ seq[Slot(k)] >= k + Size \/ k = P => seq'[Slot(k)] >= k + Size
    <3>1. CASE Slot(k) = Slot(P)
      BY <1>7, <1>8, <1>9, <1>11, <3>1
    <3>2. CASE Slot(k) # Slot(P)
      BY <1>10, <3>2
    <3> QED
      BY <3>1, <3>2
  <2> QED
    BY <1>2, <1>6, <1>12, <2>1 DEF Inv, Places
<1>16. ProducersFit'
  <2> SUFFICES ASSUME NEW p \in Producers PROVE ProducerFits(p)'
    BY DEF ProducersFit
  <2>1. ProducerFits(p) /\ pos[p] \in Nat /\ tail \in Nat
    BY <1>1, <1>3 DEF Inv, ProducersFit, Types
  <2>2. \A q \in Producers : pc'[q] = pc[q]
    BY <1>1, <1>5
  <2>3. \A k \in Nat : seq[Slot(k)] = k => Slot(k) # Slot(P)
    BY <1>7, <1>8, <1>11
  <2> QED
    BY <1>2, <1>10, <2>1, <2>2, <2>3 DEF ProducerFits
<1>17. ConsumersFit'
  <2> SUFFICES ASSUME NEW d \in Consumers PROVE ConsumerFits(d)'
    BY DEF ConsumersFit
  <2>1. ConsumerFits(d) /\ pos[d] \in Nat /\ head \in Nat
    BY <1>1, <1>3 DEF Inv, ConsumersFit, Types
  <2>2. CASE d = c
    BY <1>2, <1>5, <2>1, <2>2 DEF ConsumerFits, Owning
  <2>3. CASE d # c
    <3>1. pc'[d] = pc[d] /\ \A u \in Consumers : pc'[u] \in Owning => pc[u] \in Owning
      BY <1>1, <1>5, <2>3 DEF Owning
    <3>2. \A k \in Nat : seq[Slot(k)] = k + 1 /\ k # P => Slot(k) # Slot(P)
      BY <1>7
    <3>3. head # P
      BY <1>7, <2>1
    <3>4. pc[d] \in Owning => pos[d] # P
      BY <1>7, <2>3
    <3> QED
      BY <1>2, <1>6, <1>10, <2>1, <3>1, <3>2, <3>3, <3>4 DEF ConsumerFits
  <2> QED
    BY <2>2, <2>3
<1> QED
  BY <1>14, <1>15, <1>16, <1>17 DEF Inv

-----------------------------------------------------------------------------
\* Every step keeps the invariant.
LEMMA InvNext ==
  ASSUME QueueAssumption, Inv, [Next]_vars
  PROVE  Inv'
<1>1. ASSUME NEW p \in Producers, ProducerStep(p) PROVE Inv'
  BY <1>1, ProducerLooks, EnqueueClaimsInv, EnqueueStoresInv, EnqueueReleasesInv DEF ProducerStep
<1>2. ASSUME NEW c \in Consumers, ConsumerStep(c) PROVE Inv'
  BY <1>2, ConsumerLooks, DequeueClaimsInv, DequeueCopiesInv, DequeueReleasesInv DEF ConsumerStep
<1>3. CASE UNCHANGED vars
  BY <1>3 DEF vars, Inv, Types, Places, ProducersFit, ProducerFits, ConsumersFit, ConsumerFits
<1> QED
  BY <1>1, <1>2, <1>3 DEF Next

\* The invariant holds in every reachable state.
LEMMA InvAlways ==
  ASSUME QueueAssumption
  PROVE  Spec => []Inv
<1>1. Init => Inv
  BY InvInit
<1>2. Inv /\ [Next]_vars => Inv'
  BY InvNext
<1> QED
  BY <1>1, <1>2, PTL DEF Spec

-----------------------------------------------------------------------------
(* What the invariant gives *)

\* No two threads are between the claim and the release of one node: the plain
\* accesses to node->data in enqueue and dequeue never race.
THEOREM NodesAreExclusive ==
  ASSUME QueueAssumption
  PROVE  Spec => []ExclusiveNodes
<1>1. Inv => ExclusiveNodes
  <2> SUFFICES ASSUME Inv, NEW t \in Threads, NEW u \in Threads, t # u,
                      pc[t] \in Owning, pc[u] \in Owning, Slot(pos[t]) = Slot(pos[u])
               PROVE  FALSE
    BY DEF ExclusiveNodes, Owning
  <2>1. pos[t] \in Nat /\ pos[u] \in Nat
    BY DEF Inv, Types
  <2>2. Size \in Nat /\ Size >= 2
    BY Constants
  <2>3. ASSUME NEW p \in Producers, NEW c \in Consumers, pos[p] \in Nat, pos[c] \in Nat,
               pc[p] \in Owning, pc[c] \in Owning, Slot(pos[p]) = Slot(pos[c])
        PROVE  FALSE
    <3>1. seq[Slot(pos[p])] = pos[p] /\ seq[Slot(pos[c])] = pos[c] + 1
      BY <2>3 DEF Inv, ProducersFit, ProducerFits, ConsumersFit, ConsumerFits
    <3>2. pos[c] + Size <= pos[c] + 1
      BY <2>3, <3>1, SlotDistinct
    <3> QED
      BY <2>2, <2>3, <3>2
  <2>4. CASE t \in Producers /\ u \in Producers
    BY <2>4 DEF Inv, ProducersFit, ProducerFits
  <2>5. CASE t \in Consumers /\ u \in Consumers
    BY <2>1, <2>5 DEF Inv, ConsumersFit, ConsumerFits
  <2>6. CASE t \in Producers /\ u \in Consumers
    BY <2>1, <2>3, <2>6
  <2>7. CASE t \in Consumers /\ u \in Producers
    BY <2>1, <2>3, <2>7
  <2> QED
    BY <2>4, <2>5, <2>6, <2>7 DEF Threads
<1> QED
  BY <1>1, InvAlways, PTL

\* The node of the next place is free exactly when the entry one round before
\* has left it.
LEMMA NextPlace ==
  ASSUME QueueAssumption, Inv
  PROVE  /\ seq[Slot(tail)] < tail => tail >= Size /\ tail - Size \notin DOMAIN left
         /\ seq[Slot(tail)] = tail => tail < Size \/ tail - Size \in DOMAIN left
<1>1. tail \in Nat /\ seq[Slot(tail)] \in Nat /\ Size \in Nat /\ Size >= 2
  BY SlotType, Constants DEF Inv, Types
<1>2. tail >= Size => tail - Size \in Nat /\ Slot(tail - Size) = Slot(tail)
  BY <1>1, SlotPeriod
<1>3. seq[Slot(tail)] < tail => tail >= Size
  BY <1>1 DEF Inv, Places
<1>4. tail >= Size /\ tail - Size \in DOMAIN left => seq[Slot(tail)] >= tail
  BY <1>1, <1>2 DEF Inv, Places
<1>5. tail >= Size /\ seq[Slot(tail)] = tail => tail - Size \in DOMAIN left
  BY <1>1, <1>2 DEF Inv, Places
<1> QED
  BY <1>1, <1>3, <1>4, <1>5

\* enqueue returns false only when every node is in use, dequeue only when the
\* next place has no complete entry, however stale the counters were.
THEOREM RefusalsAlwaysTrue ==
  ASSUME QueueAssumption
  PROVE  Spec => RefusalsAreTrue
<1>1. Inv => TrueRefusals
  <2> SUFFICES ASSUME Inv PROVE TrueRefusals
    OBVIOUS
  <2>1. ASSUME NEW p \in Producers, EnqueueFails(p)
        PROVE  Len(entered) >= Size /\ Len(entered) - Size \notin DOMAIN left
    <3>1. pos[p] \in Nat /\ tail \in Nat /\ pos[p] <= tail /\ seq[Slot(pos[p])] < pos[p]
      BY <2>1, Constants DEF EnqueueFails, Node, Inv, Types, ProducersFit, ProducerFits
    <3>2. seq[Slot(pos[p])] \in Nat
      BY <3>1, SlotType DEF Inv, Types
    <3>3. pos[p] = tail
      BY <3>1, <3>2 DEF Inv, Places
    <3>4. Len(entered) = tail
      BY DEF Inv, Types
    <3> QED
      BY <3>1, <3>3, <3>4, NextPlace
  <2>2. ASSUME NEW c \in Consumers, DequeueFails(c)
        PROVE  seq[Slot(head)] <= head
    <3>1. pos[c] \in Nat /\ head \in Nat /\ pos[c] <= head /\ seq[Slot(pos[c])] < pos[c] + 1
      BY <2>2, Constants DEF DequeueFails, Node, Inv, Types, ConsumersFit, ConsumerFits
    <3>2. seq[Slot(pos[c])] \in Nat
      BY <3>1, SlotType DEF Inv, Types
    <3>3. pos[c] = head
      BY <3>1, <3>2 DEF Inv, Places
    <3> QED
      BY <3>1, <3>2, <3>3
  <2> QED
    BY <2>1, <2>2 DEF TrueRefusals
<1> QED
  BY <1>1, InvAlways, PTL DEF RefusalsAreTrue

-----------------------------------------------------------------------------
(* The ring implements the bounded queue *)

Ready == {k \in 0..(tail - 1) : Published(k)}

\* The empty ring is the empty queue.
LEMMA InitRefines ==
  ASSUME QueueAssumption, Init
  PROVE  Abstract!Init
<1>1. Ready = {}
  BY DEF Init, Ready
<1> QED
  BY <1>1 DEF Init, Abstract!Init, Ready

\* The claim of a producer gives the entry its ticket, and stores nothing.
LEMMA ClaimEnters ==
  ASSUME QueueAssumption, Inv, NEW p \in Producers, EnqueueClaims(p)
  PROVE  Abstract!Next
<1>1. /\ pc[p] = "claim" /\ tail = pos[p] /\ tail' = tail + 1 /\ entered' = Append(entered, value[p])
      /\ UNCHANGED <<head, seq, left>>
  BY DEF EnqueueClaims, nodes
<1>2. tail \in Nat /\ value[p] \in Items /\ Len(entered) = tail
  BY Constants DEF Inv, Types
<1>3. seq[Slot(tail)] = tail
  BY <1>1 DEF Inv, ProducersFit, ProducerFits
<1>4. ~Abstract!Full
  BY <1>2, <1>3, NextPlace, Constants DEF Abstract!Full
<1>5. Ready' = Ready
  <2>1. ASSUME NEW k PROVE k \in Ready' <=> k \in Ready
    <3>1. k \in Ready' <=> k \in 0..tail /\ seq[Slot(k)] > k
      BY <1>1, <1>2 DEF Ready, Published
    <3>2. k \in Ready <=> k \in 0..(tail - 1) /\ seq[Slot(k)] > k
      BY DEF Ready, Published
    <3>3. k \in 0..tail <=> k \in 0..(tail - 1) \/ k = tail
      BY <1>2
    <3>4. ~(seq[Slot(tail)] > tail)
      BY <1>2, <1>3
    <3> QED
      BY <3>1, <3>2, <3>3, <3>4
  <2> QED
    BY <2>1
<1>6. Abstract!Enter(value[p])
  BY <1>1, <1>4, <1>5 DEF Abstract!Enter, Ready
<1> QED
  BY <1>2, <1>6 DEF Abstract!Next

\* Releasing a node to the consumers makes its ticket ready, and no other.
LEMMA ReleaseStores ==
  ASSUME QueueAssumption, Inv, NEW p \in Producers, EnqueueReleases(p)
  PROVE  Abstract!Next
<1>1. PICK P \in Nat : P = pos[p]
  BY Constants DEF Inv, Types
<1>2. /\ pc[p] = "release" /\ seq' = [seq EXCEPT ![Slot(P)] = P + 1]
      /\ UNCHANGED <<tail, head, entered, left>>
  BY <1>1 DEF EnqueueReleases, history
<1>3. Slot(P) \in Slots /\ seq[Slot(P)] = P /\ P < tail
  BY <1>1, <1>2, SlotType DEF Inv, ProducersFit, ProducerFits, Owning
<1>4. tail \in Nat /\ seq \in [Slots -> Nat] /\ Len(entered) = tail /\ Size \in Nat /\ Size >= 2
  BY Constants DEF Inv, Types
<1>5. seq'[Slot(P)] = P + 1 /\ \A k \in Nat : Slot(k) # Slot(P) => seq'[Slot(k)] = seq[Slot(k)]
  BY <1>2, <1>3, <1>4, SlotType
<1>6. P \in 0..(Len(entered) - 1) /\ P \notin Ready
  BY <1>3, <1>4 DEF Ready, Published
<1>7. Ready' = Ready \cup {P}
  <2>1. ASSUME NEW k \in 0..(tail - 1)
        PROVE  seq'[Slot(k)] > k <=> seq[Slot(k)] > k \/ k = P
    <3>1. k \in Nat
      BY <1>4
    <3>2. CASE Slot(k) = Slot(P)
      <4>1. (k < P => k + Size <= P) /\ (P < k => P + Size <= k)
        BY <3>1, <3>2, SlotDistinct
      <4> QED
        BY <1>3, <1>4, <1>5, <3>1, <3>2, <4>1
    <3>3. CASE Slot(k) # Slot(P)
      BY <1>5, <3>1, <3>3
    <3> QED
      BY <3>2, <3>3
  <2>2. P \in 0..(tail - 1)
    BY <1>3, <1>4
  <2> QED
    BY <1>2, <2>1, <2>2 DEF Ready, Published
<1>8. Abstract!Store(P)
  BY <1>2, <1>6, <1>7 DEF Abstract!Store, Ready
<1> QED
  BY <1>6, <1>8 DEF Abstract!Next

\* The claim of a consumer takes the next ticket, which is ready.
LEMMA ClaimTakes ==
  ASSUME QueueAssumption, Inv, NEW c \in Consumers, DequeueClaims(c)
  PROVE  Abstract!Next
<1>1. /\ pc[c] = "claim" /\ head = pos[c] /\ head' = head + 1
      /\ UNCHANGED <<tail, seq, entered, left>>
  BY DEF DequeueClaims, nodes, history
<1>2. seq[Slot(head)] = head + 1
  BY <1>1 DEF Inv, ConsumersFit, ConsumerFits
<1>3. head \in Nat /\ tail \in Nat /\ head < tail
  BY <1>2 DEF Inv, Types, Places
<1>4. head \in Ready
  BY <1>2, <1>3 DEF Ready, Published
<1>5. Ready' = Ready
  BY <1>1 DEF Ready, Published
<1> QED
  BY <1>1, <1>4, <1>5 DEF Abstract!Take, Abstract!Next, Ready

\* Releasing a node to the producers gives the place back; the consumer leaves
\* with the entry of its ticket.
LEMMA ReleaseLeaves ==
  ASSUME QueueAssumption, Inv, NEW c \in Consumers, DequeueReleases(c)
  PROVE  Abstract!Next
<1>1. PICK P \in Nat : P = pos[c]
  BY Constants DEF Inv, Types
<1>2. /\ pc[c] = "release" /\ seq' = [seq EXCEPT ![Slot(P)] = P + Size]
      /\ left' = [k \in DOMAIN left \cup {P} |-> IF k = P THEN value[c] ELSE left[k]]
      /\ UNCHANGED <<tail, head, entered>>
  BY <1>1 DEF DequeueReleases
<1>3. /\ Slot(P) \in Slots /\ seq[Slot(P)] = P + 1 /\ P < head /\ P \notin DOMAIN left
      /\ value[c] = entered[P + 1]
  BY <1>1, <1>2, SlotType DEF Inv, ConsumersFit, ConsumerFits, Owning
<1>4. /\ head \in Nat /\ tail \in Nat /\ head <= tail /\ seq \in [Slots -> Nat]
      /\ Len(entered) = tail /\ Size \in Nat /\ Size >= 2
  BY Constants DEF Inv, Types
<1>5. /\ seq'[Slot(P)] = P + Size
      /\ \A k \in Nat : Slot(k) # Slot(P) => seq'[Slot(k)] = seq[Slot(k)]
  BY <1>2, <1>3, <1>4, SlotType
<1>6. P \in 0..(head - 1) /\ P \in 0..(Len(entered) - 1)
  BY <1>3, <1>4
<1>7. Ready' = Ready
  <2>1. ASSUME NEW k \in 0..(tail - 1)
        PROVE  seq'[Slot(k)] > k <=> seq[Slot(k)] > k
    <3>1. k \in Nat
      BY <1>4
    <3>2. CASE Slot(k) = Slot(P)
      <4>1. (k < P => k + Size <= P) /\ (P < k => P + Size <= k)
        BY <3>1, <3>2, SlotDistinct
      <4> QED
        BY <1>3, <1>4, <1>5, <3>1, <3>2, <4>1
    <3>3. CASE Slot(k) # Slot(P)
      BY <1>5, <3>1, <3>3
    <3> QED
      BY <3>2, <3>3
  <2> QED
    BY <1>2, <2>1 DEF Ready, Published
<1>8. left' = [t \in DOMAIN left \cup {P} |-> IF t = P THEN entered[P + 1] ELSE left[t]]
  BY <1>2, <1>3
<1>9. Abstract!Leave(P)
  BY <1>2, <1>3, <1>6, <1>7, <1>8 DEF Abstract!Leave, Ready
<1> QED
  BY <1>6, <1>9 DEF Abstract!Next

\* mpmc_queue.hpp implements the bounded first-in first-out queue: an entry
\* leaves with the ticket it entered with, unchanged, each ticket is taken once
\* and in order, and no more than Size of them are in use.
THEOREM RingIsABoundedQueue ==
  ASSUME QueueAssumption
  PROVE  Spec => ImplementsBoundedQueue
<1>1. Init => Abstract!Init
  BY InitRefines
<1>2. Inv /\ [Next]_vars => [Abstract!Next]_Abstract!vars
  <2> SUFFICES ASSUME Inv, [Next]_vars PROVE [Abstract!Next]_Abstract!vars
    OBVIOUS
  <2>1. ASSUME UNCHANGED <<tail, head, seq, entered, left>>
        PROVE  UNCHANGED Abstract!vars
    BY <2>1 DEF Abstract!vars, Published
  <2>2. ASSUME NEW p \in Producers, ProducerStep(p) PROVE [Abstract!Next]_Abstract!vars
    <3>1. \/ EnqueueClaims(p) \/ EnqueueReleases(p) \/ UNCHANGED <<tail, head, seq, entered, left>>
      BY <2>2 DEF ProducerStep, Enqueue, EnqueueSeesFree, EnqueueFails, EnqueueSeesGone,
                  EnqueueLoses, EnqueueStores, nodes, history
    <3> QED
      BY <2>1, <3>1, ClaimEnters, ReleaseStores
  <2>3. ASSUME NEW c \in Consumers, ConsumerStep(c) PROVE [Abstract!Next]_Abstract!vars
    <3>1. \/ DequeueClaims(c) \/ DequeueReleases(c) \/ UNCHANGED <<tail, head, seq, entered, left>>
      BY <2>3 DEF ConsumerStep, Dequeue, DequeueSeesEntry, DequeueFails, DequeueSeesGone,
                  DequeueLoses, DequeueCopies, nodes, history
    <3> QED
      BY <2>1, <3>1, ClaimTakes, ReleaseLeaves
  <2>4. CASE UNCHANGED vars
    BY <2>1, <2>4 DEF vars
  <2> QED
    BY <2>2, <2>3, <2>4 DEF Next
<1> QED
  BY <1>1, <1>2, InvAlways, PTL DEF Spec, ImplementsBoundedQueue, Abstract!Spec

-----------------------------------------------------------------------------
(* The ring of one producer and one consumer.  The parameters, the indices  *)
(* and the histories have the same names in the two modules; what only     *)
(* SPSCQueue has is declared here.                                         *)

VARIABLES buffer, enqueueing, dequeueing, input, output, seen_head, seen_tail

Single == INSTANCE SPSCQueue

\* The entries that were released to the consumer, and those it gave back.
Put == Len(entered) - (IF enqueueing = "idle" THEN 0 ELSE 1)
Got == Len(left)

SingleTypes ==
  /\ buffer \in [Slots -> Items] /\ input \in Items /\ output \in Items
  /\ enqueueing \in {"idle"} \cup Owning /\ dequeueing \in {"idle"} \cup Owning
  /\ entered \in Seq(Items) /\ left \in Seq(Items)

\* The indices are the places of two counters that only grow.
Counters == Got <= Put /\ tail = Slot(Put) /\ head = Slot(Got)

\* The head the producer saw was one: there is room from it to the place the
\* producer has.  The tail the consumer saw was one: it is not before the head.
Seen ==
  /\ \E h \in 0..Got : Slot(h) = seen_head /\ Len(entered) - h < Size
  /\ \E t \in Got..Put : Slot(t) = seen_tail /\ (dequeueing # "idle" => Got < t)

\* The places between the counters hold the entries in their order.
Contents ==
  /\ \A k \in Nat : Got <= k /\ k < Put => buffer[Slot(k)] = entered[k + 1]
  /\ enqueueing # "idle" => Put \in Nat /\ input = entered[Put + 1]
  /\ enqueueing = "release" => buffer[tail] = input
  /\ dequeueing = "release" => output = entered[Got + 1]
  /\ \A k \in 1..Got : left[k] = entered[k]

\* The inductive invariant of the single-producer ring.
SingleInv == SingleTypes /\ Counters /\ Seen /\ Contents

\* What a load of the other side's index may give is the index of a place
\* that was passed since the last load.
LEMMA LoadsPassedPlace ==
  ASSUME RingSize, NEW from \in Nat, NEW to \in Nat, from <= to, to - from < Size,
         NEW i \in Single!Between(Slot(from), Slot(to))
  PROVE  \E k \in from..to : Slot(k) = i
<1>1. Size \in Nat /\ Size > 0
  BY DEF RingSize
<1>2. Slot(from) \in Slots /\ Slot(to) \in Slots
  BY <1>1 DEF Slot, Slots
<1>3. i \in Slots /\ (i - Slot(from)) % Size <= (Slot(to) - Slot(from)) % Size
  BY DEF Single!Between, Single!Indices, Slots
<1> DEFINE r == Slot(from)
           d == IF i < r THEN i - r + Size ELSE i - r
           e == to - from
<1>4. r \in 0..(Size - 1) /\ i \in 0..(Size - 1) /\ e \in 0..(Size - 1) /\ to = from + e
  BY <1>1, <1>2, <1>3 DEF Slots
<1>5. (i - r) % Size = d
  BY <1>2, <1>3, RemainderDifference
<1>6. (Slot(to) - r) % Size = e
  <2>1. Slot(to) = IF r + e < Size THEN r + e ELSE r + e - Size
    <3>1. Slot(from + e) = IF Slot(from) + e < Size THEN Slot(from) + e ELSE Slot(from) + e - Size
      BY <1>4, RemainderSum
    <3> QED
      BY <1>4, <3>1
  <2>2. (Slot(to) - r) % Size = IF Slot(to) < r THEN Slot(to) - r + Size ELSE Slot(to) - r
    BY <1>2, RemainderDifference
  <2>3. Slot(to) \in Int
    BY <1>1, <1>2 DEF Slots
  <2> HIDE DEF r, e
  <2>4. CASE r + e < Size
    BY <1>1, <1>4, <2>1, <2>2, <2>3, <2>4
  <2>5. CASE ~(r + e < Size)
    BY <1>1, <1>4, <2>1, <2>2, <2>3, <2>5
  <2> QED
    BY <2>4, <2>5
<1>7. d \in 0..(Size - 1) /\ d <= e
  <2>1. d <= e
    BY <1>3, <1>5, <1>6
  <2> HIDE DEF r, e
  <2> QED
    BY <1>1, <1>4, <2>1
<1>8. Slot(from + d) = i
  <2>1. Slot(from + d) = IF r + d < Size THEN r + d ELSE r + d - Size
    BY <1>7, RemainderSum
  <2> HIDE DEF r, e
  <2>2. CASE i < r
    BY <1>1, <1>4, <2>1, <2>2
  <2>3. CASE ~(i < r)
    BY <1>1, <1>4, <2>1, <2>3
  <2> QED
    BY <2>2, <2>3
<1>9. from + d \in from..to
  BY <1>4, <1>7
<1> QED
  BY <1>8, <1>9

\* Adding one to an index is adding one to its place.
LEMMA NextIndexIsNextPlace ==
  ASSUME RingSize, NEW k \in Nat
  PROVE  Single!NextIndex(Slot(k)) = Slot(k + 1)
<1>1. Size \in Nat /\ Size >= 2 /\ Slot(k) \in 0..(Size - 1) /\ 1 \in 0..(Size - 1)
  BY DEF RingSize, Slot
<1>2. Slot(k + 1) = IF Slot(k) + 1 < Size THEN Slot(k) + 1 ELSE Slot(k) + 1 - Size
  BY <1>1, RemainderSum
<1>3. CASE Slot(k) + 1 < Size
  <2>1. Size * 0 = 0 /\ Slot(k) + 1 \in 0..(Size - 1)
    BY <1>1, <1>3
  <2>2. (Size * 0 + (Slot(k) + 1)) % Size = Slot(k) + 1
    BY <2>1, RemainderUnique
  <2>3. Size * 0 + (Slot(k) + 1) = Slot(k) + 1
    BY <1>1, <2>1
  <2>4. (Slot(k) + 1) % Size = Slot(k) + 1
    BY ONLY <2>2, <2>3
  <2> QED
    BY <1>2, <1>3, <2>4 DEF Single!NextIndex
<1>4. CASE ~(Slot(k) + 1 < Size)
  <2>1. Slot(k) + 1 = Size /\ Size * 1 = Size /\ 0 \in 0..(Size - 1)
    BY <1>1, <1>4
  <2>2. (Size * 1 + 0) % Size = 0
    BY <2>1, RemainderUnique
  <2>3. Size * 1 + 0 = Slot(k) + 1
    BY <1>1, <2>1
  <2>4. (Slot(k) + 1) % Size = 0
    BY ONLY <2>2, <2>3
  <2> QED
    BY <1>1, <1>2, <1>4, <2>1, <2>4 DEF Single!NextIndex
<1> QED
  BY <1>3, <1>4

\* What the invariant says of the counters.
LEMMA CountersFit ==
  ASSUME RingSize, SingleInv
  PROVE  /\ Put \in Nat /\ Got \in Nat /\ Got <= Put /\ Len(entered) \in Nat
         /\ enqueueing = "idle" => Len(entered) = Put
         /\ enqueueing # "idle" => Len(entered) = Put + 1
         /\ Len(entered) - Got < Size
<1>1. Len(entered) \in Nat /\ Got \in Nat /\ Size \in Nat
  BY DEF SingleInv, SingleTypes, Got, RingSize
<1>2. Put \in Nat
  BY <1>1 DEF SingleInv, Contents, Put
<1>3. PICK h \in 0..Got : Len(entered) - h < Size
  BY DEF SingleInv, Seen
<1>4. /\ enqueueing = "idle" => Len(entered) = Put
      /\ enqueueing # "idle" => Len(entered) = Put + 1
  BY <1>1, <1>2 DEF Put
<1> QED
  BY <1>1, <1>2, <1>3, <1>4 DEF SingleInv, Counters

\* The producer and the consumer never have the same place.
LEMMA PlacesExclusive ==
  ASSUME RingSize, SingleInv
  PROVE  Single!ExclusivePlaces
<1> SUFFICES ASSUME enqueueing \in Owning, dequeueing \in Owning
             PROVE  tail # head
  BY DEF Single!ExclusivePlaces, Owning
<1>1. PICK t \in Got..Put : Got < t
  BY DEF SingleInv, Seen, Owning
<1>2. Put \in Nat /\ Got \in Nat /\ Got < Put /\ Put - Got < Size
  BY <1>1, CountersFit DEF RingSize, Owning
<1>3. Slot(Got) # Slot(Put)
  BY <1>2, PlacesApart
<1> QED
  BY <1>3 DEF SingleInv, Counters

\* Empty counters.
LEMMA SingleInit ==
  ASSUME RingSize, Single!Init
  PROVE  SingleInv
<1>1. Size \in Nat /\ Size >= 2 /\ 0 % Size = 0
  <2>1. Size \in Nat /\ Size >= 2
    BY DEF RingSize
  <2>2. 0 \in 0..(Size - 1) /\ Size * 0 + 0 = 0
    BY <2>1
  <2>3. (Size * 0 + 0) % Size = 0
    BY <2>2, RemainderUnique
  <2>4. 0 % Size = 0
    BY ONLY <2>2, <2>3
  <2> QED
    BY <2>1, <2>4
<1>2. entered = <<>> /\ left = <<>> /\ Put = 0 /\ Got = 0 /\ Len(entered) = 0
  BY DEF Single!Init, Put, Got
<1>3. SingleTypes
  BY <1>2 DEF Single!Init, SingleTypes, Slots, Single!Indices
<1>4. Counters
  BY <1>1, <1>2 DEF Single!Init, Counters, Slot
<1>5. Seen
  <2>1. 0 \in 0..Got /\ Slot(0) = seen_head /\ Len(entered) - 0 < Size
    BY <1>1, <1>2 DEF Single!Init, Slot
  <2>2. 0 \in Got..Put /\ Slot(0) = seen_tail /\ dequeueing = "idle"
    BY <1>1, <1>2 DEF Single!Init, Slot
  <2> QED
    BY <2>1, <2>2 DEF Seen
<1>6. Contents
  BY <1>2 DEF Single!Init, Contents
<1> QED
  BY <1>3, <1>4, <1>5, <1>6 DEF SingleInv

\* enqueue gives up when the index after the tail is the head it saw: else
\* there is room for one place more.
LEMMA EnqueueInv ==
  ASSUME RingSize, SingleInv, Single!Enqueue
  PROVE  SingleInv'
<1>1. /\ Put \in Nat /\ Got \in Nat /\ Got <= Put /\ Len(entered) = Put
      /\ Len(entered) - Got < Size /\ Size \in Nat
  BY CountersFit DEF RingSize, Single!Enqueue
<1>2. /\ enqueueing = "idle" /\ seen_head' \in Single!Between(seen_head, head) /\ input' \in Items
      /\ UNCHANGED <<tail, head, dequeueing, output, seen_tail, left, buffer>>
      /\ \/ Single!NextIndex(tail) = seen_head' /\ UNCHANGED <<enqueueing, entered>>
         \/ /\ Single!NextIndex(tail) # seen_head'
            /\ enqueueing' = "data" /\ entered' = Append(entered, input')
  BY DEF Single!Enqueue, Single!consumer
<1>3. PICK P \in Nat, G \in Nat : P = Put /\ G = Got
  BY <1>1
<1>4. PICK g \in 0..G : Slot(g) = seen_head /\ P - g < Size
  BY <1>1, <1>3 DEF SingleInv, Seen
<1>5. PICK h \in g..G : Slot(h) = seen_head'
  <2>1. seen_head' \in Single!Between(Slot(g), Slot(G))
    BY <1>2, <1>3, <1>4 DEF SingleInv, Counters
  <2>2. g \in Nat /\ g <= G /\ G - g < Size
    BY <1>1, <1>3, <1>4
  <2> QED
    BY <2>1, <2>2, LoadsPassedPlace
<1>6. h \in 0..G /\ P - h < Size
  BY <1>1, <1>4, <1>5
<1>7. entered \in Seq(Items) /\ enqueueing' \in {"idle"} \cup Owning
  BY <1>2 DEF SingleInv, SingleTypes, Owning
<1>8. /\ Put' = P /\ Got' = G /\ entered' \in Seq(Items) /\ Len(entered') - h < Size
      /\ \A k \in 1..P : entered'[k] = entered[k]
      /\ enqueueing' # "idle" => entered'[P + 1] = input'
  <2>1. CASE Single!NextIndex(tail) = seen_head' /\ UNCHANGED <<enqueueing, entered>>
    BY <1>2, <1>3, <1>6, <1>7, <1>1, <2>1 DEF Put, Got
  <2>2. CASE /\ Single!NextIndex(tail) # seen_head'
             /\ enqueueing' = "data" /\ entered' = Append(entered, input')
    <3>1. /\ entered' \in Seq(Items) /\ Len(entered') = P + 1
          /\ \A k \in 1..P : entered'[k] = entered[k]
          /\ entered'[P + 1] = input'
      BY <1>1, <1>2, <1>3, <1>7, <2>2
    <3>2. Put' = P /\ Got' = G
      BY <1>2, <1>3, <2>2, <3>1 DEF Put, Got
    <3>3. P - h # Size - 1
      <4>1. Slot(P + 1) # Slot(h)
        BY <1>3, <1>5, <2>2, NextIndexIsNextPlace DEF SingleInv, Counters
      <4>2. h \in Nat /\ Slot(h + Size) = Slot(h)
        BY <1>6, PlaceAgain
      <4>3. P + 1 # h + Size
        BY <4>1, <4>2
      <4> QED
        BY <1>1, <1>6, <4>2, <4>3
    <3>4. P + 1 - h < Size
      BY <1>1, <1>6, <3>3
    <3> QED
      BY <3>1, <3>2, <3>4
  <2> QED
    BY <1>2, <2>1, <2>2
<1>9. SingleTypes'
  BY <1>2, <1>7, <1>8 DEF SingleInv, SingleTypes
<1>10. Counters'
  BY <1>2, <1>3, <1>8 DEF SingleInv, Counters
<1>11. Seen'
  <2>1. PICK t \in G..P : Slot(t) = seen_tail /\ (dequeueing # "idle" => G < t)
    BY <1>3 DEF SingleInv, Seen
  <2>2. h \in 0..Got' /\ Slot(h) = seen_head' /\ Len(entered') - h < Size
    BY <1>5, <1>6, <1>8
  <2>3. t \in Got'..Put' /\ Slot(t) = seen_tail' /\ (dequeueing' # "idle" => Got' < t)
    BY <1>2, <1>8, <2>1
  <2> QED
    BY <2>2, <2>3 DEF Seen
<1>12. Contents'
  <2>1. ASSUME NEW k \in Nat, G <= k, k < P
        PROVE  buffer'[Slot(k)] = entered'[k + 1]
    BY <1>2, <1>3, <1>8, <2>1 DEF SingleInv, Contents
  <2>2. dequeueing = "release" => output = entered[G + 1] /\ G + 1 \in 1..P
    <3>1. PICK t \in G..P : dequeueing # "idle" => G < t
      BY <1>3 DEF SingleInv, Seen
    <3> QED
      BY <1>3, <3>1 DEF SingleInv, Contents
  <2>3. \A k \in 1..G : left[k] = entered[k] /\ k \in 1..P
    BY <1>1, <1>3 DEF SingleInv, Contents
  <2>4. enqueueing' # "release"
    BY <1>2
  <2> QED
    BY <1>2, <1>8, <2>1, <2>2, <2>3, <2>4 DEF Contents
<1> QED
  BY <1>9, <1>10, <1>11, <1>12 DEF SingleInv

\* The producer stores into its place, which holds no entry.
LEMMA StoresInv ==
  ASSUME RingSize, SingleInv, Single!EnqueueStores
  PROVE  SingleInv'
<1>1. /\ Put \in Nat /\ Got \in Nat /\ Got <= Put /\ Put - Got < Size /\ Size \in Nat
  BY CountersFit DEF RingSize, Single!EnqueueStores
<1>2. /\ enqueueing = "data" /\ enqueueing' = "release" /\ buffer' = [buffer EXCEPT ![tail] = input]
      /\ UNCHANGED <<tail, head, dequeueing, input, output, seen_head, seen_tail, entered, left>>
  BY DEF Single!EnqueueStores, Single!consumer
<1>3. PICK P \in Nat, G \in Nat : P = Put /\ G = Got
  BY <1>1
<1>4. Put' = P /\ Got' = G
  BY <1>2, <1>3 DEF Put, Got
<1>5. tail = Slot(P) /\ Slot(P) \in Slots /\ buffer \in [Slots -> Items]
  <2>1. Slot(P) \in 0..(Size - 1)
    BY <1>1 DEF Slot, RingSize
  <2> QED
    BY <1>3, <2>1 DEF SingleInv, Counters, SingleTypes, Slots
<1>6. buffer' \in [Slots -> Items] /\ buffer'[tail] = input
  BY <1>2, <1>5 DEF SingleInv, SingleTypes
<1>7. SingleTypes'
  BY <1>2, <1>6 DEF SingleInv, SingleTypes, Owning
<1>8. Counters' /\ Seen'
  BY <1>2, <1>3, <1>4 DEF SingleInv, Counters, Seen
<1>9. ASSUME NEW k \in Nat, G <= k, k < P
      PROVE  buffer'[Slot(k)] = entered[k + 1]
  <2>1. P - k < Size
    BY <1>1, <1>3, <1>9
  <2>2. Slot(k) # Slot(P)
    BY <1>9, <2>1, PlacesApart
  <2>3. Slot(k) \in Slots
    BY <1>1 DEF Slot, Slots, RingSize
  <2>4. buffer'[Slot(k)] = buffer[Slot(k)]
    BY <1>2, <1>5, <2>2, <2>3
  <2> QED
    BY <1>3, <1>9, <2>4 DEF SingleInv, Contents
<1>10. Contents'
  <2>1. input = entered[P + 1]
    BY <1>2, <1>3 DEF SingleInv, Contents
  <2> QED
    BY <1>2, <1>3, <1>4, <1>6, <1>9, <2>1 DEF SingleInv, Contents
<1> QED
  BY <1>7, <1>8, <1>10 DEF SingleInv

\* Moving tail_ on hands the entry over.
LEMMA ReleasesInv ==
  ASSUME RingSize, SingleInv, Single!EnqueueReleases
  PROVE  SingleInv'
<1>1. /\ Put \in Nat /\ Got \in Nat /\ Got <= Put /\ Len(entered) = Put + 1 /\ Size \in Nat
  BY CountersFit DEF RingSize, Single!EnqueueReleases
<1>2. /\ enqueueing = "release" /\ enqueueing' = "idle" /\ tail' = Single!NextIndex(tail)
      /\ UNCHANGED <<head, dequeueing, input, output, seen_head, seen_tail, entered, left, buffer>>
  BY DEF Single!EnqueueReleases, Single!consumer
<1>3. PICK P \in Nat, G \in Nat : P = Put /\ G = Got
  BY <1>1
<1>4. Put' = P + 1 /\ Got' = G
  BY <1>1, <1>2, <1>3 DEF Put, Got
<1>5. tail' = Slot(P + 1)
  BY <1>2, <1>3, NextIndexIsNextPlace DEF SingleInv, Counters
<1>6. SingleTypes'
  BY <1>2 DEF SingleInv, SingleTypes, Owning
<1>7. Counters'
  BY <1>1, <1>2, <1>3, <1>4, <1>5 DEF SingleInv, Counters
<1>8. Seen'
  <2>1. PICK h \in 0..G : Slot(h) = seen_head /\ Len(entered) - h < Size
    BY <1>3 DEF SingleInv, Seen
  <2>2. PICK t \in G..P : Slot(t) = seen_tail /\ (dequeueing # "idle" => G < t)
    BY <1>3 DEF SingleInv, Seen
  <2>3. t \in Got'..Put'
    BY <1>4, <2>2
  <2> QED
    BY <1>2, <1>4, <2>1, <2>2, <2>3 DEF Seen
<1>9. ASSUME NEW k \in Nat, G <= k, k < P + 1
      PROVE  buffer[Slot(k)] = entered[k + 1]
  <2>1. CASE k = P
    BY <1>2, <1>3, <2>1 DEF SingleInv, Contents, Counters
  <2>2. CASE k < P
    BY <1>3, <1>9, <2>2 DEF SingleInv, Contents
  <2> QED
    BY <1>9, <2>1, <2>2
<1>10. Contents'
  BY <1>2, <1>3, <1>4, <1>9 DEF SingleInv, Contents
<1> QED
  BY <1>6, <1>7, <1>8, <1>10 DEF SingleInv

\* dequeue gives up when the tail it sees is the head: else there is an entry.
LEMMA DequeueInv ==
  ASSUME RingSize, SingleInv, Single!Dequeue
  PROVE  SingleInv'
<1>1. /\ Put \in Nat /\ Got \in Nat /\ Got <= Put /\ Put - Got < Size /\ Size \in Nat
  BY CountersFit DEF RingSize
<1>2. /\ dequeueing = "idle" /\ seen_tail' \in Single!Between(seen_tail, tail)
      /\ dequeueing' = IF head = seen_tail' THEN "idle" ELSE "data"
      /\ UNCHANGED <<tail, head, enqueueing, input, output, seen_head, entered, left, buffer>>
  BY DEF Single!Dequeue, Single!producer
<1>3. PICK P \in Nat, G \in Nat : P = Put /\ G = Got
  BY <1>1
<1>4. Put' = P /\ Got' = G
  BY <1>2, <1>3 DEF Put, Got
<1>5. PICK g \in G..P : Slot(g) = seen_tail
  BY <1>3 DEF SingleInv, Seen
<1>6. PICK t \in g..P : Slot(t) = seen_tail'
  <2>1. seen_tail' \in Single!Between(Slot(g), Slot(P))
    BY <1>2, <1>3, <1>5 DEF SingleInv, Counters
  <2>2. g \in Nat /\ g <= P /\ P - g < Size
    BY <1>1, <1>3, <1>5
  <2> QED
    BY <2>1, <2>2, LoadsPassedPlace
<1>7. t \in G..P
  BY <1>5, <1>6
<1>8. dequeueing' # "idle" => G < t
  <2>1. head = Slot(G)
    BY <1>3 DEF SingleInv, Counters
  <2> QED
    BY <1>2, <1>6, <1>7, <2>1
<1>9. SingleTypes'
  BY <1>2 DEF SingleInv, SingleTypes, Owning
<1>10. Counters'
  BY <1>2, <1>3, <1>4 DEF SingleInv, Counters
<1>11. Seen'
  <2>1. PICK h \in 0..G : Slot(h) = seen_head /\ Len(entered) - h < Size
    BY <1>3 DEF SingleInv, Seen
  <2> QED
    BY <1>2, <1>4, <1>6, <1>7, <1>8, <2>1 DEF Seen
<1>12. Contents'
  BY <1>2, <1>3, <1>4 DEF SingleInv, Contents
<1> QED
  BY <1>9, <1>10, <1>11, <1>12 DEF SingleInv

\* The consumer copies the entry of its place.
LEMMA CopiesInv ==
  ASSUME RingSize, SingleInv, Single!DequeueCopies
  PROVE  SingleInv'
<1>1. Put \in Nat /\ Got \in Nat /\ Size \in Nat /\ Size >= 2
  BY CountersFit DEF RingSize
<1>2. /\ dequeueing = "data" /\ dequeueing' = "release" /\ output' = buffer[head]
      /\ UNCHANGED <<tail, head, enqueueing, input, seen_head, seen_tail, entered, left, buffer>>
  BY DEF Single!DequeueCopies, Single!producer
<1>3. PICK P \in Nat, G \in Nat : P = Put /\ G = Got
  BY <1>1
<1>4. Put' = P /\ Got' = G
  BY <1>2, <1>3 DEF Put, Got
<1>5. head = Slot(G) /\ Slot(G) \in Slots
  BY <1>1, <1>3 DEF SingleInv, Counters, Slot, Slots
<1>6. SingleTypes'
  BY <1>2, <1>5 DEF SingleInv, SingleTypes, Owning
<1>7. Counters' /\ Seen'
  BY <1>2, <1>3, <1>4 DEF SingleInv, Counters, Seen
<1>8. output' = entered[G + 1]
  <2>1. PICK t \in G..P : G < t
    BY <1>2, <1>3 DEF SingleInv, Seen
  <2>2. G <= G /\ G < P
    BY <2>1
  <2> QED
    BY <1>2, <1>3, <1>5, <2>2 DEF SingleInv, Contents
<1>9. Contents'
  BY <1>2, <1>3, <1>4, <1>8 DEF SingleInv, Contents
<1> QED
  BY <1>6, <1>7, <1>9 DEF SingleInv

\* Moving head_ on gives the place back.
LEMMA GivesBackInv ==
  ASSUME RingSize, SingleInv, Single!DequeueReleases
  PROVE  SingleInv'
<1>1. Put \in Nat /\ Got \in Nat /\ Got <= Put /\ Size \in Nat /\ Size >= 2
  BY CountersFit DEF RingSize
<1>2. /\ dequeueing = "release" /\ dequeueing' = "idle" /\ head' = Single!NextIndex(head)
      /\ left' = Append(left, output)
      /\ UNCHANGED <<tail, enqueueing, input, output, seen_head, seen_tail, entered, buffer>>
  BY DEF Single!DequeueReleases, Single!producer
<1>3. PICK P \in Nat, G \in Nat : P = Put /\ G = Got
  BY <1>1
<1>4. /\ left' \in Seq(Items) /\ Len(left') = G + 1
      /\ \A k \in 1..G : left'[k] = left[k]
      /\ left'[G + 1] = output
  BY <1>2, <1>3 DEF SingleInv, SingleTypes, Got
<1>5. Put' = P /\ Got' = G + 1
  BY <1>2, <1>3, <1>4 DEF Put, Got
<1>6. head' = Slot(G + 1)
  BY <1>2, <1>3, NextIndexIsNextPlace DEF SingleInv, Counters
<1>7. PICK t \in G..P : Slot(t) = seen_tail /\ G < t
  BY <1>2, <1>3 DEF SingleInv, Seen
<1>8. SingleTypes'
  BY <1>2, <1>4 DEF SingleInv, SingleTypes, Owning
<1>9. Counters'
  <2>1. G + 1 <= P
    BY <1>7
  <2> QED
    BY <1>2, <1>3, <1>5, <1>6, <2>1 DEF SingleInv, Counters
<1>10. Seen'
  <2>1. PICK h \in 0..G : Slot(h) = seen_head /\ Len(entered) - h < Size
    BY <1>3 DEF SingleInv, Seen
  <2>2. h \in 0..Got' /\ t \in Got'..Put'
    BY <1>5, <1>7, <2>1
  <2> QED
    BY <1>2, <1>7, <2>1, <2>2 DEF Seen
<1>11. Contents'
  <2>1. \A k \in Nat : G + 1 <= k /\ k < P => buffer[Slot(k)] = entered[k + 1]
    BY <1>3 DEF SingleInv, Contents
  <2>2. ASSUME NEW k \in 1..(G + 1)
        PROVE  left'[k] = entered[k]
    <3>1. CASE k = G + 1
      BY <1>2, <1>3, <1>4, <3>1 DEF SingleInv, Contents
    <3>2. CASE k \in 1..G
      BY <1>3, <1>4, <3>2 DEF SingleInv, Contents
    <3> QED
      BY <2>2, <3>1, <3>2
  <2>3. enqueueing # "idle" => input = entered[P + 1]
    BY <1>3 DEF SingleInv, Contents
  <2>4. enqueueing = "release" => buffer[tail] = input
    BY DEF SingleInv, Contents
  <2> QED
    BY <1>2, <1>5, <2>1, <2>2, <2>3, <2>4 DEF Contents
<1> QED
  BY <1>8, <1>9, <1>10, <1>11 DEF SingleInv

\* The invariant holds in every behaviour.
LEMMA SingleAlways ==
  ASSUME RingSize
  PROVE  Single!Spec => []SingleInv
<1>1. Single!Init => SingleInv
  BY SingleInit
<1>2. SingleInv /\ [Single!Next]_(Single!vars) => SingleInv'
  <2> SUFFICES ASSUME SingleInv, [Single!Next]_(Single!vars) PROVE SingleInv'
    OBVIOUS
  <2>1. CASE UNCHANGED Single!vars
    <3>1. UNCHANGED <<tail, head, buffer, enqueueing, dequeueing, input, output, seen_head,
                      seen_tail, entered, left>>
      BY <2>1 DEF Single!vars, Single!producer, Single!consumer
    <3> QED
      BY <3>1 DEF SingleInv, SingleTypes, Counters, Seen, Contents, Put, Got
  <2> QED
    BY <2>1, EnqueueInv, StoresInv, ReleasesInv, DequeueInv, CopiesInv, GivesBackInv
    DEF Single!Next
<1> QED
  BY <1>1, <1>2, PTL DEF Single!Spec

\* What the refinement mapping makes of the state.
Stored == 0..(Len(entered) - (IF enqueueing = "idle" THEN 1 ELSE 2))
Claimed == Len(left) + (IF dequeueing = "idle" THEN 0 ELSE 1)
Given == [k \in 0..(Len(left) - 1) |-> left[k + 1]]

\* It is what the counters say.
LEMMA MappingFits ==
  ASSUME RingSize, SingleInv
  PROVE  /\ Stored = 0..(Put - 1)
         /\ dequeueing = "idle" => Claimed = Got
         /\ dequeueing # "idle" => Claimed = Got + 1 /\ Got < Put
         /\ DOMAIN Given = 0..(Got - 1)
<1>1. /\ Put \in Nat /\ Got \in Nat /\ Got <= Put /\ Len(entered) \in Nat
      /\ enqueueing = "idle" => Len(entered) = Put
      /\ enqueueing # "idle" => Len(entered) = Put + 1
  BY CountersFit
<1>2. Len(entered) - (IF enqueueing = "idle" THEN 1 ELSE 2) = Put - 1
  <2>1. CASE enqueueing = "idle"
    BY <1>1, <2>1
  <2>2. CASE enqueueing # "idle"
    BY <1>1, <2>2
  <2> QED
    BY <2>1, <2>2
<1>3. dequeueing # "idle" => Got < Put
  <2>1. PICK t \in Got..Put : dequeueing # "idle" => Got < t
    BY DEF SingleInv, Seen
  <2> QED
    BY <1>1, <2>1
<1> QED
  BY <1>1, <1>2, <1>3 DEF Stored, Claimed, Given, Got

\* An entry enters when the producer found room for it.
LEMMA EnqueueEnters ==
  ASSUME RingSize, SingleInv, SingleInv', Single!Enqueue
  PROVE  [Single!Abstract!Next]_(Single!Abstract!vars)
<1>1. /\ Put \in Nat /\ Got \in Nat /\ Len(entered) = Put /\ Size \in Nat /\ Size >= 2
      /\ enqueueing = "idle"
  BY CountersFit DEF RingSize, Single!Enqueue
<1>2. PICK P \in Nat, G \in Nat : P = Put /\ G = Got
  BY <1>1
<1>3. UNCHANGED <<dequeueing, left>>
  BY DEF Single!Enqueue, Single!consumer
<1>4. CASE UNCHANGED <<enqueueing, entered>>
  BY <1>3, <1>4 DEF Single!Abstract!vars
<1>5. ASSUME enqueueing' = "data", NEW x \in Items, entered' = Append(entered, x)
      PROVE  Single!Abstract!Next
  <2>1. Len(entered') = P + 1
    BY <1>1, <1>2, <1>5 DEF SingleInv, SingleTypes
  <2>2. PICK h \in 0..G : P + 1 - h < Size
    BY <1>2, <1>3, <2>1 DEF SingleInv, Seen, Got
  <2>3. P >= Size - 1 => P - (Size - 1) \in 0..(G - 1)
    BY <1>1, <2>2
  <2>4. ~Single!Abstract!Full
    BY <1>1, <1>2, <2>3 DEF Single!Abstract!Full, Got
  <2>5. Stored' = Stored
    <3>1. Len(entered) - 1 = Len(entered') - 2
      BY <1>1, <1>2, <2>1
    <3> QED
      BY <1>1, <1>5, <3>1 DEF Stored
  <2>6. Single!Abstract!Enter(x)
    BY <1>3, <1>5, <2>4, <2>5 DEF Single!Abstract!Enter, Stored
  <2> QED
    BY <2>6 DEF Single!Abstract!Next
<1> QED
  BY <1>4, <1>5 DEF Single!Enqueue

\* An entry is stored, for the consumer, when tail_ moves on.
LEMMA ReleasesStores ==
  ASSUME RingSize, SingleInv, SingleInv', Single!EnqueueReleases
  PROVE  Single!Abstract!Next
<1>1. /\ Put \in Nat /\ Got \in Nat /\ Len(entered) = Put + 1
      /\ enqueueing = "release" /\ enqueueing' = "idle" /\ UNCHANGED <<dequeueing, entered, left>>
  BY CountersFit DEF Single!EnqueueReleases, Single!consumer
<1>2. PICK P \in Nat : P = Put
  BY <1>1
<1>3. Stored = 0..(P - 1)
  BY <1>2, MappingFits
<1>4. Stored' = 0..P
  BY <1>1, <1>2 DEF Stored
<1>5. P \in 0..(Len(entered) - 1) /\ P \notin Stored /\ Stored' = Stored \cup {P}
  BY <1>1, <1>2, <1>3, <1>4
<1>6. Single!Abstract!Store(P)
  BY <1>1, <1>5 DEF Single!Abstract!Store, Stored
<1> QED
  BY <1>5, <1>6 DEF Single!Abstract!Next

\* A ticket is taken when the consumer saw a tail beyond its head.
LEMMA DequeueTakes ==
  ASSUME RingSize, SingleInv, SingleInv', Single!Dequeue
  PROVE  [Single!Abstract!Next]_(Single!Abstract!vars)
<1>1. /\ Put \in Nat /\ Got \in Nat
      /\ dequeueing = "idle" /\ dequeueing' \in {"idle", "data"}
      /\ UNCHANGED <<enqueueing, entered, left>>
  BY CountersFit DEF Single!Dequeue, Single!producer
<1>2. PICK P \in Nat, G \in Nat : P = Put /\ G = Got
  BY <1>1
<1>3. CASE dequeueing' = "idle"
  BY <1>1, <1>3 DEF Single!Abstract!vars
<1>4. CASE dequeueing' = "data"
  <2>1. PICK t \in G..P : G < t
    BY <1>1, <1>2, <1>4 DEF SingleInv, Seen, Put, Got
  <2>2. Claimed = G /\ Stored = 0..(P - 1) /\ G \in Stored
    BY <1>1, <1>2, <2>1, MappingFits
  <2>3. Claimed' = Claimed + 1
    BY <1>1, <1>2, <1>4, <2>2 DEF Claimed, Got
  <2>4. Single!Abstract!Take
    BY <1>1, <2>2, <2>3 DEF Single!Abstract!Take, Claimed, Stored
  <2> QED
    BY <2>4 DEF Single!Abstract!Next
<1> QED
  BY <1>1, <1>3, <1>4

\* The consumer leaves with the entry of its ticket when head_ moves on.
LEMMA GivesBackLeaves ==
  ASSUME RingSize, SingleInv, SingleInv', Single!DequeueReleases
  PROVE  Single!Abstract!Next
<1>1. /\ Put \in Nat /\ Got \in Nat /\ Got < Put /\ Len(entered) \in Nat /\ Put <= Len(entered)
      /\ dequeueing = "release" /\ dequeueing' = "idle" /\ left' = Append(left, output)
      /\ UNCHANGED <<enqueueing, entered>>
  BY CountersFit, MappingFits DEF Single!DequeueReleases, Single!producer
<1>2. PICK G \in Nat : G = Got
  BY <1>1
<1>3. output = entered[G + 1]
  BY <1>1, <1>2 DEF SingleInv, Contents
<1>4. Len(left) = G /\ Len(left') = G + 1 /\ left'[G + 1] = output
      /\ \A k \in 1..G : left'[k] = left[k]
  BY <1>1, <1>2 DEF SingleInv, SingleTypes, Got
<1>5. DOMAIN Given = 0..(G - 1) /\ Claimed = G + 1 /\ Claimed' = G + 1
  BY <1>1, <1>2, <1>4, MappingFits DEF Claimed
<1>6. Given' = [t \in DOMAIN Given \cup {G} |-> IF t = G THEN entered[G + 1] ELSE Given[t]]
  <2>1. DOMAIN Given \cup {G} = 0..(Len(left') - 1)
    BY <1>4, <1>5
  <2>2. ASSUME NEW t \in 0..(Len(left') - 1)
        PROVE  left'[t + 1] = IF t = G THEN entered[G + 1] ELSE Given[t]
    <3>1. CASE t = G
      BY <1>3, <1>4, <3>1
    <3>2. CASE t # G
      <4>1. t \in 0..(Len(left) - 1) /\ t + 1 \in 1..G
        BY <1>4, <2>2, <3>2
      <4> QED
        BY <1>4, <3>2, <4>1 DEF Given
    <3> QED
      BY <3>1, <3>2
  <2> QED
    BY <2>1, <2>2 DEF Given
<1>7. G \in 0..(Len(entered) - 1) /\ G \in 0..(Claimed - 1) /\ G \notin DOMAIN Given
  BY <1>1, <1>2, <1>5
<1>8. Stored' = Stored
  BY <1>1 DEF Stored
<1>9. Claimed' = Claimed
  BY <1>5
<1>10. Single!Abstract!Leave(G)
  BY <1>1, <1>6, <1>7, <1>8, <1>9 DEF Single!Abstract!Leave, Stored, Claimed, Given
<1> QED
  BY <1>7, <1>10 DEF Single!Abstract!Next

\* spsc_queue.hpp: the two threads never touch the same place of the ring,
\* although each may see an old value of the other's index.
THEOREM PlacesAreExclusive ==
  ASSUME Single!QueueAssumption
  PROVE  Single!Spec => []Single!ExclusivePlaces
<1>1. RingSize
  BY DEF Single!QueueAssumption, RingSize
<1>2. SingleInv => Single!ExclusivePlaces
  BY <1>1, PlacesExclusive
<1> QED
  BY <1>1, <1>2, SingleAlways, PTL

\* spsc_queue.hpp implements the bounded first-in first-out queue with one
\* place less than its ring: nothing is lost, read before it was stored, read
\* twice or overwritten.
THEOREM SingleRingIsABoundedQueue ==
  ASSUME Single!QueueAssumption
  PROVE  Single!Spec => Single!ImplementsBoundedQueue
<1>1. RingSize
  BY DEF Single!QueueAssumption, RingSize
<1>2. Single!Init => Single!Abstract!Init
  <2> SUFFICES ASSUME Single!Init PROVE Single!Abstract!Init
    OBVIOUS
  <2>1. entered = <<>> /\ left = <<>> /\ enqueueing = "idle" /\ dequeueing = "idle"
    BY DEF Single!Init
  <2>2. Stored = {} /\ Claimed = 0
    BY <2>1 DEF Stored, Claimed
  <2>3. Given \in [{} -> Items]
    <3>1. 0..(Len(left) - 1) = {}
      BY <2>1
    <3> QED
      BY <3>1 DEF Given
  <2> QED
    BY <2>1, <2>2, <2>3 DEF Single!Abstract!Init, Stored, Claimed, Given
<1>3. SingleInv /\ SingleInv' /\ [Single!Next]_(Single!vars)
        => [Single!Abstract!Next]_(Single!Abstract!vars)
  <2> SUFFICES ASSUME SingleInv, SingleInv', [Single!Next]_(Single!vars)
               PROVE  [Single!Abstract!Next]_(Single!Abstract!vars)
    OBVIOUS
  <2>1. CASE Single!EnqueueStores
    BY <2>1 DEF Single!EnqueueStores, Single!consumer, Single!Abstract!vars
  <2>2. CASE Single!DequeueCopies
    BY <2>2 DEF Single!DequeueCopies, Single!producer, Single!Abstract!vars
  <2>3. CASE UNCHANGED Single!vars
    BY <2>3 DEF Single!vars, Single!producer, Single!consumer, Single!Abstract!vars
  <2> QED
    BY <1>1, <2>1, <2>2, <2>3, EnqueueEnters, ReleasesStores, DequeueTakes, GivesBackLeaves
    DEF Single!Next
<1> QED
  BY <1>1, <1>2, <1>3, SingleAlways, PTL DEF Single!Spec, Single!ImplementsBoundedQueue,
                                             Single!Abstract!Spec

-----------------------------------------------------------------------------
(* The generators of timestamps and of the times of UUIDs.                 *)

CONSTANTS Callers, PerMs, MaxClock, MaxCalls, MaxBack
VARIABLES clock, last, last_timestamp, call, stamps, uuids, latest, calls, backs

Clock == INSTANCE Clocks WITH Threads <- Callers

CallPlaces == {"idle", "stamp", "compute", "exchange", "uuid", "load", "add", "uuid_exchange"}

ClockTyped ==
  /\ clock \in Nat /\ last \in Nat /\ last_timestamp \in Nat
  /\ call \in [Callers -> [at : CallPlaces, last : Nat, value : Nat]]
  /\ latest \in [Callers -> Nat \X Nat]
  /\ stamps \in [DOMAIN stamps -> Nat] /\ uuids \in [DOMAIN uuids -> Nat]

\* A value that a thread is about to exchange is larger than the one it loaded.
Larger ==
  \A t \in Callers :
    /\ call[t].at = "exchange" =>
         call[t].value > call[t].last \/ (call[t].value = call[t].last /\ Clock!Full(call[t].last))
    /\ call[t].at = "uuid_exchange" => call[t].value > call[t].last

\* The last timestamp is the largest that was returned.
Stamped ==
  /\ DOMAIN stamps \subseteq 0..last
  /\ last \in DOMAIN stamps \/ (last = 0 /\ DOMAIN stamps = {})
  /\ \A v \in DOMAIN stamps : stamps[v] = 1 \/ Clock!Full(v)
  /\ \A t \in Callers :
       /\ latest[t][1] <= last
       /\ latest[t][2] > latest[t][1] \/ (latest[t][2] = latest[t][1] /\ Clock!Full(latest[t][1]))

\* The last time of a UUID was returned once at most, an earlier one twice.
Timed ==
  /\ DOMAIN uuids \subseteq 0..last_timestamp
  /\ \A v \in DOMAIN uuids : uuids[v] <= (IF v = last_timestamp THEN 1 ELSE 2)

ClockInv == ClockTyped /\ Larger /\ Stamped /\ Timed

\* Parts and milliseconds of a value.
LEMMA PartsOfValue ==
  ASSUME Clock!ClockAssumption, NEW v \in Nat
  PROVE  /\ PerMs \in Nat /\ PerMs > 0
         /\ Clock!to_milliseconds(v) \in Nat /\ v % PerMs \in 0..(PerMs - 1)
         /\ Clock!from_unix_timestamp(Clock!to_milliseconds(v)) \in Nat
         /\ v = Clock!from_unix_timestamp(Clock!to_milliseconds(v)) + (v % PerMs)
<1> DEFINE a == v \div PerMs
           r == v % PerMs
<1>1. PerMs \in Nat /\ PerMs > 0
  BY DEF Clock!ClockAssumption
<1>2. a \in Int /\ r \in 0..(PerMs - 1) /\ v = PerMs * a + r
  BY <1>1
<1> HIDE DEF a, r
<1>3. a >= 0
  <2>1. CASE a <= -1
    <3>1. PerMs * a <= -PerMs
      BY <1>1, <1>2, <2>1
    <3> QED
      BY <1>1, <1>2, <3>1
  <2> QED
    BY <1>2, <2>1
<1>4. PerMs * a = a * PerMs /\ a * PerMs \in Nat
  BY <1>1, <1>2, <1>3
<1> QED
  BY <1>1, <1>2, <1>3, <1>4 DEF a, r, Clock!to_milliseconds, Clock!from_unix_timestamp

\* A later millisecond begins after every part of an earlier one.
LEMMA LaterMillisecond ==
  ASSUME Clock!ClockAssumption, NEW v \in Nat, NEW now \in Nat, Clock!to_milliseconds(v) < now
  PROVE  Clock!from_unix_timestamp(now) \in Nat /\ v < Clock!from_unix_timestamp(now)
<1> DEFINE m == Clock!to_milliseconds(v)
<1>1. /\ PerMs \in Nat /\ PerMs > 0 /\ m \in Nat /\ v % PerMs \in 0..(PerMs - 1)
      /\ v = m * PerMs + (v % PerMs)
  BY PartsOfValue DEF Clock!from_unix_timestamp
<1> HIDE DEF m
<1>2. m + 1 <= now
  BY <1>1 DEF m
<1>3. (m + 1) * PerMs <= now * PerMs /\ now * PerMs \in Nat
  BY <1>1, <1>2
<1>4. (m + 1) * PerMs = m * PerMs + PerMs
  BY <1>1
<1> QED
  BY <1>1, <1>3, <1>4 DEF Clock!from_unix_timestamp

\* Earlier values have earlier milliseconds.
LEMMA MillisecondsGrow ==
  ASSUME Clock!ClockAssumption, NEW v \in Nat, NEW w \in Nat, v <= w
  PROVE  Clock!to_milliseconds(v) <= Clock!to_milliseconds(w)
<1>1. Clock!to_milliseconds(v) \in Nat /\ Clock!to_milliseconds(w) \in Nat
  BY PartsOfValue
<1>2. CASE Clock!to_milliseconds(w) < Clock!to_milliseconds(v)
  <2>1. w < Clock!from_unix_timestamp(Clock!to_milliseconds(v))
    BY <1>1, <1>2, LaterMillisecond
  <2>2. Clock!from_unix_timestamp(Clock!to_milliseconds(v)) <= v
    BY PartsOfValue
  <2>3. Clock!from_unix_timestamp(Clock!to_milliseconds(v)) \in Nat
    BY PartsOfValue
  <2> QED
    BY <2>1, <2>2, <2>3
<1> QED
  BY <1>1, <1>2

\* compute_next gives a larger value, except in a millisecond that is used up.
LEMMA NextIsLarger ==
  ASSUME Clock!ClockAssumption, NEW l \in Nat, NEW now \in Nat
  PROVE  /\ Clock!compute_next(l, now) \in Nat
         /\ Clock!compute_next(l, now) > l \/ (Clock!compute_next(l, now) = l /\ Clock!Full(l))
<1> DEFINE m == Clock!to_milliseconds(l)
           c == l % PerMs
           b == Clock!from_unix_timestamp(m)
<1>1. PerMs \in Nat /\ PerMs > 0 /\ m \in Nat /\ c \in 0..(PerMs - 1) /\ b \in Nat /\ l = b + c
  BY PartsOfValue
<1>2. CASE m >= now
  <2>1. Clock!compute_next(l, now) = b + (IF c = PerMs - 1 THEN c ELSE c + 1)
    BY <1>2 DEF Clock!compute_next
  <2> HIDE DEF m, b
  <2>2. CASE c = PerMs - 1
    <3>1. Clock!compute_next(l, now) = l
      BY <1>1, <2>1, <2>2
    <3> QED
      BY <2>2, <3>1 DEF Clock!Full
  <2>3. CASE c # PerMs - 1
    <3>1. Clock!compute_next(l, now) = b + (c + 1)
      BY <2>1, <2>3
    <3> HIDE DEF c
    <3> QED
      BY <1>1, <3>1
  <2> QED
    BY <2>2, <2>3
<1>3. CASE ~(m >= now)
  <2>1. Clock!compute_next(l, now) = Clock!from_unix_timestamp(now)
    BY <1>3 DEF Clock!compute_next
  <2>2. m < now
    BY <1>1, <1>3
  <2> QED
    BY <2>1, <2>2, LaterMillisecond
<1> QED
  BY <1>2, <1>3

\* The largest timestamp returned so far is the last.
LEMMA TopIsLast ==
  ASSUME ClockTyped, Stamped
  PROVE  Clock!Top(stamps) = last
<1>1. CASE DOMAIN stamps = {}
  <2>1. stamps = Clock!EmptyBag
    BY <1>1 DEF ClockTyped, Clock!EmptyBag, Clock!SetToBag
  <2> QED
    BY <1>1, <2>1 DEF Clock!Top, Stamped
<1>2. CASE DOMAIN stamps # {}
  <2>1. stamps # Clock!EmptyBag
    BY <1>2 DEF Clock!EmptyBag, Clock!SetToBag
  <2>2. last \in DOMAIN stamps /\ \A w \in DOMAIN stamps : w <= last
    BY <1>2 DEF Stamped, ClockTyped
  <2>3. \A v \in DOMAIN stamps : (\A w \in DOMAIN stamps : w <= v) => v = last
    BY <2>2 DEF Stamped, ClockTyped
  <2>4. \E v \in DOMAIN stamps : \A w \in DOMAIN stamps : w <= v
    BY <2>2
  <2>5. Clock!Top(stamps) = CHOOSE v \in DOMAIN stamps : \A w \in DOMAIN stamps : w <= v
    BY <2>1 DEF Clock!Top, Clock!BagToSet
  <2> QED
    BY <2>3, <2>4, <2>5
<1> QED
  BY <1>1, <1>2

\* One more copy of a value.
LEMMA OneMore ==
  ASSUME NEW bag, bag \in [DOMAIN bag -> Nat], NEW v
  PROVE  /\ Clock!With(bag, v) \in [DOMAIN Clock!With(bag, v) -> Nat]
         /\ DOMAIN Clock!With(bag, v) = DOMAIN bag \cup {v}
         /\ Clock!With(bag, v)[v] = (IF v \in DOMAIN bag THEN bag[v] ELSE 0) + 1
         /\ \A w \in DOMAIN bag : w # v => Clock!With(bag, v)[w] = bag[w]
<1> DEFINE S == Clock!SetToBag({v})
<1>1. DOMAIN S = {v} /\ S[v] = 1
  BY DEF Clock!SetToBag
<1>2. Clock!With(bag, v) = [w \in DOMAIN bag \cup {v} |->
         (IF w \in DOMAIN bag THEN bag[w] ELSE 0) + (IF w \in {v} THEN S[w] ELSE 0)]
  BY <1>1 DEF Clock!With, Clock!(+)
<1> HIDE DEF S
<1>3. ASSUME NEW w \in DOMAIN bag, w # v
      PROVE  Clock!With(bag, v)[w] = bag[w]
  <2>1. bag[w] \in Nat
    OBVIOUS
  <2>2. Clock!With(bag, v)[w] = bag[w] + 0
    BY <1>2, <1>3
  <2> QED
    BY <2>1, <2>2
<1>4. Clock!With(bag, v)[v] = (IF v \in DOMAIN bag THEN bag[v] ELSE 0) + 1
  BY <1>1, <1>2
<1>5. Clock!With(bag, v)[v] \in Nat
  BY <1>4
<1> QED
  BY <1>2, <1>3, <1>4, <1>5

\* No thread has begun.
LEMMA ClockBegins ==
  ASSUME Clock!Init
  PROVE  ClockInv
<1>1. DOMAIN stamps = {} /\ DOMAIN uuids = {} /\ stamps \in [{} -> Nat] /\ uuids \in [{} -> Nat]
  BY DEF Clock!Init, Clock!EmptyBag, Clock!SetToBag
<1>2. ClockTyped
  BY <1>1 DEF Clock!Init, ClockTyped, Clock!Idle, CallPlaces
<1>3. Larger
  BY DEF Clock!Init, Larger, Clock!Idle
<1>4. Stamped
  <2>1. ASSUME NEW t \in Callers
        PROVE  latest[t][1] = 0 /\ latest[t][2] = 1
    BY DEF Clock!Init
  <2> QED
    BY <1>1, <2>1 DEF Clock!Init, Stamped
<1>5. Timed
  BY <1>1 DEF Timed
<1> QED
  BY <1>2, <1>3, <1>4, <1>5 DEF ClockInv

\* A thread that goes on without returning a value.
LEMMA Goes ==
  ASSUME ClockInv, NEW t \in Callers, NEW at \in CallPlaces, NEW l \in Nat, NEW v \in Nat,
         call' = [call EXCEPT ![t] = Clock!Call(at, l, v)],
         at = "exchange" => v > l \/ (v = l /\ Clock!Full(l)),
         at = "uuid_exchange" => v > l,
         UNCHANGED <<clock, last, last_timestamp, stamps, uuids, latest>>
  PROVE  ClockInv'
<1>1. Clock!Call(at, l, v) \in [at : CallPlaces, last : Nat, value : Nat]
  BY DEF Clock!Call
<1>2. ClockTyped'
  BY <1>1 DEF ClockInv, ClockTyped
<1>3. Larger'
  BY DEF ClockInv, ClockTyped, Larger, Clock!Call
<1>4. Stamped' /\ Timed'
  BY DEF ClockInv, Stamped, Timed
<1> QED
  BY <1>2, <1>3, <1>4 DEF ClockInv

\* What a call has seen returned when it begins, it is to exceed.
LEMMA BeginInv ==
  ASSUME ClockInv, NEW t \in Callers, NEW at \in {"stamp", "uuid"}, Clock!Begin(t, at)
  PROVE  ClockInv'
<1>1. /\ call' = [call EXCEPT ![t] = Clock!Call(at, 0, 0)]
      /\ latest' = [latest EXCEPT ![t] = <<last, last + 1>>]
      /\ UNCHANGED <<clock, last, last_timestamp, stamps, uuids>>
  BY TopIsLast DEF Clock!Begin, ClockInv
<1>2. Clock!Call(at, 0, 0) \in [at : CallPlaces, last : Nat, value : Nat]
  BY DEF Clock!Call, CallPlaces
<1>3. last \in Nat /\ <<last, last + 1>> \in Nat \X Nat
  BY DEF ClockInv, ClockTyped
<1>4. ClockTyped'
  BY <1>1, <1>2, <1>3 DEF ClockInv, ClockTyped
<1>5. Larger'
  BY <1>1 DEF ClockInv, ClockTyped, Larger, Clock!Call
<1>6. Stamped'
  <2>1. ASSUME NEW u \in Callers
        PROVE  /\ latest'[u][1] <= last
               /\ latest'[u][2] > latest'[u][1] \/ (latest'[u][2] = latest'[u][1] /\ Clock!Full(latest'[u][1]))
    <3>1. CASE u = t
      <4>1. latest'[u] = <<last, last + 1>>
        BY <1>1, <3>1 DEF ClockInv, ClockTyped
      <4> QED
        BY <1>3, <4>1
    <3>2. CASE u # t
      <4>1. latest'[u] = latest[u]
        BY <1>1, <3>2 DEF ClockInv, ClockTyped
      <4> QED
        BY <4>1 DEF ClockInv, Stamped
    <3> QED
      BY <3>1, <3>2
  <2> QED
    BY <1>1, <2>1 DEF ClockInv, Stamped
<1>7. Timed'
  BY <1>1 DEF ClockInv, Timed
<1> QED
  BY <1>4, <1>5, <1>6, <1>7 DEF ClockInv

\* The exchange succeeds only while last_ is what the new value was computed
\* from: that is larger than all before it.
LEMMA StampExchangeInv ==
  ASSUME ClockInv, NEW t \in Callers, Clock!StampExchange(t)
  PROVE  ClockInv'
<1>1. CASE last # call[t].last
  <2>1. call' = [call EXCEPT ![t] = Clock!Call("stamp", 0, 0)]
        /\ UNCHANGED <<clock, last, last_timestamp, stamps, uuids, latest>>
    BY <1>1 DEF Clock!StampExchange
  <2> QED
    BY <2>1, Goes DEF CallPlaces
<1>2. CASE last = call[t].last
  <2>1. PICK v : v = call[t].value
    OBVIOUS
  <2>2. /\ call[t].at = "exchange" /\ last' = v /\ call' = [call EXCEPT ![t] = Clock!Idle]
        /\ stamps' = Clock!With(stamps, v) /\ latest' = [latest EXCEPT ![t] = <<latest[t][1], v>>]
        /\ UNCHANGED <<clock, last_timestamp, uuids>>
    BY <1>2, <2>1 DEF Clock!StampExchange
  <2>3. v \in Nat /\ last \in Nat /\ latest[t] \in Nat \X Nat
    BY <2>1 DEF ClockInv, ClockTyped
  <2>4. v > last \/ (v = last /\ Clock!Full(last))
    BY <1>2, <2>1, <2>2 DEF ClockInv, Larger
  <2>5. v >= last
    BY <2>3, <2>4
  <2>6. /\ stamps' \in [DOMAIN stamps' -> Nat]
        /\ DOMAIN stamps' = DOMAIN stamps \cup {v}
        /\ stamps'[v] = (IF v \in DOMAIN stamps THEN stamps[v] ELSE 0) + 1
        /\ \A w \in DOMAIN stamps : w # v => stamps'[w] = stamps[w]
    <3>1. stamps \in [DOMAIN stamps -> Nat]
      BY DEF ClockInv, ClockTyped
    <3> QED
      BY <2>2, <3>1, OneMore
  <2>7. Clock!Idle \in [at : CallPlaces, last : Nat, value : Nat]
    BY DEF Clock!Idle, CallPlaces
  <2>8. <<latest[t][1], v>> \in Nat \X Nat
    BY <2>3
  <2>9. ClockTyped'
    BY <2>2, <2>3, <2>6, <2>7, <2>8 DEF ClockInv, ClockTyped
  <2>10. Larger'
    BY <2>2 DEF ClockInv, ClockTyped, Larger, Clock!Idle
  <2>11. Stamped'
    <3>1. DOMAIN stamps' \subseteq 0..v
      BY <2>3, <2>5, <2>6 DEF ClockInv, Stamped
    <3>2. ASSUME NEW w \in DOMAIN stamps'
          PROVE  stamps'[w] = 1 \/ Clock!Full(w)
      <4>1. CASE w # v
        BY <2>6, <3>2, <4>1 DEF ClockInv, Stamped
      <4>2. CASE w = v /\ v = last
        BY <2>4, <2>3, <4>2
      <4>3. CASE w = v /\ v # last
        <5>1. v \notin DOMAIN stamps
          BY <2>3, <2>5, <4>3 DEF ClockInv, Stamped
        <5> QED
          BY <2>6, <4>3, <5>1
      <4> QED
        BY <4>1, <4>2, <4>3
    <3>3. ASSUME NEW u \in Callers
          PROVE  /\ latest'[u][1] <= v
                 /\ latest'[u][2] > latest'[u][1] \/ (latest'[u][2] = latest'[u][1] /\ Clock!Full(latest'[u][1]))
      <4>1. latest[u] \in Nat \X Nat /\ latest[u][1] <= last
        BY DEF ClockInv, ClockTyped, Stamped
      <4>2. CASE u = t
        <5>1. latest'[u] = <<latest[t][1], v>>
          BY <2>2, <4>2 DEF ClockInv, ClockTyped
        <5>2. latest[t][1] \in Nat /\ latest[t][1] <= last
          BY <4>1, <4>2
        <5>3. latest'[u][1] = latest[t][1] /\ latest'[u][2] = v
          BY <5>1
        <5>4. v > latest[t][1] \/ (v = latest[t][1] /\ Clock!Full(latest[t][1]))
          <6>1. CASE v > last
            BY <2>3, <5>2, <6>1
          <6>2. CASE v = last /\ Clock!Full(last)
            BY <2>3, <5>2, <6>2
          <6> QED
            BY <2>4, <6>1, <6>2
        <5> QED
          BY <2>3, <2>5, <5>2, <5>3, <5>4
      <4>3. CASE u # t
        <5>1. latest'[u] = latest[u]
          BY <2>2, <4>3 DEF ClockInv, ClockTyped
        <5>2. latest[u][2] > latest[u][1] \/ (latest[u][2] = latest[u][1] /\ Clock!Full(latest[u][1]))
          BY DEF ClockInv, Stamped
        <5> QED
          BY <2>3, <2>5, <4>1, <5>1, <5>2
      <4> QED
        BY <4>2, <4>3
    <3> QED
      BY <2>2, <2>6, <3>1, <3>2, <3>3 DEF Stamped
  <2>12. Timed'
    BY <2>2 DEF ClockInv, Timed
  <2> QED
    BY <2>9, <2>10, <2>11, <2>12 DEF ClockInv
<1> QED
  BY <1>1, <1>2

\* A new time that is larger than all before it, and the old one that
\* fetch_add returns when it adds one to it: each is returned once.
LEMMA UuidReturns ==
  ASSUME ClockInv, NEW t \in Callers, NEW v \in Nat, Clock!UuidReturn(t, v), last_timestamp' \in Nat,
         last_timestamp' > last_timestamp, v = last_timestamp \/ v = last_timestamp',
         UNCHANGED <<clock, last, stamps, latest>>
  PROVE  ClockInv'
<1>1. call' = [call EXCEPT ![t] = Clock!Idle] /\ uuids' = Clock!With(uuids, v) /\ last_timestamp \in Nat
  BY DEF Clock!UuidReturn, ClockInv, ClockTyped
<1>2. /\ uuids' \in [DOMAIN uuids' -> Nat]
      /\ DOMAIN uuids' = DOMAIN uuids \cup {v}
      /\ uuids'[v] = (IF v \in DOMAIN uuids THEN uuids[v] ELSE 0) + 1
      /\ \A w \in DOMAIN uuids : w # v => uuids'[w] = uuids[w]
  <2>1. uuids \in [DOMAIN uuids -> Nat]
    BY DEF ClockInv, ClockTyped
  <2> QED
    BY <1>1, <2>1, OneMore
<1>3. Clock!Idle \in [at : CallPlaces, last : Nat, value : Nat]
  BY DEF Clock!Idle, CallPlaces
<1>4. ClockTyped'
  BY <1>1, <1>2, <1>3 DEF ClockInv, ClockTyped
<1>5. Larger'
  BY <1>1 DEF ClockInv, ClockTyped, Larger, Clock!Idle
<1>6. Stamped'
  BY DEF ClockInv, Stamped
<1>7. DOMAIN uuids \subseteq 0..last_timestamp
  BY DEF ClockInv, Timed
<1>8. ASSUME NEW w \in DOMAIN uuids'
      PROVE  uuids'[w] <= (IF w = last_timestamp' THEN 1 ELSE 2)
  <2>1. CASE w # v
    <3>1. w \in DOMAIN uuids /\ w # last_timestamp'
      BY <1>1, <1>2, <1>7, <1>8, <2>1
    <3>2. uuids[w] \in Nat /\ uuids[w] <= 2
      BY <3>1 DEF ClockInv, Timed, ClockTyped
    <3> QED
      BY <1>2, <2>1, <3>1, <3>2
  <2>2. CASE w = v /\ v = last_timestamp'
    <3>1. v \notin DOMAIN uuids
      BY <1>1, <1>7, <2>2
    <3> QED
      BY <1>2, <2>2, <3>1
  <2>3. CASE w = v /\ v = last_timestamp
    <3>1. v \in DOMAIN uuids => uuids[v] \in Nat /\ uuids[v] <= 1
      BY <2>3 DEF ClockInv, Timed, ClockTyped
    <3>2. uuids'[v] <= 2
      BY <1>2, <3>1
    <3>3. v # last_timestamp'
      BY <1>1, <2>3
    <3> QED
      BY <2>3, <3>2, <3>3
  <2> QED
    BY <2>1, <2>2, <2>3
<1>9. DOMAIN uuids' \subseteq 0..last_timestamp'
  BY <1>1, <1>2, <1>7
<1>10. Timed'
  BY <1>8, <1>9 DEF Timed
<1> QED
  BY <1>4, <1>5, <1>6, <1>10 DEF ClockInv

\* The branches of UuidGen::monotonic_timestamp are all there are.
LEMMA UuidLoadInv ==
  ASSUME Clock!ClockAssumption, ClockInv, NEW t \in Callers, Clock!UuidLoad(t)
  PROVE  ClockInv'
<1> DEFINE now == call[t].value
           candidate == last_timestamp + 1
<1>1. now \in Nat /\ last_timestamp \in Nat /\ candidate \in Nat
  BY DEF ClockInv, ClockTyped
<1>2. UNCHANGED <<clock, last, last_timestamp, stamps, uuids, latest>>
  BY DEF Clock!UuidLoad
<1>3. Clock!to_milliseconds(now) \in Nat /\ Clock!to_milliseconds(last_timestamp) \in Nat
  BY <1>1, PartsOfValue
<1> DEFINE earlier == Clock!to_milliseconds(now) < Clock!to_milliseconds(last_timestamp)
           same == Clock!to_milliseconds(now) = Clock!to_milliseconds(last_timestamp)
           Exchanged == Clock!Call("uuid_exchange", last_timestamp, now)
           Added == Clock!Call("add", 0, 0)
           Advanced == IF Clock!to_milliseconds(candidate) = Clock!to_milliseconds(last_timestamp)
                       THEN Clock!Call("uuid_exchange", last_timestamp, candidate) ELSE Clock!Call("uuid", 0, 0)
           Chosen == CASE now > last_timestamp -> Exchanged
                       [] now <= last_timestamp /\ earlier -> Added
                       [] now <= last_timestamp /\ same -> Advanced
<1>8. call' = [call EXCEPT ![t] = Chosen]
  BY DEF Clock!UuidLoad
<1>9. /\ now > last_timestamp => Chosen = Exchanged
      /\ now <= last_timestamp /\ earlier => Chosen = Added
      /\ now <= last_timestamp /\ same => Chosen = Advanced
  <2>1. ~(earlier /\ same)
    BY <1>3
  <2>2. ~(now > last_timestamp /\ now <= last_timestamp)
    BY <1>1
  <2> HIDE DEF earlier, same, Exchanged, Added, Advanced, now
  <2> QED
    BY <2>1, <2>2
<1>4. CASE now > last_timestamp
  <2>1. call' = [call EXCEPT ![t] = Clock!Call("uuid_exchange", last_timestamp, now)]
    BY ONLY <1>4, <1>8, <1>9
  <2> QED
    BY <1>1, <1>2, <1>4, <2>1, Goes DEF CallPlaces
<1>5. CASE now <= last_timestamp /\ Clock!to_milliseconds(now) < Clock!to_milliseconds(last_timestamp)
  <2>1. call' = [call EXCEPT ![t] = Clock!Call("add", 0, 0)]
    BY ONLY <1>5, <1>8, <1>9
  <2> QED
    BY <1>2, <2>1, Goes DEF CallPlaces
<1>6. CASE now <= last_timestamp /\ Clock!to_milliseconds(now) = Clock!to_milliseconds(last_timestamp)
  <2>1. call' = [call EXCEPT ![t] =
                  IF Clock!to_milliseconds(candidate) = Clock!to_milliseconds(last_timestamp)
                  THEN Clock!Call("uuid_exchange", last_timestamp, candidate) ELSE Clock!Call("uuid", 0, 0)]
    BY ONLY <1>6, <1>8, <1>9
  <2>2. CASE Clock!to_milliseconds(candidate) = Clock!to_milliseconds(last_timestamp)
    <3>1. call' = [call EXCEPT ![t] = Clock!Call("uuid_exchange", last_timestamp, candidate)]
      BY <2>1, <2>2
    <3>2. candidate > last_timestamp
      BY <1>1
    <3> QED
      BY <1>1, <1>2, <3>1, <3>2, Goes DEF CallPlaces
  <2>3. CASE Clock!to_milliseconds(candidate) # Clock!to_milliseconds(last_timestamp)
    <3>1. call' = [call EXCEPT ![t] = Clock!Call("uuid", 0, 0)]
      BY <2>1, <2>3
    <3> QED
      BY <1>2, <3>1, Goes DEF CallPlaces
  <2> QED
    BY <2>2, <2>3
<1>7. now <= last_timestamp => Clock!to_milliseconds(now) <= Clock!to_milliseconds(last_timestamp)
  BY <1>1, MillisecondsGrow
<1> QED
  BY <1>1, <1>3, <1>4, <1>5, <1>6, <1>7

\* Every step of the clock and of the threads.
LEMMA ClockNext ==
  ASSUME Clock!ClockAssumption, ClockInv, [Clock!Next]_Clock!vars
  PROVE  ClockInv'
<1>1. CASE Clock!Tick \/ Clock!SetBack
  <2>1. clock' \in Nat /\ UNCHANGED <<last, last_timestamp, call, stamps, uuids, latest>>
    BY <1>1 DEF Clock!Tick, Clock!SetBack, ClockInv, ClockTyped
  <2> QED
    BY <2>1 DEF ClockInv, ClockTyped, Larger, Stamped, Timed
<1>2. ASSUME NEW t \in Callers, Clock!StampLoad(t) PROVE ClockInv'
  <2>1. /\ call' = [call EXCEPT ![t] = Clock!Call("compute", last, 0)] /\ last \in Nat
        /\ UNCHANGED <<clock, last, last_timestamp, stamps, uuids, latest>>
    BY <1>2 DEF Clock!StampLoad, ClockInv, ClockTyped
  <2> QED
    BY <2>1, Goes DEF CallPlaces
<1>3. ASSUME NEW t \in Callers, Clock!StampCompute(t) PROVE ClockInv'
  <2>1. PICK l \in Nat : l = call[t].last
    BY DEF ClockInv, ClockTyped
  <2>2. PICK v : v = Clock!compute_next(l, clock)
    OBVIOUS
  <2>3. /\ call' = [call EXCEPT ![t] = Clock!Call("exchange", l, v)]
        /\ UNCHANGED <<clock, last, last_timestamp, stamps, uuids, latest>>
    BY <1>3, <2>1, <2>2 DEF Clock!StampCompute
  <2>4. v \in Nat /\ (v > l \/ (v = l /\ Clock!Full(l)))
    BY <2>2, NextIsLarger DEF ClockInv, ClockTyped
  <2> QED
    BY <2>3, <2>4, Goes DEF CallPlaces
<1>4. ASSUME NEW t \in Callers, Clock!UuidClock(t) PROVE ClockInv'
  <2>1. PICK v : v = Clock!from_unix_timestamp(clock)
    OBVIOUS
  <2>2. v \in Nat
    BY <2>1 DEF Clock!from_unix_timestamp, Clock!ClockAssumption, ClockInv, ClockTyped
  <2>3. /\ call' = [call EXCEPT ![t] = Clock!Call("load", 0, v)]
        /\ UNCHANGED <<clock, last, last_timestamp, stamps, uuids, latest>>
    BY <1>4, <2>1 DEF Clock!UuidClock
  <2> QED
    BY <2>2, <2>3, Goes DEF CallPlaces
<1>5. ASSUME NEW t \in Callers, Clock!UuidFetchAdd(t) PROVE ClockInv'
  <2>1. /\ last_timestamp \in Nat /\ last_timestamp' = last_timestamp + 1
        /\ Clock!UuidReturn(t, last_timestamp) /\ UNCHANGED <<clock, last, stamps, latest>>
    BY <1>5 DEF Clock!UuidFetchAdd, ClockInv, ClockTyped
  <2>2. last_timestamp' \in Nat /\ last_timestamp' > last_timestamp
    BY <2>1
  <2> QED
    BY <2>1, <2>2, UuidReturns
<1>6. ASSUME NEW t \in Callers, Clock!UuidExchange(t) PROVE ClockInv'
  <2>1. CASE last_timestamp # call[t].last
    <3>1. /\ call' = [call EXCEPT ![t] = Clock!Call("uuid", 0, 0)]
          /\ UNCHANGED <<clock, last, last_timestamp, stamps, uuids, latest>>
      BY <1>6, <2>1 DEF Clock!UuidExchange
    <3> QED
      BY <3>1, Goes DEF CallPlaces
  <2>2. CASE last_timestamp = call[t].last
    <3>1. PICK v \in Nat : v = call[t].value
      BY DEF ClockInv, ClockTyped
    <3>2. /\ last_timestamp' = v /\ Clock!UuidReturn(t, v) /\ v > last_timestamp
          /\ UNCHANGED <<clock, last, stamps, latest>>
      BY <1>6, <2>2, <3>1 DEF Clock!UuidExchange, ClockInv, Larger
    <3> QED
      BY <3>2, UuidReturns
  <2> QED
    BY <2>1, <2>2
<1>7. CASE UNCHANGED Clock!vars
  BY <1>7 DEF Clock!vars, ClockInv, ClockTyped, Larger, Stamped, Timed
<1> QED
  BY <1>1, <1>2, <1>3, <1>4, <1>5, <1>6, <1>7, BeginInv, StampExchangeInv, UuidLoadInv DEF Clock!Next

\* MonotonicTimestampGenerator::next, for any number of threads and whatever
\* the clock of the machine does: a write has a larger timestamp than every
\* write before it, and one of its own, but for the last value of a millisecond.
THEOREM TimestampsIncrease ==
  ASSUME Clock!ClockAssumption
  PROVE  Clock!Spec => []Clock!StampsIncrease
<1>1. ClockInv => Clock!StampsIncrease
  BY DEF ClockInv, Stamped, Clock!StampsIncrease, Clock!BagToSet
<1> QED
  BY <1>1, ClockBegins, ClockNext, PTL DEF Clock!Spec

\* UuidGen::monotonic_timestamp: fetch_add gives the old value away a second
\* time, and never a third time.
THEOREM TimesAtMostTwice ==
  ASSUME Clock!ClockAssumption
  PROVE  Clock!Spec => []Clock!UuidsAtMostTwice
<1>1. ClockInv => Clock!UuidsAtMostTwice
  <2> SUFFICES ASSUME ClockInv, NEW v \in DOMAIN uuids PROVE uuids[v] <= 2
    BY DEF Clock!UuidsAtMostTwice, Clock!BagToSet
  <2> QED
    BY DEF ClockInv, ClockTyped, Timed
<1> QED
  BY <1>1, ClockBegins, ClockNext, PTL DEF Clock!Spec

-----------------------------------------------------------------------------
(* The latencies and rates of Metrics.                                     *)

CONSTANTS Writers, Readers, MaxRecords, MaxSnapshots
VARIABLES histograms, epochs, writer, reader, mutex, total, before, uncounted, counted,
          records, snapshots

Meter == INSTANCE Metrics


\* The sizes of sets that Metrics speaks of are those of FiniteSets.
LEMMA MeterSizes ==
  \A S : (Meter!IsFiniteSet(S) <=> IsFiniteSet(S)) /\ Meter!Cardinality(S) = Cardinality(S)
<1>1. \A S : Meter!IsFiniteSet(S) <=> IsFiniteSet(S)
  BY DEF IsFiniteSet, Meter!IsFiniteSet
<1>2. \A S : Meter!Cardinality(S) = Cardinality(S)
  BY DEF Cardinality, Meter!Cardinality, IsFiniteSet, Meter!IsFiniteSet
<1> QED
  BY <1>1, <1>2

Histograms == UNION {[S -> Nat] : S \in SUBSET (1..MaxRecords)}
Pairs == [bags : [{1, 2} -> Histograms], active : {1, 2}]
Epochs == [start : Int, even : Int, odd : Int]
Inside == {"entered", "record", "recorded"}
Flipping == {"phase", "flip", "wait", "add"}
WriterStates == [at : {"idle", "mark", "tick"} \cup Inside, enter : Int, index : {0, 1, 2},
                 value : Nat, todo : SUBSET Writers]
ReaderStates == [at : {"idle", "next"} \cup Flipping, todo : SUBSET Writers,
                 of : Writers \cup {Meter!NoOne}, from : {0, 1, 2}, even : BOOLEAN, flip : Int]

MeterTyped ==
  /\ histograms \in [Writers -> Pairs] /\ epochs \in [Writers -> Epochs]
  /\ writer \in [Writers -> WriterStates] /\ reader \in [Readers -> ReaderStates]
  /\ total \in Histograms /\ records \in 0..MaxRecords

\* One reader at a time; it works on a histogram it has exchanged.
Locked ==
  \A r \in Readers :
    /\ reader[r].at # "idle" => mutex = r
    /\ reader[r].at \in Flipping =>
         /\ reader[r].of \in Writers /\ reader[r].from \in {1, 2}
         /\ histograms[reader[r].of].active = Meter!Other(reader[r].from)

\* What a reader does with the histograms of a writer.
Doing(w, ats) == \E r \in Readers : reader[r].at \in ats /\ reader[r].of = w

\* The writers of a phase that have not ended: one or none.
InPhase(w, odd) == writer[w].at \in Inside /\ (writer[w].enter < 0 <=> odd)
Present(w, odd) == IF InPhase(w, odd) THEN 1 ELSE 0
Ended(w, odd) == IF odd THEN epochs[w].odd ELSE epochs[w].even
Phase(w) == epochs[w].start < 0

\* The phase that is on: what started in it ended or is there, and nothing of
\* the other is there, unless a reader waits for it.
Balanced(w) ==
  /\ epochs[w].start \in 0..records \/ epochs[w].start - Meter!INT64_MIN \in 0..records
  /\ Ended(w, Phase(w)) + Present(w, Phase(w)) = epochs[w].start
  /\ ~Doing(w, {"wait"}) => ~InPhase(w, ~Phase(w))

\* The end epoch of the next phase is set back before it begins, and that of
\* the last one reaches what the reader waits for when its writer has gone.
Flips(r) ==
  LET w == reader[r].of IN
  /\ reader[r].at = "flip" =>
       (reader[r].even <=> Phase(w)) /\ Ended(w, ~Phase(w)) = (IF Phase(w) THEN 0 ELSE Meter!INT64_MIN)
  /\ reader[r].at = "wait" =>
       /\ reader[r].even <=> ~Phase(w)
       /\ Ended(w, ~Phase(w)) + Present(w, ~Phase(w)) = reader[r].flip

\* A writer of the phase that is on has the active histogram, unless a reader
\* has exchanged it and not yet begun the next phase.
Indexed(w) ==
  writer[w].at \in {"record", "recorded"} =>
    /\ writer[w].index \in {1, 2}
    /\ ~Doing(w, {"phase", "flip"}) /\ InPhase(w, Phase(w)) => writer[w].index = histograms[w].active

Phased == /\ \A w \in Writers : Balanced(w) /\ Indexed(w)
          /\ \A r \in Readers : Flips(r)

\* Latencies: each is in a histogram, or with the writer that is to record it.
Held(w) == Meter!BagToSet(histograms[w].bags[1]) \cup Meter!BagToSet(histograms[w].bags[2])
Pending(w) == writer[w].at \in {"entered", "record"}
Kept ==
  /\ Meter!Recorded \subseteq 1..records
  /\ Meter!BagToSet(total) \subseteq Meter!Recorded /\ before \subseteq Meter!Recorded
  /\ \A w \in Writers : Pending(w) =>
       /\ writer[w].value \in (1..records) \ Meter!Recorded
       /\ \A u \in Writers \ {w} : Pending(u) => writer[u].value # writer[w].value

\* What snapshots have added of a writer: the histogram that is not active,
\* and of the active one, what was there before the present snapshot, once it
\* was exchanged.
Added ==
  /\ \A w \in Writers :
       IF Doing(w, Flipping)
       THEN before \cap Meter!BagToSet(histograms[w].bags[histograms[w].active]) \subseteq Meter!BagToSet(total)
       ELSE Meter!BagToSet(histograms[w].bags[Meter!Other(histograms[w].active)]) \subseteq Meter!BagToSet(total)
  /\ \A r \in Readers : reader[r].at # "idle" =>
       \A w \in Writers \ reader[r].todo : before \cap Held(w) \subseteq Meter!BagToSet(total)

\* Events that wait to be counted, and threads that have not marked theirs yet.
Uncounted == {p \in Writers \X (1..MaxRecords) : p[2] <= uncounted[p[1]]}
Busy == {w \in Writers : writer[w].at # "idle"}
Rated ==
  /\ uncounted \in [Writers -> 0..MaxRecords] /\ counted \in Nat
  /\ counted + Cardinality(Uncounted) = records - Cardinality(Busy)


-----------------------------------------------------------------------------
\* The histograms of HdrHistogram: adding one to another, and a value to one.
LEMMA Adding ==
  ASSUME NEW a \in Histograms, NEW b \in Histograms
  PROVE  Meter!hdr_add(a, b) \in Histograms /\ Meter!BagToSet(Meter!hdr_add(a, b)) = Meter!BagToSet(a) \cup Meter!BagToSet(b)
<1>1. PICK S \in SUBSET (1..MaxRecords) : a \in [S -> Nat]
  BY DEF Histograms
<1>2. PICK T \in SUBSET (1..MaxRecords) : b \in [T -> Nat]
  BY DEF Histograms
<1>3. Meter!hdr_add(a, b) = [e \in S \cup T |-> (IF e \in S THEN a[e] ELSE 0) + (IF e \in T THEN b[e] ELSE 0)]
  BY <1>1, <1>2 DEF Meter!hdr_add, Meter!(+)
<1>4. ASSUME NEW e \in S \cup T
      PROVE  (IF e \in S THEN a[e] ELSE 0) + (IF e \in T THEN b[e] ELSE 0) \in Nat
  BY <1>1, <1>2
<1>5. Meter!hdr_add(a, b) \in [S \cup T -> Nat]
  BY <1>3, <1>4
<1>6. S \cup T \in SUBSET (1..MaxRecords)
  OBVIOUS
<1>7. Meter!hdr_add(a, b) \in Histograms
  BY <1>5, <1>6 DEF Histograms
<1> QED
  BY <1>1, <1>2, <1>5, <1>7 DEF Meter!BagToSet

\* A latency that is recorded is in the histogram after it.
LEMMA Recording ==
  ASSUME NEW a \in Histograms, NEW v \in 1..MaxRecords
  PROVE  /\ Meter!hdr_record_value(a, v) \in Histograms
         /\ Meter!BagToSet(Meter!hdr_record_value(a, v)) = Meter!BagToSet(a) \cup {v}
<1>1. Meter!SetToBag({v}) \in [{v} -> Nat] /\ {v} \in SUBSET (1..MaxRecords)
  BY DEF Meter!SetToBag
<1>2. Meter!SetToBag({v}) \in Histograms /\ Meter!BagToSet(Meter!SetToBag({v})) = {v}
  BY <1>1 DEF Histograms, Meter!BagToSet
<1>3. Meter!hdr_record_value(a, v) = Meter!hdr_add(a, Meter!SetToBag({v}))
  BY DEF Meter!hdr_record_value, Meter!hdr_add
<1> QED
  BY <1>2, <1>3, Adding

\* A histogram of no value.
LEMMA NoValue == Meter!EmptyBag \in Histograms /\ Meter!BagToSet(Meter!EmptyBag) = {}
<1>1. Meter!EmptyBag \in [{} -> Nat] /\ {} \in SUBSET (1..MaxRecords)
  BY DEF Meter!EmptyBag, Meter!SetToBag
<1> QED
  BY <1>1 DEF Histograms, Meter!BagToSet

\* The other of two histograms.
LEMMA Others == ASSUME NEW i \in {1, 2}
                PROVE  Meter!Other(i) \in {1, 2} /\ Meter!Other(i) # i /\ Meter!Other(Meter!Other(i)) = i
                       /\ {1, 2} = {i, Meter!Other(i)}
BY DEF Meter!Other

-----------------------------------------------------------------------------
(* What each step changes, field by field. *)

\* The fields of the records.
LEMMA FieldTypes ==
  ASSUME MeterTyped
  PROVE  /\ \A w \in Writers :
              /\ histograms[w].bags \in [{1, 2} -> Histograms] /\ histograms[w].active \in {1, 2}
              /\ epochs[w].start \in Int /\ epochs[w].even \in Int /\ epochs[w].odd \in Int
              /\ writer[w].at \in {"idle", "mark", "tick"} \cup Inside /\ writer[w].enter \in Int
              /\ writer[w].index \in {0, 1, 2} /\ writer[w].value \in Nat /\ writer[w].todo \subseteq Writers
         /\ \A r \in Readers :
              /\ reader[r].at \in {"idle", "next"} \cup Flipping /\ reader[r].todo \subseteq Writers
              /\ reader[r].of \in Writers \cup {Meter!NoOne} /\ reader[r].from \in {0, 1, 2}
              /\ reader[r].even \in BOOLEAN /\ reader[r].flip \in Int
BY DEF MeterTyped, Pairs, Epochs, WriterStates, ReaderStates

\* A thread enters the critical section: it has a number, the start epoch one more.
LEMMA EnterStep ==
  ASSUME Meter!MetricsAssumption, MeterTyped, NEW w \in Writers, Meter!writer_critical_section_enter(w)
  PROVE  /\ MeterTyped' /\ records' = records + 1 /\ records \in Nat
         /\ writer[w].at = "idle" /\ writer'[w].at = "entered"
         /\ writer'[w].enter = epochs[w].start /\ writer'[w].value = records + 1
         /\ epochs'[w].start = epochs[w].start + 1
         /\ epochs'[w].even = epochs[w].even /\ epochs'[w].odd = epochs[w].odd
         /\ \A u \in Writers \ {w} : writer'[u] = writer[u] /\ epochs'[u] = epochs[u]
         /\ UNCHANGED <<histograms, reader, mutex, total, before, uncounted, counted>>
<1> DEFINE s == [at |-> "entered", enter |-> epochs[w].start, index |-> 0, value |-> records + 1, todo |-> {}]
           e == [epochs[w] EXCEPT !.start = epochs[w].start + 1]
<1>1. /\ writer[w].at = "idle" /\ records < MaxRecords /\ records' = records + 1
      /\ writer' = [writer EXCEPT ![w] = s] /\ epochs' = [epochs EXCEPT ![w] = e]
      /\ UNCHANGED <<histograms, reader, mutex, total, before, uncounted, counted>>
  BY DEF Meter!writer_critical_section_enter
<1>2. records \in Nat /\ records' \in 0..MaxRecords
  BY <1>1 DEF MeterTyped, Meter!MetricsAssumption
<1>3. s \in WriterStates
  BY <1>2, FieldTypes DEF WriterStates, Inside
<1>4. /\ e \in Epochs /\ e.start = epochs[w].start + 1
      /\ e.even = epochs[w].even /\ e.odd = epochs[w].odd
  BY FieldTypes DEF MeterTyped, Epochs
<1>5. s.at = "entered" /\ s.enter = epochs[w].start /\ s.value = records + 1
  OBVIOUS
<1> HIDE DEF s, e
<1>6. writer' \in [Writers -> WriterStates] /\ epochs' \in [Writers -> Epochs]
      /\ writer'[w] = s /\ epochs'[w] = e
      /\ \A u \in Writers \ {w} : writer'[u] = writer[u] /\ epochs'[u] = epochs[u]
  BY <1>1, <1>3, <1>4 DEF MeterTyped
<1>7. MeterTyped'
  BY <1>1, <1>2, <1>6 DEF MeterTyped
<1> QED
  BY <1>1, <1>2, <1>4, <1>5, <1>6, <1>7

\* A thread goes on in record_request; s is its new state.
LEMMA WriterGoes ==
  ASSUME MeterTyped, NEW w \in Writers, NEW s \in WriterStates, writer' = [writer EXCEPT ![w] = s]
  PROVE  /\ writer' \in [Writers -> WriterStates] /\ writer'[w] = s
         /\ \A u \in Writers \ {w} : writer'[u] = writer[u]
BY DEF MeterTyped

\* It loads which histogram is active.
LEMMA LoadStep ==
  ASSUME MeterTyped, NEW w \in Writers, Meter!LoadActive(w)
  PROVE  /\ MeterTyped' /\ writer[w].at = "entered" /\ writer'[w].at = "record"
         /\ writer'[w].index = histograms[w].active
         /\ writer'[w].enter = writer[w].enter /\ writer'[w].value = writer[w].value
         /\ \A u \in Writers \ {w} : writer'[u] = writer[u]
         /\ UNCHANGED <<histograms, epochs, reader, mutex, total, before, uncounted, counted, records>>
<1> DEFINE s == [writer[w] EXCEPT !.at = "record", !.index = histograms[w].active]
<1>1. /\ writer[w].at = "entered" /\ writer' = [writer EXCEPT ![w] = s]
      /\ UNCHANGED <<histograms, epochs, reader, mutex, total, before, uncounted, counted, records>>
  BY DEF Meter!LoadActive, MeterTyped, WriterStates
<1>2. /\ s \in WriterStates /\ s.at = "record" /\ s.index = histograms[w].active
      /\ s.enter = writer[w].enter /\ s.value = writer[w].value
  <2>1. writer[w] \in WriterStates /\ histograms[w].active \in {0, 1, 2}
    BY FieldTypes DEF MeterTyped
  <2> QED
    BY <2>1 DEF WriterStates, Inside
<1> HIDE DEF s
<1>3. MeterTyped'
  BY <1>1, <1>2, WriterGoes DEF MeterTyped
<1> QED
  BY <1>1, <1>2, <1>3, WriterGoes

\* It records its value into the histogram that it loaded.
LEMMA RecordStep ==
  ASSUME MeterTyped, NEW w \in Writers, Meter!RecordValue(w), writer[w].index \in {1, 2},
         writer[w].value \in 1..MaxRecords
  PROVE  /\ MeterTyped' /\ writer[w].at = "record" /\ writer'[w].at = "recorded"
         /\ writer'[w].index = writer[w].index /\ writer'[w].enter = writer[w].enter
         /\ \A u \in Writers \ {w} : writer'[u] = writer[u] /\ histograms'[u] = histograms[u]
         /\ histograms'[w].active = histograms[w].active
         /\ Meter!BagToSet(histograms'[w].bags[writer[w].index])
              = Meter!BagToSet(histograms[w].bags[writer[w].index]) \cup {writer[w].value}
         /\ histograms'[w].bags[Meter!Other(writer[w].index)] = histograms[w].bags[Meter!Other(writer[w].index)]
         /\ UNCHANGED <<epochs, reader, mutex, total, before, uncounted, counted, records>>
<1> DEFINE i == writer[w].index
           b == Meter!hdr_record_value(histograms[w].bags[i], writer[w].value)
           s == [writer[w] EXCEPT !.at = "recorded"]
           h == [histograms[w] EXCEPT !.bags = [histograms[w].bags EXCEPT ![i] = b]]
<1>1. histograms[w].bags \in [{1, 2} -> Histograms] /\ histograms[w].active \in {1, 2}
      /\ histograms[w] \in Pairs /\ writer[w] \in WriterStates
  BY FieldTypes DEF MeterTyped
<1>2. b \in Histograms /\ Meter!BagToSet(b) = Meter!BagToSet(histograms[w].bags[i]) \cup {writer[w].value}
  BY <1>1, Recording
<1>3. /\ writer[w].at = "record" /\ writer' = [writer EXCEPT ![w] = s]
      /\ histograms' = [histograms EXCEPT ![w] = h]
      /\ UNCHANGED <<epochs, reader, mutex, total, before, uncounted, counted, records>>
  BY DEF Meter!RecordValue
<1>4. /\ s \in WriterStates /\ s.at = "recorded" /\ s.index = i /\ s.enter = writer[w].enter
  BY <1>1 DEF WriterStates, Inside
<1> HIDE DEF s
<1>5. h \in Pairs /\ h.active = histograms[w].active /\ h.bags[i] = b
      /\ h.bags[Meter!Other(i)] = histograms[w].bags[Meter!Other(i)]
  <2> HIDE DEF b
  <2>1. Meter!Other(i) \in {1, 2} /\ Meter!Other(i) # i
    BY Others
  <2> DEFINE g == [histograms[w].bags EXCEPT ![i] = b]
  <2>2. g \in [{1, 2} -> Histograms] /\ g[i] = b /\ g[Meter!Other(i)] = histograms[w].bags[Meter!Other(i)]
    BY <1>1, <1>2, <2>1
  <2> HIDE DEF g
  <2>3. [histograms[w] EXCEPT !.bags = g] \in Pairs
        /\ [histograms[w] EXCEPT !.bags = g].active = histograms[w].active
        /\ [histograms[w] EXCEPT !.bags = g].bags = g
    BY <1>1, <2>2 DEF Pairs
  <2> QED
    BY <2>2, <2>3 DEF g
<1> HIDE DEF h, b
<1>6. histograms' \in [Writers -> Pairs] /\ histograms'[w] = h
      /\ \A u \in Writers \ {w} : histograms'[u] = histograms[u]
  BY <1>3, <1>5 DEF MeterTyped
<1>7. MeterTyped'
  BY <1>3, <1>4, <1>6, WriterGoes DEF MeterTyped
<1> QED
  BY <1>2, <1>3, <1>4, <1>5, <1>6, <1>7, WriterGoes

\* It leaves the critical section: the end epoch of the phase it came in with.
LEMMA EndStep ==
  ASSUME MeterTyped, NEW w \in Writers, Meter!writer_critical_section_end(w)
  PROVE  /\ MeterTyped' /\ writer[w].at = "recorded" /\ writer'[w].at = "mark"
         /\ \A u \in Writers \ {w} : writer'[u] = writer[u] /\ epochs'[u] = epochs[u]
         /\ epochs'[w].start = epochs[w].start
         /\ writer[w].enter < 0 =>
              epochs'[w].odd = epochs[w].odd + 1 /\ epochs'[w].even = epochs[w].even
         /\ ~(writer[w].enter < 0) =>
              epochs'[w].even = epochs[w].even + 1 /\ epochs'[w].odd = epochs[w].odd
         /\ UNCHANGED <<histograms, reader, mutex, total, before, uncounted, counted, records>>
<1> DEFINE s == [writer[w] EXCEPT !.at = "mark"]
           o == [epochs[w] EXCEPT !.odd = epochs[w].odd + 1]
           e == [epochs[w] EXCEPT !.even = epochs[w].even + 1]
<1>1. writer[w] \in WriterStates /\ epochs[w] \in Epochs
  BY DEF MeterTyped
<1>2. /\ writer[w].at = "recorded" /\ writer' = [writer EXCEPT ![w] = s]
      /\ writer[w].enter < 0 => epochs' = [epochs EXCEPT ![w] = o]
      /\ ~(writer[w].enter < 0) => epochs' = [epochs EXCEPT ![w] = e]
      /\ UNCHANGED <<histograms, reader, mutex, total, before, uncounted, counted, records>>
  BY DEF Meter!writer_critical_section_end
<1>3. s \in WriterStates /\ s.at = "mark"
  BY <1>1 DEF WriterStates
<1>4. /\ o \in Epochs /\ o.start = epochs[w].start /\ o.even = epochs[w].even /\ o.odd = epochs[w].odd + 1
      /\ e \in Epochs /\ e.start = epochs[w].start /\ e.odd = epochs[w].odd /\ e.even = epochs[w].even + 1
  BY <1>1 DEF Epochs
<1> HIDE DEF s, o, e
<1>5. CASE writer[w].enter < 0
  <2>1. epochs' \in [Writers -> Epochs] /\ epochs'[w] = o
        /\ \A u \in Writers \ {w} : epochs'[u] = epochs[u]
    BY <1>2, <1>4, <1>5 DEF MeterTyped
  <2>2. MeterTyped'
    BY <1>2, <1>3, <2>1, WriterGoes DEF MeterTyped
  <2> QED
    BY <1>2, <1>3, <1>4, <1>5, <2>1, <2>2, WriterGoes
<1>6. CASE ~(writer[w].enter < 0)
  <2>1. epochs' \in [Writers -> Epochs] /\ epochs'[w] = e
        /\ \A u \in Writers \ {w} : epochs'[u] = epochs[u]
    BY <1>2, <1>4, <1>6 DEF MeterTyped
  <2>2. MeterTyped'
    BY <1>2, <1>3, <2>1, WriterGoes DEF MeterTyped
  <2> QED
    BY <1>2, <1>3, <1>4, <1>6, <2>1, <2>2, WriterGoes
<1> QED
  BY <1>5, <1>6

\* It marks the rates; these steps are outside of the critical section.
LEMMA MarkStep ==
  ASSUME MeterTyped, NEW w \in Writers, NEW ticks \in BOOLEAN,
         Meter!Mark(w, ticks) \/ Meter!Update(w) \/ \E other \in Writers : Meter!sum_and_reset(w, other)
  PROVE  /\ MeterTyped' /\ writer[w].at \in {"mark", "tick"} /\ writer'[w].at \in {"tick", "idle"}
         /\ Meter!Update(w) => writer'[w].at = "idle"
         /\ ~Meter!Update(w) => writer'[w].at = "tick"
         /\ \A u \in Writers \ {w} : writer'[u] = writer[u]
         /\ UNCHANGED <<histograms, epochs, reader, mutex, total, before, records>>
<1>1. writer[w] \in WriterStates /\ writer[w].todo \subseteq Writers
  BY FieldTypes DEF MeterTyped
<1>2. CASE Meter!Mark(w, ticks)
  <2> DEFINE todo == IF ticks THEN Writers ELSE {}
             s == [writer[w] EXCEPT !.at = "tick", !.todo = todo]
  <2>1. /\ writer[w].at = "mark" /\ writer' = [writer EXCEPT ![w] = s]
        /\ UNCHANGED <<histograms, epochs, reader, mutex, total, before, records>>
    BY <1>2 DEF Meter!Mark, MeterTyped, WriterStates
  <2>2. todo \in SUBSET Writers
    OBVIOUS
  <2> HIDE DEF todo
  <2>3. s \in WriterStates /\ s.at = "tick"
    BY <1>1, <2>2 DEF WriterStates
  <2> HIDE DEF s
  <2>4. MeterTyped'
    BY <2>1, <2>3, WriterGoes DEF MeterTyped
  <2>5. ~Meter!Update(w)
    BY <2>1 DEF Meter!Update
  <2> QED
    BY <2>1, <2>3, <2>4, <2>5, WriterGoes
<1>3. CASE Meter!Update(w)
  <2> DEFINE s == [writer[w] EXCEPT !.at = "idle"]
  <2>1. /\ writer[w].at = "tick" /\ writer' = [writer EXCEPT ![w] = s]
        /\ UNCHANGED <<histograms, epochs, reader, mutex, total, before, records>>
    BY <1>3 DEF Meter!Update
  <2>2. s \in WriterStates /\ s.at = "idle"
    BY <1>1 DEF WriterStates
  <2> HIDE DEF s
  <2>3. MeterTyped'
    BY <2>1, <2>2, WriterGoes DEF MeterTyped
  <2> QED
    BY <1>3, <2>1, <2>2, <2>3, WriterGoes
<1>4. CASE \E other \in Writers : Meter!sum_and_reset(w, other)
  <2>1. PICK other \in Writers : Meter!sum_and_reset(w, other)
    BY <1>4
  <2> DEFINE s == [writer[w] EXCEPT !.todo = writer[w].todo \ {other}]
  <2>2. /\ writer[w].at = "tick" /\ writer' = [writer EXCEPT ![w] = s] /\ writer[w].todo # {}
        /\ UNCHANGED <<histograms, epochs, reader, mutex, total, before, records>>
    BY <2>1 DEF Meter!sum_and_reset
  <2>3. s \in WriterStates /\ s.at = "tick"
    BY <1>1, <2>2 DEF WriterStates
  <2> HIDE DEF s
  <2>4. MeterTyped'
    BY <2>2, <2>3, WriterGoes DEF MeterTyped
  <2>5. ~Meter!Update(w)
    BY <2>2 DEF Meter!Update
  <2> QED
    BY <2>2, <2>3, <2>4, <2>5, WriterGoes
<1> QED
  BY <1>2, <1>3, <1>4

\* A reader goes on in get_snapshot; s is its new state.
LEMMA ReaderGoes ==
  ASSUME MeterTyped, NEW r \in Readers, NEW s \in ReaderStates, Meter!Only(r, s)
  PROVE  /\ reader' \in [Readers -> ReaderStates] /\ reader'[r] = s
         /\ \A u \in Readers \ {r} : reader'[u] = reader[u]
BY DEF MeterTyped, Meter!Only

\* It takes the mutex and has all histograms to add.
LEMMA LockStep ==
  ASSUME MeterTyped, NEW r \in Readers, Meter!Lock(r)
  PROVE  /\ MeterTyped' /\ mutex = Meter!NoOne /\ mutex' = r /\ before' = Meter!Recorded
         /\ reader[r].at = "idle" /\ reader'[r].at = "next" /\ reader'[r].todo = Writers
         /\ \A u \in Readers \ {r} : reader'[u] = reader[u]
         /\ UNCHANGED <<histograms, epochs, writer, total, uncounted, counted, records>>
<1> DEFINE s == [reader[r] EXCEPT !.at = "next", !.todo = Writers]
<1>1. /\ reader[r].at = "idle" /\ mutex = Meter!NoOne /\ mutex' = r /\ before' = Meter!Recorded /\ Meter!Only(r, s)
      /\ UNCHANGED <<histograms, epochs, writer, total, uncounted, counted, records>>
  BY DEF Meter!Lock, Meter!At
<1>2. s \in ReaderStates /\ s.at = "next" /\ s.todo = Writers
  BY DEF MeterTyped, ReaderStates
<1> HIDE DEF s
<1>3. MeterTyped'
  BY <1>1, <1>2, ReaderGoes DEF MeterTyped
<1> QED
  BY <1>1, <1>2, <1>3, ReaderGoes

\* It exchanges the active histogram of a writer.
LEMMA ExchangeStep ==
  ASSUME MeterTyped, NEW r \in Readers, NEW w \in Writers, Meter!Exchange(r, w)
  PROVE  /\ MeterTyped' /\ reader[r].at = "next" /\ reader'[r].at = "phase" /\ reader'[r].of = w
         /\ w \in reader[r].todo /\ reader'[r].todo = reader[r].todo
         /\ reader'[r].from = histograms[w].active
         /\ histograms'[w].active = Meter!Other(histograms[w].active)
         /\ histograms'[w].bags = histograms[w].bags
         /\ \A u \in Writers \ {w} : histograms'[u] = histograms[u]
         /\ \A u \in Readers \ {r} : reader'[u] = reader[u]
         /\ UNCHANGED <<epochs, writer, mutex, total, before, uncounted, counted, records>>
<1> DEFINE s == [reader[r] EXCEPT !.at = "phase", !.of = w, !.from = histograms[w].active]
           h == [histograms[w] EXCEPT !.active = Meter!Other(histograms[w].active)]
<1>1. reader[r] \in ReaderStates /\ histograms[w] \in Pairs /\ histograms[w].active \in {1, 2}
  BY FieldTypes DEF MeterTyped
<1>2. /\ reader[r].at = "next" /\ w \in reader[r].todo /\ Meter!Only(r, s)
      /\ histograms' = [histograms EXCEPT ![w] = h]
      /\ UNCHANGED <<epochs, writer, mutex, total, before, uncounted, counted, records>>
  BY DEF Meter!Exchange, Meter!At
<1>3. /\ s \in ReaderStates /\ s.at = "phase" /\ s.of = w /\ s.todo = reader[r].todo
      /\ s.from = histograms[w].active
  BY <1>1 DEF ReaderStates, Flipping
<1>4. /\ h \in Pairs /\ h.active = Meter!Other(histograms[w].active) /\ h.bags = histograms[w].bags
  BY <1>1, Others DEF Pairs
<1> HIDE DEF s, h
<1>5. histograms' \in [Writers -> Pairs] /\ histograms'[w] = h
      /\ \A u \in Writers \ {w} : histograms'[u] = histograms[u]
  BY <1>2, <1>4 DEF MeterTyped
<1>6. MeterTyped'
  BY <1>2, <1>3, <1>5, ReaderGoes DEF MeterTyped
<1> QED
  BY <1>2, <1>3, <1>4, <1>5, <1>6, ReaderGoes

\* It sets the end epoch of the next phase back.
LEMMA NextPhaseStep ==
  ASSUME MeterTyped, NEW r \in Readers, Meter!NextPhase(r), NEW w \in Writers, reader[r].of = w
  PROVE  /\ MeterTyped' /\ reader[r].at = "phase" /\ reader'[r].at = "flip"
         /\ reader'[r].of = w /\ reader'[r].from = reader[r].from /\ reader'[r].todo = reader[r].todo
         /\ reader'[r].even <=> Phase(w)
         /\ epochs'[w].start = epochs[w].start
         /\ Phase(w) => epochs'[w].even = 0 /\ epochs'[w].odd = epochs[w].odd
         /\ ~Phase(w) => epochs'[w].odd = Meter!INT64_MIN /\ epochs'[w].even = epochs[w].even
         /\ \A u \in Writers \ {w} : epochs'[u] = epochs[u]
         /\ \A u \in Readers \ {r} : reader'[u] = reader[u]
         /\ UNCHANGED <<histograms, writer, mutex, total, before, uncounted, counted, records>>
<1> DEFINE even == epochs[w].start < 0
           s == [reader[r] EXCEPT !.at = "flip", !.even = even]
           e == [epochs[w] EXCEPT !.even = 0]
           o == [epochs[w] EXCEPT !.odd = Meter!INT64_MIN]
<1>1. reader[r] \in ReaderStates /\ epochs[w] \in Epochs
  BY DEF MeterTyped
<1>2. /\ reader[r].at = "phase" /\ Meter!Only(r, s)
      /\ even => epochs' = [epochs EXCEPT ![w] = e]
      /\ ~even => epochs' = [epochs EXCEPT ![w] = o]
      /\ UNCHANGED <<histograms, writer, mutex, total, before, uncounted, counted, records>>
  BY DEF Meter!NextPhase, Meter!At
<1>3. even \in BOOLEAN /\ (Phase(w) <=> even)
  BY DEF Phase
<1> HIDE DEF even
<1>4. /\ s \in ReaderStates /\ s.at = "flip" /\ s.of = reader[r].of /\ s.from = reader[r].from
      /\ s.todo = reader[r].todo /\ s.even = even
  BY <1>1, <1>3 DEF ReaderStates, Flipping
<1>5. /\ e \in Epochs /\ e.start = epochs[w].start /\ e.even = 0 /\ e.odd = epochs[w].odd
      /\ o \in Epochs /\ o.start = epochs[w].start /\ o.odd = Meter!INT64_MIN /\ o.even = epochs[w].even
  BY <1>1 DEF Epochs, Meter!INT64_MIN
<1> HIDE DEF s, e, o
<1>6. /\ reader' \in [Readers -> ReaderStates] /\ reader'[r] = s
      /\ \A u \in Readers \ {r} : reader'[u] = reader[u]
  BY <1>2, <1>4, ReaderGoes
<1>7. CASE even
  <2>1. epochs' \in [Writers -> Epochs] /\ epochs'[w] = e
        /\ \A u \in Writers \ {w} : epochs'[u] = epochs[u]
    BY <1>2, <1>5, <1>7 DEF MeterTyped
  <2>2. MeterTyped'
    BY <1>2, <1>6, <2>1 DEF MeterTyped
  <2> QED
    BY <1>2, <1>3, <1>4, <1>5, <1>6, <1>7, <2>1, <2>2
<1>8. CASE ~even
  <2>1. epochs' \in [Writers -> Epochs] /\ epochs'[w] = o
        /\ \A u \in Writers \ {w} : epochs'[u] = epochs[u]
    BY <1>2, <1>5, <1>8 DEF MeterTyped
  <2>2. MeterTyped'
    BY <1>2, <1>6, <2>1 DEF MeterTyped
  <2> QED
    BY <1>2, <1>3, <1>4, <1>5, <1>6, <1>8, <2>1, <2>2
<1> QED
  BY <1>7, <1>8

\* It begins the next phase and keeps the last start epoch.
LEMMA FlipStep ==
  ASSUME MeterTyped, NEW r \in Readers, Meter!FlipPhase(r), NEW w \in Writers, reader[r].of = w
  PROVE  /\ MeterTyped' /\ reader[r].at = "flip" /\ reader'[r].at = "wait"
         /\ reader'[r].of = w /\ reader'[r].from = reader[r].from /\ reader'[r].todo = reader[r].todo
         /\ reader'[r].even = reader[r].even /\ reader'[r].flip = epochs[w].start
         /\ epochs'[w].start = (IF reader[r].even THEN 0 ELSE Meter!INT64_MIN)
         /\ epochs'[w].even = epochs[w].even /\ epochs'[w].odd = epochs[w].odd
         /\ \A u \in Writers \ {w} : epochs'[u] = epochs[u]
         /\ \A u \in Readers \ {r} : reader'[u] = reader[u]
         /\ UNCHANGED <<histograms, writer, mutex, total, before, uncounted, counted, records>>
<1> DEFINE n == IF reader[r].even THEN 0 ELSE Meter!INT64_MIN
           s == [reader[r] EXCEPT !.at = "wait", !.flip = epochs[w].start]
           e == [epochs[w] EXCEPT !.start = n]
<1>1. reader[r] \in ReaderStates /\ epochs[w] \in Epochs /\ n \in Int
  BY DEF MeterTyped, Meter!INT64_MIN
<1>2. /\ reader[r].at = "flip" /\ Meter!Only(r, s) /\ epochs' = [epochs EXCEPT ![w] = e]
      /\ UNCHANGED <<histograms, writer, mutex, total, before, uncounted, counted, records>>
  BY DEF Meter!FlipPhase, Meter!At
<1> HIDE DEF n
<1>3. /\ s \in ReaderStates /\ s.at = "wait" /\ s.of = reader[r].of /\ s.from = reader[r].from
      /\ s.todo = reader[r].todo /\ s.even = reader[r].even /\ s.flip = epochs[w].start
  BY <1>1 DEF ReaderStates, Flipping, Epochs
<1>4. e \in Epochs /\ e.start = n /\ e.even = epochs[w].even /\ e.odd = epochs[w].odd
  BY <1>1 DEF Epochs
<1> HIDE DEF s, e
<1>5. /\ reader' \in [Readers -> ReaderStates] /\ reader'[r] = s
      /\ \A u \in Readers \ {r} : reader'[u] = reader[u]
  BY <1>2, <1>3, ReaderGoes
<1>6. epochs' \in [Writers -> Epochs] /\ epochs'[w] = e
      /\ \A u \in Writers \ {w} : epochs'[u] = epochs[u]
  BY <1>2, <1>4 DEF MeterTyped
<1>7. MeterTyped'
  BY <1>2, <1>5, <1>6 DEF MeterTyped
<1> QED
  BY <1>2, <1>3, <1>4, <1>5, <1>6, <1>7 DEF n

\* The writers of the last phase have gone.
LEMMA CaughtUpStep ==
  ASSUME MeterTyped, NEW r \in Readers, Meter!CaughtUp(r), NEW w \in Writers, reader[r].of = w
  PROVE  /\ MeterTyped' /\ reader[r].at = "wait" /\ reader'[r].at = "add"
         /\ reader'[r].of = w /\ reader'[r].from = reader[r].from /\ reader'[r].todo = reader[r].todo
         /\ Ended(w, reader[r].even) = reader[r].flip
         /\ \A u \in Readers \ {r} : reader'[u] = reader[u]
         /\ UNCHANGED <<histograms, epochs, writer, mutex, total, before, uncounted, counted, records>>
<1> DEFINE s == [reader[r] EXCEPT !.at = "add"]
<1>1. reader[r] \in ReaderStates /\ s \in ReaderStates /\ s.at = "add" /\ s.of = reader[r].of
      /\ s.from = reader[r].from /\ s.todo = reader[r].todo
  BY DEF MeterTyped, ReaderStates, Flipping
<1>2. /\ reader[r].at = "wait" /\ Meter!Only(r, s) /\ Ended(w, reader[r].even) = reader[r].flip
      /\ UNCHANGED <<histograms, epochs, writer, mutex, total, before, uncounted, counted, records>>
  BY DEF Meter!CaughtUp, Meter!At, Ended
<1> HIDE DEF s
<1>3. MeterTyped'
  BY <1>1, <1>2, ReaderGoes DEF MeterTyped
<1> QED
  BY <1>1, <1>2, <1>3, ReaderGoes

\* It adds the histogram that it exchanged.
LEMMA AddStep ==
  ASSUME MeterTyped, NEW r \in Readers, Meter!Add(r), NEW w \in Writers, reader[r].of = w, reader[r].from \in {1, 2}
  PROVE  /\ MeterTyped' /\ reader[r].at = "add" /\ reader'[r].at = "next"
         /\ reader'[r].todo = reader[r].todo \ {w} /\ reader'[r].of = Meter!NoOne
         /\ Meter!BagToSet(total') = Meter!BagToSet(total) \cup Meter!BagToSet(histograms[w].bags[reader[r].from])
         /\ \A u \in Readers \ {r} : reader'[u] = reader[u]
         /\ UNCHANGED <<histograms, epochs, writer, mutex, before, uncounted, counted, records>>
<1> DEFINE s == [reader[r] EXCEPT !.at = "next", !.todo = reader[r].todo \ {w}, !.of = Meter!NoOne]
           b == Meter!hdr_add(total, histograms[w].bags[reader[r].from])
<1>1. reader[r] \in ReaderStates /\ s \in ReaderStates /\ s.at = "next" /\ s.of = Meter!NoOne
      /\ s.todo = reader[r].todo \ {w}
  BY DEF MeterTyped, ReaderStates
<1>2. /\ reader[r].at = "add" /\ Meter!Only(r, s) /\ total' = b
      /\ UNCHANGED <<histograms, epochs, writer, mutex, before, uncounted, counted, records>>
  BY DEF Meter!Add, Meter!At
<1>3. b \in Histograms /\ Meter!BagToSet(b) = Meter!BagToSet(total) \cup Meter!BagToSet(histograms[w].bags[reader[r].from])
  <2>1. histograms[w].bags[reader[r].from] \in Histograms /\ total \in Histograms
    BY FieldTypes DEF MeterTyped
  <2> QED
    BY <2>1, Adding
<1> HIDE DEF s, b
<1>4. MeterTyped'
  BY <1>1, <1>2, <1>3, ReaderGoes DEF MeterTyped
<1> QED
  BY <1>1, <1>2, <1>3, <1>4, ReaderGoes

\* It gives the mutex back.
LEMMA UnlockStep ==
  ASSUME MeterTyped, NEW r \in Readers, Meter!Unlock(r)
  PROVE  /\ MeterTyped' /\ mutex' = Meter!NoOne /\ reader[r].at = "next" /\ reader'[r].at = "idle"
         /\ \A u \in Readers \ {r} : reader'[u] = reader[u]
         /\ UNCHANGED <<histograms, epochs, writer, total, before, uncounted, counted, records>>
<1> DEFINE s == [reader[r] EXCEPT !.at = "idle"]
<1>1. s \in ReaderStates /\ s.at = "idle"
  BY DEF MeterTyped, ReaderStates
<1>2. /\ reader[r].at = "next" /\ Meter!Only(r, s) /\ mutex' = Meter!NoOne
      /\ UNCHANGED <<histograms, epochs, writer, total, before, uncounted, counted, records>>
  BY DEF Meter!Unlock, Meter!At
<1> HIDE DEF s
<1>3. MeterTyped'
  BY <1>1, <1>2, ReaderGoes DEF MeterTyped
<1> QED
  BY <1>1, <1>2, <1>3, ReaderGoes

-----------------------------------------------------------------------------
(* The invariant, one lemma for each step. *)

Safe == MeterTyped /\ Locked /\ Phased /\ Kept /\ Added

\* The fields of a phase, as a statement without records.
LEMMA Phases ==
  ASSUME MeterTyped, NEW w \in Writers
  PROVE  /\ Phase(w) \in BOOLEAN
         /\ \A odd \in BOOLEAN : Ended(w, odd) \in Int /\ InPhase(w, odd) \in BOOLEAN
                                 /\ Present(w, odd) = (IF InPhase(w, odd) THEN 1 ELSE 0)
         /\ Ended(w, TRUE) = epochs[w].odd /\ Ended(w, FALSE) = epochs[w].even
         /\ ~(InPhase(w, TRUE) /\ InPhase(w, FALSE))
         /\ writer[w].at \in Inside => InPhase(w, TRUE) \/ InPhase(w, FALSE)
BY FieldTypes DEF Phase, Ended, InPhase, Present

\* A thread that enters is in the phase that is on.
LEMMA EnterInv ==
  ASSUME Meter!MetricsAssumption, Safe, NEW w \in Writers, Meter!writer_critical_section_enter(w)
  PROVE  Safe'
<1>1. /\ MeterTyped /\ MeterTyped' /\ records' = records + 1 /\ records \in Nat /\ records' \in 0..MaxRecords
      /\ writer[w].at = "idle" /\ writer'[w].at = "entered"
      /\ writer'[w].enter = epochs[w].start /\ writer'[w].value = records + 1
      /\ epochs'[w].start = epochs[w].start + 1
      /\ epochs'[w].even = epochs[w].even /\ epochs'[w].odd = epochs[w].odd
      /\ \A u \in Writers \ {w} : writer'[u] = writer[u] /\ epochs'[u] = epochs[u]
      /\ UNCHANGED <<histograms, reader, mutex, total, before>>
  BY EnterStep DEF Safe, MeterTyped
<1>2. Locked'
  BY <1>1 DEF Safe, Locked
<1>3. /\ epochs[w].start \in Int /\ (epochs[w].start \in 0..records \/ epochs[w].start - Meter!INT64_MIN \in 0..records)
      /\ Ended(w, Phase(w)) + Present(w, Phase(w)) = epochs[w].start
      /\ epochs[w].odd \in Int /\ epochs[w].even \in Int
  BY FieldTypes DEF Safe, Phased, Balanced
<1>4. (Phase(w)' <=> Phase(w))
      /\ (epochs'[w].start \in 0..records' \/ epochs'[w].start - Meter!INT64_MIN \in 0..records')
  BY <1>1, <1>3 DEF Phase, Meter!MetricsAssumption, Meter!INT64_MIN
<1>5. /\ ~InPhase(w, TRUE) /\ ~InPhase(w, FALSE)
      /\ InPhase(w, Phase(w))' /\ ~InPhase(w, ~Phase(w))'
  BY <1>1, <1>4 DEF InPhase, Phase, Inside
<1>6. /\ Present(w, Phase(w)) = 0 /\ Present(w, ~Phase(w)) = 0
      /\ Present(w, Phase(w))' = 1 /\ Present(w, ~Phase(w))' = 0
  BY <1>1, <1>5 DEF Present, InPhase, Inside
<1>7. /\ Ended(w, Phase(w))' = Ended(w, Phase(w)) /\ Ended(w, ~Phase(w))' = Ended(w, ~Phase(w))
  BY <1>1, <1>4 DEF Ended
<1>8. Phased'
  <2>1. Balanced(w)'
    <3>1. Ended(w, Phase(w)) \in Int
      BY <1>3 DEF Ended
    <3>2. (Ended(w, Phase(w)) + Present(w, Phase(w)) = epochs[w].start)'
      BY <1>1, <1>3, <1>6, <1>7, <3>1
    <3> QED
      BY <1>4, <1>5, <3>2 DEF Balanced
  <2>2. Indexed(w)'
    BY <1>1 DEF Indexed
  <2>3. ASSUME NEW u \in Writers \ {w}
        PROVE  Balanced(u)' /\ Indexed(u)'
    <3>1. Balanced(u) /\ Indexed(u) /\ epochs[u].start \in Int
      BY FieldTypes DEF Safe, Phased
    <3>2. epochs[u].start \in 0..records' \/ epochs[u].start - Meter!INT64_MIN \in 0..records'
      BY <1>1, <3>1 DEF Balanced, Meter!INT64_MIN
    <3> QED
      BY <1>1, <3>1, <3>2 DEF Balanced, Indexed, Ended, Present, InPhase, Phase, Doing
  <2>4. ASSUME NEW r \in Readers
        PROVE  Flips(r)'
    <3>1. Flips(r) /\ (reader[r].at \in {"flip", "wait"} => reader[r].of \in Writers)
      BY DEF Safe, Phased, Locked, Flipping
    <3>2. CASE reader[r].of = w
      BY <1>1, <1>4, <1>6, <1>7, <3>1, <3>2 DEF Flips
    <3>3. CASE reader[r].of # w
      BY <1>1, <3>1, <3>3 DEF Flips, Ended, Present, InPhase, Phase
    <3> QED
      BY <3>2, <3>3
  <2> QED
    BY <2>1, <2>2, <2>3, <2>4 DEF Phased
<1>9. Kept'
  <2>1. Meter!Recorded' = Meter!Recorded /\ Meter!Recorded \subseteq 1..records
    BY <1>1 DEF Meter!Recorded, Safe, Kept
  <2>2. \A u \in Writers \ {w} : Pending(u)' => Pending(u) /\ writer[u].value \in (1..records) \ Meter!Recorded
    BY <1>1 DEF Pending, Safe, Kept
  <2>3. \A u \in Writers \ {w} : Pending(u)' => writer'[u].value \in 1..records /\ writer'[u].value \notin Meter!Recorded
                                              /\ writer'[u].value # records + 1
    BY <1>1, <2>2
  <2>4. records + 1 \in (1..(records + 1)) \ Meter!Recorded
    BY <1>1, <2>1
  <2>5. 1..records \subseteq 1..(records + 1)
    BY <1>1
  <2>6. \A u, v \in Writers \ {w} : Pending(u)' /\ Pending(v)' /\ u # v => writer'[u].value # writer'[v].value
    BY <1>1 DEF Pending, Safe, Kept
  <2> QED
    BY <1>1, <2>1, <2>3, <2>4, <2>5, <2>6 DEF Kept, Safe
<1>10. Added'
  BY <1>1 DEF Safe, Added, Doing, Held
<1> QED
  BY <1>1, <1>2, <1>8, <1>9, <1>10 DEF Safe

\* A thread that loads the active histogram has it.
LEMMA LoadInv ==
  ASSUME Safe, NEW w \in Writers, Meter!LoadActive(w)
  PROVE  Safe'
<1>1. /\ MeterTyped /\ MeterTyped' /\ writer[w].at = "entered" /\ writer'[w].at = "record"
      /\ writer'[w].index = histograms[w].active
      /\ writer'[w].enter = writer[w].enter /\ writer'[w].value = writer[w].value
      /\ \A u \in Writers \ {w} : writer'[u] = writer[u]
      /\ UNCHANGED <<histograms, epochs, reader, mutex, total, before, records>>
  BY LoadStep DEF Safe
<1>2. histograms[w].active \in {1, 2}
  BY <1>1, FieldTypes
<1>3. Locked'
  BY <1>1 DEF Safe, Locked
<1>4. ASSUME NEW u \in Writers
      PROVE  /\ Phase(u)' <=> Phase(u)
             /\ InPhase(u, Phase(u))' <=> InPhase(u, Phase(u))
             /\ InPhase(u, ~Phase(u))' <=> InPhase(u, ~Phase(u))
             /\ Present(u, Phase(u))' = Present(u, Phase(u))
             /\ Present(u, ~Phase(u))' = Present(u, ~Phase(u))
             /\ Ended(u, Phase(u))' = Ended(u, Phase(u)) /\ Ended(u, ~Phase(u))' = Ended(u, ~Phase(u))
  BY <1>1 DEF InPhase, Ended, Present, Phase, Inside
<1>5. Phased'
  <2>1. ASSUME NEW u \in Writers
        PROVE  Balanced(u)' /\ Indexed(u)'
    <3>1. Balanced(u)'
      BY <1>1, <1>4 DEF Safe, Phased, Balanced, Doing
    <3>2. CASE u = w
      BY <1>1, <1>2, <3>1, <3>2 DEF Indexed
    <3>3. CASE u # w
      BY <1>1, <1>4, <3>1, <3>3 DEF Safe, Phased, Indexed, Doing
    <3> QED
      BY <3>2, <3>3, <3>1
  <2>2. ASSUME NEW r \in Readers
        PROVE  Flips(r)'
    BY <1>1, <1>4 DEF Safe, Phased, Flips, Locked, Flipping
  <2> QED
    BY <2>1, <2>2 DEF Phased
<1>6. Kept'
  <2>1. \A u \in Writers : (Pending(u)' <=> Pending(u)) /\ writer'[u].value = writer[u].value
    BY <1>1 DEF Pending
  <2> QED
    BY <1>1, <2>1 DEF Safe, Kept, Meter!Recorded
<1>7. Added'
  BY <1>1 DEF Safe, Added, Doing, Held
<1> QED
  BY <1>1, <1>3, <1>5, <1>6, <1>7 DEF Safe

\* What a thread records is new, and it records into the active histogram
\* while no reader works on the other.
LEMMA RecordInv ==
  ASSUME Meter!MetricsAssumption, Safe, NEW w \in Writers, Meter!RecordValue(w)
  PROVE  Safe'
<1>1. /\ MeterTyped /\ writer[w].at = "record" /\ Pending(w) /\ writer[w].index \in {1, 2}
      /\ writer[w].value \in (1..records) \ Meter!Recorded /\ records \in 0..MaxRecords
  BY DEF Meter!RecordValue, Safe, MeterTyped, Phased, Indexed, Kept, Pending
<1>2. writer[w].value \in 1..MaxRecords
  BY <1>1 DEF Meter!MetricsAssumption
<1>3. /\ MeterTyped' /\ writer'[w].at = "recorded"
      /\ writer'[w].index = writer[w].index /\ writer'[w].enter = writer[w].enter
      /\ \A u \in Writers \ {w} : writer'[u] = writer[u] /\ histograms'[u] = histograms[u]
      /\ histograms'[w].active = histograms[w].active
      /\ Meter!BagToSet(histograms'[w].bags[writer[w].index])
           = Meter!BagToSet(histograms[w].bags[writer[w].index]) \cup {writer[w].value}
      /\ histograms'[w].bags[Meter!Other(writer[w].index)] = histograms[w].bags[Meter!Other(writer[w].index)]
      /\ UNCHANGED <<epochs, reader, mutex, total, before, records>>
  BY <1>1, <1>2, RecordStep
<1>4. Held(w)' = Held(w) \cup {writer[w].value}
  <2>1. CASE writer[w].index = 1
    BY <1>3, <2>1 DEF Held, Meter!Other
  <2>2. CASE writer[w].index = 2
    BY <1>3, <2>2 DEF Held, Meter!Other
  <2> QED
    BY <1>1, <2>1, <2>2
<1>5. \A u \in Writers \ {w} : Held(u)' = Held(u)
  BY <1>3 DEF Held
<1>6. Meter!Recorded' = Meter!Recorded \cup {writer[w].value}
  <2>1. Meter!Recorded = UNION {Held(u) : u \in Writers}
    BY DEF Meter!Recorded, Held
  <2>2. Meter!Recorded' = UNION {Held(u)' : u \in Writers}
    BY DEF Meter!Recorded, Held
  <2> QED
    BY <1>4, <1>5, <2>1, <2>2
<1>7. Locked'
  BY <1>3 DEF Safe, Locked
<1>8. ASSUME NEW u \in Writers
      PROVE  /\ Phase(u)' <=> Phase(u)
             /\ InPhase(u, Phase(u))' <=> InPhase(u, Phase(u))
             /\ InPhase(u, ~Phase(u))' <=> InPhase(u, ~Phase(u))
             /\ Present(u, Phase(u))' = Present(u, Phase(u))
             /\ Present(u, ~Phase(u))' = Present(u, ~Phase(u))
             /\ Ended(u, Phase(u))' = Ended(u, Phase(u)) /\ Ended(u, ~Phase(u))' = Ended(u, ~Phase(u))
             /\ histograms'[u].active = histograms[u].active /\ writer'[u].index = writer[u].index
  BY <1>1, <1>3 DEF InPhase, Ended, Present, Phase, Inside
<1>9. Phased'
  <2>1. ASSUME NEW u \in Writers
        PROVE  Balanced(u)' /\ Indexed(u)'
    <3>1. Balanced(u)'
      BY <1>3, <1>8 DEF Safe, Phased, Balanced, Doing
    <3>2. writer'[u].at \in {"record", "recorded"} => writer[u].at \in {"record", "recorded"}
      BY <1>1, <1>3
    <3>3. \A ats : Doing(u, ats)' <=> Doing(u, ats)
      BY <1>3 DEF Doing
    <3> QED
      BY <1>8, <3>1, <3>2, <3>3 DEF Safe, Phased, Indexed
  <2>2. ASSUME NEW r \in Readers
        PROVE  Flips(r)'
    BY <1>3, <1>8 DEF Safe, Phased, Flips, Locked, Flipping
  <2> QED
    BY <2>1, <2>2 DEF Phased
<1>10. Kept'
  <2>1. \A u \in Writers : Pending(u)' => u # w /\ Pending(u) /\ writer'[u] = writer[u]
    BY <1>3 DEF Pending
  <2>2. \A u \in Writers \ {w} : Pending(u) => writer[u].value # writer[w].value
    BY <1>1 DEF Safe, Kept
  <2>3. Meter!Recorded' \subseteq 1..records
    BY <1>1, <1>6 DEF Safe, Kept
  <2>4. Meter!BagToSet(total) \subseteq Meter!Recorded' /\ before \subseteq Meter!Recorded'
    BY <1>6 DEF Safe, Kept
  <2> QED
    BY <1>3, <1>6, <2>1, <2>2, <2>3, <2>4 DEF Safe, Kept
<1>11. Added'
  <2>1. writer[w].value \notin before
    BY <1>1 DEF Safe, Kept
  <2>2. ASSUME NEW u \in Writers
        PROVE  IF Doing(u, Flipping)'
               THEN before \cap Meter!BagToSet(histograms'[u].bags[histograms'[u].active]) \subseteq Meter!BagToSet(total)
               ELSE Meter!BagToSet(histograms'[u].bags[Meter!Other(histograms'[u].active)]) \subseteq Meter!BagToSet(total)
    <3>1. \A ats : Doing(u, ats)' <=> Doing(u, ats)
      BY <1>3 DEF Doing
    <3>2. IF Doing(u, Flipping)
          THEN before \cap Meter!BagToSet(histograms[u].bags[histograms[u].active]) \subseteq Meter!BagToSet(total)
          ELSE Meter!BagToSet(histograms[u].bags[Meter!Other(histograms[u].active)]) \subseteq Meter!BagToSet(total)
      BY DEF Safe, Added
    <3>3. CASE u # w
      BY <1>3, <3>1, <3>2, <3>3
    <3>4. CASE u = w /\ Doing(w, Flipping)
      <4>1. histograms[w].active \in {1, 2}
        BY <1>1, FieldTypes
      <4>2. CASE histograms[w].active = writer[w].index
        BY <1>3, <2>1, <3>1, <3>2, <3>4, <4>2
      <4>3. CASE histograms[w].active = Meter!Other(writer[w].index)
        BY <1>3, <3>1, <3>2, <3>4, <4>3
      <4> QED
        BY <1>1, <4>1, <4>2, <4>3, Others
    <3>5. CASE u = w /\ ~Doing(w, Flipping)
      <4>1. ~Doing(w, {"wait"}) /\ ~Doing(w, {"phase", "flip"})
        BY <3>5 DEF Doing, Flipping
      <4>2. InPhase(w, Phase(w))
        BY <1>1, <4>1 DEF Safe, Phased, Balanced, InPhase, Inside, Phase
      <4>3. writer[w].index = histograms[w].active
        BY <1>1, <4>1, <4>2 DEF Safe, Phased, Indexed
      <4> QED
        BY <1>3, <3>1, <3>2, <3>5, <4>3
    <3> QED
      BY <3>3, <3>4, <3>5
  <2>3. \A u \in Writers : before \cap Held(u)' = before \cap Held(u)
    BY <1>4, <1>5, <2>1
  <2>4. \A r \in Readers : reader'[r].at # "idle" =>
          \A u \in Writers \ reader'[r].todo : before \cap Held(u)' \subseteq Meter!BagToSet(total)
    BY <1>3, <2>3 DEF Safe, Added
  <2> QED
    BY <1>3, <2>2, <2>4 DEF Added
<1> QED
  BY <1>3, <1>7, <1>9, <1>10, <1>11 DEF Safe

\* A thread that leaves is counted in the phase it came in with.
LEMMA EndInv ==
  ASSUME Safe, NEW w \in Writers, Meter!writer_critical_section_end(w)
  PROVE  Safe'
<1>1. /\ MeterTyped /\ MeterTyped' /\ writer[w].at = "recorded" /\ writer'[w].at = "mark"
      /\ \A u \in Writers \ {w} : writer'[u] = writer[u] /\ epochs'[u] = epochs[u]
      /\ epochs'[w].start = epochs[w].start
      /\ writer[w].enter < 0 =>
           epochs'[w].odd = epochs[w].odd + 1 /\ epochs'[w].even = epochs[w].even
      /\ ~(writer[w].enter < 0) =>
           epochs'[w].even = epochs[w].even + 1 /\ epochs'[w].odd = epochs[w].odd
      /\ UNCHANGED <<histograms, reader, mutex, total, before, records>>
  BY EndStep DEF Safe
<1>2. Locked'
  BY <1>1 DEF Safe, Locked
<1>3. /\ epochs[w].odd \in Int /\ epochs[w].even \in Int /\ epochs[w].start \in Int
  BY <1>1, FieldTypes
<1>4. /\ Phase(w)' <=> Phase(w)
      /\ ~InPhase(w, Phase(w))' /\ ~InPhase(w, ~Phase(w))'
      /\ Present(w, Phase(w))' = 0 /\ Present(w, ~Phase(w))' = 0
  BY <1>1 DEF Phase, InPhase, Present, Inside
<1>5. ASSUME InPhase(w, Phase(w))
      PROVE  Balanced(w)' /\ \A r \in Readers : reader[r].of = w => Flips(r)'
  <2>1. /\ Present(w, Phase(w)) = 1 /\ Present(w, ~Phase(w)) = 0
        /\ Phase(w) <=> writer[w].enter < 0
    BY <1>5 DEF Present, InPhase, Phase
  <2>2. Ended(w, Phase(w))' = Ended(w, Phase(w)) + 1 /\ Ended(w, ~Phase(w))' = Ended(w, ~Phase(w))
    <3>1. CASE writer[w].enter < 0
      BY <1>1, <1>4, <2>1, <3>1 DEF Ended
    <3>2. CASE ~(writer[w].enter < 0)
      BY <1>1, <1>4, <2>1, <3>2 DEF Ended
    <3> QED
      BY <3>1, <3>2
  <2>3. Balanced(w)'
    <3>1. Ended(w, Phase(w)) \in Int
      BY <1>3 DEF Ended
    <3>2. (Ended(w, Phase(w)) + Present(w, Phase(w)) = epochs[w].start)'
      <4>1. Ended(w, Phase(w)) + Present(w, Phase(w)) = epochs[w].start
        BY DEF Safe, Phased, Balanced
      <4> QED
        BY <1>1, <1>3, <1>4, <2>1, <2>2, <3>1, <4>1
    <3>3. epochs'[w].start \in 0..records' \/ epochs'[w].start - Meter!INT64_MIN \in 0..records'
      BY <1>1 DEF Safe, Phased, Balanced
    <3> QED
      BY <1>4, <3>2, <3>3 DEF Balanced
  <2>4. \A r \in Readers : reader[r].of = w => Flips(r)'
    <3> SUFFICES ASSUME NEW r \in Readers, reader[r].of = w PROVE Flips(r)'
      OBVIOUS
    <3>1. Flips(r)
      BY DEF Safe, Phased
    <3> QED
      BY <1>1, <1>4, <2>1, <2>2, <3>1 DEF Flips
  <2> QED
    BY <2>3, <2>4
<1>6. ASSUME ~InPhase(w, Phase(w))
      PROVE  Balanced(w)' /\ \A r \in Readers : reader[r].of = w => Flips(r)'
  <2>1. InPhase(w, ~Phase(w))
    BY <1>1, <1>6 DEF InPhase, Inside, Phase
  <2>2. /\ Present(w, Phase(w)) = 0 /\ Present(w, ~Phase(w)) = 1
        /\ ~Phase(w) <=> writer[w].enter < 0
    BY <1>6, <2>1 DEF Present, InPhase, Phase
  <2>3. Ended(w, Phase(w))' = Ended(w, Phase(w)) /\ Ended(w, ~Phase(w))' = Ended(w, ~Phase(w)) + 1
    <3>1. CASE writer[w].enter < 0
      BY <1>1, <1>4, <2>2, <3>1 DEF Ended
    <3>2. CASE ~(writer[w].enter < 0)
      BY <1>1, <1>4, <2>2, <3>2 DEF Ended
    <3> QED
      BY <3>1, <3>2
  <2>4. Balanced(w)'
    <3>1. (Ended(w, Phase(w)) + Present(w, Phase(w)) = epochs[w].start)'
      BY <1>1, <1>4, <2>2, <2>3 DEF Safe, Phased, Balanced
    <3>2. epochs'[w].start \in 0..records' \/ epochs'[w].start - Meter!INT64_MIN \in 0..records'
      BY <1>1 DEF Safe, Phased, Balanced
    <3> QED
      BY <1>4, <3>1, <3>2 DEF Balanced
  <2>5. \A r \in Readers : reader[r].of = w => Flips(r)'
    <3> SUFFICES ASSUME NEW r \in Readers, reader[r].of = w PROVE Flips(r)'
      OBVIOUS
    <3>1. Flips(r)
      BY DEF Safe, Phased
    <3>2. Doing(w, {"wait"})
      BY <2>1 DEF Safe, Phased, Balanced
    <3>3. reader[r].at # "flip"
      BY <3>2 DEF Doing, Safe, Locked
    <3>4. Ended(w, ~Phase(w)) \in Int
      BY <1>3 DEF Ended
    <3>5. reader[r].at = "wait" => (Ended(w, ~Phase(w)) + Present(w, ~Phase(w)) = reader[r].flip)'
      <4>1. reader[r].at = "wait" => Ended(w, ~Phase(w)) + 1 = reader[r].flip
        BY <2>2, <3>1 DEF Flips
      <4> QED
        BY <1>1, <1>4, <2>3, <3>4, <4>1
    <3> QED
      BY <1>1, <1>4, <3>1, <3>3, <3>5 DEF Flips
  <2> QED
    BY <2>4, <2>5
<1>7. Phased'
  <2>1. ASSUME NEW u \in Writers \ {w}
        PROVE  /\ Balanced(u)' /\ Indexed(u)'
               /\ Phase(u)' <=> Phase(u)
               /\ Present(u, ~Phase(u))' = Present(u, ~Phase(u))
               /\ Ended(u, ~Phase(u))' = Ended(u, ~Phase(u))
    BY <1>1 DEF Safe, Phased, Balanced, Indexed, Ended, Present, InPhase, Phase, Doing
  <2>2. Balanced(w)' /\ Indexed(w)'
    BY <1>1, <1>5, <1>6 DEF Indexed
  <2>3. ASSUME NEW r \in Readers, reader[r].of # w
        PROVE  Flips(r)'
    BY <1>1, <2>1, <2>3 DEF Safe, Phased, Flips, Locked, Flipping
  <2> QED
    BY <1>5, <1>6, <2>1, <2>2, <2>3 DEF Phased
<1>8. Kept'
  <2>1. \A u \in Writers : Pending(u)' => u # w /\ Pending(u) /\ writer'[u] = writer[u]
    BY <1>1 DEF Pending
  <2> QED
    BY <1>1, <2>1 DEF Safe, Kept, Meter!Recorded
<1>9. Added'
  BY <1>1 DEF Safe, Added, Doing, Held
<1> QED
  BY <1>1, <1>2, <1>7, <1>8, <1>9 DEF Safe

\* Outside of the critical section a thread is not seen by readers.
LEMMA MarkInv ==
  ASSUME Safe, NEW w \in Writers, NEW ticks \in BOOLEAN,
         Meter!Mark(w, ticks) \/ Meter!Update(w) \/ \E other \in Writers : Meter!sum_and_reset(w, other)
  PROVE  Safe'
<1>1. /\ MeterTyped /\ MeterTyped' /\ writer[w].at \in {"mark", "tick"} /\ writer'[w].at \in {"tick", "idle"}
      /\ \A u \in Writers \ {w} : writer'[u] = writer[u]
      /\ UNCHANGED <<histograms, epochs, reader, mutex, total, before, records>>
  BY MarkStep DEF Safe
<1>2. Locked'
  BY <1>1 DEF Safe, Locked
<1>3. ASSUME NEW u \in Writers
      PROVE  /\ Phase(u)' <=> Phase(u)
             /\ InPhase(u, Phase(u))' <=> InPhase(u, Phase(u))
             /\ InPhase(u, ~Phase(u))' <=> InPhase(u, ~Phase(u))
             /\ Present(u, Phase(u))' = Present(u, Phase(u))
             /\ Present(u, ~Phase(u))' = Present(u, ~Phase(u))
             /\ Ended(u, Phase(u))' = Ended(u, Phase(u)) /\ Ended(u, ~Phase(u))' = Ended(u, ~Phase(u))
  BY <1>1 DEF InPhase, Ended, Present, Phase, Inside
<1>4. Phased'
  <2>1. ASSUME NEW u \in Writers
        PROVE  Balanced(u)' /\ Indexed(u)'
    <3>1. Balanced(u)'
      BY <1>1, <1>3 DEF Safe, Phased, Balanced, Doing
    <3>2. u # w => Indexed(u)'
      BY <1>1, <1>3 DEF Safe, Phased, Indexed, Doing
    <3>3. u = w => Indexed(u)'
      BY <1>1 DEF Indexed
    <3> QED
      BY <3>1, <3>2, <3>3
  <2>2. ASSUME NEW r \in Readers
        PROVE  Flips(r)'
    BY <1>1, <1>3 DEF Safe, Phased, Flips, Locked, Flipping
  <2> QED
    BY <2>1, <2>2 DEF Phased
<1>5. Kept'
  <2>1. \A u \in Writers : Pending(u)' => u # w /\ Pending(u) /\ writer'[u] = writer[u]
    BY <1>1 DEF Pending
  <2> QED
    BY <1>1, <2>1 DEF Safe, Kept, Meter!Recorded
<1>6. Added'
  BY <1>1 DEF Safe, Added, Doing, Held
<1> QED
  BY <1>1, <1>2, <1>4, <1>5, <1>6 DEF Safe

\* While a reader has the mutex, or takes it, the others are idle.
LEMMA OthersIdle ==
  ASSUME Meter!MetricsAssumption, Locked, NEW r \in Readers, mutex = Meter!NoOne \/ reader[r].at # "idle"
  PROVE  \A u \in Readers \ {r} : reader[u].at = "idle"
BY DEF Locked, Meter!MetricsAssumption

\* Then what is done with a histogram is what this reader does.
LEMMA Does ==
  ASSUME NEW r \in Readers, \A u \in Readers \ {r} : reader[u].at = "idle" /\ reader'[u] = reader[u],
         NEW w, NEW ats, "idle" \notin ats
  PROVE  /\ Doing(w, ats) <=> reader[r].at \in ats /\ reader[r].of = w
         /\ Doing(w, ats)' <=> reader'[r].at \in ats /\ reader'[r].of = w
BY DEF Doing

\* The phases of a writer, when neither it nor its epochs change.
LEMMA SamePhases ==
  ASSUME NEW w \in Writers, writer'[w] = writer[w], epochs'[w] = epochs[w]
  PROVE  /\ Phase(w)' <=> Phase(w)
         /\ InPhase(w, Phase(w))' <=> InPhase(w, Phase(w))
         /\ InPhase(w, ~Phase(w))' <=> InPhase(w, ~Phase(w))
         /\ Present(w, Phase(w))' = Present(w, Phase(w))
         /\ Present(w, ~Phase(w))' = Present(w, ~Phase(w))
         /\ Ended(w, Phase(w))' = Ended(w, Phase(w)) /\ Ended(w, ~Phase(w))' = Ended(w, ~Phase(w))
BY DEF InPhase, Ended, Present, Phase

\* The next snapshot has everything that is recorded by now to add.
LEMMA LockInv ==
  ASSUME Meter!MetricsAssumption, Safe, NEW r \in Readers, Meter!Lock(r)
  PROVE  Safe'
<1>1. /\ MeterTyped /\ MeterTyped' /\ mutex = Meter!NoOne /\ mutex' = r /\ before' = Meter!Recorded
      /\ reader[r].at = "idle" /\ reader'[r].at = "next" /\ reader'[r].todo = Writers
      /\ \A u \in Readers \ {r} : reader'[u] = reader[u]
      /\ UNCHANGED <<histograms, epochs, writer, total, records>>
  BY LockStep DEF Safe
<1>2. \A u \in Readers : reader[u].at = "idle"
  BY <1>1, OthersIdle DEF Safe
<1>3. Locked'
  BY <1>1, <1>2 DEF Locked, Flipping
<1>4. \A w, ats : "idle" \notin ats /\ "next" \notin ats => ~Doing(w, ats) /\ ~Doing(w, ats)'
  BY <1>1, <1>2 DEF Doing
<1>5. Phased'
  <2>1. ASSUME NEW w \in Writers
        PROVE  Balanced(w)' /\ Indexed(w)'
    <3>1. Balanced(w) /\ Indexed(w)
      BY DEF Safe, Phased
    <3>2. ~Doing(w, {"wait"}) /\ ~Doing(w, {"wait"})'
          /\ ~Doing(w, {"phase", "flip"}) /\ ~Doing(w, {"phase", "flip"})'
      BY <1>4
    <3> QED
      BY <1>1, <3>1, <3>2, SamePhases DEF Balanced, Indexed
  <2>2. ASSUME NEW u \in Readers
        PROVE  Flips(u)'
    BY <1>1, <1>2 DEF Flips
  <2> QED
    BY <2>1, <2>2 DEF Phased
<1>6. Kept'
  BY <1>1 DEF Safe, Kept, Meter!Recorded, Pending
<1>7. Added'
  <2>1. \A w \in Writers : ~Doing(w, Flipping) /\ ~Doing(w, Flipping)'
    BY <1>4 DEF Flipping
  <2> QED
    BY <1>1, <1>2, <2>1 DEF Safe, Added
<1> QED
  BY <1>1, <1>3, <1>5, <1>6, <1>7 DEF Safe

\* The histogram that is active now was added the last time.
LEMMA ExchangeInv ==
  ASSUME Meter!MetricsAssumption, Safe, NEW r \in Readers, NEW w \in Writers, Meter!Exchange(r, w)
  PROVE  Safe'
<1>1. /\ MeterTyped /\ MeterTyped' /\ reader[r].at = "next" /\ reader'[r].at = "phase" /\ reader'[r].of = w
      /\ w \in reader[r].todo /\ reader'[r].todo = reader[r].todo
      /\ reader'[r].from = histograms[w].active
      /\ histograms'[w].active = Meter!Other(histograms[w].active)
      /\ histograms'[w].bags = histograms[w].bags
      /\ \A u \in Writers \ {w} : histograms'[u] = histograms[u]
      /\ \A u \in Readers \ {r} : reader'[u] = reader[u]
      /\ UNCHANGED <<epochs, writer, mutex, total, before, records>>
  BY ExchangeStep DEF Safe
<1>2. \A u \in Readers \ {r} : reader[u].at = "idle" /\ reader'[u] = reader[u]
  BY <1>1, OthersIdle DEF Safe
<1>3. histograms[w].active \in {1, 2}
  BY <1>1, FieldTypes
<1>4. Locked'
  BY <1>1, <1>2, <1>3 DEF Safe, Locked, Flipping
<1>5. /\ \A u : ~Doing(u, {"wait"}) /\ ~Doing(u, {"wait"})' /\ ~Doing(u, Flipping)
      /\ \A u : Doing(u, {"phase", "flip"})' <=> u = w
      /\ \A u : Doing(u, {"phase", "flip"}) <=> FALSE
      /\ \A u : Doing(u, Flipping)' <=> u = w
  BY <1>1, <1>2, Does DEF Flipping
<1>6. Phased'
  <2>1. ASSUME NEW u \in Writers
        PROVE  Balanced(u)' /\ Indexed(u)'
    <3>1. Balanced(u) /\ Indexed(u)
      BY DEF Safe, Phased
    <3>2. Balanced(u)'
      BY <1>1, <1>5, <3>1, SamePhases DEF Balanced
    <3>3. Indexed(u)'
      BY <1>1, <1>5, <3>1, SamePhases DEF Indexed
    <3> QED
      BY <3>2, <3>3
  <2>2. ASSUME NEW u \in Readers
        PROVE  Flips(u)'
    BY <1>1, <1>2 DEF Flips
  <2> QED
    BY <2>1, <2>2 DEF Phased
<1>7. \A u \in Writers : histograms'[u].bags = histograms[u].bags
  BY <1>1
<1>8. Kept'
  BY <1>1, <1>7 DEF Safe, Kept, Meter!Recorded, Pending
<1>9. Added'
  <2>1. ASSUME NEW u \in Writers
        PROVE  IF Doing(u, Flipping)'
               THEN before \cap Meter!BagToSet(histograms'[u].bags[histograms'[u].active]) \subseteq Meter!BagToSet(total)
               ELSE Meter!BagToSet(histograms'[u].bags[Meter!Other(histograms'[u].active)]) \subseteq Meter!BagToSet(total)
    <3>1. Meter!BagToSet(histograms[u].bags[Meter!Other(histograms[u].active)]) \subseteq Meter!BagToSet(total)
      BY <1>5 DEF Safe, Added
    <3>2. CASE u = w
      BY <1>1, <1>5, <3>1, <3>2
    <3>3. CASE u # w
      BY <1>1, <1>5, <3>1, <3>3
    <3> QED
      BY <3>2, <3>3
  <2>2. \A u \in Writers : Held(u)' = Held(u)
    BY <1>7 DEF Held
  <2> QED
    BY <1>1, <1>2, <2>1, <2>2 DEF Safe, Added
<1> QED
  BY <1>1, <1>4, <1>6, <1>8, <1>9 DEF Safe

\* While a reader works on one histogram, up to adding it.
LEMMA FlippingOn ==
  ASSUME Meter!MetricsAssumption, Safe, NEW r \in Readers, NEW w \in Writers,
         reader[r].at \in Flipping, reader[r].of = w, reader'[r].at \in Flipping,
         reader'[r].of = w, reader'[r].from = reader[r].from, reader'[r].todo = reader[r].todo,
         \A u \in Readers \ {r} : reader'[u] = reader[u],
         UNCHANGED <<histograms, writer, mutex, total, before, records>>
  PROVE  Locked' /\ Kept' /\ Added'
<1>1. reader[r].at # "idle" /\ reader'[r].at # "idle"
  BY DEF Flipping
<1>2. \A u \in Readers \ {r} : reader[u].at = "idle" /\ reader'[u] = reader[u]
  BY <1>1, OthersIdle DEF Safe
<1>3. Locked'
  BY <1>1, <1>2 DEF Safe, Locked
<1>4. Kept'
  BY DEF Safe, Kept, Meter!Recorded, Pending
<1>5. Added'
  <2>1. \A u : Doing(u, Flipping)' <=> Doing(u, Flipping)
    BY <1>2, Does DEF Flipping
  <2> QED
    BY <1>1, <1>2, <2>1 DEF Safe, Added, Held
<1> QED
  BY <1>3, <1>4, <1>5

\* The end epoch that is set back is that of a phase nobody is in.
LEMMA NextPhaseInv ==
  ASSUME Meter!MetricsAssumption, Safe, NEW r \in Readers, Meter!NextPhase(r)
  PROVE  Safe'
<1>1. reader[r].at = "phase" /\ reader[r].of \in Writers
  BY DEF Meter!NextPhase, Meter!At, Safe, Locked, Flipping
<1>2. PICK w \in Writers : reader[r].of = w
  BY <1>1
<1>3. /\ MeterTyped /\ MeterTyped' /\ reader'[r].at = "flip"
      /\ reader'[r].of = w /\ reader'[r].from = reader[r].from /\ reader'[r].todo = reader[r].todo
      /\ reader'[r].even <=> Phase(w)
      /\ epochs'[w].start = epochs[w].start
      /\ Phase(w) => epochs'[w].even = 0 /\ epochs'[w].odd = epochs[w].odd
      /\ ~Phase(w) => epochs'[w].odd = Meter!INT64_MIN /\ epochs'[w].even = epochs[w].even
      /\ \A u \in Writers \ {w} : epochs'[u] = epochs[u]
      /\ \A u \in Readers \ {r} : reader'[u] = reader[u]
      /\ UNCHANGED <<histograms, writer, mutex, total, before, records>>
  BY <1>2, NextPhaseStep DEF Safe
<1>4. Locked' /\ Kept' /\ Added'
  BY <1>1, <1>2, <1>3, FlippingOn DEF Flipping
<1>5. \A u \in Readers \ {r} : reader[u].at = "idle" /\ reader'[u] = reader[u]
  BY <1>1, <1>3, OthersIdle DEF Safe
<1>6. \A u : /\ ~Doing(u, {"wait"}) /\ ~Doing(u, {"wait"})'
             /\ Doing(u, {"phase", "flip"})' <=> Doing(u, {"phase", "flip"})
  BY <1>1, <1>2, <1>3, <1>5, Does
<1>7. /\ Phase(w)' <=> Phase(w)
      /\ InPhase(w, Phase(w))' <=> InPhase(w, Phase(w))
      /\ InPhase(w, ~Phase(w))' <=> InPhase(w, ~Phase(w))
      /\ Present(w, Phase(w))' = Present(w, Phase(w))
      /\ Ended(w, Phase(w))' = Ended(w, Phase(w))
      /\ Ended(w, ~Phase(w))' = (IF Phase(w) THEN 0 ELSE Meter!INT64_MIN)
  BY <1>3 DEF Phase, InPhase, Present, Ended
<1>8. Phased'
  <2>1. Balanced(w)' /\ Indexed(w)'
    BY <1>3, <1>6, <1>7 DEF Safe, Phased, Balanced, Indexed
  <2>2. ASSUME NEW u \in Writers \ {w}
        PROVE  Balanced(u)' /\ Indexed(u)'
    <3>1. Balanced(u) /\ Indexed(u)
      BY DEF Safe, Phased
    <3>2. epochs'[u] = epochs[u] /\ writer'[u] = writer[u]
      BY <1>3
    <3> QED
      BY <1>3, <1>6, <3>1, <3>2, SamePhases DEF Balanced, Indexed
  <2>3. ASSUME NEW u \in Readers
        PROVE  Flips(u)'
    BY <1>3, <1>5, <1>7 DEF Flips
  <2> QED
    BY <2>1, <2>2, <2>3 DEF Phased
<1> QED
  BY <1>3, <1>4, <1>8 DEF Safe

\* The next phase begins with nobody in it; the last one is what the reader
\* waits for.
LEMMA FlipInv ==
  ASSUME Meter!MetricsAssumption, Safe, NEW r \in Readers, Meter!FlipPhase(r)
  PROVE  Safe'
<1>1. reader[r].at = "flip" /\ reader[r].of \in Writers
  BY DEF Meter!FlipPhase, Meter!At, Safe, Locked, Flipping
<1>2. PICK w \in Writers : reader[r].of = w
  BY <1>1
<1>3. /\ MeterTyped /\ MeterTyped' /\ reader'[r].at = "wait"
      /\ reader'[r].of = w /\ reader'[r].from = reader[r].from /\ reader'[r].todo = reader[r].todo
      /\ reader'[r].even = reader[r].even /\ reader'[r].flip = epochs[w].start
      /\ epochs'[w].start = (IF reader[r].even THEN 0 ELSE Meter!INT64_MIN)
      /\ epochs'[w].even = epochs[w].even /\ epochs'[w].odd = epochs[w].odd
      /\ \A u \in Writers \ {w} : epochs'[u] = epochs[u]
      /\ \A u \in Readers \ {r} : reader'[u] = reader[u]
      /\ UNCHANGED <<histograms, writer, mutex, total, before, records>>
  BY <1>2, FlipStep DEF Safe
<1>4. Locked' /\ Kept' /\ Added'
  BY <1>1, <1>2, <1>3, FlippingOn DEF Flipping
<1>5. \A u \in Readers \ {r} : reader[u].at = "idle" /\ reader'[u] = reader[u]
  BY <1>1, <1>3, OthersIdle DEF Safe
<1>6. \A u : /\ ~Doing(u, {"wait"}) /\ (Doing(u, {"wait"})' <=> u = w)
             /\ Doing(u, {"phase", "flip"}) <=> u = w
             /\ ~Doing(u, {"phase", "flip"})'
  BY <1>1, <1>2, <1>3, <1>5, Does
<1>7. /\ reader[r].even <=> Phase(w)
      /\ Ended(w, ~Phase(w)) = (IF Phase(w) THEN 0 ELSE Meter!INT64_MIN)
      /\ Ended(w, Phase(w)) + Present(w, Phase(w)) = epochs[w].start
      /\ ~InPhase(w, ~Phase(w))
  BY <1>1, <1>2, <1>6 DEF Safe, Phased, Balanced, Flips
<1>8. Phase(w)' <=> ~Phase(w)
  BY <1>3, <1>7 DEF Phase, Meter!INT64_MIN
<1>9. /\ InPhase(w, Phase(w))' <=> InPhase(w, ~Phase(w))
      /\ Present(w, Phase(w))' = Present(w, ~Phase(w))
      /\ Present(w, ~Phase(w))' = Present(w, Phase(w))
      /\ Ended(w, Phase(w))' = Ended(w, ~Phase(w))
      /\ Ended(w, ~Phase(w))' = Ended(w, Phase(w))
  BY <1>3, <1>8 DEF InPhase, Present, Ended
<1>10. Phased'
  <2>1. Balanced(w)'
    <3>1. epochs'[w].start \in 0..records' \/ epochs'[w].start - Meter!INT64_MIN \in 0..records'
      BY <1>3 DEF Meter!INT64_MIN, Safe, MeterTyped
    <3>2. Present(w, ~Phase(w)) = 0
      BY <1>7 DEF Present
    <3>3. Ended(w, ~Phase(w)) = epochs'[w].start /\ epochs'[w].start \in Int
      BY <1>3, <1>7 DEF Meter!INT64_MIN
    <3>4. (Ended(w, Phase(w)) + Present(w, Phase(w)) = epochs[w].start)'
      BY <1>9, <3>2, <3>3
    <3> QED
      BY <1>6, <3>1, <3>4 DEF Balanced
  <2>2. Indexed(w)'
    <3>1. ~InPhase(w, Phase(w))'
      BY <1>7, <1>9
    <3>2. Indexed(w)
      BY DEF Safe, Phased
    <3> QED
      BY <1>3, <3>1, <3>2 DEF Indexed
  <2>3. ASSUME NEW u \in Writers \ {w}
        PROVE  Balanced(u)' /\ Indexed(u)'
    <3>1. Balanced(u) /\ Indexed(u)
      BY DEF Safe, Phased
    <3>2. epochs'[u] = epochs[u] /\ writer'[u] = writer[u]
      BY <1>3
    <3> QED
      BY <1>3, <1>6, <3>1, <3>2, SamePhases DEF Balanced, Indexed
  <2>4. ASSUME NEW u \in Readers
        PROVE  Flips(u)'
    <3>1. CASE u = r
      BY <1>3, <1>7, <1>8, <1>9, <3>1 DEF Flips
    <3>2. CASE u # r
      BY <1>5, <3>2 DEF Flips
    <3> QED
      BY <3>1, <3>2
  <2> QED
    BY <2>1, <2>2, <2>3, <2>4 DEF Phased
<1> QED
  BY <1>3, <1>4, <1>10 DEF Safe

\* When the end epoch has reached the start epoch nobody is in the last phase.
LEMMA CaughtUpInv ==
  ASSUME Meter!MetricsAssumption, Safe, NEW r \in Readers, Meter!CaughtUp(r)
  PROVE  Safe'
<1>1. reader[r].at = "wait" /\ reader[r].of \in Writers
  BY DEF Meter!CaughtUp, Meter!At, Safe, Locked, Flipping
<1>2. PICK w \in Writers : reader[r].of = w
  BY <1>1
<1>3. /\ MeterTyped /\ MeterTyped' /\ reader'[r].at = "add"
      /\ reader'[r].of = w /\ reader'[r].from = reader[r].from /\ reader'[r].todo = reader[r].todo
      /\ Ended(w, reader[r].even) = reader[r].flip
      /\ \A u \in Readers \ {r} : reader'[u] = reader[u]
      /\ UNCHANGED <<histograms, epochs, writer, mutex, total, before, records>>
  BY <1>2, CaughtUpStep DEF Safe
<1>4. Locked' /\ Kept' /\ Added'
  BY <1>1, <1>2, <1>3, FlippingOn DEF Flipping
<1>5. \A u \in Readers \ {r} : reader[u].at = "idle" /\ reader'[u] = reader[u]
  BY <1>1, <1>3, OthersIdle DEF Safe
<1>6. \A u : /\ Doing(u, {"wait"}) <=> u = w
             /\ ~Doing(u, {"phase", "flip"}) /\ ~Doing(u, {"phase", "flip"})'
  BY <1>1, <1>2, <1>3, <1>5, Does
<1>7. ~InPhase(w, ~Phase(w))
  <2>1. /\ reader[r].even <=> ~Phase(w)
        /\ Ended(w, ~Phase(w)) + Present(w, ~Phase(w)) = reader[r].flip
    BY <1>1, <1>2 DEF Safe, Phased, Flips
  <2>2. Ended(w, ~Phase(w)) = reader[r].flip
    BY <1>3, <2>1 DEF Ended
  <2>3. Ended(w, ~Phase(w)) \in Int
    BY <1>3, FieldTypes DEF Ended
  <2>4. Present(w, ~Phase(w)) # 1
    BY <2>1, <2>2, <2>3
  <2> QED
    BY <2>4 DEF Present
<1>8. Phased'
  <2>1. ASSUME NEW u \in Writers
        PROVE  Balanced(u)' /\ Indexed(u)'
    <3>1. Balanced(u) /\ Indexed(u)
      BY DEF Safe, Phased
    <3>2. epochs'[u] = epochs[u] /\ writer'[u] = writer[u]
      BY <1>3
    <3>3. ~InPhase(u, ~Phase(u))
      BY <1>6, <1>7, <3>1 DEF Balanced
    <3> QED
      BY <1>3, <1>6, <3>1, <3>2, <3>3, SamePhases DEF Balanced, Indexed
  <2>2. ASSUME NEW u \in Readers
        PROVE  Flips(u)'
    BY <1>3, <1>5 DEF Flips
  <2> QED
    BY <2>1, <2>2 DEF Phased
<1> QED
  BY <1>3, <1>4, <1>8 DEF Safe

\* With the histogram that is added the snapshot has all of the writer.
LEMMA AddInv ==
  ASSUME Meter!MetricsAssumption, Safe, NEW r \in Readers, Meter!Add(r)
  PROVE  Safe'
<1>1. reader[r].at = "add" /\ reader[r].of \in Writers /\ reader[r].from \in {1, 2}
      /\ histograms[reader[r].of].active = Meter!Other(reader[r].from)
  BY DEF Meter!Add, Meter!At, Safe, Locked, Flipping
<1>2. PICK w \in Writers : reader[r].of = w
  BY <1>1
<1>3. /\ MeterTyped /\ MeterTyped' /\ reader'[r].at = "next"
      /\ reader'[r].todo = reader[r].todo \ {w} /\ reader'[r].of = Meter!NoOne
      /\ Meter!BagToSet(total') = Meter!BagToSet(total) \cup Meter!BagToSet(histograms[w].bags[reader[r].from])
      /\ \A u \in Readers \ {r} : reader'[u] = reader[u]
      /\ UNCHANGED <<histograms, epochs, writer, mutex, before, records>>
  BY <1>1, <1>2, AddStep DEF Safe
<1>4. \A u \in Readers \ {r} : reader[u].at = "idle" /\ reader'[u] = reader[u]
  BY <1>1, <1>3, OthersIdle DEF Safe
<1>5. Locked'
  BY <1>1, <1>3, <1>4 DEF Safe, Locked, Flipping
<1>6. \A u : /\ ~Doing(u, {"wait"}) /\ ~Doing(u, {"wait"})'
             /\ ~Doing(u, {"phase", "flip"}) /\ ~Doing(u, {"phase", "flip"})'
             /\ (Doing(u, Flipping) <=> u = w) /\ ~Doing(u, Flipping)'
  BY <1>1, <1>2, <1>3, <1>4, Does DEF Flipping
<1>7. Phased'
  <2>1. ASSUME NEW u \in Writers
        PROVE  Balanced(u)' /\ Indexed(u)'
    <3>1. Balanced(u) /\ Indexed(u)
      BY DEF Safe, Phased
    <3>2. epochs'[u] = epochs[u] /\ writer'[u] = writer[u]
      BY <1>3
    <3> QED
      BY <1>3, <1>6, <3>1, <3>2, SamePhases DEF Balanced, Indexed
  <2>2. ASSUME NEW u \in Readers
        PROVE  Flips(u)'
    BY <1>3, <1>4 DEF Flips
  <2> QED
    BY <2>1, <2>2 DEF Phased
<1>8. histograms[w].active = Meter!Other(reader[r].from) /\ Meter!Other(histograms[w].active) = reader[r].from
  BY <1>1, <1>2, Others
<1>9. Held(w) = Meter!BagToSet(histograms[w].bags[reader[r].from])
                \cup Meter!BagToSet(histograms[w].bags[histograms[w].active])
  <2>1. CASE reader[r].from = 1
    BY <1>8, <2>1 DEF Held, Meter!Other
  <2>2. CASE reader[r].from = 2
    BY <1>8, <2>2 DEF Held, Meter!Other
  <2> QED
    BY <1>1, <2>1, <2>2
<1>10. Kept'
  <2>1. Held(w) \subseteq Meter!Recorded
    BY DEF Held, Meter!Recorded
  <2>2. Meter!BagToSet(total') \subseteq Meter!Recorded
    BY <1>3, <1>9, <2>1 DEF Safe, Kept
  <2>3. Meter!Recorded' = Meter!Recorded /\ \A u \in Writers : Pending(u)' <=> Pending(u)
    BY <1>3 DEF Meter!Recorded, Pending
  <2> QED
    BY <1>3, <2>2, <2>3 DEF Safe, Kept
<1>11. Added'
  <2>1. ASSUME NEW u \in Writers
        PROVE  Meter!BagToSet(histograms[u].bags[Meter!Other(histograms[u].active)]) \subseteq Meter!BagToSet(total')
    <3>1. CASE u = w
      BY <1>3, <1>8, <3>1
    <3>2. CASE u # w
      BY <1>3, <1>6, <3>2 DEF Safe, Added
    <3> QED
      BY <3>1, <3>2
  <2>2. ASSUME NEW u \in Writers \ (reader[r].todo \ {w})
        PROVE  before \cap Held(u) \subseteq Meter!BagToSet(total')
    <3>1. CASE u = w
      <4>1. before \cap Meter!BagToSet(histograms[w].bags[histograms[w].active]) \subseteq Meter!BagToSet(total)
        BY <1>6 DEF Safe, Added
      <4> QED
        BY <1>3, <1>9, <3>1, <4>1
    <3>2. CASE u # w
      <4>1. before \cap Held(u) \subseteq Meter!BagToSet(total)
        BY <1>1, <3>2 DEF Safe, Added
      <4> QED
        BY <1>3, <4>1
    <3> QED
      BY <3>1, <3>2
  <2>3. \A u \in Writers : Held(u)' = Held(u)
    BY <1>3 DEF Held
  <2> QED
    BY <1>3, <1>4, <1>6, <2>1, <2>2, <2>3 DEF Added
<1> QED
  BY <1>3, <1>5, <1>7, <1>10, <1>11 DEF Safe

\* The mutex is free again.
LEMMA UnlockInv ==
  ASSUME Meter!MetricsAssumption, Safe, NEW r \in Readers, Meter!Unlock(r)
  PROVE  Safe'
<1>1. /\ MeterTyped /\ MeterTyped' /\ mutex' = Meter!NoOne /\ reader[r].at = "next" /\ reader'[r].at = "idle"
      /\ \A u \in Readers \ {r} : reader'[u] = reader[u]
      /\ UNCHANGED <<histograms, epochs, writer, total, before, records>>
  BY UnlockStep DEF Safe
<1>2. \A u \in Readers \ {r} : reader[u].at = "idle" /\ reader'[u] = reader[u]
  BY <1>1, OthersIdle DEF Safe
<1>3. Locked'
  BY <1>1, <1>2 DEF Locked, Flipping
<1>4. \A u : /\ ~Doing(u, {"wait"}) /\ ~Doing(u, {"wait"})'
             /\ ~Doing(u, {"phase", "flip"}) /\ ~Doing(u, {"phase", "flip"})'
             /\ ~Doing(u, Flipping) /\ ~Doing(u, Flipping)'
  BY <1>1, <1>2 DEF Doing, Flipping
<1>5. Phased'
  <2>1. ASSUME NEW u \in Writers
        PROVE  Balanced(u)' /\ Indexed(u)'
    <3>1. Balanced(u) /\ Indexed(u)
      BY DEF Safe, Phased
    <3>2. epochs'[u] = epochs[u] /\ writer'[u] = writer[u]
      BY <1>1
    <3> QED
      BY <1>1, <1>4, <3>1, <3>2, SamePhases DEF Balanced, Indexed
  <2>2. ASSUME NEW u \in Readers
        PROVE  Flips(u)'
    BY <1>1, <1>2 DEF Flips
  <2> QED
    BY <2>1, <2>2 DEF Phased
<1>6. Kept'
  BY <1>1 DEF Safe, Kept, Meter!Recorded, Pending
<1>7. Added'
  BY <1>1, <1>2, <1>4 DEF Safe, Added, Held
<1> QED
  BY <1>1, <1>3, <1>5, <1>6, <1>7 DEF Safe

\* Nobody has recorded or asked for anything.
LEMMA MetricsInit ==
  ASSUME Meter!MetricsAssumption, Meter!Init
  PROVE  Safe
<1> DEFINE h == [bags |-> <<Meter!EmptyBag, Meter!EmptyBag>>, active |-> 1]
           e == [start |-> 0, even |-> 0, odd |-> Meter!INT64_MIN]
           s == [at |-> "idle", enter |-> 0, index |-> 0, value |-> 0, todo |-> {}]
           d == [at |-> "idle", todo |-> {}, of |-> Meter!NoOne, from |-> 0, even |-> FALSE, flip |-> 0]
<1>1. h \in Pairs
  <2>1. <<Meter!EmptyBag, Meter!EmptyBag>> \in [{1, 2} -> Histograms]
    BY NoValue
  <2> QED
    BY <2>1 DEF Pairs
<1>2. e \in Epochs /\ s \in WriterStates /\ d \in ReaderStates
  BY DEF Epochs, WriterStates, ReaderStates, Meter!INT64_MIN
<1>3. MeterTyped
  BY <1>1, <1>2, NoValue DEF Meter!Init, MeterTyped, Meter!MetricsAssumption
<1>4. \A w \in Writers : /\ histograms[w].bags = <<Meter!EmptyBag, Meter!EmptyBag>> /\ histograms[w].active = 1
                         /\ epochs[w].start = 0 /\ epochs[w].even = 0 /\ epochs[w].odd = Meter!INT64_MIN
                         /\ writer[w].at = "idle"
  BY DEF Meter!Init
<1>5. \A r \in Readers : reader[r].at = "idle"
  BY DEF Meter!Init
<1>6. Locked
  BY <1>5 DEF Locked, Flipping
<1>7. Phased
  <2>1. \A w \in Writers : Balanced(w) /\ Indexed(w)
    BY <1>4 DEF Meter!Init, Balanced, Indexed, InPhase, Present, Ended, Phase, Inside, Meter!MetricsAssumption
  <2> QED
    BY <1>5, <2>1 DEF Phased, Flips
<1>8. \A w \in Writers : Meter!BagToSet(histograms[w].bags[1]) = {} /\ Meter!BagToSet(histograms[w].bags[2]) = {}
  BY <1>4, NoValue
<1>9. Meter!Recorded = {} /\ Meter!BagToSet(total) = {} /\ before = {}
  BY <1>8, NoValue DEF Meter!Recorded, Meter!Init
<1>10. Kept
  BY <1>4, <1>9 DEF Kept, Pending
<1>11. Added
  <2>1. \A w \in Writers : Meter!BagToSet(histograms[w].bags[Meter!Other(histograms[w].active)]) = {}
    BY <1>4, <1>8 DEF Meter!Other
  <2> QED
    BY <1>5, <1>9, <2>1 DEF Added
<1> QED
  BY <1>3, <1>6, <1>7, <1>10, <1>11 DEF Safe

\* Every step of the threads and the readers.
LEMMA MetricsNext ==
  ASSUME Meter!MetricsAssumption, Safe, [Meter!Next]_Meter!vars
  PROVE  Safe'
<1>1. ASSUME NEW w \in Writers, Meter!Mark(w, FALSE) \/ Meter!Mark(w, TRUE) \/ Meter!Update(w)
                                \/ \E other \in Writers : Meter!sum_and_reset(w, other)
      PROVE  Safe'
  BY <1>1, MarkInv
<1>2. CASE UNCHANGED Meter!vars
  <2>1. /\ MeterTyped' /\ Locked'
    BY <1>2 DEF Meter!vars, Safe, MeterTyped, Locked
  <2>2. Phased'
    BY <1>2 DEF Meter!vars, Safe, Phased, Balanced, Indexed, Flips, InPhase, Present, Ended, Phase, Doing
  <2>3. Kept' /\ Added'
    BY <1>2 DEF Meter!vars, Safe, Kept, Added, Meter!Recorded, Pending, Held, Doing
  <2> QED
    BY <2>1, <2>2, <2>3 DEF Safe
<1> QED
  BY <1>1, <1>2, EnterInv, LoadInv, RecordInv, EndInv, LockInv, ExchangeInv, NextPhaseInv, FlipInv,
     CaughtUpInv, AddInv, UnlockInv
  DEF Meter!Next, Meter!Write, Meter!Read, Meter!Done

-----------------------------------------------------------------------------
(* The events of the rates are counted once each. *)

\* Sets of events and of threads are finite.
LEMMA EventsFinite ==
  ASSUME Meter!MetricsAssumption
  PROVE  /\ IsFiniteSet(Busy) /\ Cardinality(Busy) \in Nat
         /\ IsFiniteSet(Uncounted) /\ Cardinality(Uncounted) \in Nat
<1>1. IsFiniteSet(Writers) /\ IsFiniteSet(1..MaxRecords)
  BY FS_Interval, MeterSizes DEF Meter!MetricsAssumption
<1>2. IsFiniteSet(Writers \X (1..MaxRecords))
  BY <1>1, FS_Product
<1>3. IsFiniteSet(Busy) /\ IsFiniteSet(Uncounted)
  <2>1. Busy \subseteq Writers /\ Uncounted \subseteq Writers \X (1..MaxRecords)
    BY DEF Busy, Uncounted
  <2> QED
    BY <1>1, <1>2, <2>1, FS_Subset
<1> QED
  BY <1>3, FS_CardinalityType

\* The events of one thread that wait to be counted.
LEMMA EventsOf ==
  ASSUME Meter!MetricsAssumption, Rated, NEW w \in Writers
  PROVE  /\ {w} \X (1..uncounted[w]) \subseteq Uncounted
         /\ Cardinality({w} \X (1..uncounted[w])) = uncounted[w]
         /\ uncounted[w] <= Cardinality(Uncounted)
<1>1. PICK n \in 0..MaxRecords : n = uncounted[w]
  BY DEF Rated
<1>2. n \in Nat
  BY <1>1 DEF Meter!MetricsAssumption
<1>3. {w} \X (1..n) \subseteq Uncounted
  BY <1>1, <1>2 DEF Uncounted, Meter!MetricsAssumption
<1>4. IsFiniteSet({w}) /\ Cardinality({w}) = 1
  BY FS_Singleton
<1>5. IsFiniteSet(1..n) /\ Cardinality(1..n) = (IF 1 > n THEN 0 ELSE n - 1 + 1)
  BY <1>2, FS_Interval
<1>6. Cardinality(1..n) = n
  BY <1>2, <1>5
<1> DEFINE S == {w}
           T == 1..n
<1>7. Cardinality(S \X T) = Cardinality(S) * Cardinality(T)
  <2> HIDE DEF S, T
  <2>1. IsFiniteSet(S) /\ IsFiniteSet(T)
    BY <1>4, <1>5 DEF S, T
  <2> QED
    BY <2>1, FS_Product
<1>8. Cardinality({w} \X (1..n)) = n
  BY <1>2, <1>4, <1>6, <1>7
<1>9. n <= Cardinality(Uncounted)
  <2>1. IsFiniteSet(Uncounted)
    BY EventsFinite
  <2> QED
    BY <1>3, <1>8, <2>1, FS_Subset
<1> QED
  BY <1>1, <1>3, <1>8, <1>9

\* A thread that enters has an event that is not marked.
LEMMA EnterRated ==
  ASSUME Meter!MetricsAssumption, Safe, Rated, NEW w \in Writers, Meter!writer_critical_section_enter(w)
  PROVE  Rated'
<1>1. /\ records' = records + 1 /\ records \in Nat /\ writer[w].at = "idle" /\ writer'[w].at = "entered"
      /\ \A u \in Writers \ {w} : writer'[u] = writer[u]
      /\ UNCHANGED <<uncounted, counted>>
  BY EnterStep DEF Safe
<1>2. Busy' = Busy \cup {w} /\ w \notin Busy
  BY <1>1 DEF Busy
<1>3. Cardinality(Busy') = Cardinality(Busy) + 1
  BY <1>2, EventsFinite, FS_AddElement
<1>4. Uncounted' = Uncounted
  BY <1>1 DEF Uncounted
<1>5. /\ counted \in Nat /\ counted + Cardinality(Uncounted) = records - Cardinality(Busy)
      /\ Cardinality(Busy) \in Nat /\ Cardinality(Uncounted) \in Nat
  BY EventsFinite DEF Rated
<1>6. counted + Cardinality(Uncounted) = (records + 1) - (Cardinality(Busy) + 1)
  BY <1>1, <1>5
<1> QED
  BY <1>1, <1>3, <1>4, <1>6 DEF Rated

\* Its event is one more to count.
LEMMA UpdateRated ==
  ASSUME Meter!MetricsAssumption, Safe, Rated, NEW w \in Writers, Meter!Update(w)
  PROVE  Rated'
<1>1. /\ writer[w].at = "tick" /\ writer'[w].at = "idle" /\ records' = records /\ records \in 0..MaxRecords
      /\ \A u \in Writers \ {w} : writer'[u] = writer[u]
      /\ uncounted' = [uncounted EXCEPT ![w] = uncounted[w] + 1] /\ counted' = counted
  <2>1. writer[w].at = "tick" /\ uncounted' = [uncounted EXCEPT ![w] = uncounted[w] + 1] /\ counted' = counted
    BY DEF Meter!Update
  <2> QED
    BY <2>1, MarkStep DEF Safe, MeterTyped
<1>2. Busy' = Busy \ {w} /\ w \in Busy
  BY <1>1 DEF Busy
<1>3. /\ counted \in Nat /\ counted + Cardinality(Uncounted) = records - Cardinality(Busy)
      /\ Cardinality(Busy) \in Nat /\ Cardinality(Uncounted) \in Nat
      /\ uncounted \in [Writers -> 0..MaxRecords]
  BY EventsFinite DEF Rated
<1>4. Cardinality(Busy') = Cardinality(Busy) - 1 /\ Cardinality(Busy) # 0
  BY <1>2, EventsFinite, FS_RemoveElement, FS_EmptySet
<1>5. uncounted[w] + 1 \in 1..MaxRecords
  <2>1. uncounted[w] <= Cardinality(Uncounted) /\ uncounted[w] \in Nat
    <3>1. uncounted[w] <= Cardinality(Uncounted)
      BY EventsOf
    <3>2. uncounted[w] \in Nat
      BY <1>3
    <3> QED
      BY <3>1, <3>2
  <2> QED
    BY <1>1, <1>3, <1>4, <2>1 DEF Meter!MetricsAssumption
<1>6. /\ uncounted' \in [Writers -> 0..MaxRecords] /\ uncounted'[w] = uncounted[w] + 1
      /\ \A u \in Writers \ {w} : uncounted'[u] = uncounted[u]
  BY <1>1, <1>3, <1>5
<1>7. Uncounted' = Uncounted \cup {<<w, uncounted[w] + 1>>} /\ <<w, uncounted[w] + 1>> \notin Uncounted
  <2>1. <<w, uncounted[w] + 1>> \notin Uncounted
    BY <1>3 DEF Uncounted
  <2>2. ASSUME NEW u \in Writers, NEW n \in 1..MaxRecords
        PROVE  n <= uncounted'[u] <=> n <= uncounted[u] \/ (u = w /\ n = uncounted[w] + 1)
    <3>1. uncounted[u] \in Nat /\ n \in Nat
      BY <1>3
    <3>2. CASE u = w
      BY <1>6, <3>1, <3>2
    <3>3. CASE u # w
      BY <1>6, <3>3
    <3> QED
      BY <3>2, <3>3
  <2>3. Uncounted' = {p \in Writers \X (1..MaxRecords) : p[2] <= uncounted'[p[1]]}
    BY DEF Uncounted
  <2> QED
    BY <1>5, <2>1, <2>2, <2>3 DEF Uncounted
<1>8. Cardinality(Uncounted') = Cardinality(Uncounted) + 1
  BY <1>7, EventsFinite, FS_AddElement
<1>9. counted + (Cardinality(Uncounted) + 1) = records - (Cardinality(Busy) - 1)
  BY <1>1, <1>3 DEF Meter!MetricsAssumption
<1> QED
  BY <1>1, <1>3, <1>4, <1>6, <1>8, <1>9 DEF Rated

\* What a thread counts of another is not there any more.
LEMMA SumRated ==
  ASSUME Meter!MetricsAssumption, Safe, Rated, NEW w \in Writers, NEW other \in Writers, Meter!sum_and_reset(w, other)
  PROVE  Rated'
<1>1. /\ writer[w].at = "tick" /\ writer'[w].at = "tick" /\ records' = records /\ records \in Nat
      /\ \A u \in Writers \ {w} : writer'[u] = writer[u]
      /\ uncounted' = [uncounted EXCEPT ![other] = 0] /\ counted' = counted + uncounted[other]
  <2>1. /\ writer[w].at = "tick" /\ uncounted' = [uncounted EXCEPT ![other] = 0]
        /\ counted' = counted + uncounted[other] /\ writer[w].todo # {}
    BY DEF Meter!sum_and_reset
  <2>2. ~Meter!Update(w)
    BY <2>1 DEF Meter!Update
  <2>3. records \in Nat
    BY DEF Safe, MeterTyped, Meter!MetricsAssumption
  <2> QED
    BY <2>1, <2>2, <2>3, MarkStep DEF Safe
<1>2. Busy' = Busy
  BY <1>1 DEF Busy
<1>3. /\ counted \in Nat /\ counted + Cardinality(Uncounted) = records - Cardinality(Busy)
      /\ Cardinality(Busy) \in Nat /\ Cardinality(Uncounted) \in Nat
      /\ uncounted \in [Writers -> 0..MaxRecords]
  BY EventsFinite DEF Rated
<1>4. PICK n \in 0..MaxRecords : n = uncounted[other]
  BY <1>3
<1>5. /\ uncounted' \in [Writers -> 0..MaxRecords] /\ uncounted'[other] = 0
      /\ \A u \in Writers \ {other} : uncounted'[u] = uncounted[u]
  BY <1>1, <1>3 DEF Meter!MetricsAssumption
<1>6. Uncounted' = Uncounted \ ({other} \X (1..n))
  <2>1. ASSUME NEW u \in Writers, NEW k \in 1..MaxRecords
        PROVE  k <= uncounted'[u] <=> k <= uncounted[u] /\ ~(u = other /\ k \in 1..n)
    <3>1. uncounted[u] \in Nat /\ k \in Nat /\ k >= 1 /\ n \in Nat
      BY <1>3
    <3>2. CASE u = other
      BY <1>4, <1>5, <3>1, <3>2
    <3>3. CASE u # other
      BY <1>5, <3>3
    <3> QED
      BY <3>2, <3>3
  <2>2. Uncounted' = {p \in Writers \X (1..MaxRecords) : p[2] <= uncounted'[p[1]]}
    BY DEF Uncounted
  <2> QED
    BY <2>1, <2>2 DEF Uncounted
<1>7. Cardinality(Uncounted') = Cardinality(Uncounted) - n
  <2>1. {other} \X (1..n) \subseteq Uncounted /\ Cardinality({other} \X (1..n)) = n
    BY <1>4, EventsOf
  <2>2. Uncounted \cap ({other} \X (1..n)) = {other} \X (1..n)
    BY <2>1
  <2> DEFINE S == Uncounted
             T == {other} \X (1..n)
  <2>3. IsFiniteSet(S) /\ S \cap T = T /\ Cardinality(T) = n
    BY <2>1, <2>2, EventsFinite
  <2>4. Cardinality(S \ T) = Cardinality(S) - Cardinality(S \cap T)
    <3> HIDE DEF S, T
    <3> QED
      BY <2>3, FS_Difference
  <2> QED
    BY <1>6, <2>3, <2>4
<1>8. counted' = counted + n /\ n \in Nat
  BY <1>1, <1>4
<1>9. counted' \in Nat /\ counted' + (Cardinality(Uncounted) - n) = records - Cardinality(Busy)
  BY <1>1, <1>3, <1>8
<1> QED
  BY <1>1, <1>2, <1>5, <1>7, <1>9 DEF Rated

\* No other step has to do with the rates.
LEMMA RatedStays ==
  ASSUME Rated, Busy' = Busy, UNCHANGED <<records, uncounted, counted>>
  PROVE  Rated'
BY DEF Rated, Uncounted

\* Every step keeps the count: an event is marked, ticked, or left uncounted.
LEMMA RatedNext ==
  ASSUME Meter!MetricsAssumption, Safe, Rated, [Meter!Next]_Meter!vars
  PROVE  Rated'
<1>1. ASSUME NEW w \in Writers, Meter!LoadActive(w) \/ Meter!RecordValue(w) \/ Meter!writer_critical_section_end(w)
                                \/ Meter!Mark(w, FALSE) \/ Meter!Mark(w, TRUE)
      PROVE  Rated'
  <2>1. /\ writer[w].at # "idle" /\ writer'[w].at # "idle"
        /\ \A u \in Writers \ {w} : writer'[u] = writer[u]
        /\ UNCHANGED <<records, uncounted, counted>>
    <3>1. CASE Meter!LoadActive(w)
      BY <3>1, LoadStep DEF Safe
    <3>2. CASE Meter!RecordValue(w)
      <4>1. writer[w].index \in {1, 2} /\ writer[w].value \in 1..records /\ records \in 0..MaxRecords
        BY <3>2 DEF Meter!RecordValue, Safe, MeterTyped, Phased, Indexed, Kept, Pending
      <4>2. writer[w].value \in 1..MaxRecords
        BY <4>1 DEF Meter!MetricsAssumption
      <4> QED
        BY <3>2, <4>1, <4>2, RecordStep DEF Safe
    <3>3. CASE Meter!writer_critical_section_end(w)
      BY <3>3, EndStep DEF Safe
    <3>4. CASE Meter!Mark(w, FALSE) \/ Meter!Mark(w, TRUE)
      <4>1. ~Meter!Update(w) /\ UNCHANGED <<uncounted, counted>>
        BY <3>4 DEF Meter!Mark, Meter!Update
      <4> QED
        BY <3>4, <4>1, MarkStep DEF Safe
    <3> QED
      BY <1>1, <3>1, <3>2, <3>3, <3>4
  <2>2. Busy' = Busy
    BY <2>1 DEF Busy
  <2> QED
    BY <2>1, <2>2, RatedStays
<1>2. ASSUME NEW r \in Readers, Meter!Read(r)
      PROVE  Rated'
  <2>1. UNCHANGED <<writer, records, uncounted, counted>>
    BY <1>2 DEF Meter!Read, Meter!Lock, Meter!Exchange, Meter!NextPhase, Meter!FlipPhase, Meter!CaughtUp, Meter!Add, Meter!Unlock
  <2> QED
    BY <2>1, RatedStays DEF Busy
<1>3. CASE UNCHANGED Meter!vars
  BY <1>3, RatedStays DEF Meter!vars, Busy
<1> QED
  BY <1>1, <1>2, <1>3, EnterRated, UpdateRated, SumRated DEF Meter!Next, Meter!Write, Meter!Done

\* Nothing is counted yet.
LEMMA RatedInit ==
  ASSUME Meter!MetricsAssumption, Meter!Init
  PROVE  Rated
<1>1. Uncounted = {}
  BY DEF Meter!Init, Uncounted, Meter!MetricsAssumption
<1>2. Busy = {}
  BY DEF Meter!Init, Busy
<1>3. Cardinality(Uncounted) = 0 /\ Cardinality(Busy) = 0
  BY <1>1, <1>2, FS_EmptySet
<1>4. uncounted \in [Writers -> 0..MaxRecords] /\ counted = 0 /\ records = 0
  BY DEF Meter!Init, Meter!MetricsAssumption
<1> QED
  BY <1>3, <1>4 DEF Rated

\* hdr_add and hdr_record_value are not atomic: while get_snapshot adds a
\* histogram no thread records into it, for any number of threads.
THEOREM SnapshotsAddAlone ==
  ASSUME Meter!MetricsAssumption
  PROVE  Meter!Spec => []Meter!AddedAlone
<1>1. Safe => Meter!AddedAlone
  <2> SUFFICES ASSUME Safe, NEW r \in Readers, NEW w \in Writers, reader[r].at = "add", reader[r].of = w,
                      writer[w].at = "record", writer[w].index = reader[r].from
               PROVE  FALSE
    BY DEF Meter!AddedAlone, Meter!At
  <2>1. reader[r].from \in {1, 2} /\ histograms[w].active = Meter!Other(reader[r].from)
    BY DEF Safe, Locked, Flipping
  <2>2. \A u \in Readers \ {r} : reader[u].at = "idle"
    BY OthersIdle DEF Safe
  <2>3. ~Doing(w, {"wait"}) /\ ~Doing(w, {"phase", "flip"})
    BY <2>2 DEF Doing
  <2>4. InPhase(w, Phase(w))
    BY <2>3 DEF Safe, Phased, Balanced, InPhase, Inside, Phase
  <2>5. writer[w].index = histograms[w].active
    BY <2>3, <2>4 DEF Safe, Phased, Indexed
  <2> QED
    BY <2>1, <2>5, Others
<1> QED
  BY <1>1, MetricsInit, MetricsNext, PTL DEF Meter!Spec

\* cass_session_get_metrics misses no latency that was recorded before it
\* began, however many threads record at the same time, and reports none that
\* was not; every event of a rate is counted once.
THEOREM SnapshotsComplete ==
  ASSUME Meter!MetricsAssumption
  PROVE  Meter!Spec => []Meter!SnapshotComplete
<1>1. Safe /\ Rated => Meter!SnapshotComplete
  <2> SUFFICES ASSUME Safe, Rated PROVE Meter!SnapshotComplete
    OBVIOUS
  <2>1. ASSUME NEW r \in Readers, Meter!At(r, "next"), reader[r].todo = {}
        PROVE  before \subseteq Meter!BagToSet(total)
    <3>1. \A w \in Writers : before \cap Held(w) \subseteq Meter!BagToSet(total)
      BY <2>1 DEF Meter!At, Safe, Added
    <3>2. before \subseteq UNION {Held(w) : w \in Writers}
      BY DEF Safe, Kept, Meter!Recorded, Held
    <3> QED
      BY <3>1, <3>2
  <2>2. Meter!BagToSet(total) \subseteq Meter!Recorded
    BY DEF Safe, Kept
  <2>3. counted + Meter!Cardinality({p \in Writers \X (1..MaxRecords) : p[2] <= uncounted[p[1]]})
          = records - Meter!Cardinality({w \in Writers : writer[w].at # "idle"})
    BY MeterSizes DEF Rated, Uncounted, Busy
  <2> QED
    BY <2>1, <2>2, <2>3 DEF Meter!SnapshotComplete
<1>2. Meter!MetricsAssumption /\ Meter!Init => Safe /\ Rated
  BY MetricsInit, RatedInit
<1>3. Meter!MetricsAssumption /\ Safe /\ Rated /\ [Meter!Next]_Meter!vars => (Safe /\ Rated)'
  BY MetricsNext, RatedNext
<1> QED
  BY <1>1, <1>2, <1>3, PTL DEF Meter!Spec
=============================================================================
