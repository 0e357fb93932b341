--------------------------- MODULE StreamManager ---------------------------
(***************************************************************************)
(* The stream ids of a connection (stream_manager.hpp): a bit map of the   *)
(* available ids, in words, and the map from an id in use to the handler   *)
(* that waits for the response.  Ids are handed out from a word that moves *)
(* round robin with every call, the lowest available bit of it first.      *)
(***************************************************************************)
EXTENDS Integers, FiniteSets

CONSTANTS
  NumWords,       \* num_words_: 2 (protocol 1, 2) or 512 (protocol 3, 4)
  BitsPerWord,    \* NUM_BITS_PER_WORD: 64
  OffsetModulus,  \* size_t arithmetic on offset_: 2^64
  Items,          \* the handlers
  NoItem          \* a call returned nothing

ASSUME StreamAssumption ==
  /\ NumWords \in Nat \ {0}
  /\ BitsPerWord \in Nat \ {0}
  /\ OffsetModulus \in Nat \ {0}

VARIABLES
  words,    \* words_: word index -> the bits that are set, i.e. available
  offset,   \* offset_
  pending,  \* pending_
  result    \* what the last call returned

vars == <<words, offset, pending, result>>

Words == 0..(NumWords - 1)
Bits == 0..(BitsPerWord - 1)
Stream(index, bit) == bit + BitsPerWord * index
WordOf(stream) == stream \div BitsPerWord
BitOf(stream) == stream % BitsPerWord
Streams == {Stream(w, b) : w \in Words, b \in Bits}

With(f, s, x) == [t \in DOMAIN f \cup {s} |-> IF t = s THEN x ELSE f[t]]
Without(f, s) == [t \in DOMAIN f \ {s} |-> f[t]]

\* The index looked at in round i of the loop of acquire_stream.
Probe(i) == (i + offset) % NumWords

\* count_trailing_zeros: the lowest bit that is set.
IsLowest(bit, word) == bit \in word /\ \A b \in word : bit <= b

Init ==
  /\ words = [w \in Words |-> Bits]
  /\ offset = 0
  /\ pending \in [{} -> Items]
  /\ result = NoItem

\* acquire: the first non-empty word from offset_ on gives its lowest bit.
AcquireStream(x) ==
  \E i \in Words, bit \in Bits :
    /\ \A j \in Words : j < i => words[Probe(j)] = {}
    /\ IsLowest(bit, words[Probe(i)])
    /\ words' = [words EXCEPT ![Probe(i)] = @ \ {bit}]
    /\ pending' = With(pending, Stream(Probe(i), bit), x)
    /\ result' = Stream(Probe(i), bit)

\* Faulty: only one word is looked at.
AcquireFailsEarly ==
  /\ words[Probe(0)] = {}
  /\ result' = -1
  /\ UNCHANGED <<words, pending>>

AcquireFails ==
  /\ \A i \in Words : words[Probe(i)] = {}
  /\ result' = -1
  /\ UNCHANGED <<words, pending>>

Acquire(x) ==
  /\ AcquireStream(x) \/ AcquireFails
  /\ offset' = (offset + 1) % OffsetModulus

ReleaseStream(stream) ==
  words' = [words EXCEPT ![WordOf(stream)] = @ \cup {BitOf(stream)}]

\* release: the callers pass the id of a handler that is waiting.
Release(stream) ==
  /\ stream \in DOMAIN pending
  /\ pending' = Without(pending, stream)
  /\ ReleaseStream(stream)
  /\ result' = NoItem
  /\ UNCHANGED offset

\* Faulty: the id is not made available again.
GetPendingOnly(stream) ==
  /\ stream \in DOMAIN pending
  /\ result' = pending[stream]
  /\ pending' = Without(pending, stream)
  /\ UNCHANGED <<words, offset>>

\* get_pending_and_release: any id, it comes from a response.
GetPendingAndRelease(stream) ==
  /\ \/ /\ stream \in DOMAIN pending
        /\ result' = pending[stream]
        /\ pending' = Without(pending, stream)
        /\ ReleaseStream(stream)
     \/ /\ stream \notin DOMAIN pending
        /\ result' = NoItem
        /\ UNCHANGED <<words, pending>>
  /\ UNCHANGED offset

Next ==
  \/ \E x \in Items : Acquire(x)
  \/ \E s \in Streams : Release(s) \/ GetPendingAndRelease(s)

Spec == Init /\ [][Next]_vars

----------------------------------------------------------------------------
\* Types: a word holds bit positions, ids in use are ids of the connection.
TypeOK ==
  /\ words \in [Words -> SUBSET Bits]
  /\ offset \in 0..(OffsetModulus - 1)
  /\ DOMAIN pending \subseteq Streams
  /\ pending \in [DOMAIN pending -> Items]

\* The two halves of the state agree: the bit of an id is available exactly
\* when no handler waits on that id.  Were they to part, either an id would be
\* given to two requests (a response would reach the wrong one) or the
\* connection would run out of ids.
BitmapMatchesPending ==
  \A w \in Words, b \in Bits : b \in words[w] <=> Stream(w, b) \notin DOMAIN pending

\* acquire never overwrites the entry of a handler that is still waiting.
AcquireKeepsPending ==
  [][\A s \in DOMAIN pending : s \in DOMAIN pending' => pending'[s] = pending[s]]_vars

Pool == INSTANCE StreamPool
\* The stream manager does what a connection expects of it: it refuses an id
\* only when all are in use, and gives each to one handler at a time.
ImplementsStreamPool == Pool!Spec
=============================================================================
