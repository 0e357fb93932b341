------------------------ MODULE StreamManagerProofs ------------------------
(***************************************************************************)
(* Proofs about StreamManager, for any number of words, bits and handlers. *)
(***************************************************************************)
EXTENDS StreamManager, TLAPS

----------------------------------------------------------------------------
(* Arithmetic of stream ids *)

\* Multiples of a positive n that differ by less than n are equal.
LEMMA MultipleGap ==
  ASSUME NEW n \in Nat \ {0}, NEW p \in Int, NEW q \in Int, n * p < n * q + n
  PROVE  p <= q
<1> SUFFICES ASSUME p >= q + 1 PROVE FALSE
  OBVIOUS
<1>1. n * p >= n * (q + 1)
  OBVIOUS
<1>2. n * (q + 1) = n * q + n
  OBVIOUS
<1> QED BY <1>1, <1>2

\* b + n * q has quotient q and remainder b: ids of different words and bits
\* are different, and release_stream finds the bit acquire_stream cleared.
LEMMA QuotientRemainder ==
  ASSUME NEW n \in Nat \ {0}, NEW q \in Nat, NEW b \in 0..(n - 1)
  PROVE  (b + n * q) \div n = q /\ (b + n * q) % n = b
<1> DEFINE s == b + n * q
           p == s \div n
           r == s % n
<1>1. n * q \in Nat /\ s \in Nat
  OBVIOUS
<1>2. p \in Int /\ r \in 0..(n - 1) /\ s = n * p + r
  BY <1>1
<1> HIDE DEF p, r
<1>3. p <= q
  BY <1>1, <1>2, MultipleGap
<1>4. q <= p
  BY <1>1, <1>2, MultipleGap
<1>5. p = q
  BY <1>2, <1>3, <1>4
<1>6. r = b
  BY <1>1, <1>2, <1>5
<1> QED BY <1>5, <1>6 DEF p, r

\* release_stream computes from an id the word and the bit acquire_stream made
\* it from.
LEMMA StreamParts ==
  ASSUME NEW w \in Words, NEW b \in Bits
  PROVE  /\ WordOf(Stream(w, b)) = w
         /\ BitOf(Stream(w, b)) = b
         /\ Stream(w, b) \in Streams
  BY StreamAssumption, QuotientRemainder DEF Words, Bits, WordOf, BitOf, Stream, Streams

\* Every id of the connection is made from a word and a bit.
LEMMA StreamOfParts ==
  ASSUME NEW s \in Streams
  PROVE  /\ WordOf(s) \in Words
         /\ BitOf(s) \in Bits
         /\ s = Stream(WordOf(s), BitOf(s))
<1>1. PICK w \in Words, b \in Bits : s = Stream(w, b)
  BY DEF Streams
<1> QED BY <1>1, StreamParts

\* Each round of the loop of acquire_stream looks at one of the words.
LEMMA ProbeInWords ==
  ASSUME offset \in Nat, NEW i \in Words
  PROVE  Probe(i) \in Words
  BY StreamAssumption DEF Probe, Words

\* The rounds of the loop of acquire_stream look at every word, whatever
\* offset_ is: a failed search means that all the words are empty.
LEMMA ProbeReachesAll ==
  ASSUME offset \in Nat, NEW w \in Words
  PROVE  \E i \in Words : Probe(i) = w
<1> DEFINE q == offset \div NumWords
           r == offset % NumWords
<1>1. NumWords \in Nat \ {0} /\ w \in 0..(NumWords - 1)
  BY StreamAssumption DEF Words
<1>2. q \in Nat /\ r \in 0..(NumWords - 1) /\ offset = NumWords * q + r
  BY <1>1
<1> HIDE DEF q, r
<1>3. CASE r <= w
  <2>1. w - r \in Words /\ (w - r) + offset = w + NumWords * q
    BY <1>1, <1>2, <1>3 DEF Words
  <2>2. (w + NumWords * q) % NumWords = w
    BY <1>1, <1>2, QuotientRemainder
  <2> QED BY <2>1, <2>2 DEF Probe
<1>4. CASE w < r
  <2>1. w - r + NumWords \in Words
    BY <1>1, <1>2, <1>4 DEF Words
  <2>2. NumWords * (q + 1) = NumWords * q + NumWords
    BY <1>1, <1>2
  <2>3. (w - r + NumWords) + offset = w + NumWords * (q + 1)
    BY <1>1, <1>2, <2>2
  <2>4. (w + NumWords * (q + 1)) % NumWords = w
    BY <1>1, <1>2, QuotientRemainder
  <2> QED BY <2>1, <2>3, <2>4 DEF Probe
<1> QED BY <1>1, <1>2, <1>3, <1>4

----------------------------------------------------------------------------
(* The invariant *)

\* The inductive invariant: the bit map and pending_ agree, on ids in range.
Inv == TypeOK /\ BitmapMatchesPending

\* A new stream manager has every id available and no handler waiting.
LEMMA InvInit == Init => Inv
  BY StreamAssumption DEF Init, Inv, TypeOK, BitmapMatchesPending, Words, Bits

\* Taking one id: the bit that is cleared is the bit of the id that is returned.
LEMMA AcquirePreserves ==
  ASSUME Inv, NEW x \in Items, Acquire(x)
  PROVE  Inv'
<1> USE DEF Inv
<1>0. offset' \in 0..(OffsetModulus - 1) /\ offset \in Nat
  BY StreamAssumption DEF Acquire, TypeOK
<1>1. CASE AcquireFails
  BY <1>0, <1>1 DEF AcquireFails, TypeOK, BitmapMatchesPending
<1>2. CASE AcquireStream(x)
  <2>1. PICK i \in Words, bit \in Bits :
          /\ IsLowest(bit, words[Probe(i)])
          /\ words' = [words EXCEPT ![Probe(i)] = @ \ {bit}]
          /\ pending' = With(pending, Stream(Probe(i), bit), x)
    BY <1>2 DEF AcquireStream
  <2>2. Probe(i) \in Words
    BY <1>0, ProbeInWords
  <2>3. Stream(Probe(i), bit) \in Streams
    BY <2>2, StreamParts
  <2>4. TypeOK'
    BY <1>0, <2>1, <2>2, <2>3 DEF TypeOK, With
  <2>5. ASSUME NEW w \in Words, NEW b \in Bits
        PROVE  b \in words'[w] <=> Stream(w, b) \notin DOMAIN pending'
    <3>1. Stream(w, b) = Stream(Probe(i), bit) <=> w = Probe(i) /\ b = bit
      BY <2>2, StreamParts
    <3> QED BY <2>1, <2>2, <3>1 DEF TypeOK, BitmapMatchesPending, With
  <2> QED BY <2>4, <2>5 DEF BitmapMatchesPending
<1> QED BY <1>1, <1>2 DEF Acquire

\* Giving one id back: the bit that is set is the bit of the id that is erased.
LEMMA ReleasePreserves ==
  ASSUME Inv, NEW s \in DOMAIN pending,
         pending' = Without(pending, s), ReleaseStream(s), UNCHANGED offset
  PROVE  Inv'
<1> USE DEF Inv
<1>1. /\ s \in Streams /\ WordOf(s) \in Words /\ BitOf(s) \in Bits
      /\ s = Stream(WordOf(s), BitOf(s))
  BY StreamOfParts DEF TypeOK
<1>2. TypeOK'
  BY <1>1 DEF TypeOK, ReleaseStream, Without
<1>3. ASSUME NEW w \in Words, NEW b \in Bits
      PROVE  b \in words'[w] <=> Stream(w, b) \notin DOMAIN pending'
  <2>1. Stream(w, b) = s <=> w = WordOf(s) /\ b = BitOf(s)
    BY <1>1, StreamParts
  <2> QED BY <1>1, <2>1 DEF TypeOK, BitmapMatchesPending, ReleaseStream, Without
<1> QED BY <1>2, <1>3 DEF BitmapMatchesPending

\* Every call of the stream manager preserves the invariant.
LEMMA InvNext == Inv /\ [Next]_vars => Inv'
<1> SUFFICES ASSUME Inv, [Next]_vars PROVE Inv'
  OBVIOUS
<1>1. ASSUME NEW x \in Items, Acquire(x) PROVE Inv'
  BY <1>1, AcquirePreserves
<1>2. ASSUME NEW s \in Streams, Release(s) PROVE Inv'
  BY <1>2, ReleasePreserves DEF Release
<1>3. ASSUME NEW s \in Streams, GetPendingAndRelease(s) PROVE Inv'
  <2>1. CASE s \in DOMAIN pending
    BY <1>3, <2>1, ReleasePreserves DEF GetPendingAndRelease
  <2>2. CASE s \notin DOMAIN pending
    BY <1>3, <2>2 DEF GetPendingAndRelease, Inv, TypeOK, BitmapMatchesPending
  <2> QED BY <2>1, <2>2
<1>4. CASE UNCHANGED vars
  BY <1>4 DEF vars, Inv, TypeOK, BitmapMatchesPending
<1> QED BY <1>1, <1>2, <1>3, <1>4 DEF Next

\* The bit map and the map of waiting handlers agree in every reachable state,
\* whatever the protocol version's number of stream ids.
THEOREM BitmapAlwaysMatches == Spec => [](TypeOK /\ BitmapMatchesPending)
<1>1. Inv /\ [Next]_vars => Inv'
  BY InvNext
<1> QED BY InvInit, <1>1, PTL DEF Spec, Inv

----------------------------------------------------------------------------
(* Refinement *)

\* Each call of the stream manager is a step of the abstract pool.
LEMMA NextSimulates ==
  ASSUME Inv, [Next]_vars
  PROVE  [Pool!Next]_<<pending, result>>
<1> USE DEF Inv
<1>0. offset \in Nat
  BY DEF TypeOK
<1>1. ASSUME NEW x \in Items, Acquire(x) PROVE Pool!Acquire(x)
  <2>1. CASE AcquireStream(x)
    <3>1. PICK i \in Words, bit \in Bits :
            /\ IsLowest(bit, words[Probe(i)])
            /\ pending' = With(pending, Stream(Probe(i), bit), x)
            /\ result' = Stream(Probe(i), bit)
      BY <2>1 DEF AcquireStream
    <3>2. Probe(i) \in Words
      BY <1>0, ProbeInWords
    <3>3. Stream(Probe(i), bit) \in Streams \ DOMAIN pending
      BY <3>1, <3>2, StreamParts DEF BitmapMatchesPending, IsLowest
    <3> QED BY <3>1, <3>3 DEF Pool!Acquire, Pool!With, With
  <2>2. CASE AcquireFails
    <3>1. \A w \in Words : words[w] = {}
      BY <1>0, <2>2, ProbeReachesAll DEF AcquireFails
    <3>2. Streams \subseteq DOMAIN pending
      BY <3>1, StreamOfParts DEF BitmapMatchesPending
    <3> QED BY <2>2, <3>2 DEF AcquireFails, Pool!Acquire, TypeOK
  <2> QED BY <1>1, <2>1, <2>2 DEF Acquire
<1>2. ASSUME NEW s \in Streams, Release(s) PROVE Pool!Release(s)
  BY <1>2 DEF Release, Pool!Release, Pool!Without, Without
<1>3. ASSUME NEW s \in Streams, GetPendingAndRelease(s) PROVE Pool!GetPendingAndRelease(s)
  BY <1>3 DEF GetPendingAndRelease, Pool!GetPendingAndRelease, Pool!Without, Without
<1>4. CASE UNCHANGED vars
  BY <1>4 DEF vars
<1> QED BY <1>1, <1>2, <1>3, <1>4 DEF Next, Pool!Next

\* The bit map with its round-robin search implements the pool of stream ids
\* a connection relies on: no id is refused while one is free, and none is
\* handed out twice.
THEOREM StreamManagerImplementsPool == Spec => ImplementsStreamPool
<1>1. Init => Pool!Init
  BY DEF Init, Pool!Init
<1>2. Inv /\ [Next]_vars => [Pool!Next]_<<pending, result>>
  BY NextSimulates
<1>3. Inv /\ [Next]_vars => Inv'
  BY InvNext
<1> QED BY <1>1, <1>2, <1>3, InvInit, PTL DEF Spec, ImplementsStreamPool, Pool!Spec

\* A call never changes the handler an id in use belongs to.
THEOREM AcquireNeverOverwrites == Spec => AcquireKeepsPending
<1>1. Inv /\ [Next]_vars => Inv'
  BY InvNext
<1>2. Inv /\ [Next]_vars
        => [\A s \in DOMAIN pending : s \in DOMAIN pending' => pending'[s] = pending[s]]_vars
  <2> SUFFICES ASSUME Inv, [Next]_vars, NEW t \in DOMAIN pending, t \in DOMAIN pending'
               PROVE  pending'[t] = pending[t]
    OBVIOUS
  <2>1. [Pool!Next]_<<pending, result>>
    BY NextSimulates
  <2> QED BY <2>1 DEF Pool!Next, Pool!Acquire, Pool!Release, Pool!GetPendingAndRelease,
               Pool!With, Pool!Without
<1> QED BY <1>1, <1>2, InvInit, PTL DEF Spec, AcquireKeepsPending
=============================================================================
