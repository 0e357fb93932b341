----------------------------- MODULE PoolProofs -----------------------------
(***************************************************************************)
(* Proofs about Pool, for any connections, requests and limits.            *)
(***************************************************************************)
EXTENDS Pool, FiniteSetTheorems, SequenceTheorems, TLAPS

Injective(s) == \A i, j \in DOMAIN s : s[i] = s[j] => i = j

-----------------------------------------------------------------------------
(* Sets and lists *)

\* Two finite sets that share nothing.
LEMMA DisjointUnion ==
  ASSUME NEW S, NEW T, IsFiniteSet(S), IsFiniteSet(T), \A x \in S : x \notin T
  PROVE  /\ IsFiniteSet(S \cup T)
         /\ Cardinality(S) \in Nat /\ Cardinality(T) \in Nat
         /\ Cardinality(S \cup T) = Cardinality(S) + Cardinality(T)
<1>1. S \cap T = {}
  OBVIOUS
<1>2. Cardinality(S \cap T) = 0
  BY <1>1, FS_EmptySet, Zenon
<1>3. Cardinality(S) \in Nat /\ Cardinality(T) \in Nat
  BY FS_CardinalityType
<1>4. /\ IsFiniteSet(S \cup T)
      /\ Cardinality(S \cup T) = Cardinality(S) + Cardinality(T) - Cardinality(S \cap T)
  BY FS_Union
<1> QED
  BY <1>2, <1>3, <1>4

\* What is left of a finite set.
LEMMA Complement ==
  ASSUME NEW S, NEW T \in SUBSET S, IsFiniteSet(S)
  PROVE  /\ IsFiniteSet(T) /\ IsFiniteSet(S \ T)
         /\ Cardinality(S) \in Nat /\ Cardinality(T) \in Nat
         /\ Cardinality(S \ T) = Cardinality(S) - Cardinality(T)
<1>1. S \cap T = T
  OBVIOUS
<1>2. Cardinality(S \cap T) = Cardinality(T)
  BY <1>1, Zenon
<1>3. IsFiniteSet(T)
  BY FS_Subset
<1>4. Cardinality(S) \in Nat /\ Cardinality(T) \in Nat
  BY <1>3, FS_CardinalityType
<1> QED
  BY <1>2, <1>3, <1>4, FS_Difference

\* One more, one less.
LEMMA OneMore ==
  ASSUME NEW S, IsFiniteSet(S), NEW x
  PROVE  /\ IsFiniteSet(S \cup {x}) /\ Cardinality(S) \in Nat /\ Cardinality(S \cup {x}) \in Nat
         /\ Cardinality(S \cup {x}) <= Cardinality(S) + 1
<1>1. Cardinality(S) \in Nat
  BY FS_CardinalityType
<1>2. /\ IsFiniteSet(S \cup {x})
      /\ Cardinality(S \cup {x}) = IF x \in S THEN Cardinality(S) ELSE Cardinality(S) + 1
  BY FS_AddElement
<1>3. CASE x \in S
  BY <1>1, <1>2, <1>3
<1>4. CASE x \notin S
  BY <1>1, <1>2, <1>4
<1> QED
  BY <1>3, <1>4

\* A set without one element has one element less, if that was in it.
LEMMA OneLess ==
  ASSUME NEW S, IsFiniteSet(S), NEW x
  PROVE  /\ IsFiniteSet(S \ {x}) /\ Cardinality(S) \in Nat /\ Cardinality(S \ {x}) \in Nat
         /\ x \in S => Cardinality(S \ {x}) = Cardinality(S) - 1
         /\ x \notin S => Cardinality(S \ {x}) = Cardinality(S)
<1>1. Cardinality(S) \in Nat
  BY FS_CardinalityType
<1>2. /\ IsFiniteSet(S \ {x})
      /\ Cardinality(S \ {x}) = IF x \in S THEN Cardinality(S) - 1 ELSE Cardinality(S)
  BY FS_RemoveElement
<1>3. Cardinality(S \ {x}) \in Nat
  BY <1>2, FS_CardinalityType
<1> QED
  BY <1>1, <1>2, <1>3

\* A finite set has subsets of every size up to its own.
LEMMA SubsetOfSize ==
  ASSUME NEW S, IsFiniteSet(S), NEW n \in Nat, n <= Cardinality(S)
  PROVE  \E T \in SUBSET S : Cardinality(T) = n /\ IsFiniteSet(T)
<1>1. Cardinality(S) \in Nat
  BY FS_CardinalityType
<1>2. PICK f \in Bijection(1..Cardinality(S), S) : TRUE
  BY FS_CardinalityType DEF ExistsBijection
<1> DEFINE T == {f[i] : i \in 1..n}
           g == [i \in 1..n |-> f[i]]
<1>3. f \in [1..Cardinality(S) -> S] /\ \A i, j \in 1..Cardinality(S) : f[i] = f[j] => i = j
  BY DEF Bijection, Injection, IsInjective
<1>4. 1..n \subseteq 1..Cardinality(S)
  BY <1>1
<1>5. g \in Bijection(1..n, T)
  BY <1>3, <1>4 DEF Bijection, Injection, Surjection, IsInjective
<1>6. ExistsBijection(1..n, T)
  BY <1>5 DEF ExistsBijection
<1>7. IsFiniteSet(1..n)
  BY FS_Interval
<1>8. Cardinality(T) = n /\ IsFiniteSet(T)
  BY <1>6, <1>7, FS_CountingElements, FS_Bijection
<1>9. T \in SUBSET S
  BY <1>3, <1>4
<1> HIDE DEF T
<1> QED
  BY <1>8, <1>9

\* A list that names no one twice is as long as the set of what it names.
LEMMA InjectiveLength ==
  ASSUME NEW S, NEW s \in Seq(S), Injective(s)
  PROVE  /\ IsFiniteSet(Range(s)) /\ Cardinality(Range(s)) = Len(s)
         /\ Len(s) \in Nat /\ Range(s) \subseteq S
<1>1. Len(s) \in Nat /\ DOMAIN s = 1..Len(s) /\ s \in [1..Len(s) -> S]
  BY LenProperties
<1>2. s \in Bijection(1..Len(s), Range(s))
  BY <1>1 DEF Bijection, Injection, Surjection, IsInjective, Range, Injective
<1>3. ExistsBijection(1..Len(s), Range(s))
  BY <1>2 DEF ExistsBijection
<1>4. IsFiniteSet(1..Len(s))
  BY <1>1, FS_Interval
<1>5. Range(s) \subseteq S
  BY <1>1 DEF Range
<1> QED
  BY <1>1, <1>3, <1>4, <1>5, FS_CountingElements, FS_Bijection

\* What Append does to such a list.
LEMMA AppendInjectiveList ==
  ASSUME NEW S, NEW s \in Seq(S), Injective(s), NEW e \in S, e \notin Range(s)
  PROVE  /\ Append(s, e) \in Seq(S) /\ Injective(Append(s, e))
         /\ Range(Append(s, e)) = Range(s) \cup {e}
         /\ Len(Append(s, e)) = Len(s) + 1 /\ Append(s, e) # <<>>
<1> DEFINE t == Append(s, e)
<1>1. /\ Len(s) \in Nat /\ DOMAIN s = 1..Len(s)
      /\ t \in Seq(S) /\ t # <<>> /\ Len(t) = Len(s) + 1
      /\ \A i \in 1..Len(s) : t[i] = s[i]
      /\ t[Len(s) + 1] = e
  BY LenProperties, AppendProperties
<1>2. DOMAIN t = 1..Len(s) + 1
  BY <1>1, LenProperties
<1> HIDE DEF t
<1>3. Injective(t)
  BY <1>1, <1>2 DEF Injective, Range
<1>4. Range(t) = Range(s) \cup {e}
  BY <1>1, <1>2 DEF Range
<1> QED
  BY <1>1, <1>3, <1>4 DEF t

\* What Tail does to such a list.
LEMMA TailInjectiveList ==
  ASSUME NEW S, NEW s \in Seq(S), Injective(s), s # <<>>
  PROVE  /\ Tail(s) \in Seq(S) /\ Injective(Tail(s)) /\ Head(s) \in S
         /\ Head(s) \in Range(s) /\ Range(Tail(s)) = Range(s) \ {Head(s)}
<1> DEFINE t == Tail(s)
<1>1. /\ Len(s) \in Nat \ {0} /\ DOMAIN s = 1..Len(s)
      /\ t \in Seq(S) /\ Len(t) = Len(s) - 1 /\ Head(s) \in S
      /\ \A i \in 1..Len(t) : t[i] = s[i + 1]
  BY LenProperties, EmptySeq, HeadTailProperties
<1>2. DOMAIN t = 1..Len(s) - 1 /\ Head(s) = s[1]
  BY <1>1, LenProperties
<1> HIDE DEF t
<1>3. Injective(t)
  <2>1. ASSUME NEW i \in 1..Len(s) - 1, NEW j \in 1..Len(s) - 1, t[i] = t[j] PROVE i = j
    <3>1. s[i + 1] = s[j + 1] /\ i + 1 \in 1..Len(s) /\ j + 1 \in 1..Len(s)
      BY <1>1, <2>1
    <3>2. i + 1 = j + 1
      BY <1>1, <3>1 DEF Injective
    <3> QED
      BY <3>2
  <2> QED
    BY <1>2, <2>1 DEF Injective
<1>4. Head(s) \in Range(s)
  BY <1>1, <1>2 DEF Range
<1>5. ASSUME NEW x \in Range(t) PROVE x \in Range(s) \ {Head(s)}
  <2>1. PICK i \in 1..Len(s) - 1 : x = t[i]
    BY <1>2 DEF Range
  <2>2. x = s[i + 1] /\ i + 1 \in 1..Len(s) /\ i + 1 # 1 /\ 1 \in 1..Len(s)
    BY <1>1, <2>1
  <2> QED
    BY <1>1, <1>2, <2>2 DEF Range, Injective
<1>6. ASSUME NEW x \in Range(s) \ {Head(s)} PROVE x \in Range(t)
  <2>1. PICK i \in 1..Len(s) : x = s[i] /\ i # 1
    BY <1>1, <1>2 DEF Range
  <2>2. i - 1 \in 1..Len(t) /\ t[i - 1] = x
    BY <1>1, <2>1
  <2> QED
    BY <1>1, <1>2, <2>2 DEF Range
<1> QED
  BY <1>1, <1>3, <1>4, <1>5, <1>6 DEF t

\* What erasing does to such a list.
LEMMA WithoutInjectiveList ==
  ASSUME NEW S, NEW s \in Seq(S), Injective(s), NEW e
  PROVE  /\ Without(s, e) \in Seq(S) /\ Injective(Without(s, e))
         /\ Range(Without(s, e)) = Range(s) \ {e}
         /\ Len(Without(s, e)) = IF e \in Range(s) THEN Len(s) - 1 ELSE Len(s)
<1>1. CASE e \notin Range(s)
  BY <1>1 DEF Without
<1>2. CASE e \in Range(s)
  <2> DEFINE k == CHOOSE i \in DOMAIN s : s[i] = e
             a == SubSeq(s, 1, k - 1)
             b == SubSeq(s, k + 1, Len(s))
             t == Without(s, e)
  <2>1. /\ Len(s) \in Nat /\ DOMAIN s = 1..Len(s)
        /\ \A i \in 1..Len(s) : s[i] \in S
    BY LenProperties, ElementOfSeq
  <2>2. k \in 1..Len(s) /\ s[k] = e
    BY <1>2, <2>1 DEF Range
  <2>3. t = a \o b
    BY <1>2 DEF Without, RemoveAt
  <2> HIDE DEF k, t
  <2>4. /\ a \in Seq(S) /\ Len(a) = k - 1
        /\ \A i \in 1..k - 1 : a[i] = s[i]
    BY <2>1, <2>2, SubSeqProperties
  <2>5. /\ b \in Seq(S) /\ Len(b) = Len(s) - k
        /\ \A i \in 1..Len(s) - k : b[i] = s[k + i]
    <3>1. \A i \in k + 1..Len(s) : s[i] \in S
      BY <2>1, <2>2
    <3>2. /\ b \in Seq(S)
          /\ \A i \in 1..Len(s) - (k + 1) + 1 : b[i] = s[k + 1 + i - 1]
      BY <2>1, <2>2, <3>1, SubSeqProperties
    <3>3. Len(b) = Len(s) - k
      <4>1. Len(b) = IF k + 1 <= Len(s) THEN Len(s) - (k + 1) + 1 ELSE 0
        BY <2>1, <2>2, <3>1, SubSeqProperties
      <4>2. Len(s) \in Nat /\ k \in Nat /\ k <= Len(s)
        BY <2>1, <2>2
      <4> HIDE DEF a, b
      <4>3. CASE k + 1 <= Len(s)
        BY <4>1, <4>2, <4>3
      <4>4. CASE ~(k + 1 <= Len(s))
        BY <4>1, <4>2, <4>4
      <4> QED
        BY <4>3, <4>4
    <3> HIDE DEF b
    <3>4. ASSUME NEW i \in 1..Len(s) - k PROVE b[i] = s[k + i]
      <4>1. i \in 1..Len(s) - (k + 1) + 1 /\ k + 1 + i - 1 = k + i
        BY <2>1, <2>2
      <4>2. b[i] = s[k + 1 + i - 1]
        BY <3>2, <4>1
      <4> QED
        BY <4>1, <4>2
    <3> QED
      BY <3>2, <3>3, <3>4
  <2> HIDE DEF a, b
  <2>6. /\ t \in Seq(S) /\ Len(t) = Len(s) - 1
        /\ \A i \in 1..Len(s) - 1 : t[i] = IF i < k THEN s[i] ELSE s[i + 1]
    <3>1. /\ a \o b \in Seq(S) /\ Len(a \o b) = Len(a) + Len(b)
          /\ \A i \in 1..Len(a) + Len(b) : (a \o b)[i] = IF i <= Len(a) THEN a[i] ELSE b[i - Len(a)]
      BY <2>4, <2>5, ConcatProperties
    <3> QED
      BY <2>1, <2>2, <2>3, <2>4, <2>5, <3>1
  <2>7. DOMAIN t = 1..Len(s) - 1
    BY <2>6, LenProperties
  <2>8. Injective(t)
    BY <2>1, <2>2, <2>6, <2>7, SMTT(30) DEF Injective
  <2>9. ASSUME NEW x \in Range(t) PROVE x \in Range(s) \ {e}
    <3>1. PICK i \in 1..Len(s) - 1 : x = t[i]
      BY <2>7 DEF Range
    <3>2. PICK j \in 1..Len(s) : x = s[j] /\ j # k
      BY <2>1, <2>2, <2>6, <3>1
    <3> QED
      BY <2>1, <2>2, <3>2 DEF Range, Injective
  <2>10. ASSUME NEW x \in Range(s) \ {e} PROVE x \in Range(t)
    <3>1. PICK i \in 1..Len(s) : x = s[i] /\ i # k
      BY <2>1, <2>2 DEF Range
    <3>2. PICK j \in 1..Len(s) - 1 : x = t[j]
      <4>1. CASE i < k
        BY <2>1, <2>2, <2>6, <3>1, <4>1
      <4>2. CASE i > k
        <5>1. i - 1 \in 1..Len(s) - 1 /\ ~(i - 1 < k) /\ i - 1 + 1 = i
          BY <2>1, <2>2, <4>2
        <5> QED
          BY <2>6, <3>1, <5>1
      <4> QED
        BY <2>2, <3>1, <4>1, <4>2
    <3> QED
      BY <2>7, <3>2 DEF Range
  <2> QED
    BY <1>2, <2>6, <2>8, <2>9, <2>10 DEF t
<1> QED
  BY <1>1, <1>2

-----------------------------------------------------------------------------
(* The inductive invariant *)

ConnStates == {"none", "CONNECTING", "READY", "OVERWHELMED", "CLOSING"}

Shapes ==
  /\ state \in {"NEW", "CONNECTING", "WAITING_TO_CONNECT", "READY", "CLOSING", "CLOSED"}
  /\ connections \in Seq(Connections) /\ connections_pending \subseteq Connections
  /\ conn \in [Connections -> ConnStates]
  /\ cause \in [Connections -> {"none", "close", "timeout", "critical", "error"}]
  /\ streams \in [Connections -> 0..Streams]
  /\ written \in [Connections -> SUBSET Requests]
  /\ pending_requests \in Seq(Requests) /\ left \subseteq Requests
  /\ available_connection_count \in Nat /\ is_available \in BOOLEAN
  /\ timer \in {"none", "wait", "partial"}
  /\ is_critical_failure \in BOOLEAN /\ cancel_reconnect \in BOOLEAN
  /\ failures \in 0..MaxFailures
  /\ notices \in [ready : Nat, closed : Nat]

\* Which list a connection is in, by its state.
Lists ==
  /\ Injective(connections)
  /\ \A c \in Connections :
       /\ c \in Range(connections) => c \notin connections_pending
       /\ conn[c] # "none" <=> c \in Range(connections) \/ c \in connections_pending
       /\ conn[c] = "CONNECTING" => c \in connections_pending
       /\ conn[c] \in {"READY", "OVERWHELMED"} => c \in Range(connections)
  /\ Len(connections) + Cardinality(connections_pending) <= MaxConnections

\* What connections there are, by the state of the pool.
States ==
  /\ state \in {"NEW", "WAITING_TO_CONNECT", "CLOSED"} => \A c \in Connections : conn[c] = "none"
  /\ state = "CLOSING" => \A c \in Connections : conn[c] \in {"none", "CLOSING"}
  /\ timer = "wait" <=> state = "WAITING_TO_CONNECT"
  /\ timer = "partial" => state # "NEW"

\* A request that was written holds a stream, and only connections that were
\* set up have any.
StreamsHeld ==
  \A c \in Connections :
    /\ Cardinality(written[c]) <= streams[c]
    /\ conn[c] \in {"none", "CONNECTING"} => streams[c] = 0 /\ written[c] = {}

\* The places of a request exclude each other.
OnePlace ==
  /\ \A r \in Requests, c, d \in Connections : r \in written[c] /\ r \in written[d] => c = d
  /\ Injective(pending_requests)
  /\ \A r \in Range(pending_requests) : r \notin left /\ \A c \in Connections : r \notin written[c]
  /\ \A r \in left, c \in Connections : r \notin written[c]
  /\ state = "CLOSED" => pending_requests = <<>>

Inv ==
  /\ Shapes /\ Lists /\ States /\ StreamsHeld /\ OnePlace
  /\ AvailabilityExact /\ ReadyPoolIsConnected /\ NotifiedOnce /\ ReconnectScheduled

-----------------------------------------------------------------------------
(* Steps that several actions share *)

\* The assumption, in the form the proofs cite.
LEMMA Limits ==
  /\ IsFiniteSet(Connections) /\ IsFiniteSet(Requests)
  /\ Core \in Nat \ {0} /\ MaxConnections \in Nat /\ MaxCreation \in Nat
  /\ Threshold \in Nat \ {0} /\ Streams \in Nat \ {0}
  /\ LowWaterMark \in Nat /\ HighWaterMark \in Nat /\ MaxFailures \in Nat
  /\ Core <= MaxConnections
  BY PoolAssumption

\* There are objects for the connections that the limits leave room for.
LEMMA Room ==
  ASSUME Shapes, Lists, NEW n \in Nat,
         Len(connections) + Cardinality(connections_pending) + n <= MaxConnections
  PROVE  /\ Fresh(n) \subseteq Connections /\ IsFiniteSet(Fresh(n)) /\ Cardinality(Fresh(n)) = n
         /\ \A c \in Fresh(n) : conn[c] = "none"
<1> DEFINE open == Range(connections) \cup connections_pending
<1>1. /\ IsFiniteSet(Range(connections)) /\ Cardinality(Range(connections)) = Len(connections)
      /\ Len(connections) \in Nat /\ Range(connections) \subseteq Connections
  BY InjectiveLength DEF Shapes, Lists
<1>2. /\ IsFiniteSet(Connections) /\ Cardinality(Connections) \in Nat
      /\ MaxConnections \in Nat /\ MaxConnections <= Cardinality(Connections)
  BY PoolAssumption, FS_CardinalityType
<1>3. IsFiniteSet(connections_pending) /\ Cardinality(connections_pending) \in Nat
  BY <1>2, FS_Subset, FS_CardinalityType DEF Shapes
<1>4. \A c \in Range(connections) : c \notin connections_pending
  BY <1>1 DEF Lists
<1>5. Cardinality(open) = Len(connections) + Cardinality(connections_pending)
  BY <1>1, <1>3, <1>4, DisjointUnion
<1>6. open \in SUBSET Connections
  BY <1>1 DEF Shapes
<1> HIDE DEF open
<1>7. Unused = Connections \ open
  BY DEF Lists, Unused, open
<1>8. IsFiniteSet(Unused) /\ n <= Cardinality(Unused)
  <2>1. IsFiniteSet(Connections \ open) /\ n <= Cardinality(Connections \ open)
    <3>1. /\ IsFiniteSet(Connections \ open)
          /\ Cardinality(Connections \ open) = Cardinality(Connections) - Cardinality(open)
      BY <1>2, <1>6, Complement
    <3> QED
      BY <1>1, <1>2, <1>3, <1>5, <3>1
  <2> QED
    BY <1>7, <2>1, Zenon
<1>9. \E T \in SUBSET Unused : Cardinality(T) = n
  BY <1>8, SubsetOfSize
<1>10. Fresh(n) \in SUBSET Unused /\ Cardinality(Fresh(n)) = n
  BY <1>9 DEF Fresh
<1> QED
  BY <1>8, <1>10, FS_Subset DEF Unused

\* The lists stay right when new connections are spawned and others that are
\* set up become overwhelmed or are relieved.
LEMMA ListsSpawn ==
  ASSUME Shapes, Lists, NEW new \in SUBSET Connections, IsFiniteSet(new),
         \A c \in new : conn[c] = "none",
         Len(connections) + Cardinality(connections_pending) + Cardinality(new) <= MaxConnections,
         connections' = connections, connections_pending' = connections_pending \cup new,
         \A c \in new : conn'[c] = "CONNECTING",
         \A c \in Connections \ new :
           conn'[c] = conn[c] \/ {conn[c], conn'[c]} \subseteq {"READY", "OVERWHELMED"}
  PROVE  /\ Lists' /\ connections_pending' \subseteq Connections
         /\ Len(connections') + Cardinality(connections_pending')
              = Len(connections) + Cardinality(connections_pending) + Cardinality(new)
<1>1. IsFiniteSet(connections_pending) /\ Cardinality(connections_pending) \in Nat
  BY PoolAssumption, FS_Subset, FS_CardinalityType DEF Shapes
<1>2. \A c \in connections_pending : c \notin new
  BY DEF Shapes, Lists
<1>3. Cardinality(connections_pending') = Cardinality(connections_pending) + Cardinality(new)
  BY <1>1, <1>2, DisjointUnion
<1>4. Len(connections') = Len(connections) /\ Len(connections) \in Nat /\ Cardinality(new) \in Nat
  BY LenProperties, FS_CardinalityType DEF Shapes
<1>5. ASSUME NEW c \in Connections
      PROVE  /\ c \in Range(connections') => c \notin connections_pending'
             /\ conn'[c] # "none" <=> c \in Range(connections') \/ c \in connections_pending'
             /\ conn'[c] = "CONNECTING" => c \in connections_pending'
             /\ conn'[c] \in {"READY", "OVERWHELMED"} => c \in Range(connections')
  <2>1. CASE c \in new
    BY <2>1 DEF Lists
  <2>2. CASE c \notin new
    BY <2>2 DEF Lists
  <2> QED
    BY <2>1, <2>2
<1>6. Injective(connections')
  BY DEF Lists
<1>7. Lists'
  BY <1>1, <1>3, <1>4, <1>5, <1>6 DEF Lists
<1> QED
  BY <1>1, <1>3, <1>4, <1>7 DEF Shapes

\* The count of available connections stays right when it follows the one
\* connection that changes.
LEMMA CountFollows ==
  ASSUME Shapes, AvailabilityExact, NEW c \in Connections,
         \A x \in Connections \ {c} : conn'[x] = "READY" <=> conn[x] = "READY",
         available_connection_count' =
           available_connection_count - Count(conn[c] = "READY") + Count(conn'[c] = "READY")
  PROVE  /\ available_connection_count' = Cardinality({x \in Connections : conn'[x] = "READY"})
         /\ available_connection_count' \in Nat
<1> DEFINE R == {x \in Connections : conn[x] = "READY"}
           S == {x \in Connections : conn'[x] = "READY"}
<1>1. IsFiniteSet(R) /\ IsFiniteSet(S) /\ Cardinality(R) \in Nat /\ Cardinality(S) \in Nat
  <2>1. R \in SUBSET Connections /\ S \in SUBSET Connections
    OBVIOUS
  <2> QED
    BY <2>1, PoolAssumption, FS_Subset, FS_CardinalityType
<1>2. available_connection_count = Cardinality(R)
  BY DEF AvailabilityExact
<1>3. R \ {c} = S \ {c}
  OBVIOUS
<1>4. /\ Cardinality(R \ {c}) = Cardinality(R) - Count(conn[c] = "READY")
      /\ Cardinality(S \ {c}) = Cardinality(S) - Count(conn'[c] = "READY")
  <2>1. /\ Cardinality(R \ {c}) = IF c \in R THEN Cardinality(R) - 1 ELSE Cardinality(R)
        /\ Cardinality(S \ {c}) = IF c \in S THEN Cardinality(S) - 1 ELSE Cardinality(S)
    BY <1>1, FS_RemoveElement
  <2> QED
    BY <1>1, <2>1 DEF Count
<1> HIDE DEF R, S
<1>5. Cardinality(R) - Count(conn[c] = "READY") = Cardinality(S) - Count(conn'[c] = "READY")
  BY <1>3, <1>4, Zenon
<1>6. Count(conn[c] = "READY") \in Nat /\ Count(conn'[c] = "READY") \in Nat
  BY DEF Count
<1>7. available_connection_count' = Cardinality(S)
  BY <1>1, <1>2, <1>5, <1>6
<1> QED
  BY <1>1, <1>7 DEF S

\* The count stays right when no connection becomes available or ceases to be.
LEMMA CountStays ==
  ASSUME AvailabilityExact, available_connection_count' = available_connection_count,
         \A x \in Connections : conn'[x] = "READY" <=> conn[x] = "READY"
  PROVE  available_connection_count' = Cardinality({x \in Connections : conn'[x] = "READY"})
<1> DEFINE R == {x \in Connections : conn[x] = "READY"}
           S == {x \in Connections : conn'[x] = "READY"}
<1>1. R = S
  OBVIOUS
<1>2. available_connection_count = Cardinality(R)
  BY DEF AvailabilityExact
<1> HIDE DEF R, S
<1>3. available_connection_count' = Cardinality(S)
  BY <1>1, <1>2
<1> QED
  BY <1>3 DEF S

\* Steps that leave the requests and their streams alone.
LEMMA RequestsStay ==
  ASSUME Inv, UNCHANGED <<streams, written, requests>>, state' # "CLOSED",
         \A c \in Connections : conn'[c] = "none" => conn[c] = "none",
         \A c \in Connections : conn'[c] = "CONNECTING" => conn[c] \in {"none", "CONNECTING"}
  PROVE  StreamsHeld' /\ OnePlace'
<1>1. StreamsHeld'
  <2> SUFFICES ASSUME NEW c \in Connections
               PROVE  /\ Cardinality(written'[c]) <= streams'[c]
                      /\ conn'[c] \in {"none", "CONNECTING"} => streams'[c] = 0 /\ written'[c] = {}
    BY DEF StreamsHeld
  <2> QED
    BY DEF Inv, StreamsHeld
<1>2. OnePlace'
  BY DEF Inv, OnePlace, requests
<1> QED
  BY <1>1, <1>2

-----------------------------------------------------------------------------
(* The invariant holds at first and is preserved *)

\* A pool begins without connections and requests.
LEMMA InvInit ==
  ASSUME Init
  PROVE  Inv
<1>1. Shapes
  <2>1. connections \in Seq(Connections) /\ pending_requests \in Seq(Requests)
    BY EmptySeq DEF Init
  <2>2. streams \in [Connections -> 0..Streams] /\ failures \in 0..MaxFailures
    BY Limits DEF Init
  <2>3. notices \in [ready : Nat, closed : Nat] /\ written \in [Connections -> SUBSET Requests]
    BY DEF Init
  <2> QED
    BY <2>1, <2>2, <2>3 DEF Init, Shapes, ConnStates
<1>2. Lists
  <2>1. Injective(connections) /\ Range(connections) = {} /\ Len(connections) = 0
    BY DEF Init, Injective, Range
  <2> QED
    BY <2>1, PoolAssumption, FS_EmptySet DEF Init, Lists
<1>3. States /\ ReadyPoolIsConnected /\ NotifiedOnce /\ ReconnectScheduled
  BY DEF Init, States, ReadyPoolIsConnected, NotifiedOnce, ReconnectScheduled
<1>4. StreamsHeld
  BY FS_EmptySet DEF Init, StreamsHeld
<1>5. OnePlace
  BY DEF Init, OnePlace, Injective, Range
<1>6. AvailabilityExact
  <2>1. {c \in Connections : conn[c] = "READY"} = {}
    BY DEF Init
  <2>2. Cardinality({c \in Connections : conn[c] = "READY"}) = 0
    BY <2>1, FS_EmptySet, Zenon
  <2> QED
    BY <2>2 DEF Init, AvailabilityExact
<1> QED
  BY <1>1, <1>2, <1>3, <1>4, <1>5, <1>6 DEF Inv

\* The pool spawns connections, all of them or those that are missing.
LEMMA SpawnPreserves ==
  ASSUME Inv, Connect \/ OnPartialReconnect
  PROVE  Inv'
<1> DEFINE current == Len(connections) + Cardinality(connections_pending)
<1>1. /\ Core \in Nat /\ MaxConnections \in Nat /\ Core <= MaxConnections /\ current \in Nat
      /\ current <= MaxConnections
  <2>1. Len(connections) \in Nat
    BY InjectiveLength DEF Inv, Shapes, Lists
  <2>2. Cardinality(connections_pending) \in Nat
    BY Limits, FS_Subset, FS_CardinalityType DEF Inv, Shapes
  <2> QED
    BY <2>1, <2>2, Limits DEF Inv, Lists
<1>2. PICK n \in Nat :
        /\ current + n <= MaxConnections
        /\ Spawn(Fresh(n))
        /\ state \in Closing => n = 0
        /\ state' \in {"CONNECTING", "READY"} => current + n >= Core
        /\ \/ state' = "CONNECTING" /\ state \in {"NEW", "WAITING_TO_CONNECT"}
           \/ state' = state /\ timer = "partial"
        /\ timer' = "none"
  <2>1. CASE Connect
    <3>1. \A c \in Connections : c \notin Range(connections) /\ c \notin connections_pending
      BY <2>1 DEF Connect, Inv, States, Lists
    <3>2. current = 0
      <4>1. Range(connections) = {} /\ connections_pending = {}
        BY <3>1, InjectiveLength DEF Inv, Shapes, Lists
      <4>2. Cardinality(Range(connections)) = 0 /\ Cardinality(connections_pending) = 0
        BY <4>1, FS_EmptySet, Zenon
      <4> QED
        BY <4>2, InjectiveLength DEF Inv, Shapes, Lists
    <3> QED
      BY <1>1, <2>1, <3>2 DEF Connect, Closing
  <2>2. CASE OnPartialReconnect
    <3>1. CASE current < Core /\ state \notin Closing
      <4>1. Core - current \in Nat /\ current + (Core - current) = Core
        BY <1>1, <3>1
      <4> QED
        BY <1>1, <2>2, <3>1, <4>1 DEF OnPartialReconnect
    <3>2. CASE ~(current < Core /\ state \notin Closing)
      BY <1>1, <2>2, <3>2 DEF OnPartialReconnect, Closing
    <3> QED
      BY <3>1, <3>2
  <2> QED
    BY <2>1, <2>2
<1>3. UNCHANGED <<is_critical_failure, cancel_reconnect, notices, connections, cause, streams, written,
                  avail, requests, failures>>
  BY DEF Connect, OnPartialReconnect
<1> DEFINE new == Fresh(n)
<1>4. /\ new \in SUBSET Connections /\ IsFiniteSet(new) /\ Cardinality(new) = n
      /\ \A c \in new : conn[c] = "none"
  BY <1>2, Room DEF Inv
<1>5. n = 0 => new = {}
  BY <1>4, FS_EmptySet
<1>6. /\ connections_pending' = connections_pending \cup new
      /\ conn' = [c \in Connections |-> IF c \in new THEN "CONNECTING" ELSE conn[c]]
  BY <1>2 DEF Spawn
<1> HIDE DEF new
<1>7. /\ Lists' /\ connections_pending' \subseteq Connections
      /\ Len(connections') + Cardinality(connections_pending') = current + n
  BY <1>2, <1>3, <1>4, <1>6, ListsSpawn DEF Inv
<1>8. Shapes'
  BY <1>2, <1>3, <1>6, <1>7 DEF Inv, Shapes, ConnStates, avail, requests
<1>9. States' /\ ReadyPoolIsConnected' /\ NotifiedOnce' /\ ReconnectScheduled'
  <2>1. States'
    BY <1>2, <1>3, <1>4, <1>5, <1>6 DEF Inv, Shapes, States, Closing
  <2>2. ReadyPoolIsConnected' /\ NotifiedOnce'
    BY <1>2, <1>3 DEF Inv, Shapes, ReadyPoolIsConnected, NotifiedOnce, Closing
  <2>3. ReconnectScheduled'
    BY <1>2, <1>7 DEF ReconnectScheduled
  <2> QED
    BY <2>1, <2>2, <2>3
<1>10. StreamsHeld' /\ OnePlace'
  <2>1. StreamsHeld'
    <3> SUFFICES ASSUME NEW c \in Connections
                 PROVE  /\ Cardinality(written'[c]) <= streams'[c]
                        /\ conn'[c] \in {"none", "CONNECTING"} => streams'[c] = 0 /\ written'[c] = {}
      BY DEF StreamsHeld
    <3> QED
      BY <1>3, <1>4, <1>6 DEF Inv, StreamsHeld
  <2>2. OnePlace'
    BY <1>2, <1>3 DEF Inv, OnePlace, requests
  <2> QED
    BY <2>1, <2>2
<1>11. AvailabilityExact'
  <2>1. \A x \in Connections : conn'[x] = "READY" <=> conn[x] = "READY"
    BY <1>4, <1>6
  <2>2. available_connection_count' = Cardinality({x \in Connections : conn'[x] = "READY"})
    BY <1>3, <2>1, CountStays DEF Inv, avail
  <2> QED
    BY <1>2, <1>3, <2>2 DEF Inv, AvailabilityExact, avail, Closing
<1> QED
  BY <1>7, <1>8, <1>9, <1>10, <1>11 DEF Inv

\* A pool that waits before it connects.
LEMMA DelayedConnectPreserves ==
  ASSUME Inv, DelayedConnect
  PROVE  Inv'
<1> USE DEF DelayedConnect, conns, avail, requests
<1>1. Shapes' /\ Lists'
  BY DEF Inv, Shapes, Lists
<1>2. States' /\ ReadyPoolIsConnected' /\ NotifiedOnce' /\ ReconnectScheduled'
  BY DEF Inv, States, ReadyPoolIsConnected, NotifiedOnce, ReconnectScheduled, Closing
<1>3. StreamsHeld' /\ OnePlace'
  BY DEF Inv, StreamsHeld, OnePlace
<1>4. AvailabilityExact'
  BY DEF Inv, AvailabilityExact, Closing
<1> QED
  BY <1>1, <1>2, <1>3, <1>4 DEF Inv

\* A request is written to a connection that has a stream for it.
LEMMA WrittenHeld ==
  ASSUME Shapes, StreamsHeld, NEW c \in Connections, NEW r \in Requests, streams[c] < Streams,
         streams' = [streams EXCEPT ![c] = @ + 1],
         written' = [written EXCEPT ![c] = @ \cup {r}],
         conn'[c] \in {"READY", "OVERWHELMED"},
         \A x \in Connections \ {c} :
           conn'[x] \in {"none", "CONNECTING"} => conn[x] \in {"none", "CONNECTING"}
  PROVE  /\ streams' \in [Connections -> 0..Streams] /\ written' \in [Connections -> SUBSET Requests]
         /\ StreamsHeld'
<1>1. streams[c] \in Nat /\ Streams \in Nat /\ streams[c] + 1 \in 0..Streams
  BY Limits DEF Shapes
<1>2. streams' \in [Connections -> 0..Streams] /\ written' \in [Connections -> SUBSET Requests]
  BY <1>1 DEF Shapes
<1>3. IsFiniteSet(written[c])
  BY Limits, FS_Subset DEF Shapes
<1>4. Cardinality(written[c]) \in Nat /\ Cardinality(written[c] \cup {r}) <= Cardinality(written[c]) + 1
  BY <1>3, OneMore
<1>5. Cardinality(written[c]) <= streams[c]
  BY DEF StreamsHeld
<1>6. Cardinality(written[c] \cup {r}) <= streams[c] + 1
  <2>1. Cardinality(written[c] \cup {r}) \in Nat
    BY <1>3, OneMore
  <2> QED
    BY <1>1, <1>4, <1>5, <2>1
<1>7. written'[c] = written[c] \cup {r} /\ streams'[c] = streams[c] + 1
  BY DEF Shapes
<1>8. Cardinality(written'[c]) <= streams'[c]
  BY <1>6, <1>7
<1>9. ASSUME NEW x \in Connections, x # c
      PROVE  written'[x] = written[x] /\ streams'[x] = streams[x]
  BY <1>9 DEF Shapes
<1>10. StreamsHeld'
  <2> SUFFICES ASSUME NEW x \in Connections
               PROVE  /\ Cardinality(written'[x]) <= streams'[x]
                      /\ conn'[x] \in {"none", "CONNECTING"} => streams'[x] = 0 /\ written'[x] = {}
    BY DEF StreamsHeld
  <2>1. CASE x = c
    BY <1>8, <2>1
  <2>2. CASE x # c
    BY <1>9, <2>2 DEF StreamsHeld
  <2> QED
    BY <2>1, <2>2
<1> QED
  BY <1>2, <1>10

\* A request that was nowhere, or waited longest, is written to a connection.
LEMMA WrittenInOnePlace ==
  ASSUME Shapes, OnePlace, NEW c \in Connections, NEW r \in Requests,
         \A x \in Connections : r \notin written[x],
         r \notin left, left' = left, state' # "CLOSED",
         written' = [written EXCEPT ![c] = @ \cup {r}],
         pending_requests' \in Seq(Requests), Injective(pending_requests'),
         Range(pending_requests') \subseteq Range(pending_requests) \ {r}
  PROVE  OnePlace'
<1>1. \A x \in Connections : \A q \in written'[x] : q \in written[x] \/ (x = c /\ q = r)
  BY DEF Shapes
<1> QED
  BY <1>1 DEF OnePlace

\* What maybe_notify_ready does.
LEMMA Notified ==
  ASSUME Shapes, NotifiedOnce, NEW pending, MaybeNotifyReady(pending)
  PROVE  /\ notices' \in [ready : Nat, closed : Nat] /\ NotifiedOnce'
         /\ state' = state \/ (state = "CONNECTING" /\ state' = "READY")
<1>1. state' = IF state = "CONNECTING" /\ pending = {} THEN "READY" ELSE state
  BY DEF MaybeNotifyReady
<1>2. CASE state' = state
  <2>1. notices' = [notices EXCEPT !.ready = @ + 0]
    BY <1>2 DEF MaybeNotifyReady, Count
  <2>2. notices' = notices
    BY <2>1 DEF Shapes
  <2> QED
    BY <1>2, <2>2 DEF Shapes, NotifiedOnce
<1>3. CASE state' # state
  <2>1. notices' = [notices EXCEPT !.ready = @ + 1]
    BY <1>3 DEF MaybeNotifyReady, Count
  <2>2. notices.ready = 0 /\ state = "CONNECTING" /\ state' = "READY"
    BY <1>1, <1>3 DEF Shapes, NotifiedOnce, Closing
  <2>3. notices \in [ready : Nat, closed : Nat]
    BY DEF Shapes
  <2>4. /\ notices' \in [ready : Nat, closed : Nat]
        /\ notices'.ready = 1 /\ notices'.closed = notices.closed
    BY <2>1, <2>2, <2>3
  <2> QED
    BY <2>2, <2>4 DEF NotifiedOnce
<1> QED
  BY <1>2, <1>3

\* A connection is ready.
LEMMA OnReadyPreserves ==
  ASSUME Inv, NEW c \in Connections, OnReady(c)
  PROVE  Inv'
<1>1. /\ c \in connections_pending /\ c \notin Range(connections) /\ conn[c] = "CONNECTING"
      /\ state \in {"CONNECTING", "READY"} /\ streams[c] = 0 /\ written[c] = {}
  BY DEF OnReady, Inv, Shapes, Lists, States, StreamsHeld
<1>2. /\ connections' \in Seq(Connections) /\ Injective(connections') /\ connections' # <<>>
      /\ Range(connections') = Range(connections) \cup {c}
      /\ Len(connections') = Len(connections) + 1 /\ Len(connections) \in Nat
  <2>1. /\ connections' = Append(connections, c)
        /\ connections \in Seq(Connections) /\ Injective(connections)
    BY DEF OnReady, Inv, Shapes, Lists
  <2>2. Len(connections) \in Nat
    BY <2>1, LenProperties
  <2> QED
    BY <1>1, <2>1, <2>2, AppendInjectiveList
<1>3. /\ connections_pending' = connections_pending \ {c} /\ Cardinality(connections_pending) \in Nat
      /\ Cardinality(connections_pending') = Cardinality(connections_pending) - 1
  <2>1. IsFiniteSet(connections_pending)
    BY Limits, FS_Subset DEF Inv, Shapes
  <2> QED
    BY <1>1, <2>1, FS_RemoveElement, FS_CardinalityType DEF OnReady
<1>4. /\ UNCHANGED <<timer, is_critical_failure, cancel_reconnect, cause, left, failures>>
      /\ state' \in {"CONNECTING", "READY"}
      /\ notices' \in [ready : Nat, closed : Nat] /\ NotifiedOnce'
  BY <1>1, Notified DEF OnReady, Inv
<1>5. /\ conn' \in [Connections -> ConnStates] /\ conn'[c] \in {"READY", "OVERWHELMED"}
      /\ \A x \in Connections \ {c} : conn'[x] = conn[x]
      /\ available_connection_count' = available_connection_count + Count(conn'[c] = "READY")
      /\ is_available' \in BOOLEAN
      /\ is_available' => available_connection_count' > 0
  <2>1. CASE pending_requests = <<>>
    <3>1. /\ conn' = [conn EXCEPT ![c] = "READY"]
          /\ available_connection_count' = available_connection_count + 1
          /\ is_available' = (is_available \/ (available_connection_count + 1 > 0 /\ Len(pending_requests) < LowWaterMark))
      BY <2>1 DEF OnReady, ReturnConnection, AvailableAgain
    <3>2. is_available' \in BOOLEAN
      BY <3>1, Zenon DEF Inv, Shapes
    <3>3. available_connection_count' > 0
      BY <3>1 DEF Inv, Shapes
    <3>4. conn' \in [Connections -> ConnStates]
      BY <3>1 DEF Inv, Shapes, ConnStates
    <3>5. conn'[c] = "READY" /\ \A x \in Connections \ {c} : conn'[x] = conn[x]
      BY <3>1 DEF Inv, Shapes
    <3> QED
      BY <3>1, <3>2, <3>3, <3>4, <3>5 DEF Count
  <2>2. CASE pending_requests # <<>>
    <3> DEFINE first == Head(pending_requests)
               count == available_connection_count + 1
               available == AvailableAgain(count, Tail(pending_requests))
               new == {}
    <3>0. WriteTo(c, first, count, available, new) /\ count \in Nat
      BY <2>2 DEF OnReady, ReturnConnection, Inv, Shapes
    <3> HIDE DEF first, count, available, new
    <3>1. PICK overwhelmed \in BOOLEAN :
            /\ streams' = [streams EXCEPT ![c] = @ + 1]
            /\ written' = [written EXCEPT ![c] = @ \cup {first}]
            /\ conn' = [x \in Connections |->
                 IF x = c THEN (IF overwhelmed THEN "OVERWHELMED" ELSE "READY")
                 ELSE IF x \in new THEN "CONNECTING" ELSE conn[x]]
            /\ available_connection_count' = count - Count(overwhelmed)
            /\ is_available' = (available /\ available_connection_count' > 0)
      BY <3>0, Zenon DEF WriteTo
    <3>2. is_available' \in BOOLEAN /\ (is_available' => available_connection_count' > 0)
      BY <3>1, Zenon
    <3>3. conn' \in [Connections -> ConnStates]
      BY <3>1 DEF Inv, Shapes, ConnStates, new
    <3>4. available_connection_count' = available_connection_count + Count(conn'[c] = "READY")
      BY <3>1 DEF Inv, Shapes, Count, count
    <3>5. \A x \in Connections \ {c} : conn'[x] = conn[x]
      BY <3>1 DEF new
    <3> QED
      BY <3>1, <3>2, <3>3, <3>4, <3>5
  <2> QED
    BY <2>1, <2>2
<1>6. /\ streams' \in [Connections -> 0..Streams] /\ written' \in [Connections -> SUBSET Requests]
      /\ pending_requests' \in Seq(Requests) /\ StreamsHeld' /\ OnePlace'
  <2>1. CASE pending_requests = <<>>
    <3>1. UNCHANGED <<streams, written, pending_requests, left>>
      BY <1>4, <2>1 DEF OnReady, ReturnConnection
    <3>2. StreamsHeld'
      <4> SUFFICES ASSUME NEW x \in Connections
                   PROVE  /\ Cardinality(written'[x]) <= streams'[x]
                          /\ conn'[x] \in {"none", "CONNECTING"} => streams'[x] = 0 /\ written'[x] = {}
        BY DEF StreamsHeld
      <4> QED
        BY <1>5, <3>1 DEF Inv, StreamsHeld
    <3>3. OnePlace'
      BY <1>4, <3>1 DEF Inv, OnePlace
    <3> QED
      BY <3>1, <3>2, <3>3 DEF Inv, Shapes
  <2>2. CASE pending_requests # <<>>
    <3> DEFINE r == Head(pending_requests)
    <3>1. /\ pending_requests' = Tail(pending_requests)
          /\ streams' = [streams EXCEPT ![c] = @ + 1]
          /\ written' = [written EXCEPT ![c] = @ \cup {r}]
      BY <2>2 DEF OnReady, ReturnConnection, WriteTo
    <3>2. /\ r \in Requests /\ r \in Range(pending_requests)
          /\ pending_requests' \in Seq(Requests) /\ Injective(pending_requests')
          /\ Range(pending_requests') = Range(pending_requests) \ {r}
      BY <2>2, <3>1, TailInjectiveList DEF Inv, Shapes, OnePlace
    <3>3. r \notin left /\ \A x \in Connections : r \notin written[x]
      BY <3>2 DEF Inv, OnePlace
    <3> HIDE DEF r
    <3>4. OnePlace'
      BY <1>4, <3>1, <3>2, <3>3, WrittenInOnePlace DEF Inv
    <3>5. streams[c] < Streams
      BY <1>1, Limits
    <3>6. /\ streams' \in [Connections -> 0..Streams] /\ written' \in [Connections -> SUBSET Requests]
          /\ StreamsHeld'
      BY <1>5, <3>1, <3>2, <3>5, WrittenHeld DEF Inv
    <3> QED
      BY <3>2, <3>4, <3>6
  <2> QED
    BY <2>1, <2>2
<1>7. AvailabilityExact' /\ available_connection_count' \in Nat
  <2>1. Count(conn[c] = "READY") = 0
    BY <1>1 DEF Count
  <2>2. available_connection_count' =
          available_connection_count - Count(conn[c] = "READY") + Count(conn'[c] = "READY")
    BY <1>5, <2>1 DEF Inv, Shapes, Count
  <2>3. /\ available_connection_count' = Cardinality({x \in Connections : conn'[x] = "READY"})
        /\ available_connection_count' \in Nat
    BY <1>5, <2>2, CountFollows DEF Inv
  <2> QED
    BY <1>4, <1>5, <2>3 DEF AvailabilityExact, Closing
<1>8. Shapes'
  BY <1>2, <1>3, <1>4, <1>5, <1>6, <1>7 DEF Inv, Shapes
<1>9. Lists'
  <2>1. \A x \in Connections :
          /\ x \in Range(connections') => x \notin connections_pending'
          /\ conn'[x] # "none" <=> x \in Range(connections') \/ x \in connections_pending'
          /\ conn'[x] = "CONNECTING" => x \in connections_pending'
          /\ conn'[x] \in {"READY", "OVERWHELMED"} => x \in Range(connections')
    BY <1>1, <1>2, <1>3, <1>5 DEF Inv, Lists
  <2> QED
    BY <1>2, <1>3, <2>1 DEF Inv, Lists
<1>10. States' /\ ReadyPoolIsConnected'
  BY <1>1, <1>2, <1>4 DEF Inv, States, ReadyPoolIsConnected
<1>11. ReconnectScheduled'
  BY <1>1, <1>2, <1>3, <1>4 DEF Inv, ReconnectScheduled
<1> QED
  BY <1>4, <1>6, <1>7, <1>8, <1>9, <1>10, <1>11 DEF Inv

\* The connections that maybe_spawn_connection spawns.
LEMMA SpawnedOne ==
  ASSUME Shapes, Lists
  PROVE  /\ MaybeSpawned \in SUBSET Connections /\ IsFiniteSet(MaybeSpawned)
         /\ \A c \in MaybeSpawned : conn[c] = "none"
         /\ Len(connections) + Cardinality(connections_pending) + Cardinality(MaybeSpawned) <= MaxConnections
         /\ Len(connections) + Cardinality(connections_pending) \in Nat
         /\ Cardinality(MaybeSpawned) \in Nat
<1>1. Len(connections) \in Nat
  BY InjectiveLength DEF Shapes, Lists
<1>2. Cardinality(connections_pending) \in Nat
  BY Limits, FS_Subset, FS_CardinalityType DEF Shapes
<1>3. CASE /\ Cardinality(connections_pending) < MaxCreation
           /\ Len(connections) + Cardinality(connections_pending) < MaxConnections
  <2>1. MaybeSpawned = Fresh(1)
    BY <1>3 DEF MaybeSpawned
  <2>2. Len(connections) + Cardinality(connections_pending) + 1 <= MaxConnections
    BY <1>1, <1>2, <1>3, Limits
  <2>3. /\ Fresh(1) \subseteq Connections /\ IsFiniteSet(Fresh(1)) /\ Cardinality(Fresh(1)) = 1
        /\ \A c \in Fresh(1) : conn[c] = "none"
    BY <2>2, Room
  <2> QED
    BY <1>1, <1>2, <2>1, <2>2, <2>3
<1>4. CASE ~(/\ Cardinality(connections_pending) < MaxCreation
             /\ Len(connections) + Cardinality(connections_pending) < MaxConnections)
  <2>1. MaybeSpawned = {}
    BY <1>4 DEF MaybeSpawned
  <2>2. IsFiniteSet(MaybeSpawned) /\ Cardinality(MaybeSpawned) = 0
    BY <2>1, FS_EmptySet, Zenon
  <2> QED
    BY <1>1, <1>2, <2>1, <2>2 DEF Lists
<1> QED
  BY <1>3, <1>4

\* The states of the pool are right after steps of a pool that is ready, when
\* it has no fewer connections than before.
LEMMA ReadyStays ==
  ASSUME Inv, state = "READY", UNCHANGED <<pool, connections>>,
         Len(connections) + Cardinality(connections_pending) \in Nat, NEW n \in Nat,
         Len(connections') + Cardinality(connections_pending')
           = Len(connections) + Cardinality(connections_pending) + n
  PROVE  States' /\ ReadyPoolIsConnected' /\ NotifiedOnce' /\ ReconnectScheduled'
<1>1. States' /\ ReadyPoolIsConnected' /\ NotifiedOnce'
  BY DEF Inv, pool, States, ReadyPoolIsConnected, NotifiedOnce
<1>2. ReconnectScheduled'
  BY Limits DEF Inv, pool, ReconnectScheduled
<1> QED
  BY <1>1, <1>2

\* A request borrows a connection.
LEMMA BorrowPreserves ==
  ASSUME Inv, NEW r \in Requests, Borrow(r)
  PROVE  Inv'
<1>1. /\ state = "READY" /\ Elsewhere(r)
      /\ UNCHANGED <<pool, connections, cause, requests, failures>>
  BY DEF Borrow
<1>2. PICK i \in DOMAIN connections :
        /\ CanTake(connections[i])
        /\ LET new == IF streams[connections[i]] >= Threshold THEN MaybeSpawned ELSE {} IN
             /\ connections_pending' = connections_pending \cup new
             /\ WriteTo(connections[i], r, available_connection_count, is_available, new)
  BY DEF Borrow
<1> DEFINE c == connections[i]
           new == IF streams[c] >= Threshold THEN MaybeSpawned ELSE {}
<1>3. c \in Connections /\ conn[c] = "READY" /\ streams[c] < Streams
  BY <1>2, LenProperties DEF Inv, Shapes, CanTake
<1>4. /\ new \in SUBSET Connections /\ IsFiniteSet(new)
      /\ \A x \in new : conn[x] = "none"
      /\ Len(connections) + Cardinality(connections_pending) + Cardinality(new) <= MaxConnections
      /\ Len(connections) + Cardinality(connections_pending) \in Nat /\ Cardinality(new) \in Nat
  <2>1. CASE streams[c] >= Threshold
    BY <2>1, SpawnedOne DEF Inv
  <2>2. CASE ~(streams[c] >= Threshold)
    <3>1. new = {}
      BY <2>2
    <3> HIDE DEF new
    <3>2. IsFiniteSet(new) /\ Cardinality(new) = 0
      BY <3>1, FS_EmptySet, Zenon
    <3> QED
      BY <3>1, <3>2, SpawnedOne DEF Inv, Lists
  <2> QED
    BY <2>1, <2>2
<1>5. connections_pending' = connections_pending \cup new
  BY <1>2
<1>6. WriteTo(c, r, available_connection_count, is_available, new)
  BY <1>2
<1> HIDE DEF c, new
<1>7. PICK overwhelmed \in BOOLEAN :
        /\ streams' = [streams EXCEPT ![c] = @ + 1]
        /\ written' = [written EXCEPT ![c] = @ \cup {r}]
        /\ conn' = [x \in Connections |->
             IF x = c THEN (IF overwhelmed THEN "OVERWHELMED" ELSE "READY")
             ELSE IF x \in new THEN "CONNECTING" ELSE conn[x]]
        /\ available_connection_count' = available_connection_count - Count(overwhelmed)
        /\ is_available' = (is_available /\ available_connection_count' > 0)
  BY <1>6, Zenon DEF WriteTo
<1>8. /\ conn' \in [Connections -> ConnStates] /\ conn'[c] \in {"READY", "OVERWHELMED"}
      /\ \A x \in new : conn'[x] = "CONNECTING"
      /\ \A x \in Connections \ (new \cup {c}) : conn'[x] = conn[x]
      /\ Count(overwhelmed) = Count(conn[c] = "READY") - Count(conn'[c] = "READY")
  <2>1. conn' \in [Connections -> ConnStates] /\ conn'[c] \in {"READY", "OVERWHELMED"}
    BY <1>3, <1>7 DEF Inv, Shapes, ConnStates
  <2>2. \A x \in new : conn'[x] = "CONNECTING"
    BY <1>3, <1>4, <1>7
  <2>3. \A x \in Connections \ (new \cup {c}) : conn'[x] = conn[x]
    BY <1>7
  <2>4. Count(overwhelmed) = Count(conn[c] = "READY") - Count(conn'[c] = "READY")
    BY <1>3, <1>7 DEF Count
  <2> QED
    BY <2>1, <2>2, <2>3, <2>4
<1>9. is_available' \in BOOLEAN /\ (is_available' => is_available /\ available_connection_count' > 0)
  BY <1>7, Zenon
<1>10. /\ Lists' /\ connections_pending' \subseteq Connections
       /\ Len(connections') + Cardinality(connections_pending')
            = Len(connections) + Cardinality(connections_pending) + Cardinality(new)
  <2>1. \A x \in Connections \ new :
          conn'[x] = conn[x] \/ {conn[x], conn'[x]} \subseteq {"READY", "OVERWHELMED"}
    BY <1>3, <1>8
  <2> QED
    BY <1>1, <1>4, <1>5, <1>8, <2>1, ListsSpawn DEF Inv
<1>11. States' /\ ReadyPoolIsConnected' /\ NotifiedOnce' /\ ReconnectScheduled'
  BY <1>1, <1>4, <1>10, ReadyStays
<1>12. AvailabilityExact' /\ available_connection_count' \in Nat
  <2>1. \A x \in Connections \ {c} : conn'[x] = "READY" <=> conn[x] = "READY"
    BY <1>4, <1>8
  <2>2. available_connection_count' =
          available_connection_count - Count(conn[c] = "READY") + Count(conn'[c] = "READY")
    BY <1>7, <1>8 DEF Inv, Shapes, Count
  <2>3. /\ available_connection_count' = Cardinality({x \in Connections : conn'[x] = "READY"})
        /\ available_connection_count' \in Nat
    BY <1>3, <2>1, <2>2, CountFollows DEF Inv
  <2> QED
    BY <1>1, <1>9, <2>3 DEF AvailabilityExact, Closing, pool
<1>13. /\ streams' \in [Connections -> 0..Streams] /\ written' \in [Connections -> SUBSET Requests]
       /\ StreamsHeld'
  <2>1. \A x \in Connections \ {c} :
          conn'[x] \in {"none", "CONNECTING"} => conn[x] \in {"none", "CONNECTING"}
    BY <1>4, <1>8
  <2> QED
    BY <1>3, <1>7, <1>8, <2>1, WrittenHeld DEF Inv
<1>14. OnePlace'
  <2>1. r \notin left /\ r \notin Range(pending_requests) /\ \A x \in Connections : r \notin written[x]
    BY <1>1 DEF Elsewhere
  <2>2. /\ UNCHANGED <<pending_requests, left>> /\ state' # "CLOSED"
        /\ pending_requests' \in Seq(Requests) /\ Injective(pending_requests')
        /\ Range(pending_requests') \subseteq Range(pending_requests) \ {r}
    BY <1>1, <2>1 DEF requests, pool, Inv, Shapes, OnePlace
  <2> QED
    BY <1>3, <1>7, <2>1, <2>2, WrittenInOnePlace DEF Inv
<1>15. Shapes'
  BY <1>1, <1>8, <1>9, <1>10, <1>12, <1>13 DEF Inv, Shapes, pool, requests
<1> QED
  BY <1>10, <1>11, <1>12, <1>13, <1>14, <1>15 DEF Inv

\* A request borrows a connection, and the one that waited longest gets the
\* same connection, or goes to the next host.
LEMMA BorrowAndPassPreserves ==
  ASSUME Inv, NEW r \in Requests, BorrowAndPass(r)
  PROVE  Inv'
<1> DEFINE next == Head(pending_requests)
           count == available_connection_count
<1>1. /\ state = "READY" /\ Elsewhere(r) /\ pending_requests # <<>>
      /\ pending_requests' = Tail(pending_requests)
      /\ UNCHANGED <<pool, connections, cause, failures>>
  BY DEF BorrowAndPass
<1>2. PICK i \in DOMAIN connections, overwhelmed \in BOOLEAN :
        LET c == connections[i]
            new == IF streams[c] >= Threshold THEN MaybeSpawned ELSE {}
            fits == streams[c] + 1 < Streams
        IN /\ CanTake(c)
           /\ overwhelmed => fits
           /\ connections_pending' = connections_pending \cup new
           /\ streams' = [streams EXCEPT ![c] = @ + 1 + Count(fits)]
           /\ written' = [written EXCEPT ![c] = @ \cup (IF fits THEN {r, next} ELSE {r})]
           /\ left' = IF fits THEN left ELSE left \cup {next}
           /\ conn' = [x \in Connections |->
                IF x = c THEN (IF overwhelmed THEN "OVERWHELMED" ELSE "READY")
                ELSE IF x \in new THEN "CONNECTING" ELSE conn[x]]
           /\ available_connection_count' = count - Count(overwhelmed)
           /\ is_available' = (/\ AvailableAgain(count, pending_requests')
                               /\ available_connection_count' > 0)
  BY Zenon DEF BorrowAndPass
<1> DEFINE c == connections[i]
           new == IF streams[c] >= Threshold THEN MaybeSpawned ELSE {}
           fits == streams[c] + 1 < Streams
<1>3. c \in Connections /\ conn[c] = "READY" /\ streams[c] < Streams
  BY <1>2, LenProperties DEF Inv, Shapes, CanTake
<1>4. /\ new \in SUBSET Connections /\ IsFiniteSet(new)
      /\ \A x \in new : conn[x] = "none"
      /\ Len(connections) + Cardinality(connections_pending) + Cardinality(new) <= MaxConnections
      /\ Len(connections) + Cardinality(connections_pending) \in Nat /\ Cardinality(new) \in Nat
  <2>1. CASE streams[c] >= Threshold
    BY <2>1, SpawnedOne DEF Inv
  <2>2. CASE ~(streams[c] >= Threshold)
    <3>1. new = {}
      BY <2>2
    <3> HIDE DEF new
    <3>2. IsFiniteSet(new) /\ Cardinality(new) = 0
      BY <3>1, FS_EmptySet, Zenon
    <3> QED
      BY <3>1, <3>2, SpawnedOne DEF Inv, Lists
  <2> QED
    BY <2>1, <2>2
<1>5. /\ connections_pending' = connections_pending \cup new
      /\ streams' = [streams EXCEPT ![c] = @ + 1 + Count(fits)]
      /\ written' = [written EXCEPT ![c] = @ \cup (IF fits THEN {r, next} ELSE {r})]
      /\ left' = IF fits THEN left ELSE left \cup {next}
      /\ conn' = [x \in Connections |->
           IF x = c THEN (IF overwhelmed THEN "OVERWHELMED" ELSE "READY")
           ELSE IF x \in new THEN "CONNECTING" ELSE conn[x]]
      /\ available_connection_count' = count - Count(overwhelmed)
      /\ is_available' = (/\ AvailableAgain(count, pending_requests')
                          /\ available_connection_count' > 0)
  BY <1>2
<1>6. /\ next \in Requests /\ next \in Range(pending_requests)
      /\ pending_requests' \in Seq(Requests) /\ Injective(pending_requests')
      /\ Range(pending_requests') = Range(pending_requests) \ {next}
  BY <1>1, TailInjectiveList DEF Inv, Shapes, OnePlace
<1>7. /\ next # r /\ next \notin left /\ r \notin left /\ r \notin Range(pending_requests)
      /\ \A x \in Connections : next \notin written[x] /\ r \notin written[x]
  BY <1>1, <1>6 DEF Inv, OnePlace, Elsewhere
<1> HIDE DEF c, new, next
<1>8. /\ conn' \in [Connections -> ConnStates] /\ conn'[c] \in {"READY", "OVERWHELMED"}
      /\ \A x \in new : conn'[x] = "CONNECTING"
      /\ \A x \in Connections \ (new \cup {c}) : conn'[x] = conn[x]
      /\ Count(overwhelmed) = Count(conn[c] = "READY") - Count(conn'[c] = "READY")
  <2>1. conn' \in [Connections -> ConnStates] /\ conn'[c] \in {"READY", "OVERWHELMED"}
    BY <1>3, <1>5 DEF Inv, Shapes, ConnStates
  <2>2. \A x \in new : conn'[x] = "CONNECTING"
    BY <1>3, <1>4, <1>5
  <2>3. \A x \in Connections \ (new \cup {c}) : conn'[x] = conn[x]
    BY <1>5
  <2>4. Count(overwhelmed) = Count(conn[c] = "READY") - Count(conn'[c] = "READY")
    BY <1>3, <1>5 DEF Count
  <2> QED
    BY <2>1, <2>2, <2>3, <2>4
<1>9. is_available' \in BOOLEAN /\ (is_available' => available_connection_count' > 0)
  BY <1>5, Zenon
<1>10. /\ Lists' /\ connections_pending' \subseteq Connections
       /\ Len(connections') + Cardinality(connections_pending')
            = Len(connections) + Cardinality(connections_pending) + Cardinality(new)
  <2>1. \A x \in Connections \ new :
          conn'[x] = conn[x] \/ {conn[x], conn'[x]} \subseteq {"READY", "OVERWHELMED"}
    BY <1>3, <1>8
  <2> QED
    BY <1>1, <1>4, <1>5, <1>8, <2>1, ListsSpawn DEF Inv
<1>11. States' /\ ReadyPoolIsConnected' /\ NotifiedOnce' /\ ReconnectScheduled'
  BY <1>1, <1>4, <1>10, ReadyStays
<1>12. AvailabilityExact' /\ available_connection_count' \in Nat
  <2>1. \A x \in Connections \ {c} : conn'[x] = "READY" <=> conn[x] = "READY"
    BY <1>4, <1>8
  <2>2. available_connection_count' = count - Count(conn[c] = "READY") + Count(conn'[c] = "READY")
    BY <1>5, <1>8 DEF Inv, Shapes, Count
  <2>3. /\ available_connection_count' = Cardinality({x \in Connections : conn'[x] = "READY"})
        /\ available_connection_count' \in Nat
    BY <1>3, <2>1, <2>2, CountFollows DEF Inv
  <2> QED
    BY <1>1, <1>9, <2>3 DEF AvailabilityExact, Closing, pool
<1>13. /\ streams[c] \in Nat /\ Streams \in Nat /\ IsFiniteSet(written[c])
       /\ Cardinality(written[c]) \in Nat /\ Cardinality(written[c]) <= streams[c]
  BY <1>3, Limits, FS_Subset, FS_CardinalityType DEF Inv, Shapes, StreamsHeld
<1>14. /\ Cardinality(written[c] \cup {r}) \in Nat
       /\ Cardinality(written[c] \cup {r}) <= Cardinality(written[c]) + 1
       /\ Cardinality((written[c] \cup {r}) \cup {next}) \in Nat
       /\ Cardinality((written[c] \cup {r}) \cup {next}) <= Cardinality(written[c] \cup {r}) + 1
  <2>1. /\ IsFiniteSet(written[c] \cup {r}) /\ Cardinality(written[c] \cup {r}) \in Nat
        /\ Cardinality(written[c] \cup {r}) <= Cardinality(written[c]) + 1
    BY <1>13, OneMore
  <2> QED
    BY <2>1, OneMore
<1>15. /\ streams'[c] \in 0..Streams /\ written'[c] \in SUBSET Requests
       /\ Cardinality(written'[c]) <= streams'[c]
       /\ \/ written'[c] = (written[c] \cup {r}) \cup {next} /\ left' = left
          \/ written'[c] = written[c] \cup {r} /\ left' = left \cup {next}
  <2>1. CASE fits
    <3>1. streams'[c] = streams[c] + 2
      BY <1>3, <1>5, <1>13, <2>1 DEF Inv, Shapes, Count
    <3>2. written'[c] = (written[c] \cup {r}) \cup {next}
      BY <1>3, <1>5, <2>1 DEF Inv, Shapes
    <3>3. streams'[c] \in 0..Streams /\ Cardinality((written[c] \cup {r}) \cup {next}) <= streams'[c]
      BY <1>13, <1>14, <2>1, <3>1
    <3> QED
      BY <1>3, <1>5, <1>6, <2>1, <3>2, <3>3 DEF Inv, Shapes
  <2>2. CASE ~fits
    <3>1. streams'[c] = streams[c] + 1
      BY <1>3, <1>5, <1>13, <2>2 DEF Inv, Shapes, Count
    <3>2. written'[c] = written[c] \cup {r}
      BY <1>3, <1>5, <2>2 DEF Inv, Shapes
    <3>3. streams'[c] \in 0..Streams /\ Cardinality(written[c] \cup {r}) <= streams'[c]
      BY <1>3, <1>13, <1>14, <3>1
    <3> QED
      BY <1>3, <1>5, <2>2, <3>2, <3>3 DEF Inv, Shapes
  <2> QED
    BY <2>1, <2>2
<1>16. /\ streams' \in [Connections -> 0..Streams] /\ written' \in [Connections -> SUBSET Requests]
       /\ \A x \in Connections \ {c} : written'[x] = written[x] /\ streams'[x] = streams[x]
  BY <1>3, <1>5, <1>15 DEF Inv, Shapes
<1>17. StreamsHeld'
  <2> SUFFICES ASSUME NEW x \in Connections
               PROVE  /\ Cardinality(written'[x]) <= streams'[x]
                      /\ conn'[x] \in {"none", "CONNECTING"} => streams'[x] = 0 /\ written'[x] = {}
    BY DEF StreamsHeld
  <2>1. CASE x = c
    BY <1>8, <1>15, <2>1
  <2>2. CASE x # c
    <3>1. conn'[x] \in {"none", "CONNECTING"} => conn[x] \in {"none", "CONNECTING"}
      BY <1>4, <1>8, <2>2
    <3> QED
      BY <1>16, <2>2, <3>1 DEF Inv, StreamsHeld
  <2> QED
    BY <2>1, <2>2
<1>18. OnePlace'
  <2>1. \A x \in Connections : \A q \in written'[x] :
          q \in written[x] \/ (x = c /\ (q = r \/ (q = next /\ left' = left)))
    BY <1>15, <1>16
  <2>2. \A q \in Requests, x, y \in Connections : q \in written'[x] /\ q \in written'[y] => x = y
    BY <1>7, <2>1 DEF Inv, OnePlace
  <2>3. \A q \in Range(pending_requests') : q \notin left' /\ \A x \in Connections : q \notin written'[x]
    BY <1>6, <1>7, <1>15, <2>1 DEF Inv, OnePlace
  <2>4. \A q \in left', x \in Connections : q \notin written'[x]
    BY <1>7, <1>15, <2>1 DEF Inv, OnePlace
  <2>5. state' # "CLOSED"
    BY <1>1 DEF pool
  <2> QED
    BY <1>6, <2>2, <2>3, <2>4, <2>5 DEF OnePlace
<1>19. Shapes'
  <2>1. left' \subseteq Requests
    BY <1>6, <1>15 DEF Inv, Shapes
  <2> QED
    BY <1>1, <1>6, <1>8, <1>9, <1>10, <1>12, <1>16, <2>1 DEF Inv, Shapes, pool
<1> QED
  BY <1>10, <1>11, <1>12, <1>17, <1>18, <1>19 DEF Inv

\* A request waits for a connection.
LEMMA WaitForConnectionPreserves ==
  ASSUME Inv, NEW r \in Requests, WaitForConnection(r)
  PROVE  Inv'
<1> DEFINE new == MaybeSpawned
<1>1. /\ state = "READY" /\ Elsewhere(r)
      /\ connections_pending' = connections_pending \cup new
      /\ conn' = [c \in Connections |-> IF c \in new THEN "CONNECTING" ELSE conn[c]]
      /\ pending_requests' = Append(pending_requests, r)
      /\ is_available' = (is_available /\ Len(pending_requests') <= HighWaterMark)
      /\ UNCHANGED <<pool, connections, cause, streams, written, available_connection_count, left, failures>>
  BY DEF WaitForConnection, Spawn
<1>2. /\ new \in SUBSET Connections /\ IsFiniteSet(new)
      /\ \A x \in new : conn[x] = "none"
      /\ Len(connections) + Cardinality(connections_pending) + Cardinality(new) <= MaxConnections
      /\ Len(connections) + Cardinality(connections_pending) \in Nat /\ Cardinality(new) \in Nat
  BY SpawnedOne DEF Inv
<1> HIDE DEF new
<1>3. is_available' \in BOOLEAN /\ (is_available' => is_available)
  BY <1>1, Zenon
<1>4. /\ \A c \in new : conn'[c] = "CONNECTING"
      /\ \A c \in Connections \ new : conn'[c] = conn[c]
      /\ conn' \in [Connections -> ConnStates]
  BY <1>1, <1>2 DEF Inv, Shapes, ConnStates
<1>5. /\ Lists' /\ connections_pending' \subseteq Connections
      /\ Len(connections') + Cardinality(connections_pending')
           = Len(connections) + Cardinality(connections_pending) + Cardinality(new)
  BY <1>1, <1>2, <1>4, ListsSpawn DEF Inv
<1>6. States' /\ ReadyPoolIsConnected' /\ NotifiedOnce' /\ ReconnectScheduled'
  BY <1>1, <1>2, <1>5, ReadyStays
<1>7. AvailabilityExact'
  <2>1. \A x \in Connections : conn'[x] = "READY" <=> conn[x] = "READY"
    BY <1>2, <1>4
  <2>2. available_connection_count' = Cardinality({x \in Connections : conn'[x] = "READY"})
    BY <1>1, <2>1, CountStays DEF Inv
  <2> QED
    BY <1>1, <1>3, <2>2 DEF Inv, AvailabilityExact, pool
<1>8. StreamsHeld'
  <2> SUFFICES ASSUME NEW x \in Connections
               PROVE  /\ Cardinality(written'[x]) <= streams'[x]
                      /\ conn'[x] \in {"none", "CONNECTING"} => streams'[x] = 0 /\ written'[x] = {}
    BY DEF StreamsHeld
  <2> QED
    BY <1>1, <1>2, <1>4 DEF Inv, StreamsHeld
<1>9. pending_requests' \in Seq(Requests) /\ OnePlace'
  <2>1. r \notin left /\ r \notin Range(pending_requests) /\ \A x \in Connections : r \notin written[x]
    BY <1>1 DEF Elsewhere
  <2>2. /\ pending_requests' \in Seq(Requests) /\ Injective(pending_requests')
        /\ Range(pending_requests') = Range(pending_requests) \cup {r}
    BY <1>1, <2>1, AppendInjectiveList DEF Inv, Shapes, OnePlace
  <2> QED
    BY <1>1, <2>1, <2>2 DEF Inv, OnePlace, pool
<1>10. Shapes'
  BY <1>1, <1>3, <1>4, <1>5, <1>9 DEF Inv, Shapes, pool
<1> QED
  BY <1>5, <1>6, <1>7, <1>8, <1>9, <1>10 DEF Inv

\* In a pool that closes no connection is available.
LEMMA NoneAvailable ==
  ASSUME Inv, state \in Closing
  PROVE  available_connection_count = 0
<1>1. {c \in Connections : conn[c] = "READY"} = {}
  BY DEF Inv, States, Closing
<1>2. Cardinality({c \in Connections : conn[c] = "READY"}) = 0
  BY <1>1, FS_EmptySet, Zenon
<1> QED
  BY <1>2 DEF Inv, AvailabilityExact

\* A request has waited too long.
LEMMA PendingTimeoutPreserves ==
  ASSUME Inv, NEW r \in Requests, OnPendingRequestTimeout(r)
  PROVE  Inv'
<1>1. /\ r \in Range(pending_requests)
      /\ pending_requests' = Without(pending_requests, r)
      /\ is_available' = (is_available
           \/ (available_connection_count > 0 /\ Len(pending_requests') < LowWaterMark))
      /\ left' = left \cup {r}
      /\ UNCHANGED <<pool, conns, available_connection_count, failures>>
  BY DEF OnPendingRequestTimeout, AvailableAgain
<1>2. is_available' \in BOOLEAN /\ (is_available' => is_available \/ available_connection_count > 0)
  BY <1>1, Zenon DEF Inv, Shapes
<1>3. /\ pending_requests' \in Seq(Requests) /\ Injective(pending_requests')
      /\ Range(pending_requests') = Range(pending_requests) \ {r}
  BY <1>1, WithoutInjectiveList DEF Inv, Shapes, OnePlace
<1>4. Shapes'
  BY <1>1, <1>2, <1>3 DEF Inv, Shapes, pool, conns
<1>5. Lists' /\ States' /\ StreamsHeld' /\ ReadyPoolIsConnected' /\ NotifiedOnce' /\ ReconnectScheduled'
  BY <1>1 DEF Inv, Lists, States, StreamsHeld, ReadyPoolIsConnected, NotifiedOnce, ReconnectScheduled,
              pool, conns
<1>6. OnePlace'
  <2>1. state # "CLOSED"
    BY <1>1 DEF Inv, OnePlace, Range
  <2> QED
    BY <1>1, <1>3, <2>1 DEF Inv, OnePlace, pool, conns
<1>7. AvailabilityExact'
  BY <1>1, <1>2, NoneAvailable DEF Inv, AvailabilityExact, pool, conns
<1> QED
  BY <1>4, <1>5, <1>6, <1>7 DEF Inv

\* The buffer of a connection drains.
LEMMA OnRelievedPreserves ==
  ASSUME Inv, NEW c \in Connections, OnRelieved(c)
  PROVE  Inv'
<1>1. /\ conn[c] = "OVERWHELMED" /\ conn' = [conn EXCEPT ![c] = "READY"]
      /\ available_connection_count' = available_connection_count + 1
      /\ is_available' = (is_available
           \/ (available_connection_count' > 0 /\ Len(pending_requests) < LowWaterMark))
      /\ UNCHANGED <<pool, connections, connections_pending, cause, streams, written, requests, failures>>
  BY DEF OnRelieved, AvailableAgain
<1>2. is_available' \in BOOLEAN
  BY <1>1, Zenon
<1>3. /\ conn'[c] = "READY" /\ \A x \in Connections \ {c} : conn'[x] = conn[x]
      /\ conn' \in [Connections -> ConnStates] /\ state \notin Closing
  BY <1>1 DEF Inv, Shapes, ConnStates, States, Closing
<1>4. AvailabilityExact' /\ available_connection_count' \in Nat
  <2>1. available_connection_count' =
          available_connection_count - Count(conn[c] = "READY") + Count(conn'[c] = "READY")
    BY <1>1, <1>3 DEF Inv, Shapes, Count
  <2>2. /\ available_connection_count' = Cardinality({x \in Connections : conn'[x] = "READY"})
        /\ available_connection_count' \in Nat
    BY <1>3, <2>1, CountFollows DEF Inv
  <2>3. available_connection_count' > 0
    BY <1>1 DEF Inv, Shapes
  <2> QED
    BY <1>1, <1>3, <2>2, <2>3 DEF AvailabilityExact, pool
<1>5. Lists'
  <2>1. \A x \in Connections :
          /\ x \in Range(connections) => x \notin connections_pending
          /\ conn'[x] # "none" <=> x \in Range(connections) \/ x \in connections_pending
          /\ conn'[x] = "CONNECTING" => x \in connections_pending
          /\ conn'[x] \in {"READY", "OVERWHELMED"} => x \in Range(connections)
    BY <1>1, <1>3 DEF Inv, Lists
  <2> QED
    BY <1>1, <2>1 DEF Inv, Lists
<1>6. States' /\ ReadyPoolIsConnected' /\ NotifiedOnce' /\ ReconnectScheduled'
  <2>1. state \notin {"NEW", "WAITING_TO_CONNECT"}
    BY <1>1 DEF Inv, States
  <2> QED
    BY <1>1, <1>3, <2>1 DEF Inv, States, ReadyPoolIsConnected, NotifiedOnce, ReconnectScheduled, pool, Closing
<1>7. StreamsHeld' /\ OnePlace'
  <2>1. state' # "CLOSED"
    BY <1>1, <1>3 DEF pool, Closing
  <2> QED
    BY <1>1, <1>3, <2>1, RequestsStay DEF Inv
<1>8. Shapes'
  BY <1>1, <1>2, <1>3, <1>4 DEF Inv, Shapes, pool, requests
<1> QED
  BY <1>4, <1>5, <1>6, <1>7, <1>8 DEF Inv

\* A request leaves its connection, its stream released or not.
LEMMA LeavingHeld ==
  ASSUME Shapes, StreamsHeld, NEW c \in Connections, NEW r \in written[c],
         NEW k \in {streams[c], streams[c] - 1},
         streams' = [streams EXCEPT ![c] = k], written' = [written EXCEPT ![c] = @ \ {r}], conn' = conn
  PROVE  /\ streams' \in [Connections -> 0..Streams] /\ written' \in [Connections -> SUBSET Requests]
         /\ StreamsHeld' /\ streams[c] - 1 \in 0..Streams
<1>1. IsFiniteSet(written[c]) /\ streams[c] \in 0..Streams /\ Streams \in Nat
  BY Limits, FS_Subset DEF Shapes
<1>2. /\ Cardinality(written[c]) \in Nat /\ Cardinality(written[c] \ {r}) \in Nat
      /\ Cardinality(written[c] \ {r}) = Cardinality(written[c]) - 1
      /\ Cardinality(written[c]) <= streams[c]
  BY <1>1, OneLess DEF StreamsHeld
<1>3. k \in 0..Streams /\ Cardinality(written[c] \ {r}) <= k /\ streams[c] - 1 \in 0..Streams
  BY <1>1, <1>2
<1>4. streams' \in [Connections -> 0..Streams] /\ written' \in [Connections -> SUBSET Requests]
  BY <1>3 DEF Shapes
<1>5. StreamsHeld'
  <2> SUFFICES ASSUME NEW x \in Connections
               PROVE  /\ Cardinality(written'[x]) <= streams'[x]
                      /\ conn'[x] \in {"none", "CONNECTING"} => streams'[x] = 0 /\ written'[x] = {}
    BY DEF StreamsHeld
  <2>1. CASE x = c
    <3>1. written'[x] = written[c] \ {r} /\ streams'[x] = k
      BY <2>1 DEF Shapes
    <3>2. Cardinality(written'[x]) <= streams'[x]
      BY <1>3, <3>1
    <3>3. conn[c] \notin {"none", "CONNECTING"}
      BY DEF StreamsHeld
    <3> QED
      BY <2>1, <3>2, <3>3
  <2>2. CASE x # c
    <3>1. written'[x] = written[x] /\ streams'[x] = streams[x]
      BY <2>2 DEF Shapes
    <3> QED
      BY <3>1 DEF StreamsHeld
  <2> QED
    BY <2>1, <2>2
<1> QED
  BY <1>3, <1>4, <1>5

\* Steps that only concern the requests and the streams.
LEMMA OnlyRequests ==
  ASSUME Inv, UNCHANGED <<pool, connections, connections_pending, conn, cause, avail, pending_requests, failures>>
  PROVE  Lists' /\ States' /\ AvailabilityExact' /\ ReadyPoolIsConnected' /\ NotifiedOnce' /\ ReconnectScheduled'
  BY DEF Inv, Lists, States, AvailabilityExact, ReadyPoolIsConnected, NotifiedOnce, ReconnectScheduled, pool, avail

\* A request ends, is retried, or is answered after its timeout, and no one
\* gets its connection.
LEMMA FinishPreserves ==
  ASSUME Inv, NEW c \in Connections, NEW r \in Requests, Finish(c, r) \/ Retry(c, r)
  PROVE  Inv'
<1>1. /\ r \in written[c] /\ written' = [written EXCEPT ![c] = @ \ {r}]
      /\ left' \in {left, left \cup {r}}
      /\ UNCHANGED <<pool, connections, connections_pending, conn, cause, avail, pending_requests, failures>>
  BY DEF Finish, Retry, requests
<1>2. PICK k \in {streams[c], streams[c] - 1} : streams' = [streams EXCEPT ![c] = k]
  <2>1. streams[c] \in Nat
    BY Limits DEF Inv, Shapes
  <2>2. CASE Finish(c, r)
    <3>1. PICK timed_out \in BOOLEAN : streams' = [streams EXCEPT ![c] = streams[c] - Count(~timed_out)]
      BY <2>2, Zenon DEF Finish, StreamsAfter
    <3>2. streams[c] - Count(~timed_out) \in {streams[c], streams[c] - 1}
      BY <2>1 DEF Count
    <3> QED
      BY <3>1, <3>2
  <2>3. CASE Retry(c, r)
    BY <2>3 DEF Retry
  <2> QED
    BY <2>2, <2>3
<1>3. /\ streams' \in [Connections -> 0..Streams] /\ written' \in [Connections -> SUBSET Requests]
      /\ StreamsHeld'
  BY <1>1, <1>2, LeavingHeld DEF Inv
<1>4. Lists' /\ States' /\ AvailabilityExact' /\ ReadyPoolIsConnected' /\ NotifiedOnce' /\ ReconnectScheduled'
  BY <1>1, OnlyRequests
<1>5. OnePlace'
  <2>1. \A x \in Connections : \A q \in written'[x] : q \in written[x] /\ q # r
    BY <1>1 DEF Inv, Shapes, OnePlace
  <2>2. \A q \in Range(pending_requests) : q # r
    BY <1>1 DEF Inv, OnePlace
  <2> QED
    BY <1>1, <2>1, <2>2 DEF Inv, OnePlace, pool
<1>6. Shapes'
  BY <1>1, <1>3 DEF Inv, Shapes, pool, avail
<1> QED
  BY <1>3, <1>4, <1>5, <1>6 DEF Inv

\* The response to a request that was given up frees its stream.
LEMMA LateResponsePreserves ==
  ASSUME Inv, NEW c \in Connections, LateResponse(c)
  PROVE  Inv'
<1>1. /\ conn[c] \in {"READY", "OVERWHELMED"} /\ streams[c] > Cardinality(written[c])
      /\ streams' = [streams EXCEPT ![c] = @ - 1]
      /\ UNCHANGED <<pool, connections, connections_pending, conn, cause, written, avail, requests, failures>>
  BY DEF LateResponse
<1>2. streams[c] \in 0..Streams /\ Streams \in Nat /\ Cardinality(written[c]) \in Nat
  BY Limits, FS_Subset, FS_CardinalityType DEF Inv, Shapes
<1>3. streams[c] - 1 \in 0..Streams /\ Cardinality(written[c]) <= streams[c] - 1
  BY <1>1, <1>2
<1>4. streams' \in [Connections -> 0..Streams]
  BY <1>1, <1>3 DEF Inv, Shapes
<1>5. StreamsHeld'
  <2> SUFFICES ASSUME NEW x \in Connections
               PROVE  /\ Cardinality(written'[x]) <= streams'[x]
                      /\ conn'[x] \in {"none", "CONNECTING"} => streams'[x] = 0 /\ written'[x] = {}
    BY DEF StreamsHeld
  <2>1. CASE x = c
    BY <1>1, <1>3, <2>1 DEF Inv, Shapes
  <2>2. CASE x # c
    BY <1>1, <2>2 DEF Inv, Shapes, StreamsHeld
  <2> QED
    BY <2>1, <2>2
<1>6. Lists' /\ States' /\ AvailabilityExact' /\ ReadyPoolIsConnected' /\ NotifiedOnce' /\ ReconnectScheduled'
  BY <1>1, OnlyRequests DEF requests
<1>7. OnePlace'
  BY <1>1 DEF Inv, OnePlace, requests, pool
<1>8. Shapes'
  BY <1>1, <1>4 DEF Inv, Shapes, pool, avail, requests
<1> QED
  BY <1>5, <1>6, <1>7, <1>8 DEF Inv

\* A request ends and the one that waited longest gets its connection.
LEMMA FinishAndPassPreserves ==
  ASSUME Inv, NEW c \in Connections, NEW r \in Requests, FinishAndPass(c, r)
  PROVE  Inv'
<1> DEFINE next == Head(pending_requests)
           count == available_connection_count
           available == AvailableAgain(count, pending_requests')
<1>1. /\ r \in written[c] /\ conn[c] = "READY" /\ pending_requests # <<>>
      /\ pending_requests' = Tail(pending_requests)
      /\ UNCHANGED <<pool, connections, connections_pending, cause, failures>>
  BY DEF FinishAndPass
<1>2. /\ next \in Requests /\ next \in Range(pending_requests)
      /\ pending_requests' \in Seq(Requests) /\ Injective(pending_requests')
      /\ Range(pending_requests') = Range(pending_requests) \ {next}
  BY <1>1, TailInjectiveList DEF Inv, Shapes, OnePlace
<1>3. PICK timed_out \in BOOLEAN, overwhelmed \in BOOLEAN :
        \/ /\ StreamsAfter(c, timed_out) < Streams
           /\ streams' = [streams EXCEPT ![c] = StreamsAfter(c, timed_out) + 1]
           /\ written' = [written EXCEPT ![c] = (@ \ {r}) \cup {next}]
           /\ conn' = [conn EXCEPT ![c] = IF overwhelmed THEN "OVERWHELMED" ELSE @]
           /\ available_connection_count' = count - Count(overwhelmed)
           /\ is_available' = (available /\ available_connection_count' > 0)
           /\ left' = left \cup {r}
        \/ /\ StreamsAfter(c, timed_out) = Streams
           /\ written' = [written EXCEPT ![c] = @ \ {r}]
           /\ is_available' = available
           /\ left' = left \cup {r, next}
           /\ UNCHANGED <<streams, conn, available_connection_count>>
  BY Zenon DEF FinishAndPass
<1> DEFINE k == StreamsAfter(c, timed_out)
<1>4. streams[c] \in Nat /\ Streams \in Nat /\ streams[c] <= Streams /\ streams[c] \in 0..Streams
  BY Limits DEF Inv, Shapes
<1>5. k \in {streams[c], streams[c] - 1}
  BY <1>4 DEF StreamsAfter, Count
<1>6. state \notin Closing /\ state \notin {"NEW", "WAITING_TO_CONNECT"}
  BY <1>1 DEF Inv, Shapes, States, Closing
<1>7. /\ next # r /\ next \notin left
      /\ \A x \in Connections : next \notin written[x]
      /\ \A x \in Connections \ {c} : r \notin written[x]
      /\ r \notin Range(pending_requests)
  BY <1>1, <1>2 DEF Inv, OnePlace
<1> HIDE DEF next, k
<1>8. available \in BOOLEAN /\ (available => is_available \/ count > 0)
  BY Zenon DEF AvailableAgain, Inv, Shapes
<1> HIDE DEF available
<1>9. /\ conn' \in [Connections -> ConnStates] /\ conn'[c] \in {"READY", "OVERWHELMED"}
      /\ \A x \in Connections \ {c} : conn'[x] = conn[x]
      /\ available_connection_count' = count - Count(conn[c] = "READY") + Count(conn'[c] = "READY")
      /\ is_available' \in BOOLEAN
      /\ is_available' => available_connection_count' > 0 \/ (is_available' = available /\ UNCHANGED count)
  <2>1. CASE conn' = conn
    BY <1>1, <1>3, <1>8, <2>1 DEF Inv, Shapes, ConnStates, Count
  <2>2. CASE conn' # conn
    <3>1. /\ conn' = [conn EXCEPT ![c] = IF overwhelmed THEN "OVERWHELMED" ELSE @]
          /\ available_connection_count' = count - Count(overwhelmed)
          /\ is_available' = (available /\ available_connection_count' > 0)
      BY <1>3, <2>2
    <3>2. is_available' \in BOOLEAN /\ (is_available' => available_connection_count' > 0)
      BY <3>1, Zenon
    <3>3. conn' \in [Connections -> ConnStates] /\ \A x \in Connections \ {c} : conn'[x] = conn[x]
      BY <3>1 DEF Inv, Shapes, ConnStates
    <3>4. /\ conn'[c] \in {"READY", "OVERWHELMED"}
          /\ available_connection_count' = count - Count(conn[c] = "READY") + Count(conn'[c] = "READY")
      BY <1>1, <3>1 DEF Inv, Shapes, Count
    <3> QED
      BY <3>2, <3>3, <3>4
  <2> QED
    BY <2>1, <2>2
<1>10. AvailabilityExact' /\ available_connection_count' \in Nat
  <2>1. /\ available_connection_count' = Cardinality({x \in Connections : conn'[x] = "READY"})
        /\ available_connection_count' \in Nat
    BY <1>9, CountFollows DEF Inv
  <2>2. is_available' => available_connection_count' > 0
    BY <1>8, <1>9 DEF Inv, AvailabilityExact
  <2> QED
    BY <1>1, <1>6, <2>1, <2>2 DEF AvailabilityExact, pool
<1>11. Lists'
  <2>1. \A x \in Connections :
          /\ x \in Range(connections) => x \notin connections_pending
          /\ conn'[x] # "none" <=> x \in Range(connections) \/ x \in connections_pending
          /\ conn'[x] = "CONNECTING" => x \in connections_pending
          /\ conn'[x] \in {"READY", "OVERWHELMED"} => x \in Range(connections)
    BY <1>1, <1>9 DEF Inv, Lists
  <2> QED
    BY <1>1, <2>1 DEF Inv, Lists
<1>12. States' /\ ReadyPoolIsConnected' /\ NotifiedOnce' /\ ReconnectScheduled'
  BY <1>1, <1>6 DEF Inv, States, ReadyPoolIsConnected, NotifiedOnce, ReconnectScheduled, pool, Closing
<1>13. written[c] \in SUBSET Requests /\ IsFiniteSet(written[c]) /\ Cardinality(written[c]) <= streams[c]
  BY Limits, FS_Subset DEF Inv, Shapes, StreamsHeld
<1>14. /\ Cardinality(written[c]) \in Nat /\ IsFiniteSet(written[c] \ {r})
       /\ Cardinality(written[c] \ {r}) \in Nat
       /\ Cardinality(written[c] \ {r}) = Cardinality(written[c]) - 1
  BY <1>1, <1>13, OneLess
<1>15. /\ written'[c] \in SUBSET Requests /\ streams'[c] \in 0..Streams
       /\ Cardinality(written'[c]) <= streams'[c]
       /\ \A q \in written'[c] : q = next \/ (q \in written[c] /\ q # r)
       /\ \A x \in Connections \ {c} : written'[x] = written[x] /\ streams'[x] = streams[x]
       /\ streams' \in [Connections -> 0..Streams] /\ written' \in [Connections -> SUBSET Requests]
       /\ \/ left' = left \cup {r}
          \/ left' = left \cup {r, next} /\ next \notin written'[c]
  <2>1. CASE /\ k < Streams
             /\ streams' = [streams EXCEPT ![c] = k + 1]
             /\ written' = [written EXCEPT ![c] = (@ \ {r}) \cup {next}]
             /\ left' = left \cup {r}
    <3>1. k + 1 \in 0..Streams /\ k + 1 >= streams[c]
      BY <1>4, <1>5, <2>1
    <3>2. /\ Cardinality((written[c] \ {r}) \cup {next}) \in Nat
          /\ Cardinality((written[c] \ {r}) \cup {next}) <= Cardinality(written[c] \ {r}) + 1
      BY <1>14, OneMore
    <3>3. written'[c] = (written[c] \ {r}) \cup {next} /\ streams'[c] = k + 1
      BY <2>1 DEF Inv, Shapes
    <3>4. Cardinality((written[c] \ {r}) \cup {next}) <= k + 1
      BY <1>4, <1>13, <1>14, <3>1, <3>2
    <3>5. streams' \in [Connections -> 0..Streams] /\ written' \in [Connections -> SUBSET Requests]
      BY <1>2, <2>1, <3>1 DEF Inv, Shapes
    <3>6. \A x \in Connections \ {c} : written'[x] = written[x] /\ streams'[x] = streams[x]
      BY <2>1 DEF Inv, Shapes
    <3> QED
      BY <2>1, <3>1, <3>3, <3>4, <3>5, <3>6
  <2>2. CASE /\ written' = [written EXCEPT ![c] = @ \ {r}]
             /\ left' = left \cup {r, next} /\ streams' = streams
    <3>1. written'[c] = written[c] \ {r} /\ streams'[c] = streams[c]
      BY <2>2 DEF Inv, Shapes
    <3>2. Cardinality(written[c] \ {r}) <= streams[c]
      BY <1>4, <1>13, <1>14
    <3>3. streams' \in [Connections -> 0..Streams] /\ written' \in [Connections -> SUBSET Requests]
      BY <2>2 DEF Inv, Shapes
    <3>4. \A x \in Connections \ {c} : written'[x] = written[x] /\ streams'[x] = streams[x]
      BY <2>2 DEF Inv, Shapes
    <3> QED
      BY <1>4, <1>7, <2>2, <3>1, <3>2, <3>3, <3>4
  <2> QED
    BY <1>3, <2>1, <2>2 DEF k
<1>16. StreamsHeld'
  <2> SUFFICES ASSUME NEW x \in Connections
               PROVE  /\ Cardinality(written'[x]) <= streams'[x]
                      /\ conn'[x] \in {"none", "CONNECTING"} => streams'[x] = 0 /\ written'[x] = {}
    BY DEF StreamsHeld
  <2>1. CASE x = c
    BY <1>9, <1>15, <2>1
  <2>2. CASE x # c
    BY <1>9, <1>15, <2>2 DEF Inv, StreamsHeld
  <2> QED
    BY <2>1, <2>2
<1>17. OnePlace'
  <2>1. \A x \in Connections : \A q \in written'[x] : (q \in written[x] /\ q # r) \/ (x = c /\ q = next)
    BY <1>7, <1>15
  <2>2. \A q \in Requests, x, y \in Connections : q \in written'[x] /\ q \in written'[y] => x = y
    BY <1>7, <2>1 DEF Inv, OnePlace
  <2>3. \A q \in Range(pending_requests') : q \notin left' /\ \A x \in Connections : q \notin written'[x]
    BY <1>2, <1>7, <1>15, <2>1 DEF Inv, OnePlace
  <2>4. \A q \in left', x \in Connections : q \notin written'[x]
    BY <1>7, <1>15, <2>1 DEF Inv, OnePlace
  <2>5. state' # "CLOSED"
    BY <1>1, <1>6 DEF pool, Closing
  <2> QED
    BY <1>2, <2>2, <2>3, <2>4, <2>5 DEF OnePlace
<1>18. Shapes'
  <2>1. left' \subseteq Requests
    BY <1>2, <1>15 DEF Inv, Shapes
  <2> QED
    BY <1>1, <1>2, <1>9, <1>10, <1>15, <2>1 DEF Inv, Shapes, pool
<1> QED
  BY <1>10, <1>11, <1>12, <1>16, <1>17, <1>18 DEF Inv

\* A connection fails by itself.
LEMMA ConnectionFailsPreserves ==
  ASSUME Inv, NEW c \in Connections, NEW why \in {"timeout", "critical", "error"}, ConnectionFails(c, why)
  PROVE  Inv'
<1>1. /\ conn[c] \in {"CONNECTING", "READY", "OVERWHELMED"}
      /\ failures < MaxFailures /\ failures' = failures + 1
      /\ conn' = [conn EXCEPT ![c] = "CLOSING"] /\ cause' = [cause EXCEPT ![c] = why]
      /\ available_connection_count' = available_connection_count - Count(conn[c] = "READY")
      /\ is_available' = (is_available /\ available_connection_count' > 0)
      /\ UNCHANGED <<pool, connections, connections_pending, streams, written, requests>>
  BY DEF ConnectionFails
<1>2. is_available' \in BOOLEAN /\ (is_available' => is_available /\ available_connection_count' > 0)
  BY <1>1, Zenon
<1>3. /\ conn'[c] = "CLOSING" /\ \A x \in Connections \ {c} : conn'[x] = conn[x]
      /\ conn' \in [Connections -> ConnStates] /\ state \in {"CONNECTING", "READY"}
  BY <1>1 DEF Inv, Shapes, ConnStates, States
<1>4. AvailabilityExact' /\ available_connection_count' \in Nat
  <2>1. available_connection_count' =
          available_connection_count - Count(conn[c] = "READY") + Count(conn'[c] = "READY")
    BY <1>1, <1>3 DEF Inv, Shapes, Count
  <2>2. /\ available_connection_count' = Cardinality({x \in Connections : conn'[x] = "READY"})
        /\ available_connection_count' \in Nat
    BY <1>3, <2>1, CountFollows DEF Inv
  <2> QED
    BY <1>1, <1>2, <1>3, <2>2 DEF AvailabilityExact, pool, Closing
<1>5. Lists'
  <2>1. \A x \in Connections :
          /\ x \in Range(connections) => x \notin connections_pending
          /\ conn'[x] # "none" <=> x \in Range(connections) \/ x \in connections_pending
          /\ conn'[x] = "CONNECTING" => x \in connections_pending
          /\ conn'[x] \in {"READY", "OVERWHELMED"} => x \in Range(connections)
    BY <1>1, <1>3 DEF Inv, Lists
  <2> QED
    BY <1>1, <2>1 DEF Inv, Lists
<1>6. States' /\ ReadyPoolIsConnected' /\ NotifiedOnce' /\ ReconnectScheduled'
  BY <1>1, <1>3 DEF Inv, States, ReadyPoolIsConnected, NotifiedOnce, ReconnectScheduled, pool
<1>7. StreamsHeld' /\ OnePlace'
  <2>1. state' # "CLOSED"
    BY <1>1, <1>3 DEF pool
  <2> QED
    BY <1>1, <1>3, <2>1, RequestsStay DEF Inv
<1>8. Shapes'
  <2>1. cause' \in [Connections -> {"none", "close", "timeout", "critical", "error"}]
    BY <1>1 DEF Inv, Shapes
  <2>2. failures' \in 0..MaxFailures
    BY <1>1, Limits DEF Inv, Shapes
  <2> QED
    BY <1>1, <1>2, <1>3, <1>4, <2>1, <2>2 DEF Inv, Shapes, pool, requests
<1> QED
  BY <1>4, <1>5, <1>6, <1>7, <1>8 DEF Inv

\* close and maybe_close, with the lists there are once connections that are
\* closed are erased from them and their requests given up.
LEMMA ClosePoolPreserves ==
  ASSUME Inv, state # "CLOSED", NEW gone \in SUBSET Requests,
         connections' \in Seq(Connections), Injective(connections'),
         connections_pending' \subseteq connections_pending,
         Range(connections') \subseteq Range(connections),
         Len(connections') + Cardinality(connections_pending') <= MaxConnections,
         \A x \in Connections \ (Range(connections') \cup connections_pending') :
           conn[x] \in {"none", "CLOSING"} /\ streams'[x] = 0 /\ written'[x] = {},
         \A x \in Range(connections') \cup connections_pending' :
           streams'[x] = streams[x] /\ written'[x] = written[x],
         streams' \in [Connections -> 0..Streams], written' \in [Connections -> SUBSET Requests],
         \A q \in gone : /\ q \notin Range(pending_requests)
                         /\ \A x \in Connections : q \notin written'[x],
         \E cancel \in BOOLEAN : ClosePool(connections', connections_pending', cancel),
         left' = left \cup gone \cup Dropped(connections', connections_pending'),
         is_critical_failure' \in BOOLEAN, failures' = failures
  PROVE  Inv'
<1> PICK cancel \in BOOLEAN : ClosePool(connections', connections_pending', cancel)
  OBVIOUS
<1> DEFINE open == Open(connections', connections_pending')
           first == state \notin Closing
           closing == IF first THEN {c \in open : conn[c] # "CLOSING"} ELSE {}
           lost == {c \in closing : conn[c] = "READY"}
<1>1. /\ open = Range(connections') \cup connections_pending' /\ open \subseteq Connections
      /\ \A x \in open : conn[x] # "none"
  BY InjectiveLength DEF Open, Inv, Shapes, Lists
<1>2. /\ state' = IF open = {} THEN "CLOSED" ELSE "CLOSING"
      /\ notices' = [ready |-> notices.ready + Count(state = "CONNECTING"),
                     closed |-> notices.closed + Count(open = {})]
      /\ timer' = IF first \/ open = {} THEN "none" ELSE timer
      /\ cancel_reconnect' = IF first THEN cancel ELSE cancel_reconnect
      /\ conn' = [c \in Connections |-> IF c \in closing THEN "CLOSING"
                                        ELSE IF c \in open THEN conn[c] ELSE "none"]
      /\ cause' = [c \in Connections |-> IF c \in closing THEN "close"
                                         ELSE IF c \in open THEN cause[c] ELSE "none"]
      /\ available_connection_count' = available_connection_count - Cardinality(lost)
      /\ is_available' = FALSE
      /\ pending_requests' = IF open = {} THEN <<>> ELSE pending_requests
  BY Zenon DEF ClosePool
<1>3. left' = left \cup gone \cup (IF open = {} THEN Range(pending_requests) ELSE {})
  BY DEF Dropped
<1> HIDE DEF open
<1>4. /\ \A x \in open : conn'[x] = "CLOSING"
      /\ \A x \in Connections \ open : conn'[x] = "none"
  BY <1>1, <1>2 DEF Inv, States, Closing
<1>5. available_connection_count' = 0
  <2>1. CASE first
    <3>1. lost = {c \in Connections : conn[c] = "READY"}
      BY <1>1, <2>1
    <3> HIDE DEF lost, first, closing
    <3>2. Cardinality(lost) = available_connection_count
      BY <3>1 DEF Inv, AvailabilityExact
    <3> QED
      BY <1>2, <3>2 DEF Inv, Shapes
  <2>2. CASE ~first
    <3>1. lost = {} /\ state \in Closing
      BY <2>2
    <3> HIDE DEF lost, first, closing
    <3>2. Cardinality(lost) = 0
      BY <3>1, FS_EmptySet, Zenon
    <3>3. available_connection_count = 0
      BY <3>1, NoneAvailable
    <3> QED
      BY <1>2, <3>2, <3>3
  <2> QED
    BY <2>1, <2>2
<1>6. AvailabilityExact'
  <2>1. {x \in Connections : conn'[x] = "READY"} = {}
    BY <1>4
  <2>2. Cardinality({x \in Connections : conn'[x] = "READY"}) = 0
    BY <2>1, FS_EmptySet, Zenon
  <2> QED
    BY <1>2, <1>5, <2>2 DEF AvailabilityExact
<1>7. Lists'
  <2>1. \A x \in Connections :
          /\ x \in Range(connections') => x \notin connections_pending'
          /\ conn'[x] # "none" <=> x \in Range(connections') \/ x \in connections_pending'
          /\ conn'[x] = "CONNECTING" => x \in connections_pending'
          /\ conn'[x] \in {"READY", "OVERWHELMED"} => x \in Range(connections')
    BY <1>1, <1>4 DEF Inv, Lists
  <2> QED
    BY <2>1 DEF Lists
<1>8. States' /\ ReadyPoolIsConnected' /\ ReconnectScheduled'
  <2>1. state' \in {"CLOSED", "CLOSING"} /\ (state' = "CLOSED" => open = {})
    BY <1>2
  <2>2. timer' # "wait"
    BY <1>2 DEF Inv, Shapes, States, Closing
  <2>3. \A x \in Connections : conn'[x] \in {"none", "CLOSING"} /\ (open = {} => conn'[x] = "none")
    BY <1>4
  <2> QED
    BY <2>1, <2>2, <2>3 DEF States, ReadyPoolIsConnected, ReconnectScheduled
<1>9. NotifiedOnce' /\ notices' \in [ready : Nat, closed : Nat]
  <2>1. /\ notices.ready \in Nat /\ notices.closed = 0 /\ notices.ready <= 1
        /\ state = "CONNECTING" => notices.ready = 0
    BY SMTT(30) DEF Inv, Shapes, NotifiedOnce, Closing
  <2>2. /\ notices.ready + Count(state = "CONNECTING") \in Nat
        /\ notices.ready + Count(state = "CONNECTING") <= 1
    BY <2>1 DEF Count
  <2>3. notices.closed + Count(open = {}) = IF open = {} THEN 1 ELSE 0
    BY <2>1 DEF Count
  <2>4. /\ notices' \in [ready : Nat, closed : Nat] /\ notices'.ready <= 1
        /\ notices'.closed = IF open = {} THEN 1 ELSE 0
    BY <1>2, <2>2, <2>3
  <2> QED
    BY <1>2, <2>4 DEF NotifiedOnce, Closing
<1>10. StreamsHeld'
  <2> SUFFICES ASSUME NEW x \in Connections
               PROVE  /\ Cardinality(written'[x]) <= streams'[x]
                      /\ conn'[x] \in {"none", "CONNECTING"} => streams'[x] = 0 /\ written'[x] = {}
    BY DEF StreamsHeld
  <2>1. CASE x \in open
    BY <1>1, <1>4, <2>1 DEF Inv, StreamsHeld
  <2>2. CASE x \notin open
    <3>1. streams'[x] = 0 /\ written'[x] = {}
      BY <1>1, <2>2
    <3> QED
      BY <3>1, FS_EmptySet
  <2> QED
    BY <2>1, <2>2
<1>11. OnePlace' /\ pending_requests' \in Seq(Requests) /\ left' \subseteq Requests
  <2>1. \A x \in Connections : \A q \in written'[x] : q \in written[x]
    BY <1>1
  <2>2. \A q \in Range(pending_requests) : q \in Requests
    BY InjectiveLength DEF Inv, Shapes, OnePlace
  <2>3. CASE open = {}
    <3>1. pending_requests' = <<>> /\ left' = left \cup gone \cup Range(pending_requests)
      BY <1>2, <1>3, <2>3
    <3>2. pending_requests' \in Seq(Requests) /\ Injective(pending_requests') /\ Range(pending_requests') = {}
      BY <3>1, EmptySeq DEF Injective, Range
    <3> QED
      BY <2>1, <2>2, <3>1, <3>2 DEF Inv, Shapes, OnePlace
  <2>4. CASE open # {}
    <3>1. pending_requests' = pending_requests /\ left' = left \cup gone
      BY <1>2, <1>3, <2>4
    <3>2. state' # "CLOSED"
      BY <1>2, <2>4
    <3> QED
      BY <2>1, <3>1, <3>2 DEF Inv, Shapes, OnePlace
  <2> QED
    BY <2>3, <2>4
<1>12. Shapes'
  <2>1. conn' \in [Connections -> ConnStates]
    BY <1>2, <1>4 DEF ConnStates
  <2>2. cause' \in [Connections -> {"none", "close", "timeout", "critical", "error"}]
    BY <1>2 DEF Inv, Shapes
  <2>3. cancel_reconnect' \in BOOLEAN
    BY <1>2, Zenon DEF Inv, Shapes
  <2>4. timer' \in {"none", "wait", "partial"} /\ state' \in {"CLOSED", "CLOSING"}
    BY <1>2 DEF Inv, Shapes
  <2>5. connections_pending' \subseteq Connections
    BY DEF Inv, Shapes
  <2>6. is_available' \in BOOLEAN /\ available_connection_count' \in Nat
    <3>1. is_available' = FALSE
      BY <1>2, Zenon
    <3> QED
      BY <1>5, <3>1
  <2>7. failures' \in 0..MaxFailures
    BY DEF Inv, Shapes
  <2> QED
    BY <1>9, <1>11, <2>1, <2>2, <2>3, <2>4, <2>5, <2>6, <2>7 DEF Shapes
<1> QED
  BY <1>6, <1>7, <1>8, <1>9, <1>10, <1>11, <1>12 DEF Inv

\* The worker closes the pool.
LEMMA ClosePreserves ==
  ASSUME Inv, NEW cancel \in BOOLEAN, Close(cancel)
  PROVE  Inv'
<1>1. /\ state \notin Closing
      /\ ClosePool(connections, connections_pending, cancel)
      /\ left' = left \cup Dropped(connections, connections_pending)
      /\ UNCHANGED <<is_critical_failure, connections, connections_pending, streams, written, failures>>
  BY DEF Close
<1>2. \E k \in BOOLEAN : ClosePool(connections', connections_pending', k)
  <2>1. ClosePool(connections', connections_pending', cancel)
    BY <1>1
  <2> QED
    BY <2>1, Zenon
<1>3. left' = left \cup {} \cup Dropped(connections', connections_pending')
  BY <1>1
<1>4. \A x \in Connections \ (Range(connections') \cup connections_pending') :
        conn[x] \in {"none", "CLOSING"} /\ streams'[x] = 0 /\ written'[x] = {}
  BY <1>1 DEF Inv, Lists, StreamsHeld
<1>5. /\ connections' \in Seq(Connections) /\ Injective(connections')
      /\ connections_pending' \subseteq connections_pending /\ Range(connections') \subseteq Range(connections)
      /\ Len(connections') + Cardinality(connections_pending') <= MaxConnections
      /\ streams' \in [Connections -> 0..Streams] /\ written' \in [Connections -> SUBSET Requests]
      /\ is_critical_failure' \in BOOLEAN /\ state # "CLOSED" /\ failures' = failures
      /\ \A x \in Range(connections') \cup connections_pending' :
           streams'[x] = streams[x] /\ written'[x] = written[x]
  BY <1>1 DEF Inv, Shapes, Lists, Closing
<1> DEFINE gone == {}
<1>6. gone \in SUBSET Requests /\ \A q \in gone : FALSE
  OBVIOUS
<1>7. left' = left \cup gone \cup Dropped(connections', connections_pending')
  BY <1>3
<1> HIDE DEF gone
<1> QED
  BY <1>2, <1>4, <1>5, <1>6, <1>7, ClosePoolPreserves

\* A connection is closed.
LEMMA OnClosePreserves ==
  ASSUME Inv, NEW c \in Connections, OnClose(c)
  PROVE  Inv'
<1>1. /\ conn[c] = "CLOSING"
      /\ connections' = Without(connections, c) /\ connections_pending' = connections_pending \ {c}
      /\ streams' = [streams EXCEPT ![c] = 0] /\ written' = [written EXCEPT ![c] = {}]
      /\ failures' = failures
  BY DEF OnClose
<1>2. /\ connections' \in Seq(Connections) /\ Injective(connections')
      /\ Range(connections') = Range(connections) \ {c}
      /\ Len(connections') \in Nat /\ Len(connections) \in Nat
      /\ c \notin Range(connections) => Len(connections') = Len(connections)
      /\ c \in Range(connections) => Len(connections') = Len(connections) - 1
  BY <1>1, WithoutInjectiveList, LenProperties DEF Inv, Shapes, Lists
<1>3. /\ Cardinality(connections_pending) \in Nat /\ Cardinality(connections_pending') \in Nat
      /\ c \in connections_pending => Cardinality(connections_pending') = Cardinality(connections_pending) - 1
      /\ c \notin connections_pending => Cardinality(connections_pending') = Cardinality(connections_pending)
  BY <1>1, Limits, FS_Subset, OneLess DEF Inv, Shapes
<1>4. Len(connections') + Cardinality(connections_pending') <= MaxConnections
  BY <1>2, <1>3, Limits DEF Inv, Lists
<1>5. /\ streams' \in [Connections -> 0..Streams] /\ written' \in [Connections -> SUBSET Requests]
      /\ streams'[c] = 0 /\ written'[c] = {}
      /\ \A x \in Connections \ {c} : streams'[x] = streams[x] /\ written'[x] = written[x]
  BY <1>1, Limits DEF Inv, Shapes
<1>6. state # "CLOSED" /\ state \notin {"NEW", "WAITING_TO_CONNECT"}
  BY <1>1 DEF Inv, States
<1>7. /\ written[c] \in SUBSET Requests
      /\ \A q \in written[c] : /\ q \notin Range(pending_requests)
                               /\ \A x \in Connections : q \notin written'[x]
  BY <1>5 DEF Inv, Shapes, OnePlace
<1>8. CASE StaysOpen(c)
  <2>1. /\ timer' = IF timer = "none" THEN "partial" ELSE timer
        /\ MaybeNotifyReady(connections_pending')
        /\ conn' = [conn EXCEPT ![c] = "none"] /\ cause' = [cause EXCEPT ![c] = "none"]
        /\ left' = left \cup written[c]
        /\ UNCHANGED <<is_critical_failure, cancel_reconnect, avail, pending_requests>>
        /\ connections' # <<>>
    BY <1>8 DEF OnClose, StaysOpen
  <2>2. /\ notices' \in [ready : Nat, closed : Nat] /\ NotifiedOnce'
        /\ state' = state \/ (state = "CONNECTING" /\ state' = "READY")
    BY <2>1, Notified DEF Inv
  <2>3. /\ conn'[c] = "none" /\ \A x \in Connections \ {c} : conn'[x] = conn[x]
        /\ conn' \in [Connections -> ConnStates]
    BY <2>1 DEF Inv, Shapes, ConnStates
  <2>4. Lists'
    <3>1. \A x \in Connections :
            /\ x \in Range(connections') => x \notin connections_pending'
            /\ conn'[x] # "none" <=> x \in Range(connections') \/ x \in connections_pending'
            /\ conn'[x] = "CONNECTING" => x \in connections_pending'
            /\ conn'[x] \in {"READY", "OVERWHELMED"} => x \in Range(connections')
      BY <1>1, <1>2, <2>3 DEF Inv, Lists
    <3> QED
      BY <1>2, <1>4, <3>1 DEF Lists
  <2>5. AvailabilityExact'
    <3>1. \A x \in Connections : conn'[x] = "READY" <=> conn[x] = "READY"
      BY <1>1, <2>3
    <3>2. available_connection_count' = Cardinality({x \in Connections : conn'[x] = "READY"})
      BY <2>1, <3>1, CountStays DEF Inv, avail
    <3> QED
      BY <2>1, <2>2, <3>2 DEF Inv, AvailabilityExact, Closing, avail
  <2>6. timer' # "wait" /\ timer' \in {"none", "wait", "partial"}
        /\ (state \in {"CONNECTING", "READY"} => timer' = "partial")
    BY <1>6, <2>1 DEF Inv, Shapes, States
  <2>7. States' /\ ReadyPoolIsConnected' /\ ReconnectScheduled'
    <3>1. state' \notin {"NEW", "WAITING_TO_CONNECT", "CLOSED"}
      BY <1>6, <2>2
    <3>2. state' = "CLOSING" => \A x \in Connections : conn'[x] \in {"none", "CLOSING"}
      BY <2>2, <2>3 DEF Inv, States
    <3>3. States'
      BY <2>6, <3>1, <3>2 DEF States
    <3>4. ReadyPoolIsConnected'
      BY <2>1 DEF ReadyPoolIsConnected
    <3>5. ReconnectScheduled'
      BY <2>2, <2>6 DEF ReconnectScheduled
    <3> QED
      BY <3>3, <3>4, <3>5
  <2>8. StreamsHeld'
    <3> SUFFICES ASSUME NEW x \in Connections
                 PROVE  /\ Cardinality(written'[x]) <= streams'[x]
                        /\ conn'[x] \in {"none", "CONNECTING"} => streams'[x] = 0 /\ written'[x] = {}
      BY DEF StreamsHeld
    <3>1. CASE x = c
      BY <1>5, <3>1, FS_EmptySet
    <3>2. CASE x # c
      BY <1>5, <2>3, <3>2 DEF Inv, StreamsHeld
    <3> QED
      BY <3>1, <3>2
  <2>9. OnePlace'
    <3>1. \A x \in Connections : \A q \in written'[x] : q \in written[x]
      BY <1>5
    <3>2. state' # "CLOSED"
      BY <1>6, <2>2
    <3> QED
      BY <1>7, <2>1, <3>1, <3>2 DEF Inv, OnePlace
  <2>10. Shapes'
    <3>1. cause' \in [Connections -> {"none", "close", "timeout", "critical", "error"}]
      BY <2>1 DEF Inv, Shapes
    <3>2. left' \subseteq Requests /\ connections_pending' \subseteq Connections
      BY <1>1, <1>7, <2>1 DEF Inv, Shapes
    <3> QED
      BY <1>1, <1>2, <1>5, <2>1, <2>2, <2>3, <2>6, <3>1, <3>2 DEF Inv, Shapes, avail
  <2> QED
    BY <2>2, <2>4, <2>5, <2>7, <2>8, <2>9, <2>10 DEF Inv
<1>9. CASE ~StaysOpen(c)
  <2>1. /\ is_critical_failure' = (is_critical_failure \/ cause[c] = "critical")
        /\ ClosePool(connections', connections_pending', FALSE)
        /\ left' = left \cup written[c] \cup Dropped(connections', connections_pending')
    BY <1>9 DEF OnClose
  <2>2. is_critical_failure' \in BOOLEAN
    BY <2>1, Zenon
  <2>3. \A x \in Connections \ (Range(connections') \cup connections_pending') :
          conn[x] \in {"none", "CLOSING"} /\ streams'[x] = 0 /\ written'[x] = {}
    BY <1>1, <1>2, <1>5 DEF Inv, Lists, StreamsHeld
  <2>4. \A x \in Range(connections') \cup connections_pending' :
          streams'[x] = streams[x] /\ written'[x] = written[x]
    <3>1. \A x \in Range(connections') \cup connections_pending' : x \in Connections \ {c}
      BY <1>1, <1>2, InjectiveLength DEF Inv, Shapes
    <3> QED
      BY <1>5, <3>1
  <2>5. connections_pending' \subseteq connections_pending /\ Range(connections') \subseteq Range(connections)
    BY <1>1, <1>2
  <2> DEFINE gone == written[c]
  <2>6. /\ gone \in SUBSET Requests
        /\ \A q \in gone : /\ q \notin Range(pending_requests)
                           /\ \A x \in Connections : q \notin written'[x]
        /\ left' = left \cup gone \cup Dropped(connections', connections_pending')
    BY <1>7, <2>1
  <2>7. \E cancel \in BOOLEAN : ClosePool(connections', connections_pending', cancel)
    BY <2>1, Zenon
  <2> HIDE DEF gone
  <2> QED
    BY <1>1, <1>2, <1>4, <1>5, <1>6, <2>2, <2>3, <2>4, <2>5, <2>6, <2>7, ClosePoolPreserves
<1> QED
  BY <1>8, <1>9

\* Every step preserves the invariant.
LEMMA InvNext ==
  ASSUME Inv, [Next]_vars
  PROVE  Inv'
<1>1. CASE Connect \/ DelayedConnect \/ OnPartialReconnect
  BY <1>1, SpawnPreserves, DelayedConnectPreserves
<1>2. ASSUME NEW cancel \in BOOLEAN, Close(cancel) PROVE Inv'
  BY <1>2, ClosePreserves
<1>3. ASSUME NEW c \in Connections, ConnectionSteps(c) \/ OnRelieved(c) \/ LateResponse(c) PROVE Inv'
  BY <1>3, OnReadyPreserves, OnClosePreserves, ConnectionFailsPreserves, OnRelievedPreserves,
     LateResponsePreserves DEF ConnectionSteps
<1>4. ASSUME NEW r \in Requests,
             Borrow(r) \/ BorrowAndPass(r) \/ WaitForConnection(r) \/ OnPendingRequestTimeout(r)
      PROVE  Inv'
  BY <1>4, BorrowPreserves, BorrowAndPassPreserves, WaitForConnectionPreserves, PendingTimeoutPreserves
<1>5. ASSUME NEW r \in Requests, NEW c \in Connections, Finish(c, r) \/ FinishAndPass(c, r) \/ Retry(c, r)
      PROVE  Inv'
  BY <1>5, FinishPreserves, FinishAndPassPreserves
<1>6. CASE UNCHANGED vars
  <2> USE <1>6 DEF vars, pool, conns, avail, requests
  <2>1. Shapes' /\ Lists' /\ States'
    BY DEF Inv, Shapes, Lists, States
  <2>2. StreamsHeld' /\ OnePlace' /\ AvailabilityExact'
    BY DEF Inv, StreamsHeld, OnePlace, AvailabilityExact
  <2>3. ReadyPoolIsConnected' /\ NotifiedOnce' /\ ReconnectScheduled'
    BY DEF Inv, ReadyPoolIsConnected, NotifiedOnce, ReconnectScheduled
  <2> QED
    BY <2>1, <2>2, <2>3 DEF Inv
<1> QED
  BY <1>1, <1>2, <1>3, <1>4, <1>5, <1>6 DEF Next, Done

\* The invariant holds in every reachable state.
LEMMA InvAlways == Spec => []Inv
<1>1. Init => Inv
  BY InvInit
<1>2. Inv /\ [Next]_vars => Inv'
  BY InvNext
<1> QED
  BY <1>1, <1>2, PTL DEF Spec

-----------------------------------------------------------------------------
(* What the invariant says *)

\* The sizes that TypeOK states follow from the lists naming no one twice.
LEMMA InvTypes ==
  ASSUME Inv
  PROVE  TypeOK
<1>1. Len(connections) = Cardinality(Range(connections)) /\ Range(connections) \subseteq Connections
  BY InjectiveLength DEF Inv, Shapes, Lists
<1>2. Range(connections) \cap connections_pending = {}
  BY <1>1 DEF Inv, Lists
<1>3. \A c \in Connections : conn[c] # "none" <=> c \in Open(connections, connections_pending)
  BY DEF Inv, Lists, Open
<1>4. Len(connections) + Cardinality(connections_pending) <= MaxConnections
  BY DEF Inv, Lists
<1>5. {is_critical_failure, cancel_reconnect} \subseteq BOOLEAN
  BY DEF Inv, Shapes
<1> QED
  BY <1>1, <1>2, <1>3, <1>4, <1>5 DEF Inv, Shapes, TypeOK, ConnStates, Closing

\* A set without two elements.
LEMMA AtMostOne ==
  ASSUME NEW S, \A x, y \in S : x = y
  PROVE  Cardinality(S) \in {0, 1} /\ (S = {} => Cardinality(S) = 0)
<1>1. CASE S = {}
  BY <1>1, FS_EmptySet, Zenon
<1>2. CASE S # {}
  <2>1. PICK x \in S : TRUE
    BY <1>2
  <2>2. S = {x}
    BY <2>1
  <2>3. Cardinality(S) = 1
    BY <2>2, FS_Singleton, Zenon
  <2> QED
    BY <1>2, <2>3
<1> QED
  BY <1>1, <1>2

\* Places that exclude each other are one place.
LEMMA InvOnePlace ==
  ASSUME Inv
  PROVE  RequestInOnePlace
<1>1. ASSUME NEW r \in Requests
      PROVE  Cardinality({c \in Connections : r \in written[c]})
               + Cardinality({i \in DOMAIN pending_requests : pending_requests[i] = r})
               + Count(r \in left) <= 1
  <2> DEFINE A == {c \in Connections : r \in written[c]}
             B == {i \in DOMAIN pending_requests : pending_requests[i] = r}
  <2>1. (\A x, y \in A : x = y) /\ (\A x, y \in B : x = y)
    BY DEF Inv, OnePlace, Injective
  <2>2. /\ r \in left => A = {} /\ B = {}
        /\ B # {} => A = {}
    BY DEF Inv, OnePlace, Range
  <2> HIDE DEF A, B
  <2>3. /\ Cardinality(A) \in {0, 1} /\ (A = {} => Cardinality(A) = 0)
        /\ Cardinality(B) \in {0, 1} /\ (B = {} => Cardinality(B) = 0)
    BY <2>1, AtMostOne
  <2>4. Cardinality(A) + Cardinality(B) + Count(r \in left) <= 1
    <3>1. CASE r \in left
      BY <2>2, <2>3, <3>1 DEF Count
    <3>2. CASE r \notin left
      BY <2>2, <2>3, <3>2 DEF Count
    <3> QED
      BY <3>1, <3>2
  <2> QED
    BY <2>4 DEF A, B
<1>2. state = "CLOSED" => pending_requests = <<>> /\ \A c \in Connections : written[c] = {}
  BY DEF Inv, OnePlace, States, StreamsHeld
<1> QED
  BY <1>1, <1>2 DEF RequestInOnePlace

-----------------------------------------------------------------------------
\* Whatever connections a pool has and however they come up, fail and close:
\* the pool has no more than configured and lists each once, its count of
\* available connections is exact, the host is offered only with an available
\* one, a pool that is ready has a connection, and the worker is told once that
\* it is ready and once that it is closed.
THEOREM PoolIsConsistent == Spec => []PoolConsistent
<1>1. Inv => PoolConsistent
  BY InvTypes DEF Inv, PoolConsistent
<1> QED
  BY <1>1, InvAlways, PTL

\* A pool that connects or is ready and lacks core connections has a reconnect
\* scheduled.
THEOREM ReconnectIsScheduled == Spec => []ReconnectScheduled
<1>1. Inv => ReconnectScheduled
  BY DEF Inv
<1> QED
  BY <1>1, InvAlways, PTL

\* A request is written to one connection, or waits once, or is done with the
\* pool, and a pool that is deleted keeps none.
THEOREM RequestIsInOnePlace == Spec => []RequestInOnePlace
<1>1. Inv => RequestInOnePlace
  BY InvOnePlace
<1> QED
  BY <1>1, InvAlways, PTL
=============================================================================
