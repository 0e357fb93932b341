---------------------------- MODULE SessionProofs ----------------------------
(***************************************************************************)
(* Proofs about Session, for any number of requests, workers and hosts and *)
(* any queue sizes: no request is answered twice, none that the connected  *)
(* session accepted is left behind when the session is closed, and it is   *)
(* connected only after every first pool has reported.                     *)
(*                                                                         *)
(* And about QueryPlan, the plans that it makes for requests, for any      *)
(* hosts, data centers, compositions of policies, replicas and latencies:  *)
(* however the lists of the policy and the latencies change while a plan   *)
(* is walked, no host is named twice but what the replicas repeat, no      *)
(* local host that stayed up is left out, and local hosts come first.      *)
(***************************************************************************)
EXTENDS Session, FiniteSetTheorems, SequenceTheorems, NaturalsInduction, TLAPS

----------------------------------------------------------------------------
(* The inductive invariants *)

Entries == Requests \cup {NULL}
Events == {"CONNECT", "NOTIFY_READY", "NOTIFY_WORKER_CLOSED"}
PoolStates == NotReadyPools \cup {"READY"}

ThreadTyped ==
  \/ thread \in {NoThread, Waiting, Closed}
  \/ \E c \in BOOLEAN, r \in Entries, w \in Workers \cup {NULL} : thread = OnExecute(c, r, w)
  \/ \E L \in SUBSET Workers : thread = CloseWorkers(L)

HeldTyped ==
  /\ DOMAIN held = Workers
  /\ \A w \in Workers : /\ DOMAIN held[w] \subseteq Requests
                        /\ \A r \in DOMAIN held[w] : held[w][r] \in Hosts

AppTyped ==
  /\ connect_future \in {"none", "unset", "set", "error"}
  /\ close_future \in {"none", "unset", "set", "error"}
  /\ caller \in [Requests -> {"new", "checked", "returned"}]
  /\ answers \in [Requests -> Nat]
  /\ in_flight \subseteq Requests

SessionTyped ==
  /\ state \in {"CLOSED", "CONNECTING", "CONNECTED", "CLOSING"}
  /\ mutex \in BOOLEAN /\ woken \in BOOLEAN
  /\ request_queue \in Seq(Entries) /\ Len(request_queue) <= QueueSize
  /\ ThreadTyped
  /\ events \in Seq(Events)
  /\ control \in {"none", "connecting", "ready", "error", "closed"}
  /\ pending_pool_count \in Nat /\ pending_workers_count \in Int

WorkersTyped ==
  /\ worker \in [Workers -> {"READY", "CLOSING", "CLOSED"}]
  /\ worker_queue \in [Workers -> Seq(Entries)]
  /\ \A w \in Workers : Len(worker_queue[w]) <= WorkerQueueSize
  /\ worker_woken \in [Workers -> BOOLEAN]
  /\ remaining \in [Workers -> -1..MaxPerFlush]
  /\ HeldTyped
  /\ worker_events \in [Workers -> SUBSET Hosts]
  /\ pool \in [Workers -> [Hosts -> PoolStates]]
  /\ initial \in [Workers -> [Hosts -> BOOLEAN]]
  /\ reconnects \in Nat

Typed == AppTyped /\ SessionTyped /\ WorkersTyped

\* What a queue holds.
In(q, r) == \E k \in DOMAIN q : q[k] = r
Once(q, r) == \A j, k \in DOMAIN q : q[j] = r /\ q[k] = r => j = k

\* Nothing of F, and no second NULL, is behind a NULL.
Closes(q, F) ==
  \A j, k \in DOMAIN q :
    q[k] = NULL => (q[j] \in F => j < k) /\ (q[j] = NULL => j = k)

\* Where a request may be.
Queued(r) == In(request_queue, r)
Carries(r) == thread.kind = "on_execute" /\ thread.request = r
Dispatched(w, r) == In(worker_queue[w], r)
Holds(w, r) == r \in DOMAIN held[w]

Somewhere(r) == Queued(r) \/ Carries(r) \/ \E w \in Workers : Dispatched(w, r) \/ Holds(w, r)

\* A request is in one place, at one position, and not answered there.
OwnedOnce(r) ==
  /\ answers[r] \in {0, 1}
  /\ caller[r] # "returned" => answers[r] = 0
  /\ Somewhere(r) => caller[r] = "returned" /\ answers[r] = 0
  /\ Once(request_queue, r)
  /\ \A w \in Workers : Once(worker_queue[w], r)
  /\ Queued(r) => ~Carries(r)
  /\ Queued(r) \/ Carries(r) => \A w \in Workers : ~Dispatched(w, r) /\ ~Holds(w, r)
  /\ \A v, w \in Workers :
       /\ Dispatched(w, r) => (Dispatched(v, r) => v = w) /\ ~Holds(v, r)
       /\ Holds(w, r) /\ Holds(v, r) => v = w

Owned == \A r \in Requests : OwnedOnce(r)

\* Connecting happens once: CONNECT, then the control connection, then the
\* pools, whose last report makes the session connected.
Starting ==
  /\ connect_future = "none" =>
       /\ state = "CLOSED" /\ thread = NoThread /\ events = <<>> /\ control = "none"
       /\ \A w \in Workers : remaining[w] = -1
  /\ Once(events, "CONNECT")
  /\ In(events, "CONNECT") =>
       /\ pending_pool_count = 0 /\ connect_future = "unset"
       /\ control \notin {"connecting", "ready"}
  /\ control = "none" => pending_pool_count = 0 /\ connect_future \in {"none", "unset", "error"}
  /\ control = "connecting" => pending_pool_count = 0 /\ connect_future = "unset"
  /\ connect_future \in {"error", "set"} => pending_pool_count = 0
  /\ state = "CONNECTED" => connect_future = "set"
  /\ state = "CONNECTING" => connect_future = "unset"

\* The NULL that announces the close: to whom it was passed on.
Told(w) == worker[w] # "READY" \/ Dispatched(w, NULL)
ClosingNow == thread.kind = "on_execute" /\ thread.closing
Broadcast == thread.kind = "close_async" \/ \E w \in Workers : Told(w)

Ending == state \in {"CLOSING", "CLOSED"} /\ connect_future \in {"set", "error"}

\* One NULL is under way, and nothing that the connected session accepted is
\* behind it in the session's queue ...
Announcing ==
  /\ mutex => Ending /\ state = "CLOSING" /\ ~Queued(NULL) /\ ~ClosingNow /\ ~Broadcast
  /\ Queued(NULL) => Ending /\ ~ClosingNow /\ ~Broadcast
  /\ Closes(request_queue, in_flight)
  /\ ClosingNow => Ending /\ ~Broadcast
  /\ Broadcast => Ending
  /\ ClosingNow \/ Broadcast => \A r \in in_flight : ~Queued(r)
  /\ Broadcast => \A r \in in_flight : ~Carries(r)

\* ... or in a worker's ...
Passing ==
  /\ \A w \in Workers : Closes(worker_queue[w], in_flight)
  /\ \A w \in Workers : worker[w] # "READY" =>
       \A r \in in_flight \cup {NULL} : ~Dispatched(w, r)
  /\ thread.kind = "close_async" => \A w \in thread.left : ~Told(w)

\* ... and a worker that is closed has no pool left for one to be in.
Holding ==
  /\ \A w \in Workers : \A r \in DOMAIN held[w] : pool[w][held[w][r]] \in {"READY", "CLOSING"}
  /\ \A w \in Workers : worker[w] = "CLOSED" => \A h \in Hosts : pool[w][h] = "none"

Halting == Announcing /\ Passing /\ Holding

\* A request the connected session accepted is somewhere until it is answered.
Accounted == \A r \in in_flight : answers[r] # 0 \/ Somewhere(r)

\* When the session is closed it stays so, and InFlightFinishes holds.
Finishing ==
  close_future = "set" =>
    /\ state = "CLOSED" /\ thread = NoThread /\ connect_future # "none"
    /\ \A r \in in_flight : answers[r] = 1

\* Where an event is in the queue, and how often it is there.
Where(q, e) == {k \in DOMAIN q : q[k] = e}
Count(q, e) == Cardinality(Where(q, e))

\* Reports of first pools: those to come and those in the event queue.
Owes(w, h) == h \in worker_events[w] \/ (pool[w][h] = "CONNECTING" /\ initial[w][h])
Outstanding == {p \in Hosts \X Workers : Owes(p[2], p[1])}

\* A worker has a host to add or a pool for it, and only first connections are
\* reported.
PoolsFit ==
  \A w \in Workers, h \in Hosts :
    /\ h \in worker_events[w] => pool[w][h] = "none"
    /\ pool[w][h] = "WAITING" => ~initial[w][h]

NoPools == \A w \in Workers : worker_events[w] = {} /\ \A h \in Hosts : pool[w][h] = "none"

Reporting ==
  /\ Cardinality(Outstanding) + Count(events, "NOTIFY_READY") <= pending_pool_count
  /\ PoolsFit
  /\ control \in {"none", "connecting"} \/ In(events, "CONNECT") => NoPools

\* Workers that have not closed and those whose report is in the event queue.
OpenWorkers == {w \in Workers : worker[w] # "CLOSED"}

Counting ==
  /\ pending_workers_count <= Cardinality(Workers)
  /\ IF Broadcast
     THEN pending_workers_count = Cardinality(OpenWorkers) + Count(events, "NOTIFY_WORKER_CLOSED")
     ELSE pending_workers_count = 0 /\ Count(events, "NOTIFY_WORKER_CLOSED") = 0

----------------------------------------------------------------------------
(* Queues *)

\* What the proofs need of Append.
LEMMA AppendFacts ==
  ASSUME NEW S, NEW q \in Seq(S), NEW e \in S
  PROVE  /\ Append(q, e) \in Seq(S) /\ Len(Append(q, e)) = Len(q) + 1
         /\ DOMAIN q = 1..Len(q) /\ DOMAIN Append(q, e) = 1..(Len(q) + 1)
         /\ Append(q, e)[Len(q) + 1] = e
         /\ \A k \in 1..Len(q) : Append(q, e)[k] = q[k]
  BY AppendProperties, LenProperties

\* What the proofs need of Head and Tail.
LEMMA TailFacts ==
  ASSUME NEW S, NEW q \in Seq(S), q # <<>>
  PROVE  /\ Tail(q) \in Seq(S) /\ Len(q) \in Nat \ {0} /\ Len(Tail(q)) = Len(q) - 1
         /\ Head(q) \in S /\ Head(q) = q[1]
         /\ DOMAIN q = 1..Len(q) /\ DOMAIN Tail(q) = 1..(Len(q) - 1)
         /\ \A k \in 1..(Len(q) - 1) : Tail(q)[k] = q[k + 1]
<1>1. Len(q) \in Nat \ {0}
  BY EmptySeq, LenProperties
<1>2. /\ Head(q) \in S /\ Head(q) = q[1] /\ Tail(q) \in Seq(S) /\ Len(Tail(q)) = Len(q) - 1
      /\ \A k \in 1..Len(Tail(q)) : Tail(q)[k] = q[k + 1]
  BY HeadTailProperties
<1> QED
  BY <1>1, <1>2, LenProperties

\* An entry that is appended is in the queue, once if it was not there.
LEMMA AppendIn ==
  ASSUME NEW S, NEW q \in Seq(S), NEW e \in S
  PROVE  /\ Append(q, e) \in Seq(S) /\ Len(Append(q, e)) = Len(q) + 1
         /\ \A r : In(Append(q, e), r) <=> (In(q, r) \/ r = e)
         /\ \A r : Once(q, r) /\ (r = e => ~In(q, r)) => Once(Append(q, e), r)
         /\ \A F : Closes(q, F) /\ ~In(q, NULL) /\ NULL \notin F =>
              Closes(Append(q, e), IF e = NULL THEN F ELSE F \cup {e})
         /\ \A F : Closes(q, F) /\ e \notin F /\ e # NULL => Closes(Append(q, e), F)
<1> DEFINE a == Append(q, e)
<1>1. /\ a \in Seq(S) /\ Len(a) = Len(q) + 1 /\ Len(q) \in Nat
      /\ DOMAIN q = 1..Len(q) /\ DOMAIN a = 1..(Len(q) + 1)
      /\ a[Len(q) + 1] = e /\ \A k \in 1..Len(q) : a[k] = q[k]
  BY AppendFacts, LenProperties
<1>2. \A k \in DOMAIN a : (k \in DOMAIN q /\ a[k] = q[k]) \/ (k = Len(q) + 1 /\ a[k] = e)
  BY <1>1
<1>3. /\ \A k \in DOMAIN q : k \in DOMAIN a /\ a[k] = q[k] /\ k < Len(q) + 1
      /\ Len(q) + 1 \in DOMAIN a
  BY <1>1
<1> HIDE DEF a
<1>4. \A r : In(a, r) <=> (In(q, r) \/ r = e)
  BY <1>1, <1>2, <1>3 DEF In
<1>5. \A r : Once(q, r) /\ (r = e => ~In(q, r)) => Once(a, r)
  BY <1>2, <1>3 DEF In, Once
<1>6. ASSUME NEW F, Closes(q, F), ~In(q, NULL), NULL \notin F
      PROVE  Closes(a, IF e = NULL THEN F ELSE F \cup {e})
  <2>1. \A k \in DOMAIN a : a[k] = NULL => k = Len(q) + 1 /\ e = NULL
    BY <1>2, <1>6 DEF In
  <2> QED
    BY <1>2, <1>3, <1>6, <2>1 DEF Closes
<1>7. ASSUME NEW F, Closes(q, F), e \notin F, e # NULL
      PROVE  Closes(a, F)
  BY <1>1, <1>2, <1>3, <1>7 DEF Closes
<1> QED
  BY <1>1, <1>4, <1>5, <1>6, <1>7 DEF a

\* As long as there is no NULL in a queue, anything may follow.
LEMMA AppendBeforeNull ==
  ASSUME NEW q \in Seq(Entries), NEW e \in Entries, NEW F, Closes(q, F), ~In(q, NULL), NULL \notin F
  PROVE  Closes(Append(q, e), F)
<1>1. CASE e = NULL
  <2>1. Closes(Append(q, e), IF e = NULL THEN F ELSE F \cup {e})
    BY AppendIn
  <2> QED
    BY <1>1, <2>1
<1>2. CASE e # NULL /\ e \notin F
  BY <1>2, AppendIn
<1>3. CASE e # NULL /\ e \in F
  <2>1. Closes(Append(q, e), IF e = NULL THEN F ELSE F \cup {e})
    BY AppendIn
  <2>2. F \cup {e} = F
    BY <1>3
  <2> QED
    BY <1>3, <2>1, <2>2
<1> QED
  BY <1>1, <1>2, <1>3

\* The rest of a queue: its first entry was either NULL, and then nothing the
\* connected session accepted is left, or one of the others.
LEMMA TailIn ==
  ASSUME NEW S, NEW q \in Seq(S), q # <<>>
  PROVE  /\ Tail(q) \in Seq(S) /\ Len(Tail(q)) <= Len(q) /\ Head(q) \in S
         /\ \A r : In(q, r) <=> (In(Tail(q), r) \/ r = Head(q))
         /\ \A r : Once(q, r) => Once(Tail(q), r) /\ (r = Head(q) => ~In(Tail(q), r))
         /\ \A F : Closes(q, F) =>
              /\ Closes(Tail(q), F)
              /\ Head(q) = NULL => \A r \in F \cup {NULL} : ~In(Tail(q), r)
<1> DEFINE t == Tail(q)
<1>1. /\ t \in Seq(S) /\ Len(q) \in Nat \ {0} /\ Len(t) = Len(q) - 1
      /\ Head(q) \in S /\ Head(q) = q[1]
      /\ DOMAIN q = 1..Len(q) /\ DOMAIN t = 1..(Len(q) - 1)
      /\ \A k \in 1..(Len(q) - 1) : t[k] = q[k + 1]
  BY TailFacts
<1>2. \A k \in DOMAIN t : k + 1 \in DOMAIN q /\ t[k] = q[k + 1] /\ 1 < k + 1
  BY <1>1
<1>3. 1 \in DOMAIN q /\ \A k \in DOMAIN q : k = 1 \/ (k - 1 \in DOMAIN t /\ t[k - 1] = q[k])
  BY <1>1
<1> HIDE DEF t
<1>4. ASSUME NEW r
      PROVE  In(q, r) <=> (In(t, r) \/ r = Head(q))
  <2>1. In(t, r) => In(q, r)
    BY <1>2 DEF In
  <2>2. r = Head(q) => In(q, r)
    BY <1>1, <1>3 DEF In
  <2>3. ASSUME NEW k \in DOMAIN q, q[k] = r
        PROVE  In(t, r) \/ r = Head(q)
    <3>1. CASE k = 1
      BY <1>1, <2>3, <3>1
    <3>2. CASE k - 1 \in DOMAIN t /\ t[k - 1] = q[k]
      BY <2>3, <3>2 DEF In
    <3> QED
      BY <1>3, <2>3, <3>1, <3>2
  <2> QED
    BY <2>1, <2>2, <2>3 DEF In
<1>5. ASSUME NEW r, Once(q, r)
      PROVE  Once(t, r) /\ (r = Head(q) => ~In(t, r))
  BY <1>1, <1>2, <1>3, <1>5 DEF In, Once
<1>6. ASSUME NEW F, Closes(q, F)
      PROVE  Closes(t, F)
  BY <1>1, <1>2, <1>3, <1>6 DEF Closes
<1>7. ASSUME NEW F, Closes(q, F), Head(q) = NULL, NEW r \in F \cup {NULL}
      PROVE  ~In(t, r)
  <2>1. SUFFICES ASSUME NEW k \in DOMAIN t, t[k] = r
                 PROVE  FALSE
    BY DEF In
  <2>2. k + 1 \in DOMAIN q /\ q[k + 1] = r /\ 1 < k + 1
    BY <1>2, <2>1
  <2>3. q[1] = NULL /\ 1 \in DOMAIN q
    BY <1>1, <1>3, <1>7
  <2>4. (r \in F => k + 1 < 1) /\ (r = NULL => k + 1 = 1)
    BY <1>7, <2>2, <2>3 DEF Closes
  <2> QED
    BY <1>1, <1>7, <2>1, <2>2, <2>4
<1>8. Len(t) <= Len(q)
  BY <1>1
<1> QED
  BY <1>1, <1>4, <1>5, <1>6, <1>7, <1>8 DEF t

\* The queue of events after n more of one kind.
LEMMA NotifyFacts ==
  ASSUME events \in Seq(Events), NEW e \in Events, NEW n \in Nat, Notify(e, n)
  PROVE  /\ events' \in Seq(Events)
         /\ DOMAIN events = 1..Len(events) /\ DOMAIN events' = 1..(Len(events) + n)
         /\ \A k \in 1..Len(events) : events'[k] = events[k]
         /\ \A k \in (Len(events) + 1)..(Len(events) + n) : events'[k] = e
<1> DEFINE more == [i \in 1..n |-> e]
<1>1. more \in Seq(Events) /\ Len(more) = n /\ \A i \in 1..n : more[i] = e
  <2>1. more \in Seq(Events)
    BY DEF Seq
  <2>2. Len(more) = n
    BY <2>1, LenProperties
  <2> QED
    BY <2>1, <2>2
<1>2. events' = events \o more
  BY DEF Notify
<1> HIDE DEF more
<1>3. /\ events' \in Seq(Events) /\ Len(events') = Len(events) + n
      /\ \A k \in 1..Len(events') :
           events'[k] = IF k <= Len(events) THEN events[k] ELSE more[k - Len(events)]
  BY <1>1, <1>2, ConcatProperties
<1>4. Len(events) \in Nat
  BY LenProperties
<1> QED
  BY <1>1, <1>3, <1>4, LenProperties

\* Pools that have their first report still to make.
LEMMA AnnouncedFinite ==
  ASSUME SessionAssumption, NEW w \in Workers
  PROVE  IsFiniteSet(Announced(w)) /\ Cardinality(Announced(w)) \in Nat
  BY FS_Subset, FS_CardinalityType DEF SessionAssumption, Announced

----------------------------------------------------------------------------
(* Types *)

\* Where the session thread can be.
LEMMA ThreadCases ==
  ASSUME ThreadTyped
  PROVE  /\ thread.kind \in {"none", "loop", "on_execute", "close_async", "closed"}
         /\ thread.kind = "none" <=> thread = NoThread
         /\ thread.kind = "loop" <=> thread = Waiting
         /\ thread.kind = "closed" <=> thread = Closed
         /\ thread.kind = "on_execute" =>
              /\ thread.closing \in BOOLEAN /\ thread.request \in Entries
              /\ thread.target \in Workers \cup {NULL}
              /\ thread = OnExecute(thread.closing, thread.request, thread.target)
         /\ thread.kind = "close_async" =>
              thread.left \in SUBSET Workers /\ thread = CloseWorkers(thread.left)
  BY DEF ThreadTyped, NoThread, Waiting, Closed, OnExecute, CloseWorkers

\* maybe_close keeps the types of what it changes.
LEMMA MaybeCloseTypes ==
  ASSUME SessionAssumption, Typed, NEW w \in Workers, NEW s \in {"READY", "CLOSING", "CLOSED"},
         NEW p, MaybeClose(w, s, p)
  PROVE  /\ worker' \in [Workers -> {"READY", "CLOSING", "CLOSED"}]
         /\ pool' \in [Workers -> [Hosts -> PoolStates]]
         /\ events' \in Seq(Events)
<1>1. CASE s = "CLOSING" /\ p = {}
  <2> DEFINE closing == {h \in Hosts : pool[w][h] \in {"CONNECTING", "READY", "CLOSING"}}
             new == [h \in Hosts |-> IF h \in closing THEN "CLOSING" ELSE "none"]
  <2>1. pool' = [pool EXCEPT ![w] = new]
    BY <1>1 DEF MaybeClose
  <2>2. new \in [Hosts -> PoolStates]
    BY DEF PoolStates, NotReadyPools
  <2>3. worker' \in [Workers -> {"READY", "CLOSING", "CLOSED"}]
    BY <1>1 DEF MaybeClose, Typed, SessionTyped, WorkersTyped
  <2>4. Notify("NOTIFY_WORKER_CLOSED", 1) \/ Notify("NOTIFY_READY", Cardinality(Announced(w)))
    BY <1>1 DEF MaybeClose
  <2>5. events' \in Seq(Events)
    BY <2>4, NotifyFacts, AnnouncedFinite DEF Typed, SessionTyped, Events
  <2> HIDE DEF new
  <2> QED
    BY <2>1, <2>2, <2>3, <2>5 DEF Typed, WorkersTyped
<1>2. CASE ~(s = "CLOSING" /\ p = {})
  BY <1>2 DEF MaybeClose, Typed, SessionTyped, WorkersTyped
<1> QED
  BY <1>1, <1>2

\* The variables of the application, of the session and of the workers keep
\* their types as long as nobody touches them.
LEMMA TypesStay ==
  /\ AppTyped /\ UNCHANGED app => AppTyped'
  /\ SessionTyped /\ UNCHANGED session => SessionTyped'
  /\ WorkersTyped /\ UNCHANGED workers => WorkersTyped'
<1>1. AppTyped /\ UNCHANGED app => AppTyped'
  BY DEF AppTyped, app
<1>2. SessionTyped /\ UNCHANGED session => SessionTyped'
  BY DEF SessionTyped, session, ThreadTyped
<1>3. WorkersTyped /\ UNCHANGED workers => WorkersTyped'
  BY DEF WorkersTyped, workers, HeldTyped
<1> QED
  BY <1>1, <1>2, <1>3

\* Another entry of the session's queue.
LEMMA RequestQueueTypes ==
  ASSUME SessionAssumption, SessionTyped, NEW e \in Entries, Len(request_queue) < QueueSize,
         request_queue' = Append(request_queue, e)
  PROVE  request_queue' \in Seq(Entries) /\ Len(request_queue') <= QueueSize
<1>1. request_queue \in Seq(Entries) /\ Len(request_queue) \in Nat /\ QueueSize \in Nat
  BY LenProperties DEF SessionTyped, SessionAssumption
<1>2. request_queue' \in Seq(Entries) /\ Len(request_queue') = Len(request_queue) + 1
  BY <1>1, AppendFacts
<1> QED
  BY <1>1, <1>2

\* One step of an application's thread keeps the types.
LEMMA AppTypes ==
  ASSUME SessionAssumption, Typed,
         ConnectAsync \/ CloseAsyncPushes \/ (\E force \in BOOLEAN : CloseAsync(force))
           \/ \E r \in Requests : ExecuteChecks(r) \/ ExecuteEnqueues(r)
  PROVE  Typed'
<1> USE TypesStay
<1>1. CASE ConnectAsync
  BY <1>1, AppendFacts DEF ConnectAsync, Typed, AppTyped, SessionTyped, ThreadTyped, Events
<1>2. CASE CloseAsyncPushes
  <2>1. SessionTyped'
    <3>1. /\ Len(request_queue) < QueueSize /\ request_queue' = Append(request_queue, NULL)
          /\ NULL \in Entries
      BY <1>2 DEF CloseAsyncPushes, PushNull, Entries
    <3> QED
      BY <1>2, <3>1, RequestQueueTypes
      DEF CloseAsyncPushes, PushNull, Typed, SessionTyped, ThreadTyped
  <2> QED
    BY <1>2, <2>1 DEF CloseAsyncPushes, Typed
<1>3. ASSUME NEW force \in BOOLEAN, CloseAsync(force)
      PROVE  Typed'
  BY <1>3 DEF CloseAsync, Typed, AppTyped, SessionTyped, ThreadTyped
<1>4. ASSUME NEW r \in Requests, ExecuteChecks(r)
      PROVE  Typed'
  <2>1. caller' \in [Requests -> {"new", "checked", "returned"}]
    BY <1>4 DEF ExecuteChecks, Typed, AppTyped
  <2>2. answers' \in [Requests -> Nat]
    BY <1>4 DEF ExecuteChecks, Answer, Typed, AppTyped
  <2> QED
    BY <1>4, <2>1, <2>2 DEF ExecuteChecks, Typed, AppTyped
<1>5. ASSUME NEW r \in Requests, ExecuteEnqueues(r)
      PROVE  Typed'
  <2>1. caller' \in [Requests -> {"new", "checked", "returned"}] /\ answers' \in [Requests -> Nat]
    BY <1>5 DEF ExecuteEnqueues, Answer, Typed, AppTyped
  <2>2. in_flight' \subseteq Requests
    BY <1>5 DEF ExecuteEnqueues, Typed, AppTyped
  <2>3. request_queue' \in Seq(Entries) /\ Len(request_queue') <= QueueSize /\ woken' \in BOOLEAN
    <3>1. CASE Len(request_queue) < QueueSize /\ request_queue' = Append(request_queue, r)
      BY <1>5, <3>1, RequestQueueTypes DEF ExecuteEnqueues, Typed, SessionTyped, Entries
    <3>2. CASE UNCHANGED <<request_queue, woken>>
      BY <3>2 DEF Typed, SessionTyped
    <3> QED
      BY <1>5, <3>1, <3>2 DEF ExecuteEnqueues
  <2> QED
    BY <1>5, <2>1, <2>2, <2>3 DEF ExecuteEnqueues, Typed, AppTyped, SessionTyped, ThreadTyped
<1> QED
  BY <1>1, <1>2, <1>3, <1>4, <1>5

\* What notify_connect_error and notify_connected do to the queue.
LEMMA PushNullTypes ==
  ASSUME SessionAssumption, SessionTyped, PushNull
  PROVE  /\ request_queue' \in Seq(Entries) /\ Len(request_queue') <= QueueSize
         /\ woken' \in BOOLEAN
  BY RequestQueueTypes DEF PushNull, Entries

\* Another entry of a worker's queue.
LEMMA WorkerQueueTypes ==
  ASSUME SessionAssumption, WorkersTyped, NEW w \in Workers, NEW e \in Entries,
         Len(worker_queue[w]) < WorkerQueueSize,
         worker_queue' = [worker_queue EXCEPT ![w] = Append(@, e)],
         worker_woken' = [worker_woken EXCEPT ![w] = TRUE],
         UNCHANGED <<worker, remaining, held, worker_events, pool, initial, reconnects>>
  PROVE  WorkersTyped'
<1>1. worker_queue[w] \in Seq(Entries) /\ Len(worker_queue[w]) \in Nat /\ WorkerQueueSize \in Nat
  BY LenProperties DEF WorkersTyped, SessionAssumption
<1>2. /\ Append(worker_queue[w], e) \in Seq(Entries)
      /\ Len(Append(worker_queue[w], e)) <= WorkerQueueSize
  BY <1>1, AppendFacts
<1>3. worker_queue' \in [Workers -> Seq(Entries)] /\ \A v \in Workers : Len(worker_queue'[v]) <= WorkerQueueSize
  BY <1>2 DEF WorkersTyped
<1>4. worker_woken' \in [Workers -> BOOLEAN]
  BY DEF WorkersTyped
<1> QED
  BY <1>3, <1>4 DEF WorkersTyped, HeldTyped

\* One event of the session thread keeps the types.
LEMMA EventTypes ==
  ASSUME SessionAssumption, Typed,
         OnConnect \/ OnControlConnectionReady \/ OnControlConnectionError
           \/ OnNotifyReady \/ OnNotifyWorkerClosed \/ OnAfterRun
  PROVE  Typed'
<1> USE TypesStay
<1>0. ASSUME NEW e, OnEvent(e)
      PROVE  events' \in Seq(Events)
  BY <1>0, TailFacts DEF OnEvent, Typed, SessionTyped
<1>1. CASE OnConnect
  <2>1. events' \in Seq(Events)
    BY <1>0, <1>1 DEF OnConnect
  <2>2. /\ request_queue' \in Seq(Entries) /\ Len(request_queue') <= QueueSize
        /\ woken' \in BOOLEAN /\ state' \in {"CLOSED", "CONNECTING", "CONNECTED", "CLOSING"}
        /\ connect_future' \in {"none", "unset", "set", "error"}
    BY <1>1, PushNullTypes DEF OnConnect, NotifyConnectError, Typed, AppTyped, SessionTyped
  <2>3. control' \in {"none", "connecting", "ready", "error", "closed"}
    BY <1>1 DEF OnConnect, Typed, SessionTyped
  <2> QED
    BY <1>1, <2>1, <2>2, <2>3 DEF OnConnect, Typed, AppTyped, SessionTyped, ThreadTyped
<1>2. CASE OnControlConnectionReady
  <2>1. Cardinality(Hosts) * Cardinality(Workers) \in Nat
    <3>1. Cardinality(Hosts) \in Nat /\ Cardinality(Workers) \in Nat
      BY FS_CardinalityType DEF SessionAssumption
    <3> QED
      BY <3>1
  <2>2. SessionTyped'
    BY <1>2, <2>1 DEF OnControlConnectionReady, Typed, SessionTyped, ThreadTyped
  <2>3. WorkersTyped'
    BY <1>2 DEF OnControlConnectionReady, Typed, WorkersTyped, HeldTyped
  <2> QED
    BY <1>2, <2>2, <2>3 DEF OnControlConnectionReady, Typed
<1>3. CASE OnControlConnectionError
  <2>1. /\ request_queue' \in Seq(Entries) /\ Len(request_queue') <= QueueSize
        /\ woken' \in BOOLEAN
    BY <1>3, PushNullTypes DEF OnControlConnectionError, NotifyConnectError, Typed
  <2> QED
    BY <1>3, <2>1
    DEF OnControlConnectionError, NotifyConnectError, Typed, AppTyped, SessionTyped, ThreadTyped
<1>4. CASE OnNotifyReady
  <2>1. events' \in Seq(Events)
    BY <1>0, <1>4 DEF OnNotifyReady
  <2>2. /\ request_queue' \in Seq(Entries) /\ Len(request_queue') <= QueueSize
        /\ woken' \in BOOLEAN /\ state' \in {"CLOSED", "CONNECTING", "CONNECTED", "CLOSING"}
        /\ connect_future' \in {"none", "unset", "set", "error"}
    BY <1>4, PushNullTypes DEF OnNotifyReady, NotifyConnected, Typed, AppTyped, SessionTyped
  <2>3. pending_pool_count' \in Nat
    BY <1>4 DEF OnNotifyReady, Typed, SessionTyped
  <2> QED
    BY <1>4, <2>1, <2>2, <2>3 DEF OnNotifyReady, Typed, AppTyped, SessionTyped, ThreadTyped
<1>5. CASE OnNotifyWorkerClosed
  <2>1. events' \in Seq(Events)
    BY <1>0, <1>5 DEF OnNotifyWorkerClosed
  <2> QED
    BY <1>5, <2>1 DEF OnNotifyWorkerClosed, Typed, SessionTyped, ThreadTyped
<1>6. CASE OnAfterRun
  BY <1>6 DEF OnAfterRun, Typed, AppTyped, SessionTyped, ThreadTyped
<1> QED
  BY <1>1, <1>2, <1>3, <1>4, <1>5, <1>6

\* One step of Session::on_execute keeps the types.
LEMMA ExecuteTypes ==
  ASSUME SessionAssumption, Typed,
         OnExecuteBegins \/ OnExecuteDequeues \/ OnExecuteDispatches \/ OnExecuteGivesUp
           \/ OnExecuteEnds
           \/ \E w \in Workers : OnExecuteFindsWorker(w) \/ OnExecuteClosesWorker(w)
  PROVE  Typed'
<1> USE TypesStay, ThreadCases
<1>0. ASSUME NEW c \in BOOLEAN, NEW r \in Entries, NEW w \in Workers \cup {NULL},
             thread' = OnExecute(c, r, w)
      PROVE  ThreadTyped'
  BY <1>0 DEF ThreadTyped
<1>00. NULL \in Entries /\ NULL \in Workers \cup {NULL} /\ ThreadTyped
  BY DEF Entries, Typed, SessionTyped
<1>1. CASE OnExecuteBegins
  BY <1>0, <1>00, <1>1 DEF OnExecuteBegins, Typed, SessionTyped
<1>2. CASE OnExecuteDequeues
  <2>1. /\ request_queue' \in Seq(Entries) /\ Len(request_queue') <= QueueSize
        /\ Head(request_queue) \in Entries
    <3>1. request_queue \in Seq(Entries) /\ request_queue # <<>> /\ Len(request_queue) <= QueueSize
          /\ QueueSize \in Nat
      BY <1>2 DEF OnExecuteDequeues, Typed, SessionTyped, SessionAssumption
    <3>2. /\ Tail(request_queue) \in Seq(Entries) /\ Head(request_queue) \in Entries
          /\ Len(Tail(request_queue)) = Len(request_queue) - 1 /\ Len(request_queue) \in Nat
      BY <3>1, TailFacts
    <3> QED
      BY <1>2, <3>1, <3>2 DEF OnExecuteDequeues
  <2>2. ThreadTyped'
    BY <1>0, <1>00, <1>2, <2>1 DEF OnExecuteDequeues, BetweenRequests
  <2> QED
    BY <1>2, <2>1, <2>2 DEF OnExecuteDequeues, Typed, SessionTyped
<1>3. CASE OnExecuteDispatches
  <2>1. ThreadTyped'
    BY <1>0, <1>00, <1>3 DEF OnExecuteDispatches, Dispatching
  <2>2. WorkersTyped'
    <3>1. thread.request \in Entries /\ thread.target \in Workers
      BY <1>00, <1>3 DEF OnExecuteDispatches, Dispatching
    <3>2. CASE UNCHANGED <<worker_queue, worker_woken>>
      BY <1>3, <3>2 DEF OnExecuteDispatches, Typed, workers
    <3>3. CASE ~UNCHANGED <<worker_queue, worker_woken>>
      BY <1>3, <3>1, <3>3, WorkerQueueTypes DEF OnExecuteDispatches, Typed
    <3> QED
      BY <3>2, <3>3
  <2> QED
    BY <1>3, <2>1, <2>2 DEF OnExecuteDispatches, Typed, SessionTyped, AppTyped, app
<1>4. CASE OnExecuteGivesUp
  <2>1. ThreadTyped'
    BY <1>0, <1>00, <1>4 DEF OnExecuteGivesUp, Dispatching
  <2>2. answers' \in [Requests -> Nat]
    <3>1. thread.request \in Requests
      BY <1>00, <1>4 DEF OnExecuteGivesUp, Dispatching, Entries
    <3> QED
      BY <1>4, <3>1 DEF OnExecuteGivesUp, Answer, Typed, AppTyped
  <2> QED
    BY <1>4, <2>1, <2>2 DEF OnExecuteGivesUp, Typed, SessionTyped, AppTyped
<1>5. CASE OnExecuteEnds
  <2>1. ThreadTyped'
    BY <1>5 DEF OnExecuteEnds, ThreadTyped
  <2>2. pending_workers_count' \in Int
    BY <1>5, FS_CardinalityType DEF OnExecuteEnds, SessionAssumption, Typed, SessionTyped
  <2> QED
    BY <1>5, <2>1, <2>2 DEF OnExecuteEnds, Typed, SessionTyped
<1>6. ASSUME NEW w \in Workers, OnExecuteFindsWorker(w)
      PROVE  Typed'
  BY <1>0, <1>00, <1>6 DEF OnExecuteFindsWorker, Dispatching, Typed, SessionTyped
<1>7. ASSUME NEW w \in Workers, OnExecuteClosesWorker(w)
      PROVE  Typed'
  <2>1. ThreadTyped'
    BY <1>00, <1>7 DEF OnExecuteClosesWorker, ThreadTyped
  <2>2. WorkersTyped'
    BY <1>00, <1>7, WorkerQueueTypes DEF OnExecuteClosesWorker, Typed
  <2> QED
    BY <1>7, <2>1, <2>2 DEF OnExecuteClosesWorker, Typed, SessionTyped, AppTyped, app
<1> QED
  BY <1>1, <1>2, <1>3, <1>4, <1>5, <1>6, <1>7

\* The worker's queue loses its first entry, the loop of on_execute one round.
LEMMA DequeueTypes ==
  ASSUME SessionAssumption, WorkersTyped, NEW w \in Workers, WorkerDequeues(w)
  PROVE  /\ worker_queue' \in [Workers -> Seq(Entries)]
         /\ \A v \in Workers : Len(worker_queue'[v]) <= WorkerQueueSize
         /\ remaining' \in [Workers -> -1..MaxPerFlush]
         /\ Head(worker_queue[w]) \in Entries
<1>1. /\ worker_queue[w] \in Seq(Entries) /\ worker_queue[w] # <<>>
      /\ Len(worker_queue[w]) <= WorkerQueueSize /\ WorkerQueueSize \in Nat /\ MaxPerFlush \in Nat
  BY DEF WorkerDequeues, WorkersTyped, SessionAssumption
<1>2. /\ Tail(worker_queue[w]) \in Seq(Entries) /\ Len(worker_queue[w]) \in Nat
      /\ Len(Tail(worker_queue[w])) = Len(worker_queue[w]) - 1
      /\ Head(worker_queue[w]) \in Entries
  BY <1>1, TailFacts
<1>3. Len(Tail(worker_queue[w])) <= WorkerQueueSize
  BY <1>1, <1>2
<1>4. /\ worker_queue' \in [Workers -> Seq(Entries)]
      /\ \A v \in Workers : Len(worker_queue'[v]) <= WorkerQueueSize
  BY <1>2, <1>3 DEF WorkerDequeues, WorkersTyped
<1>5. remaining' \in [Workers -> -1..MaxPerFlush]
  BY <1>1 DEF WorkerDequeues, WorkersTyped
<1> QED
  BY <1>2, <1>4, <1>5

\* One step of a worker on its queue or its requests keeps the types.
LEMMA WorkerTypes ==
  ASSUME SessionAssumption, Typed, NEW w \in Workers,
         WorkerCallback(w) \/ \E r \in Requests : RequestFinished(w, r) \/ RequestRetried(w, r)
  PROVE  Typed'
<1> USE TypesStay
<1>0. AppTyped /\ SessionTyped /\ WorkersTyped /\ worker[w] \in {"READY", "CLOSING", "CLOSED"}
  BY DEF Typed, WorkersTyped
<1>1. CASE WorkerOnExecuteBegins(w)
  <2>1. worker_woken' \in [Workers -> BOOLEAN] /\ remaining' \in [Workers -> -1..MaxPerFlush]
    BY <1>1 DEF WorkerOnExecuteBegins, Typed, WorkersTyped, SessionAssumption
  <2> QED
    BY <1>1, <2>1 DEF WorkerOnExecuteBegins, Typed, WorkersTyped, HeldTyped
<1>2. CASE WorkerTakesRequest(w)
  <2>1. PICK h \in Hosts : held' = [held EXCEPT ![w] = Put(@, Head(worker_queue[w]), h)]
    BY <1>2 DEF WorkerTakesRequest
  <2>2. WorkerDequeues(w) /\ Head(worker_queue[w]) # NULL
    BY <1>2 DEF WorkerTakesRequest
  <2>3. Head(worker_queue[w]) \in Requests
    BY <1>0, <2>2, DequeueTypes DEF Entries
  <2>4. HeldTyped'
    BY <1>0, <2>1, <2>3 DEF WorkersTyped, HeldTyped, Put
  <2>5. WorkersTyped'
    BY <1>0, <1>2, <2>2, <2>4, DequeueTypes DEF WorkerTakesRequest, WorkersTyped
  <2> QED
    BY <1>0, <1>2, <2>5 DEF WorkerTakesRequest, Typed
<1>3. CASE WorkerRefusesRequest(w)
  <2>1. WorkerDequeues(w) /\ Head(worker_queue[w]) # NULL /\ Answer(Head(worker_queue[w]))
        /\ MaybeClose(w, worker[w], DOMAIN held[w])
    BY <1>3 DEF WorkerRefusesRequest
  <2>2. Head(worker_queue[w]) \in Requests
    BY <1>0, <2>1, DequeueTypes DEF Entries
  <2>3. answers' \in [Requests -> Nat]
    BY <1>0, <2>1, <2>2 DEF Answer, AppTyped
  <2>4. worker_woken' \in [Workers -> BOOLEAN]
    BY <1>0, <1>3 DEF WorkerRefusesRequest, WorkersTyped
  <2>5. /\ worker' \in [Workers -> {"READY", "CLOSING", "CLOSED"}]
        /\ pool' \in [Workers -> [Hosts -> PoolStates]] /\ events' \in Seq(Events)
    BY <1>0, <2>1, MaybeCloseTypes
  <2>6. AppTyped'
    BY <1>0, <1>3, <2>3 DEF WorkerRefusesRequest, AppTyped
  <2>7. SessionTyped'
    BY <1>0, <1>3, <2>5 DEF WorkerRefusesRequest, SessionTyped, ThreadTyped
  <2>8. WorkersTyped'
    BY <1>0, <1>3, <2>1, <2>4, <2>5, DequeueTypes DEF WorkerRefusesRequest, WorkersTyped, HeldTyped
  <2> QED
    BY <2>6, <2>7, <2>8 DEF Typed
<1>4. CASE WorkerTakesNull(w)
  <2>1. worker' \in [Workers -> {"READY", "CLOSING", "CLOSED"}]
    BY <1>0, <1>4 DEF WorkerTakesNull, WorkersTyped
  <2>2. WorkersTyped'
    BY <1>0, <1>4, <2>1, DequeueTypes DEF WorkerTakesNull, WorkersTyped, HeldTyped
  <2> QED
    BY <1>0, <1>4, <2>2 DEF WorkerTakesNull, Typed
<1>5. CASE WorkerOnExecuteEnds(w)
  <2>1. MaybeClose(w, worker[w], DOMAIN held[w])
    BY <1>5 DEF WorkerOnExecuteEnds
  <2>2. /\ worker' \in [Workers -> {"READY", "CLOSING", "CLOSED"}]
        /\ pool' \in [Workers -> [Hosts -> PoolStates]] /\ events' \in Seq(Events)
    BY <1>0, <2>1, MaybeCloseTypes
  <2>3. remaining' \in [Workers -> -1..MaxPerFlush]
    BY <1>0, <1>5 DEF WorkerOnExecuteEnds, WorkersTyped, SessionAssumption
  <2>4. SessionTyped'
    BY <1>0, <1>5, <2>2 DEF WorkerOnExecuteEnds, SessionTyped, ThreadTyped
  <2>5. WorkersTyped'
    BY <1>0, <1>5, <2>2, <2>3 DEF WorkerOnExecuteEnds, WorkersTyped, HeldTyped
  <2> QED
    BY <1>0, <1>5, <2>4, <2>5 DEF WorkerOnExecuteEnds, Typed
<1>6. ASSUME NEW r \in Requests, RequestFinished(w, r)
      PROVE  Typed'
  <2>1. Answer(r) /\ MaybeClose(w, worker[w], DOMAIN held[w] \ {r})
        /\ held' = [held EXCEPT ![w] = Drop(@, r)]
    BY <1>6 DEF RequestFinished
  <2>2. answers' \in [Requests -> Nat]
    BY <1>0, <2>1 DEF Answer, AppTyped
  <2>3. worker_woken' \in [Workers -> BOOLEAN]
    BY <1>0, <1>6 DEF RequestFinished, WorkersTyped
  <2>4. /\ worker' \in [Workers -> {"READY", "CLOSING", "CLOSED"}]
        /\ pool' \in [Workers -> [Hosts -> PoolStates]] /\ events' \in Seq(Events)
    BY <1>0, <2>1, MaybeCloseTypes
  <2>5. HeldTyped'
    BY <1>0, <2>1 DEF WorkersTyped, HeldTyped, Drop
  <2>6. AppTyped'
    BY <1>0, <1>6, <2>2 DEF RequestFinished, AppTyped
  <2>7. SessionTyped'
    BY <1>0, <1>6, <2>4 DEF RequestFinished, SessionTyped, ThreadTyped
  <2>8. WorkersTyped'
    BY <1>0, <1>6, <2>3, <2>4, <2>5 DEF RequestFinished, WorkersTyped
  <2> QED
    BY <2>6, <2>7, <2>8 DEF Typed
<1>7. ASSUME NEW r \in Requests, RequestRetried(w, r)
      PROVE  Typed'
  <2>1. PICK h \in Hosts : held' = [held EXCEPT ![w][r] = h]
    BY <1>7 DEF RequestRetried
  <2>2. HeldTyped'
    BY <1>0, <2>1 DEF WorkersTyped, HeldTyped
  <2> QED
    BY <1>0, <1>7, <2>2 DEF RequestRetried, Typed, WorkersTyped
<1> QED
  BY <1>1, <1>2, <1>3, <1>4, <1>5, <1>6, <1>7 DEF WorkerCallback

\* One step of a pool keeps the types.
LEMMA PoolTypes ==
  ASSUME SessionAssumption, Typed, NEW w \in Workers, NEW h \in Hosts,
         AddPool(w, h) \/ PoolConnected(w, h) \/ PoolClosed(w, h) \/ PoolFails(w, h)
           \/ PoolReconnects(w, h)
  PROVE  Typed'
<1> USE TypesStay
<1>0. AppTyped /\ SessionTyped /\ WorkersTyped
  BY DEF Typed
<1>1. ASSUME NEW s \in PoolStates, SetPool(w, h, s)
      PROVE  pool' \in [Workers -> [Hosts -> PoolStates]]
  BY <1>0, <1>1 DEF SetPool, WorkersTyped
<1>2. ASSUME NEW e \in Events, NEW n \in {0, 1}, Notify(e, n)
      PROVE  events' \in Seq(Events)
  BY <1>0, <1>2, NotifyFacts DEF SessionTyped
<1>21. ASSUME NEW b \in BOOLEAN, initial' = [initial EXCEPT ![w][h] = b]
       PROVE  initial' \in [Workers -> [Hosts -> BOOLEAN]]
  <2>1. initial \in [Workers -> [Hosts -> BOOLEAN]]
    BY <1>0 DEF WorkersTyped
  <2>2. [initial[w] EXCEPT ![h] = b] \in [Hosts -> BOOLEAN]
    BY <2>1, Zenon
  <2> QED
    BY <1>21, <2>1, <2>2, Zenon
<1>3. CASE AddPool(w, h)
  <2>1. worker_events' \in [Workers -> SUBSET Hosts]
    BY <1>0, <1>3 DEF AddPool, WorkersTyped
  <2>2. pool' \in [Workers -> [Hosts -> PoolStates]] /\ initial' \in [Workers -> [Hosts -> BOOLEAN]]
    BY <1>0, <1>1, <1>21, <1>3 DEF AddPool, WorkersTyped, PoolStates, NotReadyPools
  <2> QED
    BY <1>0, <1>3, <2>1, <2>2 DEF AddPool, Typed, WorkersTyped, HeldTyped
<1>4. CASE PoolConnected(w, h)
  <2>1. pool' \in [Workers -> [Hosts -> PoolStates]]
    BY <1>1, <1>4 DEF PoolConnected, PoolStates, NotReadyPools
  <2>2. events' \in Seq(Events)
    BY <1>2, <1>4 DEF PoolConnected, Events
  <2>3. SessionTyped'
    BY <1>0, <1>4, <2>2 DEF PoolConnected, SessionTyped, ThreadTyped
  <2> QED
    BY <1>0, <1>4, <2>1, <2>3 DEF PoolConnected, Typed, WorkersTyped, HeldTyped
<1>5. CASE PoolClosed(w, h)
  <2>1. pool' \in [Workers -> [Hosts -> PoolStates]]
    BY <1>1, <1>5 DEF PoolClosed, PoolStates, NotReadyPools
  <2>2. events' \in Seq(Events)
    BY <1>0, <1>2, <1>5 DEF PoolClosed, Events, SessionTyped
  <2>3. worker' \in [Workers -> {"READY", "CLOSING", "CLOSED"}]
    BY <1>0, <1>5 DEF PoolClosed, WorkersTyped
  <2>4. initial' \in [Workers -> [Hosts -> BOOLEAN]] /\ reconnects' \in Nat
    <3>1. CASE UNCHANGED <<initial, reconnects>>
      BY <1>0, <3>1 DEF WorkersTyped
    <3>2. CASE /\ initial' = [initial EXCEPT ![w][h] = FALSE]
               /\ reconnects' = reconnects \/ reconnects' = reconnects + 1
      <4>1. initial' \in [Workers -> [Hosts -> BOOLEAN]]
        BY <1>21, <3>2
      <4> QED
        BY <1>0, <3>2, <4>1 DEF WorkersTyped
    <3> QED
      BY <1>5, <3>1, <3>2 DEF PoolClosed
  <2>5. SessionTyped'
    BY <1>0, <1>5, <2>2 DEF PoolClosed, SessionTyped, ThreadTyped
  <2> QED
    BY <1>0, <1>5, <2>1, <2>3, <2>4, <2>5 DEF PoolClosed, Typed, WorkersTyped, HeldTyped
<1>6. CASE PoolFails(w, h) \/ PoolReconnects(w, h)
  <2>1. pool' \in [Workers -> [Hosts -> PoolStates]]
    BY <1>1, <1>6 DEF PoolFails, PoolReconnects, PoolStates, NotReadyPools
  <2> QED
    BY <1>0, <1>6, <2>1 DEF PoolFails, PoolReconnects, Typed, WorkersTyped, HeldTyped
<1> QED
  BY <1>3, <1>4, <1>5, <1>6

\* Every step keeps the types.
LEMMA TypedStep ==
  ASSUME SessionAssumption, Typed, [Next]_vars
  PROVE  Typed'
<1>1. CASE UNCHANGED vars
  BY <1>1, TypesStay DEF vars, Typed
<1>2. CASE Next
  <2>1. CASE Done
    BY <2>1, TypesStay DEF Done, vars, Typed
  <2>2. ASSUME NEW w \in Workers, PoolStep(w) \/ \E h \in Hosts : PoolFails(w, h) \/ PoolReconnects(w, h)
        PROVE  Typed'
    BY <2>2, PoolTypes DEF PoolStep
  <2> QED
    BY <1>2, <2>1, <2>2, AppTypes, EventTypes, ExecuteTypes, WorkerTypes DEF Next, SessionThread
<1> QED
  BY <1>1, <1>2

\* A session that was not connected has the types.
LEMMA TypedInit ==
  ASSUME SessionAssumption, Init
  PROVE  Typed
<1>1. AppTyped
  BY DEF Init, AppTyped
<1>2. SessionTyped
  <2>1. <<>> \in Seq(Entries) /\ <<>> \in Seq(Events) /\ Len(<<>>) = 0 /\ QueueSize \in Nat
    BY EmptySeq DEF SessionAssumption
  <2>2. request_queue \in Seq(Entries) /\ Len(request_queue) <= QueueSize /\ events \in Seq(Events)
    BY <2>1 DEF Init
  <2>3. ThreadTyped
    BY DEF Init, ThreadTyped
  <2>4. /\ state \in {"CLOSED", "CONNECTING", "CONNECTED", "CLOSING"}
        /\ control \in {"none", "connecting", "ready", "error", "closed"}
        /\ pending_pool_count \in Nat /\ pending_workers_count \in Int
    BY DEF Init
  <2>5. mutex \in BOOLEAN /\ woken \in BOOLEAN
    BY Zenon DEF Init
  <2> QED
    BY <2>2, <2>3, <2>4, <2>5 DEF SessionTyped
<1>3. WorkersTyped
  BY EmptySeq DEF Init, WorkersTyped, HeldTyped, SessionAssumption, PoolStates, NotReadyPools
<1> QED
  BY <1>1, <1>2, <1>3 DEF Typed

----------------------------------------------------------------------------
(* What the workers leave alone *)

\* Reports do not change where the other events are.
LEMMA NotifyIn ==
  ASSUME events \in Seq(Events), NEW e \in Events, NEW n \in Nat, Notify(e, n)
  PROVE  \A x : x # e => /\ In(events', x) <=> In(events, x)
                         /\ Once(events, x) => Once(events', x)
<1>1. /\ DOMAIN events = 1..Len(events) /\ DOMAIN events' = 1..(Len(events) + n)
      /\ \A k \in 1..Len(events) : events'[k] = events[k]
      /\ \A k \in (Len(events) + 1)..(Len(events) + n) : events'[k] = e
      /\ Len(events) \in Nat
  BY NotifyFacts, LenProperties
<1>2. \A k \in DOMAIN events : k \in DOMAIN events' /\ events'[k] = events[k]
  BY <1>1
<1>3. \A k \in DOMAIN events' : (k \in DOMAIN events /\ events'[k] = events[k]) \/ events'[k] = e
  BY <1>1
<1> QED
  BY <1>2, <1>3 DEF In, Once

\* maybe_close does not touch the events of connecting.
LEMMA MaybeCloseConnect ==
  ASSUME SessionAssumption, Typed, NEW w \in Workers, NEW s, NEW p, MaybeClose(w, s, p)
  PROVE  /\ In(events', "CONNECT") <=> In(events, "CONNECT")
         /\ Once(events, "CONNECT") => Once(events', "CONNECT")
<1>1. \/ Notify("NOTIFY_WORKER_CLOSED", 1) \/ Notify("NOTIFY_READY", Cardinality(Announced(w)))
      \/ UNCHANGED events
  BY DEF MaybeClose
<1> QED
  BY <1>1, NotifyIn, AnnouncedFinite DEF Typed, SessionTyped, Events

WorkerStep(w) ==
  \/ WorkerCallback(w)
  \/ \E r \in Requests : RequestFinished(w, r) \/ RequestRetried(w, r)
  \/ PoolStep(w)
  \/ \E h \in Hosts : PoolFails(w, h) \/ PoolReconnects(w, h)

\* A worker changes nothing of the session but the event queue, to which it
\* only adds reports.
LEMMA WorkerLeaves ==
  ASSUME SessionAssumption, Typed, Starting, NEW w \in Workers, WorkerStep(w)
  PROVE  /\ UNCHANGED <<connect_future, close_future, caller, in_flight, state, mutex,
                        request_queue, woken, thread, control, pending_pool_count,
                        pending_workers_count>>
         /\ In(events', "CONNECT") <=> In(events, "CONNECT")
         /\ Once(events, "CONNECT") => Once(events', "CONNECT")
         /\ connect_future # "none"
<1>1. /\ UNCHANGED <<connect_future, close_future, caller, in_flight, state, mutex, request_queue,
                     woken, thread, control, pending_pool_count, pending_workers_count>>
  BY Zenon
  DEF WorkerStep, WorkerCallback, PoolStep, WorkerOnExecuteBegins, WorkerTakesRequest, WorkerRefusesRequest,
      WorkerTakesNull, WorkerOnExecuteEnds, RequestFinished, RequestRetried, AddPool, PoolConnected,
      PoolClosed, PoolFails, PoolReconnects, app, session
<1>2. /\ In(events', "CONNECT") <=> In(events, "CONNECT")
      /\ Once(events, "CONNECT") => Once(events', "CONNECT")
  <2>1. CASE WorkerCallback(w) \/ \E r \in Requests : RequestFinished(w, r) \/ RequestRetried(w, r)
    <3>1. UNCHANGED events \/ \E s, p : MaybeClose(w, s, p)
      BY <2>1 DEF WorkerCallback, WorkerOnExecuteBegins, WorkerTakesRequest, WorkerRefusesRequest,
        WorkerTakesNull, WorkerOnExecuteEnds, RequestFinished, RequestRetried, session
    <3> QED
      BY <3>1, MaybeCloseConnect
  <2>2. ASSUME NEW h \in Hosts, AddPool(w, h) \/ PoolConnected(w, h) \/ PoolClosed(w, h)
               \/ PoolFails(w, h) \/ PoolReconnects(w, h)
        PROVE  UNCHANGED events \/ \E e \in Events \ {"CONNECT"}, n \in {0, 1} : Notify(e, n)
    BY <2>2 DEF AddPool, PoolConnected, PoolClosed, PoolFails, PoolReconnects, session, Events
  <2>3. (UNCHANGED events \/ \E e \in Events \ {"CONNECT"}, n \in {0, 1} : Notify(e, n)) =>
          /\ In(events', "CONNECT") <=> In(events, "CONNECT")
          /\ Once(events, "CONNECT") => Once(events', "CONNECT")
    BY NotifyIn DEF Typed, SessionTyped
  <2> QED
    BY <2>1, <2>2, <2>3 DEF WorkerStep, PoolStep
<1>3. thread # NoThread \/ remaining[w] = 0 \/ remaining[w] > 0
  BY Zenon DEF WorkerStep, WorkerCallback, PoolStep, WorkerOnExecuteBegins, WorkerTakesRequest,
         WorkerRefusesRequest, WorkerTakesNull, WorkerOnExecuteEnds, RequestFinished, RequestRetried,
         AddPool, PoolConnected, PoolClosed, PoolFails, PoolReconnects, WorkerIdle, WorkerDequeues
<1>4. thread # NoThread \/ remaining[w] # -1
  <2>1. remaining[w] = 0 \/ remaining[w] > 0 => remaining[w] # -1
    OBVIOUS
  <2> QED
    BY <1>3, <2>1
<1> QED
  BY <1>1, <1>2, <1>4 DEF Starting

----------------------------------------------------------------------------
(* Connecting *)

\* The event that is handled is no longer in the queue.
LEMMA EventTaken ==
  ASSUME Typed, Starting, NEW e, OnEvent(e)
  PROVE  /\ thread = Waiting /\ In(events, e)
         /\ In(events', "CONNECT") => In(events, "CONNECT")
         /\ Once(events', "CONNECT")
         /\ e = "CONNECT" => ~In(events', "CONNECT")
         /\ connect_future # "none"
<1>1. events \in Seq(Events) /\ events # <<>> /\ e = Head(events) /\ events' = Tail(events)
  BY DEF OnEvent, Typed, SessionTyped
<1>2. In(events, Head(events)) /\ \A r : In(Tail(events), r) => In(events, r)
  BY <1>1, TailIn
<1>3. Once(Tail(events), "CONNECT") /\ ("CONNECT" = Head(events) => ~In(Tail(events), "CONNECT"))
  BY <1>1, TailIn DEF Starting
<1> QED
  BY <1>1, <1>2, <1>3 DEF OnEvent, Starting

\* What is not set up before connecting is not set up by any other step.
LEMMA StartingStep ==
  ASSUME SessionAssumption, Typed, Typed', Starting, [Next]_vars
  PROVE  Starting'
<1>1. CASE UNCHANGED vars
  BY <1>1 DEF vars, app, session, workers, Starting, In, Once
<1>2. CASE ConnectAsync
  <2>1. /\ events = <<>> /\ control = "none" /\ pending_pool_count = 0 /\ ~In(events, "CONNECT")
    BY <1>2 DEF ConnectAsync, Starting, In
  <2>2. Once(events', "CONNECT")
    <3>1. events \in Seq(Events) /\ "CONNECT" \in Events /\ Once(events, "CONNECT")
      BY DEF Starting, Typed, SessionTyped, Events
    <3>2. Once(Append(events, "CONNECT"), "CONNECT")
      BY <2>1, <3>1, AppendIn
    <3> QED
      BY <1>2, <3>2 DEF ConnectAsync
  <2> QED
    BY <1>2, <2>1, <2>2 DEF ConnectAsync, Starting
<1>3. CASE CloseAsyncPushes \/ (\E force \in BOOLEAN : CloseAsync(force))
           \/ \E r \in Requests : ExecuteChecks(r) \/ ExecuteEnqueues(r)
  <2>1. /\ UNCHANGED <<connect_future, thread, events, control, pending_pool_count, remaining>>
        /\ UNCHANGED state \/ (state' = "CLOSING" /\ state # "CLOSED")
    BY <1>3, Zenon
    DEF CloseAsyncPushes, CloseAsync, ExecuteChecks, ExecuteEnqueues, app, session, workers
  <2> QED
    BY <2>1 DEF Starting, In, Once
<1>4. CASE OnConnect
  <2>1. OnEvent("CONNECT")
    BY <1>4 DEF OnConnect
  <2> QED
    BY <1>4, <2>1, EventTaken DEF OnConnect, NotifyConnectError, Starting
<1>5. CASE OnControlConnectionReady \/ OnControlConnectionError
  BY <1>5
  DEF OnControlConnectionReady, OnControlConnectionError, NotifyConnectError, Starting, app, In, Once
<1>6. CASE OnNotifyReady
  <2>1. OnEvent("NOTIFY_READY")
    BY <1>6 DEF OnNotifyReady
  <2>2. pending_pool_count \in Nat
    BY DEF Typed, SessionTyped
  <2>3. CASE pending_pool_count = 1
    BY <1>6, <2>1, <2>3, EventTaken DEF OnNotifyReady, NotifyConnected, Starting
  <2>4. CASE pending_pool_count # 1
    BY <1>6, <2>1, <2>2, <2>4, EventTaken DEF OnNotifyReady, Starting
  <2> QED
    BY <2>3, <2>4
<1>7. CASE OnNotifyWorkerClosed
  <2>1. OnEvent("NOTIFY_WORKER_CLOSED")
    BY <1>7 DEF OnNotifyWorkerClosed
  <2> QED
    BY <1>7, <2>1, EventTaken DEF OnNotifyWorkerClosed, Starting, app
<1>8. CASE OnAfterRun
  <2>1. UNCHANGED remaining
    BY <1>8 DEF OnAfterRun, workers
  <2> QED
    BY <1>8, <2>1 DEF OnAfterRun, Starting, In, Once, Closed, NoThread
<1>9. CASE OnExecuteBegins \/ OnExecuteDequeues \/ OnExecuteDispatches \/ OnExecuteGivesUp
           \/ OnExecuteEnds
           \/ \E w \in Workers : OnExecuteFindsWorker(w) \/ OnExecuteClosesWorker(w)
  <2>1. /\ UNCHANGED <<connect_future, state, events, control, pending_pool_count, remaining>>
        /\ thread # NoThread
    <3>1. thread = Waiting \/ thread.kind = "on_execute" \/ thread.kind = "close_async"
      BY <1>9, Zenon
      DEF OnExecuteBegins, OnExecuteDequeues, OnExecuteDispatches, OnExecuteGivesUp, OnExecuteEnds,
          OnExecuteFindsWorker, OnExecuteClosesWorker, Dispatching, BetweenRequests
    <3>2. UNCHANGED <<connect_future, state, events, control, pending_pool_count, remaining>>
      BY <1>9, Zenon
      DEF OnExecuteBegins, OnExecuteDequeues, OnExecuteDispatches, OnExecuteGivesUp, OnExecuteEnds,
          OnExecuteFindsWorker, OnExecuteClosesWorker, app, workers
    <3> QED
      BY <3>1, <3>2 DEF NoThread, Waiting
  <2> QED
    BY <2>1 DEF Starting, In, Once
<1>10. ASSUME NEW w \in Workers, WorkerStep(w)
       PROVE  Starting'
  BY <1>10, WorkerLeaves DEF Starting
<1>11. CASE Done
  BY <1>1, <1>11 DEF Done
<1> QED
  BY <1>1, <1>2, <1>3, <1>4, <1>5, <1>6, <1>7, <1>8, <1>9, <1>10, <1>11
  DEF Next, SessionThread, WorkerStep

----------------------------------------------------------------------------
(* The entries of the queues that belong to the session and the workers *)

\* An entry is added to the session's queue.
LEMMA RequestQueueGrows ==
  ASSUME Typed, NEW e \in Entries, request_queue' = Append(request_queue, e)
  PROVE  /\ \A x : Queued(x)' <=> (Queued(x) \/ x = e)
         /\ \A x : Once(request_queue, x) /\ (x = e => ~Queued(x)) => Once(request_queue', x)
<1>1. request_queue \in Seq(Entries)
  BY DEF Typed, SessionTyped
<1>2. /\ \A x : In(request_queue', x) <=> (In(request_queue, x) \/ x = e)
      /\ \A x : Once(request_queue, x) /\ (x = e => ~In(request_queue, x)) => Once(request_queue', x)
  BY <1>1, AppendIn
<1> QED
  BY <1>2 DEF Queued

\* on_execute takes the first entry of the session's queue.
LEMMA RequestQueueShrinks ==
  ASSUME Typed, request_queue # <<>>, request_queue' = Tail(request_queue)
  PROVE  /\ Head(request_queue) \in Entries
         /\ \A x : Queued(x) <=> (Queued(x)' \/ x = Head(request_queue))
         /\ \A x : Once(request_queue, x) =>
              Once(request_queue', x) /\ (x = Head(request_queue) => ~Queued(x)')
         /\ \A F : Closes(request_queue, F) =>
              /\ Closes(request_queue', F)
              /\ Head(request_queue) = NULL => \A x \in F \cup {NULL} : ~Queued(x)'
<1>1. request_queue \in Seq(Entries)
  BY DEF Typed, SessionTyped
<1>2. /\ Head(request_queue) \in Entries
      /\ \A x : In(request_queue, x) <=> (In(request_queue', x) \/ x = Head(request_queue))
      /\ \A x : Once(request_queue, x) =>
           Once(request_queue', x) /\ (x = Head(request_queue) => ~In(request_queue', x))
      /\ \A F : Closes(request_queue, F) =>
           /\ Closes(request_queue', F)
           /\ Head(request_queue) = NULL => \A x \in F \cup {NULL} : ~In(request_queue', x)
  BY <1>1, TailIn
<1> QED
  BY <1>2 DEF Queued

\* An entry is added to a worker's queue.
LEMMA WorkerQueueGrows ==
  ASSUME Typed, NEW w \in Workers, NEW e \in Entries,
         worker_queue' = [worker_queue EXCEPT ![w] = Append(@, e)]
  PROVE  /\ \A v \in Workers : \A x : Dispatched(v, x)' <=> (Dispatched(v, x) \/ (v = w /\ x = e))
         /\ \A v \in Workers : \A x : Once(worker_queue[v], x) /\ (v = w /\ x = e => ~Dispatched(v, x))
              => Once(worker_queue'[v], x)
<1>1. /\ worker_queue[w] \in Seq(Entries)
      /\ worker_queue'[w] = Append(worker_queue[w], e)
      /\ \A v \in Workers \ {w} : worker_queue'[v] = worker_queue[v]
  BY DEF Typed, WorkersTyped
<1>2. /\ \A x : In(worker_queue'[w], x) <=> (In(worker_queue[w], x) \/ x = e)
      /\ \A x : Once(worker_queue[w], x) /\ (x = e => ~In(worker_queue[w], x))
           => Once(worker_queue'[w], x)
  BY <1>1, AppendIn
<1> QED
  BY <1>1, <1>2 DEF Dispatched

\* on_execute of a worker takes the first entry of its queue.
LEMMA WorkerQueueShrinks ==
  ASSUME Typed, NEW w \in Workers, WorkerDequeues(w)
  PROVE  /\ Head(worker_queue[w]) \in Entries
         /\ \A v \in Workers : \A x :
              Dispatched(v, x) <=> (Dispatched(v, x)' \/ (v = w /\ x = Head(worker_queue[w])))
         /\ \A v \in Workers : \A x : Once(worker_queue[v], x) =>
              /\ Once(worker_queue'[v], x)
              /\ v = w /\ x = Head(worker_queue[w]) => ~Dispatched(v, x)'
         /\ \A v \in Workers : \A F : Closes(worker_queue[v], F) =>
              /\ Closes(worker_queue'[v], F)
              /\ v = w /\ Head(worker_queue[w]) = NULL => \A x \in F \cup {NULL} : ~Dispatched(v, x)'
<1> DEFINE q == worker_queue[w]
<1>1. /\ q \in Seq(Entries) /\ q # <<>> /\ worker_queue'[w] = Tail(q)
      /\ \A v \in Workers \ {w} : worker_queue'[v] = worker_queue[v]
  BY DEF Typed, WorkersTyped, WorkerDequeues
<1>2. /\ Head(q) \in Entries
      /\ \A x : In(q, x) <=> (In(worker_queue'[w], x) \/ x = Head(q))
      /\ \A x : Once(q, x) =>
           Once(worker_queue'[w], x) /\ (x = Head(q) => ~In(worker_queue'[w], x))
      /\ \A F : Closes(q, F) =>
           /\ Closes(worker_queue'[w], F)
           /\ Head(q) = NULL => \A x \in F \cup {NULL} : ~In(worker_queue'[w], x)
  <2>1. Head(q) \in Entries /\ \A x : In(q, x) <=> (In(Tail(q), x) \/ x = Head(q))
    BY <1>1, TailIn
  <2>2. \A x : Once(q, x) => Once(Tail(q), x) /\ (x = Head(q) => ~In(Tail(q), x))
    BY <1>1, TailIn
  <2>3. \A F : Closes(q, F) =>
           Closes(Tail(q), F) /\ (Head(q) = NULL => \A x \in F \cup {NULL} : ~In(Tail(q), x))
    BY <1>1, TailIn
  <2> QED
    BY <1>1, <2>1, <2>2, <2>3
<1> QED
  BY <1>1, <1>2 DEF Dispatched

----------------------------------------------------------------------------
(* Every request is in one place *)

\* A step after which a request is where it was, or nowhere, keeps what is
\* known of it; so does one that moves it to a place where it was not.
LEMMA OwnedStays ==
  ASSUME NEW x \in Requests, OwnedOnce(x),
         UNCHANGED <<caller, answers>>,
         Queued(x)' => Queued(x), Once(request_queue', x),
         Carries(x)' => Carries(x),
         \A w \in Workers : (Dispatched(w, x)' => Dispatched(w, x)) /\ Once(worker_queue'[w], x),
         \A w \in Workers : Holds(w, x)' => Holds(w, x)
  PROVE  OwnedOnce(x)'
<1>1. Somewhere(x)' => Somewhere(x)
  BY DEF Somewhere
<1>2. \A w \in Workers : Once(worker_queue[w], x)'
  OBVIOUS
<1> QED
  BY <1>1, <1>2 DEF OwnedOnce

\* connect, close and execute put a request into one place at most.
LEMMA OwnedAppSteps ==
  ASSUME SessionAssumption, Typed, Typed', Owned,
         ConnectAsync \/ CloseAsyncPushes \/ (\E force \in BOOLEAN : CloseAsync(force))
           \/ \E r \in Requests : ExecuteChecks(r) \/ ExecuteEnqueues(r)
  PROVE  Owned'
<1>0. ThreadTyped /\ NULL \notin Requests /\ NULL \in Entries /\ Requests \subseteq Entries
  BY DEF Typed, SessionTyped, SessionAssumption, Entries
<1>1. CASE ConnectAsync
  BY <1>1, OwnedStays
  DEF ConnectAsync, Owned, OwnedOnce, Queued, Dispatched, Holds, Carries, workers, Waiting
<1>2. CASE CloseAsyncPushes
  <2>1. \A x \in Requests : (Queued(x)' => Queued(x)) /\ Once(request_queue', x)
    BY <1>0, <1>2, RequestQueueGrows DEF CloseAsyncPushes, PushNull, Owned, OwnedOnce
  <2> QED
    BY <1>2, <2>1, OwnedStays
    DEF CloseAsyncPushes, Owned, OwnedOnce, Dispatched, Holds, Carries, workers, app
<1>3. CASE \E force \in BOOLEAN : CloseAsync(force)
  BY <1>3, OwnedStays
  DEF CloseAsync, Owned, OwnedOnce, Queued, Dispatched, Holds, Carries, workers
<1>4. ASSUME NEW r \in Requests, ExecuteChecks(r)
      PROVE  Owned'
  <2>1. /\ caller[r] = "new" /\ answers[r] = 0 /\ ~Somewhere(r)
        /\ answers'[r] \in {0, 1} /\ (caller'[r] # "returned" => answers'[r] = 0)
        /\ \A x \in Requests \ {r} : caller'[x] = caller[x] /\ answers'[x] = answers[x]
    BY <1>4 DEF ExecuteChecks, Answer, Owned, OwnedOnce, Typed, AppTyped
  <2>2. /\ UNCHANGED <<request_queue, worker_queue, held, thread>>
    BY <1>4 DEF ExecuteChecks, session, workers
  <2> QED
    BY <2>1, <2>2 DEF Owned, OwnedOnce, Somewhere, Queued, Dispatched, Holds, Carries
<1>5. ASSUME NEW r \in Requests, ExecuteEnqueues(r)
      PROVE  Owned'
  <2>1. /\ caller[r] = "checked" /\ answers[r] = 0 /\ ~Somewhere(r) /\ caller'[r] = "returned"
        /\ \A x \in Requests \ {r} : caller'[x] = caller[x]
        /\ UNCHANGED <<worker_queue, held, thread>>
    BY <1>5 DEF ExecuteEnqueues, Owned, OwnedOnce, Typed, AppTyped, workers
  <2>2. CASE Len(request_queue) = QueueSize /\ Answer(r) /\ UNCHANGED request_queue
    <3>1. answers'[r] = 1 /\ \A x \in Requests \ {r} : answers'[x] = answers[x]
      BY <2>1, <2>2 DEF Answer, Typed, AppTyped
    <3> QED
      BY <2>1, <2>2, <3>1 DEF Owned, OwnedOnce, Somewhere, Queued, Dispatched, Holds, Carries
  <2>3. CASE request_queue' = Append(request_queue, r) /\ UNCHANGED answers
    <3>1. /\ \A x \in Requests : Queued(x)' <=> (Queued(x) \/ x = r)
          /\ \A x \in Requests : Once(request_queue', x)
      BY <1>0, <2>1, <2>3, RequestQueueGrows DEF Owned, OwnedOnce, Somewhere
    <3>2. \A x \in Requests : Carries(x)' <=> Carries(x)
      BY <2>1 DEF Carries
    <3>3. \A x \in Requests, w \in Workers :
             /\ Dispatched(w, x)' <=> Dispatched(w, x)
             /\ Holds(w, x)' <=> Holds(w, x)
             /\ Once(worker_queue[w], x)'
      BY <2>1 DEF Dispatched, Holds, Owned, OwnedOnce
    <3>4. ~Queued(r) /\ ~Carries(r) /\ \A w \in Workers : ~Dispatched(w, r) /\ ~Holds(w, r)
      BY <2>1 DEF Somewhere
    <3>5. OwnedOnce(r)'
      BY <2>1, <2>3, <3>1, <3>2, <3>3, <3>4 DEF OwnedOnce, Somewhere
    <3>6. ASSUME NEW x \in Requests \ {r}
          PROVE  OwnedOnce(x)'
      <4>1. OwnedOnce(x) /\ (Somewhere(x)' <=> Somewhere(x))
        BY <3>1, <3>2, <3>3 DEF Owned, Somewhere
      <4> QED
        BY <2>1, <2>3, <3>1, <3>2, <3>3, <4>1 DEF OwnedOnce
    <3> QED
      BY <3>5, <3>6 DEF Owned
  <2> QED
    BY <1>5, <2>2, <2>3 DEF ExecuteEnqueues
<1> QED
  BY <1>1, <1>2, <1>3, <1>4, <1>5

\* Handling an event of the session moves no request.
LEMMA OwnedEventSteps ==
  ASSUME SessionAssumption, Typed, Typed', Owned,
         OnConnect \/ OnControlConnectionReady \/ OnControlConnectionError
           \/ OnNotifyReady \/ OnNotifyWorkerClosed \/ OnAfterRun
  PROVE  Owned'
<1>1. UNCHANGED request_queue \/ request_queue' = Append(request_queue, NULL)
  BY DEF OnConnect, OnControlConnectionReady, OnControlConnectionError, OnNotifyReady,
         OnNotifyWorkerClosed, OnAfterRun, NotifyConnectError, NotifyConnected, PushNull
<1>2. \A x \in Requests : (Queued(x)' => Queued(x)) /\ Once(request_queue', x)
  <2>1. CASE UNCHANGED request_queue
    BY <2>1 DEF Queued, Owned, OwnedOnce
  <2>2. CASE request_queue' = Append(request_queue, NULL)
    BY <2>2, RequestQueueGrows DEF Owned, OwnedOnce, SessionAssumption, Entries
  <2> QED
    BY <1>1, <2>1, <2>2
<1>3. UNCHANGED <<caller, answers, worker_queue, held>>
  BY Zenon
  DEF OnConnect, OnControlConnectionReady, OnControlConnectionError, OnNotifyReady,
      OnNotifyWorkerClosed, OnAfterRun, app, workers
<1>4. UNCHANGED thread \/ thread' \in {Closed, NoThread}
  BY Zenon
  DEF OnConnect, OnControlConnectionReady, OnControlConnectionError, OnNotifyReady,
      OnNotifyWorkerClosed, OnAfterRun
<1>5. \A x \in Requests : Carries(x)' => Carries(x)
  BY <1>4 DEF Carries, Closed, NoThread
<1>6. \A x \in Requests, w \in Workers :
        /\ Dispatched(w, x)' => Dispatched(w, x)
        /\ Holds(w, x)' => Holds(w, x)
        /\ OwnedOnce(x) => Once(worker_queue'[w], x)
  BY <1>3 DEF Dispatched, Holds, OwnedOnce
<1> QED
  BY <1>2, <1>3, <1>5, <1>6, OwnedStays DEF Owned

\* The session thread moves a request from its queue to one worker's.
LEMMA OwnedExecuteSteps ==
  ASSUME SessionAssumption, Typed, Typed', Owned,
         OnExecuteBegins \/ OnExecuteDequeues \/ OnExecuteDispatches \/ OnExecuteGivesUp
           \/ OnExecuteEnds
           \/ \E w \in Workers : OnExecuteFindsWorker(w) \/ OnExecuteClosesWorker(w)
  PROVE  Owned'
<1>0. /\ ThreadTyped /\ NULL \notin Requests /\ NULL \in Entries /\ Entries \ {NULL} \subseteq Requests
  BY DEF Typed, SessionTyped, SessionAssumption, Entries
<1>1. CASE OnExecuteBegins \/ OnExecuteEnds \/ \E w \in Workers : OnExecuteFindsWorker(w)
  <2>1. UNCHANGED <<caller, answers, request_queue, worker_queue, held>>
    BY <1>1 DEF OnExecuteBegins, OnExecuteEnds, OnExecuteFindsWorker, app, workers
  <2>2. \A x \in Requests : Carries(x)' => Carries(x)
    BY <1>0, <1>1
    DEF OnExecuteBegins, OnExecuteEnds, OnExecuteFindsWorker, Dispatching, BetweenRequests, Carries,
        OnExecute, Waiting, CloseWorkers
  <2> QED
    BY <2>1, <2>2, OwnedStays DEF Owned, OwnedOnce, Queued, Dispatched, Holds
<1>2. CASE OnExecuteDequeues
  <2> DEFINE r == Head(request_queue)
  <2>1. /\ UNCHANGED <<caller, answers, worker_queue, held>>
        /\ request_queue # <<>> /\ request_queue' = Tail(request_queue) /\ BetweenRequests
    BY <1>2 DEF OnExecuteDequeues, app, workers
  <2>2. /\ r \in Entries
        /\ \A x : Queued(x) <=> (Queued(x)' \/ x = r)
        /\ \A x : Once(request_queue, x) => Once(request_queue', x) /\ (x = r => ~Queued(x)')
    BY <2>1, RequestQueueShrinks
  <2>3. \A x \in Requests : ~Carries(x) /\ (Carries(x)' => x = r)
    BY <1>0, <1>2 DEF OnExecuteDequeues, BetweenRequests, Carries, OnExecute
  <2>4. \A x \in Requests, w \in Workers :
          /\ Dispatched(w, x)' <=> Dispatched(w, x)
          /\ Holds(w, x)' <=> Holds(w, x)
          /\ Once(worker_queue[w], x)' <=> Once(worker_queue[w], x)
    BY <2>1 DEF Dispatched, Holds
  <2> HIDE DEF r
  <2>5. ASSUME NEW x \in Requests
        PROVE  OwnedOnce(x)'
    <3>1. OwnedOnce(x) /\ (Somewhere(x)' => Somewhere(x))
      BY <2>2, <2>3, <2>4 DEF Owned, Somewhere
    <3> QED
      BY <2>1, <2>2, <2>3, <2>4, <3>1 DEF OwnedOnce
  <2> QED
    BY <2>5 DEF Owned
<1>3. CASE OnExecuteDispatches
  <2>1. /\ UNCHANGED <<caller, answers, request_queue, held>>
        /\ thread.kind = "on_execute" /\ thread.request \in Requests /\ thread.target \in Workers
    BY <1>0, <1>3, ThreadCases DEF OnExecuteDispatches, Dispatching, app
  <2> DEFINE r == thread.request
             w == thread.target
  <2>2. CASE /\ worker_queue' = [worker_queue EXCEPT ![w] = Append(@, r)]
             /\ thread' = OnExecute(thread.closing, NULL, NULL)
    <3>1. /\ \A x \in Requests : ~Carries(x)'
          /\ \A x \in Requests : Carries(x) <=> x = r
      BY <1>0, <2>1, <2>2 DEF Carries, OnExecute
    <3>2. /\ \A v \in Workers : \A x : Dispatched(v, x)' <=> (Dispatched(v, x) \/ (v = w /\ x = r))
          /\ \A v \in Workers : \A x : Once(worker_queue[v], x) /\ (v = w /\ x = r => ~Dispatched(v, x))
              => Once(worker_queue'[v], x)
      BY <2>1, <2>2, WorkerQueueGrows DEF Entries
    <3>3. \A x \in Requests : /\ Queued(x)' <=> Queued(x)
                              /\ Once(request_queue, x)' <=> Once(request_queue, x)
                              /\ \A v \in Workers : Holds(v, x)' <=> Holds(v, x)
      BY <2>1 DEF Queued, Holds
    <3>4. r \in Requests /\ w \in Workers
      BY <2>1
    <3> HIDE DEF r, w
    <3>5. ASSUME NEW x \in Requests
          PROVE  OwnedOnce(x)'
      <4>1. OwnedOnce(x) /\ (Somewhere(x)' => Somewhere(x))
        BY <3>1, <3>2, <3>3, <3>4 DEF Owned, Somewhere
      <4> QED
        BY <2>1, <3>1, <3>2, <3>3, <3>4, <4>1 DEF OwnedOnce
    <3> QED
      BY <3>5 DEF Owned
  <2>3. CASE thread' = OnExecute(thread.closing, thread.request, NULL) /\ UNCHANGED worker_queue
    <3>1. \A x \in Requests : Carries(x)' => Carries(x)
      BY <2>1, <2>3 DEF Carries, OnExecute
    <3> QED
      BY <2>1, <2>3, <3>1, OwnedStays DEF Owned, OwnedOnce, Queued, Dispatched, Holds
  <2> QED
    BY <1>3, <2>2, <2>3 DEF OnExecuteDispatches
<1>4. CASE OnExecuteGivesUp
  <2>1. /\ UNCHANGED <<caller, request_queue, worker_queue, held>> /\ Answer(thread.request)
        /\ thread.kind = "on_execute" /\ thread.request \in Requests
        /\ thread' = OnExecute(thread.closing, NULL, NULL)
    BY <1>0, <1>4, ThreadCases DEF OnExecuteGivesUp, Dispatching, workers
  <2>0. PICK r \in Requests : r = thread.request
    BY <2>1
  <2>2. /\ \A x \in Requests : ~Carries(x)'
        /\ \A x \in Requests : Carries(x) <=> x = r
    BY <1>0, <2>0, <2>1 DEF Carries, OnExecute
  <2>3. answers'[r] = answers[r] + 1 /\ \A x \in Requests \ {r} : answers'[x] = answers[x]
    BY <2>0, <2>1 DEF Answer, Typed, AppTyped
  <2>4. \A x \in Requests : /\ Queued(x)' <=> Queued(x)
                            /\ Once(request_queue, x)' <=> Once(request_queue, x)
    BY <2>1 DEF Queued
  <2>5. \A x \in Requests, v \in Workers :
          /\ Dispatched(v, x)' <=> Dispatched(v, x)
          /\ Holds(v, x)' <=> Holds(v, x)
          /\ Once(worker_queue[v], x)' <=> Once(worker_queue[v], x)
    BY <2>1 DEF Dispatched, Holds
  <2>6. r \in Requests
    OBVIOUS
  <2>7. ASSUME NEW x \in Requests \ {r}
        PROVE  OwnedOnce(x)'
    <3>1. OwnedOnce(x) /\ (Somewhere(x)' => Somewhere(x))
      BY <2>2, <2>4, <2>5 DEF Owned, Somewhere
    <3> QED
      BY <2>1, <2>2, <2>3, <2>4, <2>5, <3>1 DEF OwnedOnce
  <2>8. OwnedOnce(r)'
    <3>1. OwnedOnce(r) /\ Carries(r)
      BY <2>2, <2>6 DEF Owned
    <3>2. ~Somewhere(r)' /\ caller[r] = "returned" /\ answers[r] = 0
      BY <2>2, <2>4, <2>5, <2>6, <3>1 DEF OwnedOnce, Somewhere
    <3>3. answers'[r] = 1
      BY <2>3, <3>2
    <3> QED
      BY <2>1, <2>2, <2>4, <2>5, <2>6, <3>1, <3>2, <3>3 DEF OwnedOnce, Somewhere
  <2> QED
    BY <2>7, <2>8 DEF Owned
<1>5. ASSUME NEW w \in Workers, OnExecuteClosesWorker(w)
      PROVE  Owned'
  <2>1. /\ UNCHANGED <<caller, answers, request_queue, held>>
        /\ worker_queue' = [worker_queue EXCEPT ![w] = Append(@, NULL)]
    BY <1>5 DEF OnExecuteClosesWorker, app
  <2>2. /\ \A v \in Workers : \A x \in Requests : Dispatched(v, x)' <=> Dispatched(v, x)
        /\ \A v \in Workers : \A x \in Requests : Once(worker_queue[v], x) => Once(worker_queue'[v], x)
    BY <1>0, <2>1, WorkerQueueGrows
  <2>3. \A x \in Requests : ~Carries(x)'
    BY <1>5 DEF OnExecuteClosesWorker, Carries, Waiting, CloseWorkers
  <2> QED
    BY <2>1, <2>2, <2>3, OwnedStays DEF Owned, OwnedOnce, Queued, Holds
<1> QED
  BY <1>1, <1>2, <1>3, <1>4, <1>5

\* A worker moves a request from its queue to a pool, or answers it.
LEMMA OwnedWorkerSteps ==
  ASSUME SessionAssumption, Typed, Typed', Starting, Owned, NEW w \in Workers, WorkerStep(w)
  PROVE  Owned'
<1>0. /\ UNCHANGED <<caller, request_queue, thread>>
      /\ NULL \notin Requests /\ Entries \ {NULL} \subseteq Requests
      /\ \A v \in Workers : Holds(v, NULL) => FALSE
  BY WorkerLeaves DEF SessionAssumption, Entries, Typed, WorkersTyped, HeldTyped, Holds
<1>01. \A x : /\ Queued(x)' <=> Queued(x)
              /\ Once(request_queue, x)' <=> Once(request_queue, x)
              /\ Carries(x)' <=> Carries(x)
  BY <1>0 DEF Queued, Carries
<1>1. CASE /\ UNCHANGED <<answers, worker_queue>>
           /\ \A x \in Requests, v \in Workers : Holds(v, x)' <=> Holds(v, x)
  <2>1. \A x \in Requests, v \in Workers : /\ Dispatched(v, x)' <=> Dispatched(v, x)
                                           /\ Once(worker_queue'[v], x) <=> Once(worker_queue[v], x)
    BY <1>1 DEF Dispatched
  <2> QED
    BY <1>0, <1>01, <1>1, <2>1, OwnedStays DEF Owned, OwnedOnce
<1>2. CASE \/ WorkerOnExecuteBegins(w) \/ WorkerOnExecuteEnds(w) \/ PoolStep(w)
           \/ \E h \in Hosts : PoolFails(w, h) \/ PoolReconnects(w, h)
  <2>1. UNCHANGED <<answers, worker_queue, held>>
    BY <1>2, Zenon
    DEF WorkerOnExecuteBegins, WorkerOnExecuteEnds, PoolStep, AddPool, PoolConnected, PoolClosed,
        PoolFails, PoolReconnects, app
  <2> QED
    BY <1>1, <2>1 DEF Holds
<1>3. ASSUME NEW r \in Requests, RequestRetried(w, r)
      PROVE  Owned'
  <2>1. /\ UNCHANGED <<answers, worker_queue>>
        /\ \E h \in Hosts : held' = [held EXCEPT ![w][r] = h]
    BY <1>3 DEF RequestRetried, app
  <2>2. \A v \in Workers : DOMAIN held'[v] = DOMAIN held[v]
    BY <2>1 DEF Typed, WorkersTyped, HeldTyped
  <2> QED
    BY <1>1, <2>1, <2>2 DEF Holds
<1>4. CASE WorkerTakesNull(w)
  <2>1. WorkerDequeues(w) /\ UNCHANGED <<answers, held>>
    BY <1>4 DEF WorkerTakesNull, app
  <2>2. \A v \in Workers : \A x \in Requests :
          /\ Dispatched(v, x)' => Dispatched(v, x)
          /\ Once(worker_queue[v], x) => Once(worker_queue'[v], x)
    BY <2>1, WorkerQueueShrinks
  <2> QED
    BY <1>0, <1>01, <2>1, <2>2, OwnedStays DEF Owned, OwnedOnce, Holds
<1>5. CASE WorkerTakesRequest(w) \/ WorkerRefusesRequest(w)
  <2>1. PICK r \in Requests : r = Head(worker_queue[w])
    BY <1>0, <1>5, WorkerQueueShrinks DEF WorkerTakesRequest, WorkerRefusesRequest
  <2>2. /\ \A v \in Workers : \A x : Dispatched(v, x) <=> (Dispatched(v, x)' \/ (v = w /\ x = r))
        /\ \A v \in Workers : \A x : Once(worker_queue[v], x) =>
              Once(worker_queue'[v], x) /\ (v = w /\ x = r => ~Dispatched(v, x)')
    <3>1. WorkerDequeues(w)
      BY <1>5 DEF WorkerTakesRequest, WorkerRefusesRequest
    <3> QED
      BY <2>1, <3>1, WorkerQueueShrinks
  <2>3. OwnedOnce(r) /\ Dispatched(w, r) /\ \A v \in Workers : ~Dispatched(v, r)' /\ ~Holds(v, r)
    BY <2>2 DEF Owned, OwnedOnce
  <2>4. /\ caller[r] = "returned" /\ answers[r] = 0 /\ ~Queued(r) /\ ~Carries(r)
    BY <2>3 DEF OwnedOnce, Somewhere
  <2>5. CASE WorkerTakesRequest(w)
    <3>1. UNCHANGED answers /\ \E h \in Hosts : held' = [held EXCEPT ![w] = Put(@, r, h)]
      BY <2>1, <2>5 DEF WorkerTakesRequest, app
    <3>2. \A v \in Workers, x \in Requests : Holds(v, x)' <=> (Holds(v, x) \/ (v = w /\ x = r))
      BY <3>1 DEF Holds, Put, Typed, WorkersTyped, HeldTyped
    <3>3. ASSUME NEW x \in Requests \ {r}
          PROVE  OwnedOnce(x)'
      BY <1>0, <1>01, <2>2, <3>1, <3>2, OwnedStays DEF Owned, OwnedOnce
    <3>4. OwnedOnce(r)'
      BY <1>0, <1>01, <2>2, <2>3, <2>4, <3>1, <3>2 DEF OwnedOnce, Somewhere
    <3> QED
      BY <3>3, <3>4 DEF Owned
  <2>6. CASE WorkerRefusesRequest(w)
    <3>1. UNCHANGED held /\ Answer(r)
      BY <2>1, <2>6 DEF WorkerRefusesRequest
    <3>2. \A v \in Workers, x \in Requests : Holds(v, x)' <=> Holds(v, x)
      BY <3>1 DEF Holds
    <3>3. answers'[r] = 1 /\ \A x \in Requests \ {r} : answers'[x] = answers[x]
      BY <2>4, <3>1 DEF Answer, Typed, AppTyped
    <3>4. ASSUME NEW x \in Requests \ {r}
          PROVE  OwnedOnce(x)'
      <4>1. OwnedOnce(x) /\ (Somewhere(x)' => Somewhere(x))
        BY <1>01, <2>2, <3>2 DEF Owned, Somewhere
      <4> QED
        BY <1>0, <1>01, <2>2, <3>2, <3>3, <4>1 DEF OwnedOnce
    <3>5. OwnedOnce(r)'
      BY <1>0, <1>01, <2>2, <2>3, <2>4, <3>2, <3>3 DEF OwnedOnce, Somewhere
    <3> QED
      BY <3>4, <3>5 DEF Owned
  <2> QED
    BY <1>5, <2>5, <2>6
<1>6. ASSUME NEW r \in Requests, RequestFinished(w, r)
      PROVE  Owned'
  <2>1. /\ UNCHANGED worker_queue /\ Answer(r) /\ Holds(w, r)
        /\ held' = [held EXCEPT ![w] = Drop(@, r)]
    BY <1>6 DEF RequestFinished, Holds
  <2>2. \A v \in Workers, x \in Requests : Holds(v, x)' <=> (Holds(v, x) /\ ~(v = w /\ x = r))
    BY <2>1 DEF Holds, Drop, Typed, WorkersTyped, HeldTyped
  <2>3. \A x \in Requests, v \in Workers : /\ Dispatched(v, x)' <=> Dispatched(v, x)
                                           /\ Once(worker_queue'[v], x) <=> Once(worker_queue[v], x)
    BY <2>1 DEF Dispatched
  <2>4. OwnedOnce(r)
    BY DEF Owned
  <2>5. /\ caller[r] = "returned" /\ answers[r] = 0 /\ ~Queued(r) /\ ~Carries(r)
        /\ \A v \in Workers : ~Dispatched(v, r) /\ (Holds(v, r) => v = w)
    BY <2>1, <2>4 DEF OwnedOnce, Somewhere
  <2>6. answers'[r] = 1 /\ \A x \in Requests \ {r} : answers'[x] = answers[x]
    BY <2>1, <2>5 DEF Answer, Typed, AppTyped
  <2>7. ASSUME NEW x \in Requests \ {r}
        PROVE  OwnedOnce(x)'
    <3>1. OwnedOnce(x) /\ (Somewhere(x)' => Somewhere(x))
      BY <1>01, <2>2, <2>3 DEF Owned, Somewhere
    <3> QED
      BY <1>0, <1>01, <2>2, <2>3, <2>6, <3>1 DEF OwnedOnce
  <2>8. OwnedOnce(r)'
    BY <1>0, <1>01, <2>2, <2>3, <2>4, <2>5, <2>6 DEF OwnedOnce, Somewhere
  <2> QED
    BY <2>7, <2>8 DEF Owned
<1> QED
  BY <1>2, <1>3, <1>4, <1>5, <1>6 DEF WorkerStep, WorkerCallback

\* No step duplicates a request.
LEMMA OwnedStep ==
  ASSUME SessionAssumption, Typed, Typed', Starting, Owned, [Next]_vars
  PROVE  Owned'
<1>1. CASE UNCHANGED vars
  BY <1>1
  DEF vars, app, session, workers, Owned, OwnedOnce, Somewhere, Queued, Carries, Dispatched, Holds
<1>2. CASE Done
  BY <1>1, <1>2 DEF Done
<1> QED
  BY <1>1, <1>2, OwnedAppSteps, OwnedEventSteps, OwnedExecuteSteps, OwnedWorkerSteps
  DEF Next, SessionThread, WorkerStep

----------------------------------------------------------------------------
(* No request of the connected session is lost *)

Answering(r) == Answer(r) /\ \A x \in Requests : answers'[x] # 0 <=> (answers[x] # 0 \/ x = r)

\* An answered request stays answered.
LEMMA AnswerStays ==
  ASSUME Typed, NEW r \in Requests, Answer(r)
  PROVE  Answering(r)
  BY DEF Answering, Answer, Typed, AppTyped

Found(x) == answers[x] # 0 \/ Somewhere(x)

\* The session thread loses no request: it dispatches or answers it.
LEMMA FoundSessionSteps ==
  ASSUME SessionAssumption, Typed, NEW x \in Requests, Found(x),
         OnConnect \/ OnControlConnectionReady \/ OnControlConnectionError
           \/ OnNotifyReady \/ OnNotifyWorkerClosed \/ OnAfterRun
           \/ OnExecuteBegins \/ OnExecuteDequeues \/ OnExecuteDispatches \/ OnExecuteGivesUp
           \/ OnExecuteEnds
           \/ \E w \in Workers : OnExecuteFindsWorker(w) \/ OnExecuteClosesWorker(w)
  PROVE  Found(x)'
<1>0. ThreadTyped /\ NULL \notin Requests /\ NULL \in Entries /\ Entries \ {NULL} \subseteq Requests
  BY DEF Typed, SessionTyped, SessionAssumption, Entries
<1>1. CASE OnConnect \/ OnControlConnectionReady \/ OnControlConnectionError
             \/ OnNotifyReady \/ OnNotifyWorkerClosed \/ OnAfterRun
  <2>1. UNCHANGED request_queue \/ request_queue' = Append(request_queue, NULL)
    BY <1>1
    DEF OnConnect, OnControlConnectionReady, OnControlConnectionError, OnNotifyReady,
        OnNotifyWorkerClosed, OnAfterRun, NotifyConnectError, NotifyConnected, PushNull
  <2>2. Queued(x) => Queued(x)'
    BY <1>0, <2>1, RequestQueueGrows DEF Queued
  <2>3. UNCHANGED <<answers, worker_queue, held>>
    BY <1>1, Zenon
    DEF OnConnect, OnControlConnectionReady, OnControlConnectionError, OnNotifyReady,
        OnNotifyWorkerClosed, OnAfterRun, app, workers
  <2>4. UNCHANGED thread \/ thread \in {Waiting, Closed}
    BY <1>1, Zenon
    DEF OnConnect, OnControlConnectionReady, OnControlConnectionError, OnNotifyReady,
        OnNotifyWorkerClosed, OnAfterRun, OnEvent
  <2>5. Carries(x) => Carries(x)'
    BY <2>4 DEF Carries, Waiting, Closed
  <2> QED
    BY <2>2, <2>3, <2>5 DEF Found, Somewhere, Dispatched, Holds
<1>2. CASE OnExecuteBegins \/ OnExecuteEnds \/ \E w \in Workers : OnExecuteFindsWorker(w)
  <2>1. UNCHANGED <<answers, request_queue, worker_queue, held>>
    BY <1>2 DEF OnExecuteBegins, OnExecuteEnds, OnExecuteFindsWorker, app, workers
  <2>2. Carries(x) => Carries(x)'
    BY <1>0, <1>2
    DEF OnExecuteBegins, OnExecuteEnds, OnExecuteFindsWorker, Dispatching, BetweenRequests, Carries,
        OnExecute, Waiting, CloseWorkers
  <2> QED
    BY <2>1, <2>2 DEF Found, Somewhere, Queued, Dispatched, Holds
<1>3. CASE OnExecuteDequeues
  <2>1. UNCHANGED <<answers, worker_queue, held>> /\ ~Carries(x)
    BY <1>0, <1>3 DEF OnExecuteDequeues, BetweenRequests, Carries, app, workers
  <2>2. Queued(x) => Queued(x)' \/ x = Head(request_queue)
    BY <1>3, RequestQueueShrinks DEF OnExecuteDequeues
  <2>3. x = Head(request_queue) => Carries(x)'
    BY <1>0, <1>3 DEF OnExecuteDequeues, Carries, OnExecute
  <2> QED
    BY <2>1, <2>2, <2>3 DEF Found, Somewhere, Dispatched, Holds
<1>4. CASE OnExecuteDispatches
  <2>1. /\ UNCHANGED <<answers, request_queue, held>> /\ thread.kind = "on_execute"
        /\ thread.target \in Workers /\ thread.request \in Entries
    BY <1>0, <1>4, ThreadCases DEF OnExecuteDispatches, Dispatching, app
  <2>2. CASE worker_queue' = [worker_queue EXCEPT ![thread.target] = Append(@, thread.request)]
    <3>1. PICK w \in Workers, r \in Entries : w = thread.target /\ r = thread.request
      BY <2>1
    <3>2. worker_queue' = [worker_queue EXCEPT ![w] = Append(@, r)]
      BY <2>2, <3>1
    <3>3. \A v \in Workers : Dispatched(v, x)' <=> (Dispatched(v, x) \/ (v = w /\ x = r))
      BY <3>2, WorkerQueueGrows
    <3>4. Carries(x) => Dispatched(w, x)'
      BY <2>1, <3>1, <3>3 DEF Carries
    <3> QED
      BY <2>1, <3>3, <3>4 DEF Found, Somewhere, Queued, Holds
  <2>3. CASE thread' = OnExecute(thread.closing, thread.request, NULL) /\ UNCHANGED worker_queue
    <3>1. Carries(x) => Carries(x)'
      BY <2>1, <2>3 DEF Carries, OnExecute
    <3> QED
      BY <2>1, <2>3, <3>1 DEF Found, Somewhere, Queued, Dispatched, Holds
  <2> QED
    BY <1>4, <2>2, <2>3 DEF OnExecuteDispatches
<1>5. CASE OnExecuteGivesUp
  <2>1. PICK r \in Requests : r = thread.request
    BY <1>0, <1>5, ThreadCases DEF OnExecuteGivesUp, Dispatching
  <2>2. Answering(r) /\ UNCHANGED <<request_queue, worker_queue, held>>
    BY <1>5, <2>1, AnswerStays DEF OnExecuteGivesUp, workers
  <2>3. Carries(x) => x = r
    BY <2>1 DEF Carries
  <2> QED
    BY <2>2, <2>3 DEF Found, Somewhere, Queued, Dispatched, Holds, Answering
<1>6. ASSUME NEW w \in Workers, OnExecuteClosesWorker(w)
      PROVE  Found(x)'
  <2>1. /\ UNCHANGED <<answers, request_queue, held>> /\ ~Carries(x)
        /\ worker_queue' = [worker_queue EXCEPT ![w] = Append(@, NULL)]
    BY <1>6 DEF OnExecuteClosesWorker, Carries, app
  <2>2. \A v \in Workers : Dispatched(v, x) => Dispatched(v, x)'
    BY <1>0, <2>1, WorkerQueueGrows
  <2> QED
    BY <2>1, <2>2 DEF Found, Somewhere, Queued, Holds
<1> QED
  BY <1>1, <1>2, <1>3, <1>4, <1>5, <1>6

\* A worker loses no request: it hands it to a pool or answers it.
LEMMA FoundWorkerSteps ==
  ASSUME SessionAssumption, Typed, Starting, NEW x \in Requests, Found(x),
         NEW w \in Workers, WorkerStep(w)
  PROVE  Found(x)'
<1>0. /\ UNCHANGED <<request_queue, thread>>
      /\ NULL \notin Requests /\ Entries \ {NULL} \subseteq Requests
  BY WorkerLeaves DEF SessionAssumption, Entries
<1>01. (Queued(x)' <=> Queued(x)) /\ (Carries(x)' <=> Carries(x))
  BY <1>0 DEF Queued, Carries
<1>1. CASE \/ WorkerOnExecuteBegins(w) \/ WorkerOnExecuteEnds(w) \/ PoolStep(w)
           \/ \E h \in Hosts : PoolFails(w, h) \/ PoolReconnects(w, h)
  <2>1. UNCHANGED <<answers, worker_queue, held>>
    BY <1>1, Zenon
    DEF WorkerOnExecuteBegins, WorkerOnExecuteEnds, PoolStep, AddPool, PoolConnected, PoolClosed,
        PoolFails, PoolReconnects, app
  <2> QED
    BY <1>01, <2>1 DEF Found, Somewhere, Dispatched, Holds
<1>2. ASSUME NEW r \in Requests, RequestRetried(w, r)
      PROVE  Found(x)'
  <2>1. /\ UNCHANGED <<answers, worker_queue>>
        /\ \E h \in Hosts : held' = [held EXCEPT ![w][r] = h]
    BY <1>2 DEF RequestRetried, app
  <2>2. \A v \in Workers : DOMAIN held'[v] = DOMAIN held[v]
    BY <2>1 DEF Typed, WorkersTyped, HeldTyped
  <2> QED
    BY <1>01, <2>1, <2>2 DEF Found, Somewhere, Dispatched, Holds
<1>3. CASE WorkerTakesNull(w)
  <2>1. WorkerDequeues(w) /\ UNCHANGED <<answers, held>> /\ Head(worker_queue[w]) = NULL
    BY <1>3 DEF WorkerTakesNull, app
  <2>2. \A v \in Workers : Dispatched(v, x)' <=> Dispatched(v, x)
    BY <1>0, <2>1, WorkerQueueShrinks
  <2> QED
    BY <1>01, <2>1, <2>2 DEF Found, Somewhere, Holds
<1>4. CASE WorkerTakesRequest(w) \/ WorkerRefusesRequest(w)
  <2>1. PICK r \in Requests : r = Head(worker_queue[w])
    BY <1>0, <1>4, WorkerQueueShrinks DEF WorkerTakesRequest, WorkerRefusesRequest
  <2>2. \A v \in Workers : Dispatched(v, x) => Dispatched(v, x)' \/ x = r
    <3>1. WorkerDequeues(w)
      BY <1>4 DEF WorkerTakesRequest, WorkerRefusesRequest
    <3> QED
      BY <2>1, <3>1, WorkerQueueShrinks
  <2>3. CASE WorkerTakesRequest(w)
    <3>1. UNCHANGED answers /\ \E h \in Hosts : held' = [held EXCEPT ![w] = Put(@, r, h)]
      BY <2>1, <2>3 DEF WorkerTakesRequest, app
    <3>2. \A v \in Workers : Holds(v, x)' <=> (Holds(v, x) \/ (v = w /\ x = r))
      BY <3>1 DEF Holds, Put, Typed, WorkersTyped, HeldTyped
    <3> QED
      BY <1>01, <2>2, <3>1, <3>2 DEF Found, Somewhere
  <2>4. CASE WorkerRefusesRequest(w)
    <3>1. UNCHANGED held /\ Answering(r)
      BY <2>1, <2>4, AnswerStays DEF WorkerRefusesRequest
    <3> QED
      BY <1>01, <2>2, <3>1 DEF Found, Somewhere, Holds, Answering
  <2> QED
    BY <1>4, <2>3, <2>4
<1>5. ASSUME NEW r \in Requests, RequestFinished(w, r)
      PROVE  Found(x)'
  <2>1. /\ UNCHANGED worker_queue /\ Answering(r)
        /\ held' = [held EXCEPT ![w] = Drop(@, r)]
    BY <1>5, AnswerStays DEF RequestFinished
  <2>2. \A v \in Workers : Holds(v, x) => Holds(v, x)' \/ x = r
    BY <2>1 DEF Holds, Drop, Typed, WorkersTyped, HeldTyped
  <2> QED
    BY <1>01, <2>1, <2>2 DEF Found, Somewhere, Dispatched, Answering
<1> QED
  BY <1>1, <1>2, <1>3, <1>4, <1>5 DEF WorkerStep, WorkerCallback

\* Calls of the application lose no request.
LEMMA FoundAppSteps ==
  ASSUME SessionAssumption, Typed, Starting, NEW x \in Requests, Found(x),
         ConnectAsync \/ CloseAsyncPushes \/ (\E force \in BOOLEAN : CloseAsync(force))
           \/ \E r \in Requests : ExecuteChecks(r) \/ ExecuteEnqueues(r)
  PROVE  Found(x)'
<1>1. \/ UNCHANGED request_queue
      \/ \E e \in Entries : request_queue' = Append(request_queue, e)
  BY DEF ConnectAsync, CloseAsyncPushes, CloseAsync, ExecuteChecks, ExecuteEnqueues, PushNull,
         session, Entries
<1>2. Queued(x) => Queued(x)'
  BY <1>1, RequestQueueGrows DEF Queued
<1>3. UNCHANGED answers \/ \E r \in Requests : Answering(r)
  BY AnswerStays DEF ConnectAsync, CloseAsyncPushes, CloseAsync, ExecuteChecks, ExecuteEnqueues, app
<1>4. UNCHANGED <<worker_queue, held>> /\ (UNCHANGED thread \/ connect_future = "none")
  BY Zenon DEF ConnectAsync, CloseAsyncPushes, CloseAsync, ExecuteChecks, ExecuteEnqueues, session, workers
<1>5. Carries(x) => Carries(x)'
  BY <1>4 DEF Carries, Starting, NoThread
<1> QED
  BY <1>2, <1>3, <1>4, <1>5 DEF Found, Somewhere, Dispatched, Holds, Answering

\* A request that was found stays found, and one that the connected session
\* accepts is in its queue.
LEMMA AccountedStep ==
  ASSUME SessionAssumption, Typed, Starting, Accounted, [Next]_vars
  PROVE  Accounted'
<1>0. \A x \in in_flight : x \in Requests /\ Found(x)
  BY DEF Accounted, Found, Typed, AppTyped
<1>1. ASSUME NEW x \in Requests, Found(x)
      PROVE  Found(x)'
  <2>1. CASE UNCHANGED vars
    BY <1>1, <2>1
    DEF vars, app, session, workers, Found, Somewhere, Queued, Carries, Dispatched, Holds
  <2>2. CASE Done
    BY <2>1, <2>2 DEF Done
  <2> QED
    BY <1>1, <2>1, <2>2, FoundAppSteps, FoundSessionSteps, FoundWorkerSteps
    DEF Next, SessionThread, WorkerStep
<1>2. \/ UNCHANGED in_flight
      \/ \E r \in Requests : in_flight' = in_flight \cup {r} /\ Queued(r)'
  <2>1. ASSUME NEW r \in Requests, ExecuteEnqueues(r)
        PROVE  UNCHANGED in_flight \/ (in_flight' = in_flight \cup {r} /\ Queued(r)')
    <3>1. CASE request_queue' = Append(request_queue, r)
      BY <2>1, <3>1, RequestQueueGrows DEF ExecuteEnqueues, Entries
    <3>2. CASE UNCHANGED in_flight
      BY <3>2
    <3> QED
      BY <2>1, <3>1, <3>2 DEF ExecuteEnqueues
  <2>2. ASSUME NEW r \in Requests, ExecuteChecks(r)
        PROVE  UNCHANGED in_flight
    BY <2>2 DEF ExecuteChecks
  <2>3. CASE ConnectAsync \/ CloseAsyncPushes \/ (\E force \in BOOLEAN : CloseAsync(force))
    BY <2>3 DEF ConnectAsync, CloseAsyncPushes, CloseAsync, app
  <2>4. CASE SessionThread
    BY <2>4, Zenon
    DEF SessionThread, OnConnect, OnControlConnectionReady, OnControlConnectionError, OnNotifyReady,
        OnNotifyWorkerClosed, OnAfterRun, OnExecuteBegins, OnExecuteDequeues, OnExecuteDispatches,
        OnExecuteGivesUp, OnExecuteEnds, OnExecuteFindsWorker, OnExecuteClosesWorker, app
  <2>5. ASSUME NEW w \in Workers, WorkerStep(w)
        PROVE  UNCHANGED in_flight
    BY <2>5, WorkerLeaves
  <2>6. CASE UNCHANGED vars \/ Done
    BY <2>6 DEF vars, app, Done
  <2> QED
    BY <2>1, <2>2, <2>3, <2>4, <2>5, <2>6 DEF Next, WorkerStep
<1>3. \A x : Queued(x)' => Found(x)'
  BY DEF Found, Somewhere
<1> QED
  BY <1>0, <1>1, <1>2, <1>3 DEF Accounted, Found

----------------------------------------------------------------------------
(* Closing: the workers *)

\* maybe_close of a worker that has requests left to finish, or that is not
\* closing, changes nothing; otherwise it closes every pool.
LEMMA MaybeCloseCases ==
  ASSUME Typed, NEW w \in Workers, NEW p, MaybeClose(w, worker[w], p)
  PROVE  \/ UNCHANGED <<worker, pool>>
         \/ /\ worker[w] = "CLOSING" /\ p = {}
            /\ worker'[w] \in {"CLOSING", "CLOSED"}
            /\ \A v \in Workers \ {w} : worker'[v] = worker[v] /\ pool'[v] = pool[v]
            /\ worker'[w] = "CLOSED" => \A h \in Hosts : pool'[w][h] = "none"
<1>1. CASE worker[w] = "CLOSING" /\ p = {}
  <2> DEFINE closing == {h \in Hosts : pool[w][h] \in {"CONNECTING", "READY", "CLOSING"}}
             new == [h \in Hosts |-> IF h \in closing THEN "CLOSING" ELSE "none"]
  <2>1. /\ pool' = [pool EXCEPT ![w] = new]
        /\ worker' = [worker EXCEPT ![w] = IF closing = {} THEN "CLOSED" ELSE "CLOSING"]
    BY <1>1 DEF MaybeClose
  <2>2. closing = {} => \A h \in Hosts : new[h] = "none"
    OBVIOUS
  <2> HIDE DEF closing, new
  <2> QED
    BY <1>1, <2>1, <2>2 DEF Typed, WorkersTyped
<1>2. CASE ~(worker[w] = "CLOSING" /\ p = {})
  <2>1. worker' = [worker EXCEPT ![w] = worker[w]] /\ UNCHANGED pool
    BY <1>2 DEF MaybeClose
  <2>2. worker' = worker
    BY <2>1 DEF Typed, WorkersTyped
  <2> QED
    BY <2>1, <2>2
<1> QED
  BY <1>1, <1>2

\* A pool that holds a request is not closed before it has answered it.
LEMMA HoldingWorkerSteps ==
  ASSUME SessionAssumption, Typed, Typed', Holding, NEW w \in Workers, WorkerStep(w)
  PROVE  Holding'
<1>0. /\ DOMAIN held = Workers /\ DOMAIN held' = Workers
      /\ pool \in [Workers -> [Hosts -> PoolStates]]
      /\ worker \in [Workers -> {"READY", "CLOSING", "CLOSED"}]
      /\ \A v \in Workers : \A r \in DOMAIN held[v] : held[v][r] \in Hosts
  BY DEF Typed, WorkersTyped, HeldTyped
<1>1. CASE WorkerOnExecuteBegins(w) \/ WorkerTakesNull(w)
  <2>1. UNCHANGED <<held, pool>>
    BY <1>1 DEF WorkerOnExecuteBegins, WorkerTakesNull
  <2>2. \A v \in Workers : worker'[v] = "CLOSED" => worker[v] = "CLOSED"
    BY <1>0, <1>1 DEF WorkerOnExecuteBegins, WorkerTakesNull
  <2> QED
    BY <2>1, <2>2 DEF Holding
<1>2. CASE WorkerTakesRequest(w)
  <2>1. PICK h \in Hosts : /\ pool[w][h] = "READY"
                           /\ held' = [held EXCEPT ![w] = Put(@, Head(worker_queue[w]), h)]
    BY <1>2 DEF WorkerTakesRequest
  <2>2. UNCHANGED <<worker, pool>>
    BY <1>2 DEF WorkerTakesRequest
  <2> QED
    BY <1>0, <2>1, <2>2 DEF Holding, Put
<1>3. ASSUME NEW p, MaybeClose(w, worker[w], p),
             \A v \in Workers \ {w} : held'[v] = held[v],
             DOMAIN held'[w] \subseteq p,
             \A r \in DOMAIN held'[w] : r \in DOMAIN held[w] /\ held'[w][r] = held[w][r]
      PROVE  Holding'
  <2>1. CASE UNCHANGED <<worker, pool>>
    BY <1>0, <1>3, <2>1 DEF Holding
  <2>2. CASE /\ worker[w] = "CLOSING" /\ p = {}
             /\ worker'[w] \in {"CLOSING", "CLOSED"}
             /\ \A v \in Workers \ {w} : worker'[v] = worker[v] /\ pool'[v] = pool[v]
             /\ worker'[w] = "CLOSED" => \A h \in Hosts : pool'[w][h] = "none"
    BY <1>0, <1>3, <2>2 DEF Holding
  <2> QED
    BY <1>3, <2>1, <2>2, MaybeCloseCases
<1>4. CASE WorkerRefusesRequest(w) \/ WorkerOnExecuteEnds(w)
  <2>1. MaybeClose(w, worker[w], DOMAIN held[w]) /\ UNCHANGED held
    BY <1>4 DEF WorkerRefusesRequest, WorkerOnExecuteEnds
  <2> QED
    BY <1>3, <2>1
<1>5. ASSUME NEW r \in Requests, RequestFinished(w, r)
      PROVE  Holding'
  <2>1. /\ MaybeClose(w, worker[w], DOMAIN held[w] \ {r})
        /\ held' = [held EXCEPT ![w] = Drop(@, r)]
    BY <1>5 DEF RequestFinished
  <2>2. /\ \A v \in Workers \ {w} : held'[v] = held[v]
        /\ DOMAIN held'[w] = DOMAIN held[w] \ {r}
        /\ \A x \in DOMAIN held'[w] : held'[w][x] = held[w][x]
    BY <1>0, <2>1 DEF Drop
  <2> QED
    BY <1>3, <2>1, <2>2
<1>6. ASSUME NEW r \in Requests, RequestRetried(w, r)
      PROVE  Holding'
  <2>1. PICK h \in Hosts : pool[w][h] = "READY" /\ held' = [held EXCEPT ![w][r] = h]
    BY <1>6 DEF RequestRetried
  <2>2. UNCHANGED <<worker, pool>>
    BY <1>6 DEF RequestRetried
  <2> QED
    BY <1>0, <2>1, <2>2 DEF Holding
<1>7. ASSUME NEW h \in Hosts, NEW s \in {"CONNECTING", "READY", "CLOSING"}, SetPool(w, h, s),
             UNCHANGED <<worker, held>>, worker[w] # "CLOSED",
             s = "CONNECTING" => pool[w][h] \in {"none", "WAITING"}
      PROVE  Holding'
  <2>1. /\ \A v \in Workers, g \in Hosts : v # w \/ g # h => pool'[v][g] = pool[v][g]
        /\ pool'[w][h] = s
    BY <1>0, <1>7 DEF SetPool
  <2> QED
    BY <1>0, <1>7, <2>1 DEF Holding
<1>8. ASSUME NEW h \in Hosts, AddPool(w, h)
      PROVE  Holding'
  <2>1. UNCHANGED <<worker, held>> /\ worker[w] # "CLOSED"
    BY <1>8 DEF AddPool, WorkerIdle
  <2>2. CASE UNCHANGED pool
    BY <2>1, <2>2 DEF Holding
  <2>3. CASE SetPool(w, h, "CONNECTING") /\ pool[w][h] = "none"
    BY <1>7, <2>1, <2>3
  <2> QED
    BY <1>8, <2>2, <2>3 DEF AddPool
<1>9. ASSUME NEW h \in Hosts, PoolConnected(w, h) \/ PoolFails(w, h) \/ PoolReconnects(w, h)
      PROVE  Holding'
  <2>1. UNCHANGED <<worker, held>> /\ worker[w] # "CLOSED"
    BY <1>9 DEF PoolConnected, PoolFails, PoolReconnects, WorkerIdle
  <2>2. \/ SetPool(w, h, "READY") \/ SetPool(w, h, "CLOSING")
        \/ SetPool(w, h, "CONNECTING") /\ pool[w][h] = "WAITING"
    BY <1>9 DEF PoolConnected, PoolFails, PoolReconnects
  <2> QED
    BY <1>7, <2>1, <2>2
<1>10. ASSUME NEW h \in Hosts, PoolClosed(w, h)
       PROVE  Holding'
  <2>1. /\ UNCHANGED held /\ worker[w] # "CLOSED" /\ \A r \in DOMAIN held[w] : held[w][r] # h
        /\ SetPool(w, h, "none") \/ (SetPool(w, h, "WAITING") /\ UNCHANGED worker)
        /\ \A v \in Workers \ {w} : worker'[v] = worker[v]
        /\ worker'[w] = "CLOSED" => \A g \in Hosts \ {h} : pool[w][g] = "none"
    BY <1>0, <1>10 DEF PoolClosed, WorkerIdle
  <2>2. /\ \A v \in Workers, g \in Hosts : v # w \/ g # h => pool'[v][g] = pool[v][g]
        /\ pool'[w][h] = "none" \/ (pool'[w][h] = "WAITING" /\ UNCHANGED worker)
    BY <1>0, <2>1 DEF SetPool
  <2> QED
    BY <1>0, <2>1, <2>2 DEF Holding
<1> QED
  BY <1>1, <1>2, <1>4, <1>5, <1>6, <1>8, <1>9, <1>10 DEF WorkerStep, WorkerCallback, PoolStep

\* A worker that was told stays told, and no other is; its queue keeps its order.
LEMMA WorkerPasses ==
  ASSUME SessionAssumption, Typed, Passing, NEW w \in Workers, WorkerStep(w)
  PROVE  /\ \A v \in Workers : Told(v)' <=> Told(v)
         /\ \A v \in Workers : \A F : Closes(worker_queue[v], F) => Closes(worker_queue'[v], F)
         /\ \A v \in Workers : worker'[v] # "READY" =>
              \A r \in in_flight \cup {NULL} : ~Dispatched(v, r)'
<1>0. /\ worker \in [Workers -> {"READY", "CLOSING", "CLOSED"}]
      /\ \A v \in Workers : worker[v] # "READY" =>
           \A r \in in_flight \cup {NULL} : ~Dispatched(v, r)
      /\ \A v \in Workers : Closes(worker_queue[v], in_flight)
      /\ NULL \notin Requests
  BY DEF Typed, WorkersTyped, Passing, SessionAssumption
<1>1. CASE WorkerTakesNull(w)
  <2>1. /\ WorkerDequeues(w) /\ Head(worker_queue[w]) = NULL
        /\ worker'[w] = "CLOSING" /\ \A v \in Workers \ {w} : worker'[v] = worker[v]
    BY <1>0, <1>1 DEF WorkerTakesNull
  <2>2. /\ \A v \in Workers : \A x : Dispatched(v, x) <=> (Dispatched(v, x)' \/ (v = w /\ x = NULL))
        /\ \A v \in Workers : \A F : Closes(worker_queue[v], F) => Closes(worker_queue'[v], F)
        /\ \A x \in in_flight \cup {NULL} : ~Dispatched(w, x)'
    BY <1>0, <2>1, WorkerQueueShrinks
  <2> QED
    BY <1>0, <2>1, <2>2 DEF Told
<1>2. ASSUME \A v \in Workers : worker'[v] # "READY" <=> worker[v] # "READY",
             \A v \in Workers : \A x : Dispatched(v, x)' => Dispatched(v, x),
             \A v \in Workers : Dispatched(v, NULL) => Dispatched(v, NULL)'
      PROVE  /\ \A v \in Workers : Told(v)' <=> Told(v)
             /\ \A v \in Workers : worker'[v] # "READY" =>
                   \A r \in in_flight \cup {NULL} : ~Dispatched(v, r)'
  BY <1>0, <1>2 DEF Told
<1>3. ASSUME NEW p, MaybeClose(w, worker[w], p)
      PROVE  \A v \in Workers : worker'[v] # "READY" <=> worker[v] # "READY"
  BY <1>3, MaybeCloseCases
<1>4. CASE WorkerTakesRequest(w) \/ WorkerRefusesRequest(w)
  <2>1. WorkerDequeues(w) /\ Head(worker_queue[w]) # NULL
    BY <1>4 DEF WorkerTakesRequest, WorkerRefusesRequest
  <2>2. UNCHANGED worker \/ MaybeClose(w, worker[w], DOMAIN held[w])
    BY <1>4 DEF WorkerTakesRequest, WorkerRefusesRequest
  <2>3. \A v \in Workers : worker'[v] # "READY" <=> worker[v] # "READY"
    BY <1>3, <2>2
  <2>4. /\ \A v \in Workers : \A x : Dispatched(v, x)' => Dispatched(v, x)
        /\ \A v \in Workers : Dispatched(v, NULL) => Dispatched(v, NULL)'
        /\ \A v \in Workers : \A F : Closes(worker_queue[v], F) => Closes(worker_queue'[v], F)
    BY <2>1, WorkerQueueShrinks
  <2> QED
    BY <1>2, <2>3, <2>4
<1>5. CASE \/ WorkerOnExecuteBegins(w) \/ WorkerOnExecuteEnds(w) \/ PoolStep(w)
           \/ \E r \in Requests : RequestFinished(w, r) \/ RequestRetried(w, r)
           \/ \E h \in Hosts : PoolFails(w, h) \/ PoolReconnects(w, h)
  <2>1. UNCHANGED worker_queue
    BY <1>5, Zenon
    DEF WorkerOnExecuteBegins, WorkerOnExecuteEnds, PoolStep, AddPool, PoolConnected, PoolClosed,
        PoolFails, PoolReconnects, RequestFinished, RequestRetried
  <2>2. \/ UNCHANGED worker
        \/ \E p : MaybeClose(w, worker[w], p)
        \/ \E h \in Hosts : PoolClosed(w, h)
    BY <1>5
    DEF WorkerOnExecuteBegins, WorkerOnExecuteEnds, PoolStep, AddPool, PoolConnected,
        PoolFails, PoolReconnects, RequestFinished, RequestRetried
  <2>3. ASSUME NEW h \in Hosts, PoolClosed(w, h)
        PROVE  \A v \in Workers : worker'[v] # "READY" <=> worker[v] # "READY"
    BY <1>0, <2>3 DEF PoolClosed
  <2>4. \A v \in Workers : worker'[v] # "READY" <=> worker[v] # "READY"
    BY <1>3, <2>2, <2>3
  <2> QED
    BY <1>2, <2>1, <2>4 DEF Dispatched
<1> QED
  BY <1>1, <1>4, <1>5 DEF WorkerStep, WorkerCallback

\* A worker closes after its NULL entry and with nothing left in its queue.
LEMMA HaltingWorkerSteps ==
  ASSUME SessionAssumption, Typed, Typed', Starting, Halting, NEW w \in Workers, WorkerStep(w)
  PROVE  Halting'
<1>0. /\ UNCHANGED <<connect_future, state, mutex, request_queue, thread, in_flight>>
      /\ Passing
  BY WorkerLeaves DEF Halting
<1>1. \A v \in Workers : Told(v)' <=> Told(v)
  BY <1>0, WorkerPasses
<1>2. /\ Ending' <=> Ending
      /\ ClosingNow' <=> ClosingNow
      /\ Broadcast' <=> Broadcast
      /\ \A x : (Queued(x)' <=> Queued(x)) /\ (Carries(x)' <=> Carries(x))
  BY <1>0, <1>1 DEF Ending, ClosingNow, Broadcast, Queued, Carries
<1>3. Announcing'
  BY <1>0, <1>2 DEF Halting, Announcing
<1>4. Passing'
  <2>1. \A v \in Workers : Closes(worker_queue'[v], in_flight)
    BY <1>0, WorkerPasses DEF Passing
  <2>2. \A v \in Workers : worker'[v] # "READY" => \A r \in in_flight \cup {NULL} : ~Dispatched(v, r)'
    BY <1>0, WorkerPasses
  <2>3. thread.kind = "close_async" => thread.left \in SUBSET Workers
    BY ThreadCases DEF Typed, SessionTyped
  <2> QED
    BY <1>0, <1>1, <2>1, <2>2, <2>3 DEF Passing
<1>5. Holding'
  BY HoldingWorkerSteps DEF Halting
<1> QED
  BY <1>3, <1>4, <1>5 DEF Halting

----------------------------------------------------------------------------
(* Closing: the application and the session thread *)

\* A step that reaches no worker.
LEMMA WorkersApart ==
  ASSUME Halting, UNCHANGED <<in_flight, worker, worker_queue, held, pool>>,
         UNCHANGED thread \/ thread'.kind # "close_async"
  PROVE  /\ \A w \in Workers : Told(w)' <=> Told(w)
         /\ Passing' /\ Holding'
<1>1. \A w \in Workers : Told(w)' <=> Told(w)
  BY DEF Told, Dispatched
<1>2. Passing'
  BY <1>1 DEF Halting, Passing, Dispatched, Told
<1>3. Holding'
  BY DEF Halting, Holding
<1> QED
  BY <1>1, <1>2, <1>3

\* NULL is enqueued while nobody is closing.
LEMMA NullEnqueued ==
  ASSUME SessionAssumption, Typed, Halting, PushNull, ~Queued(NULL), ~ClosingNow, ~Broadcast,
         UNCHANGED <<thread, in_flight, worker, worker_queue, held, pool>>,
         ~mutex', Ending'
  PROVE  Halting'
<1>0. NULL \notin in_flight /\ NULL \in Entries
  BY DEF Typed, AppTyped, SessionAssumption, Entries
<1>1. (\A w \in Workers : Told(w)' <=> Told(w)) /\ Passing' /\ Holding'
  BY WorkersApart
<1>2. ~ClosingNow' /\ ~Broadcast'
  BY <1>1 DEF ClosingNow, Broadcast
<1>3. Closes(request_queue', in_flight)
  <2>1. request_queue \in Seq(Entries) /\ request_queue' = Append(request_queue, NULL)
    BY DEF Typed, SessionTyped, PushNull
  <2>2. Closes(Append(request_queue, NULL), in_flight)
    BY <1>0, <2>1, AppendIn DEF Halting, Announcing, Queued
  <2> QED
    BY <2>1, <2>2
<1>4. Announcing'
  BY <1>2, <1>3 DEF Announcing
<1> QED
  BY <1>1, <1>4 DEF Halting

\* A request joins what is in flight.
LEMMA JoinFlight ==
  ASSUME NEW q, NEW F, NEW r, Closes(q, F), ~In(q, r)
  PROVE  Closes(q, F \cup {r})
  BY DEF Closes, In

\* close_async puts the NULL entry after all that was accepted.
LEMMA HaltingAppSteps ==
  ASSUME SessionAssumption, Typed, Typed', Starting, Owned, Accounted, Halting,
         ConnectAsync \/ CloseAsyncPushes \/ (\E force \in BOOLEAN : CloseAsync(force))
           \/ \E r \in Requests : ExecuteChecks(r) \/ ExecuteEnqueues(r)
  PROVE  Halting'
<1>0. NULL \notin in_flight /\ NULL \in Entries /\ Requests \subseteq Entries
      /\ NULL \notin Requests /\ Announcing /\ Passing /\ Holding
      /\ request_queue \in Seq(Entries)
  BY DEF Typed, AppTyped, SessionTyped, SessionAssumption, Entries, Halting
<1>1. CASE ConnectAsync
  <2>1. /\ UNCHANGED <<in_flight, mutex, request_queue, worker, worker_queue, held, pool>>
        /\ ~mutex /\ connect_future = "none" /\ thread' = Waiting
    BY <1>1 DEF ConnectAsync, workers
  <2>2. (\A w \in Workers : Told(w)' <=> Told(w)) /\ Passing' /\ Holding'
    BY <2>1, WorkersApart DEF Waiting
  <2>3. ~Ending /\ ~ClosingNow' /\ thread'.kind # "close_async"
    BY <2>1 DEF Ending, ClosingNow, Waiting
  <2>4. ~Queued(NULL) /\ ~Broadcast
    BY <1>0, <2>3 DEF Announcing
  <2>5. ~Queued(NULL)' /\ ~Broadcast'
    BY <2>1, <2>2, <2>3, <2>4 DEF Queued, Broadcast
  <2>6. Announcing'
    BY <1>0, <2>1, <2>3, <2>5 DEF Announcing
  <2> QED
    BY <2>2, <2>6 DEF Halting
<1>2. CASE CloseAsyncPushes
  <2>1. /\ PushNull /\ mutex /\ ~mutex'
        /\ UNCHANGED <<state, connect_future, thread, in_flight, worker, worker_queue, held, pool>>
    BY <1>2 DEF CloseAsyncPushes, app, workers
  <2>2. ~Queued(NULL) /\ ~ClosingNow /\ ~Broadcast /\ Ending
    BY <1>0, <2>1 DEF Announcing
  <2>3. Ending'
    BY <2>1, <2>2 DEF Ending
  <2> QED
    BY <2>1, <2>2, <2>3, NullEnqueued
<1>3. ASSUME NEW force \in BOOLEAN, CloseAsync(force)
      PROVE  Halting'
  <2>1. /\ UNCHANGED <<connect_future, thread, in_flight, request_queue, worker, worker_queue, held, pool>>
        /\ state \in {"CONNECTED", "CONNECTING"} /\ state' = "CLOSING"
        /\ mutex' => state = "CONNECTED"
    BY <1>3 DEF CloseAsync, workers
  <2>2. (\A w \in Workers : Told(w)' <=> Told(w)) /\ Passing' /\ Holding'
    BY <2>1, WorkersApart
  <2>3. ~Ending
    BY <2>1 DEF Ending
  <2>4. ~Queued(NULL) /\ ~Broadcast /\ ~ClosingNow
    BY <1>0, <2>3 DEF Announcing
  <2>5. ~Queued(NULL)' /\ ~Broadcast' /\ ~ClosingNow'
    BY <2>1, <2>2, <2>4 DEF Queued, Broadcast, ClosingNow
  <2>6. mutex' => Ending'
    BY <2>1 DEF Ending, Starting
  <2>7. Announcing'
    BY <1>0, <2>1, <2>5, <2>6 DEF Announcing
  <2> QED
    BY <2>2, <2>7 DEF Halting
<1>4. ASSUME NEW r \in Requests, ExecuteChecks(r)
      PROVE  Halting'
  <2>1. UNCHANGED <<connect_future, in_flight, session, workers>>
    BY <1>4 DEF ExecuteChecks
  <2>2. (\A w \in Workers : Told(w)' <=> Told(w)) /\ Passing' /\ Holding'
    BY <2>1, WorkersApart DEF session, workers
  <2>3. Announcing'
    BY <1>0, <2>1, <2>2 DEF Announcing, Ending, Queued, ClosingNow, Broadcast, Carries, session
  <2> QED
    BY <2>2, <2>3 DEF Halting
<1>5. ASSUME NEW r \in Requests, ExecuteEnqueues(r)
      PROVE  Halting'
  <2>1. /\ UNCHANGED <<connect_future, state, mutex, thread, worker, worker_queue, held, pool>>
        /\ UNCHANGED in_flight \/ (state = "CONNECTED" /\ in_flight' = in_flight \cup {r})
        /\ request_queue' = Append(request_queue, r) \/ UNCHANGED <<request_queue, in_flight>>
    BY <1>5 DEF ExecuteEnqueues, workers
  <2>2. ~Somewhere(r) /\ answers[r] = 0 /\ r \notin in_flight
    BY <1>5 DEF ExecuteEnqueues, Owned, OwnedOnce, Accounted
  <2>3. \A w \in Workers : Told(w)' <=> Told(w)
    BY <2>1 DEF Told, Dispatched
  <2>4. /\ Ending' <=> Ending
        /\ ClosingNow' <=> ClosingNow
        /\ Broadcast' <=> Broadcast
        /\ \A x : Carries(x)' <=> Carries(x)
    BY <2>1, <2>3 DEF Ending, ClosingNow, Broadcast, Carries
  <2>5. state = "CONNECTED" => ~Queued(NULL) /\ ~ClosingNow /\ ~Broadcast
    BY <1>0 DEF Announcing, Ending
  <2>6. Passing'
    <3>1. \A w \in Workers : Closes(worker_queue[w], in_flight \cup {r})
      BY <2>2, JoinFlight DEF Halting, Passing, Somewhere, Dispatched
    <3>2. \A w \in Workers : Closes(worker_queue'[w], in_flight')
      BY <2>1, <3>1 DEF Halting, Passing
    <3>3. \A w \in Workers : \A x : Dispatched(w, x)' <=> Dispatched(w, x)
      BY <2>1 DEF Dispatched
    <3>4. \A w \in Workers : ~Dispatched(w, r)
      BY <2>2 DEF Somewhere
    <3>5. thread.kind = "close_async" => thread.left \in SUBSET Workers
      BY ThreadCases DEF Typed, SessionTyped
    <3> QED
      BY <1>0, <2>1, <2>3, <3>2, <3>3, <3>4, <3>5 DEF Passing
  <2>7. Holding'
    BY <2>1 DEF Halting, Holding
  <2>8. Announcing'
    <3>1. CASE UNCHANGED <<request_queue, in_flight>>
      BY <1>0, <2>1, <2>4, <3>1 DEF Announcing, Queued
    <3>2. CASE request_queue' = Append(request_queue, r)
      <4>1. /\ \A x : Queued(x)' <=> (Queued(x) \/ x = r)
            /\ ~Queued(NULL) => Closes(request_queue', in_flight \cup {r})
            /\ Closes(request_queue', in_flight)
        <5>1. \A x : Queued(x)' <=> (Queued(x) \/ x = r)
          BY <1>0, <3>2, RequestQueueGrows
        <5>2. ~Queued(NULL) => Closes(Append(request_queue, r), in_flight \cup {r})
          BY <1>0, AppendIn DEF Announcing, Queued
        <5>3. Closes(Append(request_queue, r), in_flight)
          BY <1>0, <2>2, AppendIn DEF Announcing
        <5> QED
          BY <3>2, <5>1, <5>2, <5>3
      <4>2. Queued(NULL)' => Queued(NULL)
        BY <1>0, <4>1
      <4>3. Closes(request_queue', in_flight')
        BY <2>1, <2>5, <4>1
      <4>4. ClosingNow \/ Broadcast => in_flight' = in_flight
        BY <2>1, <2>5
      <4> QED
        BY <1>0, <2>1, <2>2, <2>4, <4>1, <4>2, <4>3, <4>4 DEF Announcing
    <3> QED
      BY <2>1, <3>1, <3>2
  <2> QED
    BY <2>6, <2>7, <2>8 DEF Halting
<1> QED
  BY <1>1, <1>2, <1>3, <1>4, <1>5

\* Handling an event of the session does not overtake the NULL entry.
LEMMA HaltingEventSteps ==
  ASSUME SessionAssumption, Typed, Typed', Starting, Halting,
         OnConnect \/ OnControlConnectionReady \/ OnControlConnectionError
           \/ OnNotifyReady \/ OnNotifyWorkerClosed \/ OnAfterRun
  PROVE  Halting'
<1>0. Announcing
  BY DEF Halting
<1>1. UNCHANGED <<in_flight, worker, worker_queue, held, pool>>
  BY Zenon
  DEF OnConnect, OnControlConnectionReady, OnControlConnectionError, OnNotifyReady,
      OnNotifyWorkerClosed, OnAfterRun, app, workers
<1>2. /\ UNCHANGED thread \/ thread' \in {Closed, NoThread}
      /\ thread \in {Waiting, Closed}
  BY Zenon
  DEF OnConnect, OnControlConnectionReady, OnControlConnectionError, OnNotifyReady,
      OnNotifyWorkerClosed, OnAfterRun, OnEvent
<1>3. /\ thread'.kind \notin {"close_async", "on_execute"}
      /\ thread.kind \notin {"close_async", "on_execute"}
  BY <1>2 DEF Waiting, Closed, NoThread
<1>4. (\A w \in Workers : Told(w)' <=> Told(w)) /\ Passing' /\ Holding'
  BY <1>1, <1>3, WorkersApart
<1>5. ~ClosingNow /\ ~ClosingNow' /\ (Broadcast' <=> Broadcast)
  BY <1>3, <1>4 DEF ClosingNow, Broadcast
<1>6. CASE PushNull /\ connect_future = "unset" /\ connect_future' \in {"set", "error"} /\ ~mutex'
           /\ UNCHANGED thread /\ state' \in {"CLOSING", "CLOSED"}
  <2>1. ~Ending /\ Ending'
    BY <1>6 DEF Ending
  <2>2. ~Queued(NULL) /\ ~Broadcast
    BY <1>0, <2>1 DEF Announcing
  <2> QED
    BY <1>1, <1>5, <1>6, <2>1, <2>2, NullEnqueued
<1>7. CASE UNCHANGED request_queue /\ (Ending => Ending') /\ (mutex' => mutex /\ state' = state)
  <2>1. \A x : (Queued(x)' <=> Queued(x)) /\ ~Carries(x)'
    BY <1>3, <1>7 DEF Queued, Carries
  <2> QED
    BY <1>0, <1>1, <1>4, <1>5, <1>7, <2>1 DEF Announcing, Halting
<1>8. CASE OnConnect
  <2>1. OnEvent("CONNECT")
    BY <1>8 DEF OnConnect
  <2>2. connect_future = "unset"
    BY <2>1, EventTaken DEF Starting
  <2> QED
    BY <1>6, <1>7, <1>8, <2>2 DEF OnConnect, NotifyConnectError, Ending
<1>9. CASE OnControlConnectionReady
  BY <1>7, <1>9 DEF OnControlConnectionReady, Ending, app
<1>10. CASE OnControlConnectionError
  <2>1. connect_future = "unset"
    BY <1>10 DEF OnControlConnectionError, Starting
  <2> QED
    BY <1>6, <1>10, <2>1 DEF OnControlConnectionError, NotifyConnectError
<1>11. CASE OnNotifyReady
  <2>1. OnEvent("NOTIFY_READY")
    BY <1>11 DEF OnNotifyReady
  <2>2. CASE pending_pool_count = 1
    <3>1. connect_future = "unset"
      BY <2>1, <2>2, EventTaken DEF Starting, Typed, AppTyped
    <3>2. state # "CONNECTED" /\ state \in {"CLOSED", "CONNECTING", "CONNECTED", "CLOSING"}
      BY <3>1 DEF Starting, Typed, SessionTyped
    <3>3. CASE state = "CONNECTING"
      BY <1>7, <1>11, <2>2, <3>1, <3>3 DEF OnNotifyReady, NotifyConnected, Ending
    <3>4. CASE state # "CONNECTING"
      BY <1>6, <1>11, <2>2, <3>1, <3>2, <3>4 DEF OnNotifyReady, NotifyConnected
    <3> QED
      BY <3>3, <3>4
  <2>3. CASE pending_pool_count # 1
    BY <1>7, <1>11, <2>3 DEF OnNotifyReady, Ending
  <2> QED
    BY <2>2, <2>3
<1>12. CASE OnNotifyWorkerClosed
  BY <1>7, <1>12 DEF OnNotifyWorkerClosed, Ending, app
<1>13. CASE OnAfterRun
  BY <1>7, <1>13 DEF OnAfterRun, Ending
<1> QED
  BY <1>8, <1>9, <1>10, <1>11, <1>12, <1>13

\* on_execute passes the NULL entry on after all that came before it.
LEMMA HaltingExecuteSteps ==
  ASSUME SessionAssumption, Typed, Typed', Owned, Halting,
         OnExecuteBegins \/ OnExecuteDequeues \/ OnExecuteDispatches \/ OnExecuteGivesUp
           \/ OnExecuteEnds
           \/ \E w \in Workers : OnExecuteFindsWorker(w) \/ OnExecuteClosesWorker(w)
  PROVE  Halting'
<1>0. /\ ThreadTyped /\ NULL \notin Requests /\ NULL \in Entries /\ Entries \ {NULL} \subseteq Requests
      /\ NULL \notin in_flight /\ in_flight \subseteq Requests
      /\ Announcing /\ Passing /\ Holding
  BY DEF Typed, AppTyped, SessionTyped, SessionAssumption, Entries, Halting
<1>1. UNCHANGED <<connect_future, state, mutex, in_flight, worker, held, pool>>
  BY Zenon
  DEF OnExecuteBegins, OnExecuteDequeues, OnExecuteDispatches, OnExecuteGivesUp, OnExecuteEnds,
      OnExecuteFindsWorker, OnExecuteClosesWorker, app, workers
<1>2. Holding' /\ (Ending' <=> Ending)
  BY <1>0, <1>1 DEF Holding, Ending
<1>3. CASE OnExecuteBegins \/ OnExecuteGivesUp \/ \E w \in Workers : OnExecuteFindsWorker(w)
  <2>1. /\ UNCHANGED <<request_queue, worker_queue>>
        /\ thread'.kind = "on_execute" /\ thread.kind # "close_async"
        /\ ClosingNow' <=> ClosingNow
        /\ \A x \in Requests : Carries(x)' => Carries(x)
    BY <1>0, <1>3
    DEF OnExecuteBegins, OnExecuteGivesUp, OnExecuteFindsWorker, Dispatching, OnExecute, Waiting,
        ClosingNow, Carries, workers
  <2>2. (\A w \in Workers : Told(w)' <=> Told(w)) /\ Passing'
    BY <1>1, <2>1, WorkersApart
  <2>3. Broadcast' <=> Broadcast
    BY <2>1, <2>2 DEF Broadcast
  <2>4. Announcing'
    BY <1>0, <1>1, <1>2, <2>1, <2>3 DEF Announcing, Queued
  <2> QED
    BY <1>2, <2>2, <2>4 DEF Halting
<1>4. CASE OnExecuteDequeues
  <2>1. PICK e \in Entries : e = Head(request_queue)
    BY <1>4, RequestQueueShrinks DEF OnExecuteDequeues
  <2>2. /\ \A x : Queued(x) <=> (Queued(x)' \/ x = e)
        /\ Closes(request_queue', in_flight)
        /\ e = NULL => \A x \in in_flight \cup {NULL} : ~Queued(x)'
    BY <1>0, <1>4, <2>1, RequestQueueShrinks DEF OnExecuteDequeues, Announcing
  <2>3. /\ UNCHANGED worker_queue /\ thread.kind = "on_execute" /\ thread'.kind = "on_execute"
        /\ e = NULL => ClosingNow'
        /\ e # NULL => (ClosingNow' <=> ClosingNow)
        /\ \A x \in Requests : Carries(x)' => x = e
    BY <1>0, <1>4, <2>1
    DEF OnExecuteDequeues, BetweenRequests, OnExecute, ClosingNow, Carries, workers
  <2>4. (\A w \in Workers : Told(w)' <=> Told(w)) /\ Passing'
    BY <1>1, <2>3, WorkersApart
  <2>5. Broadcast' <=> Broadcast
    BY <2>3, <2>4 DEF Broadcast
  <2>6. Announcing'
    BY <1>0, <1>1, <1>2, <2>2, <2>3, <2>5 DEF Announcing
  <2> QED
    BY <1>2, <2>4, <2>6 DEF Halting
<1>5. CASE OnExecuteDispatches
  <2>1. PICK w \in Workers, r \in Requests : w = thread.target /\ r = thread.request
    BY <1>0, <1>5, ThreadCases DEF OnExecuteDispatches, Dispatching
  <2>2. /\ UNCHANGED request_queue /\ thread.kind = "on_execute" /\ thread'.kind = "on_execute"
        /\ ClosingNow' <=> ClosingNow
        /\ \A x \in Requests : Carries(x)' => Carries(x)
        /\ Carries(r)
    BY <1>0, <1>5, <2>1 DEF OnExecuteDispatches, Dispatching, OnExecute, ClosingNow, Carries
  <2>3. \/ UNCHANGED worker_queue
        \/ worker_queue' = [worker_queue EXCEPT ![w] = Append(@, r)]
    BY <1>5, <2>1 DEF OnExecuteDispatches
  <2>4. (\A v \in Workers : Told(v)' <=> Told(v)) /\ Passing'
    <3>1. CASE UNCHANGED worker_queue
      BY <1>1, <2>2, <3>1, WorkersApart
    <3>2. CASE worker_queue' = [worker_queue EXCEPT ![w] = Append(@, r)]
      <4>1. \A v \in Workers : \A x : Dispatched(v, x)' <=> (Dispatched(v, x) \/ (v = w /\ x = r))
        BY <1>0, <3>2, WorkerQueueGrows DEF Entries
      <4>2. \A v \in Workers : Told(v)' <=> Told(v)
        BY <1>0, <1>1, <4>1 DEF Told
      <4>3. r \in in_flight => ~Told(w)
        BY <1>0, <2>2 DEF Announcing, Broadcast
      <4>4. Closes(worker_queue'[w], in_flight)
        <5>1. /\ worker_queue[w] \in Seq(Entries) /\ worker_queue'[w] = Append(worker_queue[w], r)
              /\ Closes(worker_queue[w], in_flight) /\ r \in Entries /\ r # NULL
          BY <1>0, <3>2 DEF Typed, WorkersTyped, Passing, Entries
        <5>2. CASE r \in in_flight
          <6>1. ~In(worker_queue[w], NULL)
            BY <4>3, <5>2 DEF Told, Dispatched
          <6> QED
            BY <1>0, <5>1, <6>1, AppendBeforeNull
        <5>3. CASE r \notin in_flight
          BY <5>1, <5>3, AppendIn
        <5> QED
          BY <5>2, <5>3
      <4>5. \A v \in Workers : Closes(worker_queue'[v], in_flight)
        BY <1>0, <3>2, <4>4 DEF Passing, Typed, WorkersTyped
      <4>6. \A v \in Workers : worker[v] # "READY" =>
              \A x \in in_flight \cup {NULL} : ~Dispatched(v, x)'
        BY <1>0, <4>1, <4>3 DEF Passing, Told
      <4> QED
        BY <1>1, <2>2, <4>2, <4>5, <4>6 DEF Passing
    <3> QED
      BY <2>3, <3>1, <3>2
  <2>5. Broadcast' <=> Broadcast
    BY <2>2, <2>4 DEF Broadcast
  <2>6. Announcing'
    BY <1>0, <1>1, <1>2, <2>2, <2>5 DEF Announcing, Queued
  <2> QED
    BY <1>2, <2>4, <2>6 DEF Halting
<1>6. CASE OnExecuteEnds
  <2>1. /\ UNCHANGED <<request_queue, worker_queue>> /\ request_queue = <<>>
        /\ thread.kind = "on_execute" /\ ~ClosingNow'
        /\ \A x \in Requests : ~Carries(x)'
        /\ \/ thread'.kind = "loop"
           \/ ClosingNow /\ thread'.kind = "close_async" /\ thread'.left = Workers
    BY <1>6
    DEF OnExecuteEnds, BetweenRequests, Waiting, CloseWorkers, ClosingNow, Carries, workers
  <2>2. \A x : ~Queued(x)'
    BY <2>1 DEF Queued, In
  <2>3. \A w \in Workers : Told(w)' <=> Told(w)
    BY <1>1, <2>1 DEF Told, Dispatched
  <2>4. CASE thread'.kind = "loop"
    <3>1. Passing' /\ (Broadcast' <=> Broadcast)
      BY <1>1, <2>1, <2>3, <2>4, WorkersApart DEF Broadcast
    <3> QED
      BY <1>0, <1>1, <1>2, <2>1, <2>2, <3>1 DEF Announcing, Halting
  <2>5. CASE ClosingNow /\ thread'.kind = "close_async" /\ thread'.left = Workers
    <3>1. Ending /\ ~Broadcast /\ ~mutex
      BY <1>0, <2>5 DEF Announcing
    <3>2. Passing'
      BY <1>0, <1>1, <2>1, <2>3, <2>5, <3>1 DEF Passing, Broadcast, Dispatched
    <3>3. Announcing'
      BY <1>0, <1>1, <1>2, <2>1, <2>2, <3>1 DEF Announcing
    <3> QED
      BY <1>2, <3>2, <3>3 DEF Halting
  <2> QED
    BY <2>1, <2>4, <2>5
<1>7. ASSUME NEW w \in Workers, OnExecuteClosesWorker(w)
      PROVE  Halting'
  <2>1. /\ UNCHANGED request_queue /\ thread.kind = "close_async" /\ w \in thread.left
        /\ worker_queue' = [worker_queue EXCEPT ![w] = Append(@, NULL)]
        /\ ~ClosingNow' /\ \A x \in Requests : ~Carries(x)'
        /\ \/ thread'.kind = "loop"
           \/ thread'.kind = "close_async" /\ thread'.left = thread.left \ {w}
    BY <1>7 DEF OnExecuteClosesWorker, Waiting, CloseWorkers, ClosingNow, Carries
  <2>2. Broadcast /\ Ending /\ ~Told(w) /\ \A v \in thread.left : ~Told(v)
    BY <1>0, <2>1 DEF Broadcast, Announcing, Passing
  <2>3. \A v \in Workers : \A x : Dispatched(v, x)' <=> (Dispatched(v, x) \/ (v = w /\ x = NULL))
    BY <1>0, <2>1, WorkerQueueGrows
  <2>4. \A v \in Workers : Told(v)' <=> (Told(v) \/ v = w)
    BY <1>1, <2>3 DEF Told
  <2>5. Closes(worker_queue'[w], in_flight)
    <3>1. /\ worker_queue[w] \in Seq(Entries) /\ worker_queue'[w] = Append(worker_queue[w], NULL)
          /\ Closes(worker_queue[w], in_flight) /\ ~In(worker_queue[w], NULL)
      BY <1>0, <2>1, <2>2 DEF Typed, WorkersTyped, Passing, Told, Dispatched
    <3> QED
      BY <1>0, <3>1, AppendBeforeNull
  <2>6. \A v \in Workers : Closes(worker_queue'[v], in_flight)
    BY <1>0, <2>1, <2>5 DEF Passing, Typed, WorkersTyped
  <2>7. \A v \in Workers : worker[v] # "READY" =>
          \A x \in in_flight \cup {NULL} : ~Dispatched(v, x)'
    BY <1>0, <2>2, <2>3 DEF Passing, Told
  <2>8. thread'.kind = "close_async" => \A v \in thread'.left : ~Told(v)'
    <3>1. thread.left \in SUBSET Workers
      BY <1>0, <2>1, ThreadCases
    <3> QED
      BY <2>1, <2>2, <2>4, <3>1
  <2>9. Passing'
    BY <1>1, <2>6, <2>7, <2>8 DEF Passing
  <2>10. Announcing'
    BY <1>0, <1>1, <1>2, <2>1, <2>2 DEF Announcing, Queued
  <2> QED
    BY <1>2, <2>9, <2>10 DEF Halting
<1> QED
  BY <1>3, <1>4, <1>5, <1>6, <1>7

\* No step lets a request come after the NULL entry of its queue.
LEMMA HaltingStep ==
  ASSUME SessionAssumption, Typed, Typed', Starting, Owned, Accounted, Halting, [Next]_vars
  PROVE  Halting'
<1>1. CASE UNCHANGED vars
  <2>1. UNCHANGED <<connect_future, state, mutex, request_queue, in_flight, worker, worker_queue,
                    held, pool, thread>>
    BY <1>1 DEF vars, app, session, workers
  <2>2. (\A w \in Workers : Told(w)' <=> Told(w)) /\ Passing' /\ Holding'
    BY <2>1, WorkersApart
  <2>3. Announcing'
    BY <2>1, <2>2 DEF Halting, Announcing, Ending, Queued, ClosingNow, Broadcast, Carries
  <2> QED
    BY <2>2, <2>3 DEF Halting
<1>2. CASE Done
  BY <1>1, <1>2 DEF Done
<1> QED
  BY <1>1, <1>2, HaltingAppSteps, HaltingEventSteps, HaltingExecuteSteps, HaltingWorkerSteps
  DEF Next, SessionThread, WorkerStep

----------------------------------------------------------------------------
(* The close future *)

\* An answer is not taken back.
LEMMA AnswersStay ==
  ASSUME SessionAssumption, Typed, [Next]_vars, NEW x \in Requests, answers[x] # 0
  PROVE  answers'[x] # 0
<1>0. ThreadTyped /\ Entries \ {NULL} \subseteq Requests
  BY DEF Typed, SessionTyped, Entries
<1>1. UNCHANGED answers \/ \E r \in Requests : Answer(r)
  <2>1. CASE \/ ConnectAsync \/ CloseAsyncPushes \/ (\E force \in BOOLEAN : CloseAsync(force))
             \/ \E r \in Requests : ExecuteChecks(r) \/ ExecuteEnqueues(r)
    BY <2>1 DEF ConnectAsync, CloseAsyncPushes, CloseAsync, ExecuteChecks, ExecuteEnqueues, app
  <2>2. CASE OnExecuteGivesUp
    BY <1>0, <2>2, ThreadCases DEF OnExecuteGivesUp, Dispatching
  <2>3. CASE SessionThread /\ ~OnExecuteGivesUp
    BY <2>3, Zenon
    DEF SessionThread, OnConnect, OnControlConnectionReady, OnControlConnectionError, OnNotifyReady,
        OnNotifyWorkerClosed, OnAfterRun, OnExecuteBegins, OnExecuteDequeues, OnExecuteDispatches,
        OnExecuteEnds, OnExecuteFindsWorker, OnExecuteClosesWorker, app
  <2>4. ASSUME NEW w \in Workers, WorkerRefusesRequest(w)
        PROVE  \E r \in Requests : Answer(r)
    BY <1>0, <2>4, WorkerQueueShrinks DEF WorkerRefusesRequest
  <2>5. ASSUME NEW w \in Workers, WorkerStep(w), ~WorkerRefusesRequest(w)
        PROVE  UNCHANGED answers \/ \E r \in Requests : Answer(r)
    BY <2>5, Zenon
    DEF WorkerStep, WorkerCallback, PoolStep, WorkerOnExecuteBegins, WorkerTakesRequest,
        WorkerTakesNull, WorkerOnExecuteEnds, RequestFinished, RequestRetried, AddPool,
        PoolConnected, PoolClosed, PoolFails, PoolReconnects, app
  <2>6. CASE UNCHANGED vars \/ Done
    BY <2>6 DEF vars, app, Done
  <2> QED
    BY <2>1, <2>2, <2>3, <2>4, <2>5, <2>6 DEF Next, WorkerStep
<1> QED
  BY <1>1, AnswerStays DEF Answering

\* on_after_run sets the close future when every worker is closed: then
\* nothing that was in flight is anywhere, so it was answered.
LEMMA AllAnswered ==
  ASSUME SessionAssumption, Typed, Owned, Accounted, Halting, OnAfterRun
  PROVE  \A r \in in_flight : answers[r] = 1
<1>1. thread.kind = "closed" /\ \A w \in Workers : worker[w] = "CLOSED"
  BY DEF OnAfterRun, Closed
<1>2. Broadcast
  BY <1>1 DEF Broadcast, Told, SessionAssumption
<1>3. ASSUME NEW r \in in_flight
      PROVE  answers[r] = 1
  <2>1. r \in Requests /\ answers[r] \in {0, 1}
    BY DEF Typed, AppTyped, Owned, OwnedOnce
  <2>2. ~Queued(r) /\ ~Carries(r)
    BY <1>2, <2>1 DEF Halting, Announcing
  <2>3. \A w \in Workers : ~Dispatched(w, r)
    BY <1>1 DEF Halting, Passing
  <2>4. ASSUME NEW w \in Workers
        PROVE  ~Holds(w, r)
    <3>1. \A h \in Hosts : pool[w][h] = "none"
      BY <1>1 DEF Halting, Holding
    <3>2. ASSUME r \in DOMAIN held[w]
          PROVE  held[w][r] \in Hosts /\ pool[w][held[w][r]] \in {"READY", "CLOSING"}
      BY <3>2 DEF Halting, Holding, Typed, WorkersTyped, HeldTyped
    <3> QED
      BY <3>1, <3>2 DEF Holds
  <2> QED
    BY <2>1, <2>2, <2>3, <2>4 DEF Accounted, Somewhere
<1> QED
  BY <1>3

\* When the close future is set, everything in flight has been answered.
LEMMA FinishingStep ==
  ASSUME SessionAssumption, Typed, Typed', Starting, Owned, Owned', Accounted, Halting, Finishing,
         [Next]_vars
  PROVE  Finishing'
<1>1. CASE OnAfterRun
  <2>1. connect_future' # "none" /\ UNCHANGED <<in_flight, answers>>
    BY <1>1 DEF OnAfterRun, Starting, Closed, NoThread
  <2> QED
    BY <1>1, <2>1, AllAnswered DEF OnAfterRun, Finishing
<1>2. ASSUME ~OnAfterRun, close_future' = "set"
      PROVE  Finishing'
  <2>1. /\ close_future = "set"
        /\ close_future = "set" =>
             UNCHANGED state /\ UNCHANGED connect_future /\ UNCHANGED thread /\ UNCHANGED in_flight
    <3>1. CASE ConnectAsync \/ CloseAsyncPushes \/ (\E force \in BOOLEAN : CloseAsync(force))
      BY <1>2, <3>1
      DEF ConnectAsync, CloseAsyncPushes, CloseAsync, app, Finishing
    <3>2. ASSUME NEW r \in Requests, ExecuteChecks(r) \/ ExecuteEnqueues(r)
          PROVE  /\ close_future = "set"
                 /\ close_future = "set" =>
                    UNCHANGED state /\ UNCHANGED connect_future /\ UNCHANGED thread /\ UNCHANGED in_flight
      BY <1>2, <3>2 DEF ExecuteChecks, ExecuteEnqueues, Finishing, session
    <3>3. CASE SessionThread
      <4>1. close_future' = close_future
        BY <1>2, <3>3, Zenon
        DEF SessionThread, OnConnect, OnControlConnectionReady, OnControlConnectionError, OnNotifyReady,
            OnNotifyWorkerClosed, OnExecuteBegins, OnExecuteDequeues, OnExecuteDispatches,
            OnExecuteGivesUp, OnExecuteEnds, OnExecuteFindsWorker, OnExecuteClosesWorker, app
      <4>2. thread = Waiting \/ thread.kind = "on_execute" \/ thread.kind = "close_async"
        BY <1>2, <3>3, Zenon
        DEF SessionThread, OnConnect, OnControlConnectionReady, OnControlConnectionError, OnNotifyReady,
            OnNotifyWorkerClosed, OnEvent, OnExecuteBegins, OnExecuteDequeues, OnExecuteDispatches,
            OnExecuteGivesUp, OnExecuteEnds, OnExecuteFindsWorker, OnExecuteClosesWorker,
            Dispatching, BetweenRequests
      <4>3. thread # NoThread
        BY <4>2 DEF Waiting, NoThread
      <4> QED
        BY <1>2, <4>1, <4>3 DEF Finishing
    <3>4. ASSUME NEW w \in Workers, WorkerStep(w)
          PROVE  /\ close_future = "set"
                 /\ close_future = "set" =>
                    UNCHANGED state /\ UNCHANGED connect_future /\ UNCHANGED thread /\ UNCHANGED in_flight
      BY <1>2, <3>4, WorkerLeaves
    <3>5. CASE UNCHANGED vars \/ Done
      BY <1>2, <3>5 DEF vars, app, session, Done
    <3> QED
      BY <3>1, <3>2, <3>3, <3>4, <3>5 DEF Next, WorkerStep
  <2>2. \A r \in in_flight : r \in Requests /\ answers'[r] \in {0, 1}
    BY DEF Owned, OwnedOnce, Typed, AppTyped
  <2>3. \A r \in in_flight : answers'[r] # 0
    BY <2>1, <2>2, AnswersStay DEF Finishing
  <2> QED
    BY <2>1, <2>2, <2>3 DEF Finishing
<1> QED
  BY <1>1, <1>2 DEF Finishing

----------------------------------------------------------------------------
(* The close waits for what is in flight *)

Closing == Typed /\ Starting /\ Owned /\ Accounted /\ Halting /\ Finishing

\* A session that was not connected is not closing either.
LEMMA ClosingInit ==
  ASSUME SessionAssumption, Init
  PROVE  Closing
<1>1. Typed
  BY TypedInit
<1>2. /\ \A x : ~In(<<>>, x)
      /\ \A x : Once(<<>>, x)
      /\ \A F : Closes(<<>>, F)
  BY DEF In, Once, Closes
<1>3. Starting
  BY <1>2 DEF Init, Starting
<1>4. /\ \A x : ~Queued(x) /\ \A w \in Workers : ~Dispatched(w, x)
      /\ thread.kind = "none"
      /\ \A w \in Workers : DOMAIN held[w] = {}
  BY <1>2 DEF Init, Queued, Dispatched, NoThread
<1>5. Owned
  BY <1>2, <1>4 DEF Init, Owned, OwnedOnce, Somewhere, Carries, Holds
<1>6. Accounted
  BY DEF Init, Accounted
<1>7. Announcing
  <2>1. ~ClosingNow /\ ~Broadcast
    BY <1>4 DEF Init, ClosingNow, Broadcast, Told
  <2> QED
    BY <1>2, <1>4, <2>1 DEF Init, Announcing
<1>8. Passing
  BY <1>2, <1>4 DEF Init, Passing
<1>9. Holding
  BY <1>4 DEF Init, Holding
<1>10. Finishing
  BY DEF Init, Finishing
<1> QED
  BY <1>1, <1>3, <1>5, <1>6, <1>7, <1>8, <1>9, <1>10 DEF Closing, Halting

\* What closing relies on is kept by every step.
LEMMA ClosingStep ==
  ASSUME SessionAssumption, Closing, [Next]_vars
  PROVE  Closing'
<1>1. Typed' /\ Starting' /\ Accounted'
  BY TypedStep, StartingStep, AccountedStep DEF Closing
<1>2. Owned' /\ Halting'
  BY <1>1, OwnedStep, HaltingStep DEF Closing
<1>3. Finishing'
  BY <1>1, <1>2, FinishingStep DEF Closing
<1> QED
  BY <1>1, <1>2, <1>3 DEF Closing

\* cass_session_close, for any number of requests, workers and hosts and any
\* queue sizes: when Session::notify_closed sets the close future, each request
\* that the connected session accepted was answered, once.
THEOREM CloseWaits ==
  ASSUME SessionAssumption
  PROVE  Spec => []InFlightFinishes
<1>1. Init => Closing
  BY ClosingInit
<1>2. Closing /\ [Next]_vars => Closing'
  BY ClosingStep
<1>3. Closing => InFlightFinishes
  BY DEF Closing, Finishing, InFlightFinishes
<1> QED
  BY <1>1, <1>2, <1>3, PTL DEF Spec

----------------------------------------------------------------------------
(* Counting events *)

\* The events of a kind in a queue are finitely many.
LEMMA CountType ==
  ASSUME NEW S, NEW q \in Seq(S), NEW e
  PROVE  IsFiniteSet(Where(q, e)) /\ Count(q, e) \in Nat
<1>1. IsFiniteSet(1..Len(q)) /\ DOMAIN q = 1..Len(q)
  BY LenProperties, FS_Interval
<1>2. Where(q, e) \in SUBSET (1..Len(q))
  BY <1>1 DEF Where
<1> QED
  BY <1>1, <1>2, FS_Subset, FS_CardinalityType DEF Count

\* There is one of the events less that was taken, and as many of the others.
LEMMA CountTail ==
  ASSUME NEW S, NEW q \in Seq(S), q # <<>>, NEW e
  PROVE  Count(Tail(q), e) = IF Head(q) = e THEN Count(q, e) - 1 ELSE Count(q, e)
<1> DEFINE t == Tail(q)
           W == Where(q, e) \ {1}
           V == Where(t, e)
           f == [k \in V |-> k + 1]
<1>1. /\ t \in Seq(S) /\ Len(q) \in Nat \ {0} /\ Head(q) = q[1]
      /\ DOMAIN q = 1..Len(q) /\ DOMAIN t = 1..(Len(q) - 1)
      /\ \A k \in 1..(Len(q) - 1) : t[k] = q[k + 1]
  BY TailFacts
<1>2. IsFiniteSet(Where(q, e)) /\ IsFiniteSet(V) /\ Count(q, e) \in Nat
  BY <1>1, CountType
<1>3. /\ \A k \in V : k \in Int /\ k + 1 \in W
      /\ \A k \in W : k - 1 \in V /\ (k - 1) + 1 = k
  BY <1>1 DEF Where
<1>4. f \in [V -> W] /\ \A a, b \in V : f[a] = f[b] => a = b
  BY <1>3
<1>5. \A k \in W : \E j \in V : f[j] = k
  BY <1>3
<1>6. f \in Bijection(V, W)
  BY <1>4, <1>5 DEF Bijection, Injection, Surjection, IsInjective
<1>7. Cardinality(W) = Cardinality(V)
  BY <1>2, <1>6, FS_Bijection DEF ExistsBijection
<1>8. 1 \in Where(q, e) <=> Head(q) = e
  BY <1>1 DEF Where
<1>9. Cardinality(W) = IF 1 \in Where(q, e) THEN Cardinality(Where(q, e)) - 1 ELSE Cardinality(Where(q, e))
  BY <1>2, FS_RemoveElement
<1> QED
  BY <1>7, <1>8, <1>9 DEF Count

\* There are n more of the events that were announced.
LEMMA CountNotify ==
  ASSUME events \in Seq(Events), NEW e \in Events, NEW n \in Nat, Notify(e, n)
  PROVE  /\ Count(events', e) = Count(events, e) + n
         /\ \A x : x # e => Count(events', x) = Count(events, x)
<1> DEFINE m == Len(events)
           more == (m + 1)..(m + n)
<1>1. /\ DOMAIN events = 1..m /\ DOMAIN events' = 1..(m + n) /\ m \in Nat
      /\ \A k \in 1..m : events'[k] = events[k]
      /\ \A k \in more : events'[k] = e
  BY NotifyFacts, LenProperties
<1>2. \A k \in 1..(m + n) : k \in 1..m \/ k \in more
  BY <1>1
<1>3. \A k \in more : k \in 1..(m + n) /\ k \notin 1..m
  BY <1>1
<1>4. Where(events', e) = Where(events, e) \cup more
  BY <1>1, <1>2, <1>3 DEF Where
<1>5. \A x : x # e => Where(events', x) = Where(events, x)
  BY <1>1, <1>2, <1>3 DEF Where
<1>6. Where(events, e) \cap more = {}
  BY <1>1, <1>3 DEF Where
<1>7. IsFiniteSet(more) /\ Cardinality(more) = n
  <2>1. m + 1 \in Int /\ m + n \in Int
    BY <1>1
  <2>2. /\ IsFiniteSet(more)
        /\ Cardinality(more) = IF m + 1 > m + n THEN 0 ELSE (m + n) - (m + 1) + 1
    BY <2>1, FS_Interval
  <2>3. CASE n = 0
    BY <1>1, <2>2, <2>3
  <2>4. CASE n > 0
    BY <1>1, <2>2, <2>4
  <2> QED
    BY <2>3, <2>4
<1>8. IsFiniteSet(Where(events, e)) /\ Count(events, e) \in Nat
  BY CountType
<1> HIDE DEF more
<1>9. Cardinality(Where(events, e) \cup more) = Cardinality(Where(events, e)) + n
  <2>1. Cardinality(Where(events, e) \cup more)
          = Cardinality(Where(events, e)) + Cardinality(more) - Cardinality(Where(events, e) \cap more)
    BY <1>7, <1>8, FS_Union
  <2>2. Cardinality(Where(events, e) \cap more) = 0
    BY <1>6, FS_EmptySet, Zenon
  <2> QED
    BY <1>7, <1>8, <2>1, <2>2 DEF Count
<1> QED
  BY <1>4, <1>5, <1>9 DEF Count

\* CONNECT is not one of the reports.
LEMMA CountAppend ==
  ASSUME events \in Seq(Events), NEW e \in Events, events' = Append(events, e), NEW x, x # e
  PROVE  Count(events', x) = Count(events, x)
<1>1. Where(events', x) = Where(events, x)
  <2>1. /\ DOMAIN events = 1..Len(events) /\ DOMAIN events' = 1..(Len(events) + 1)
        /\ events'[Len(events) + 1] = e /\ Len(events) \in Nat
        /\ \A k \in 1..Len(events) : events'[k] = events[k]
    BY AppendFacts, LenProperties
  <2>2. \A k \in 1..(Len(events) + 1) : k \in 1..Len(events) \/ k = Len(events) + 1
    BY <2>1
  <2>3. \A k \in 1..Len(events) : k \in 1..(Len(events) + 1)
    BY <2>1
  <2> QED
    BY <2>1, <2>2, <2>3 DEF Where
<1> QED
  BY <1>1 DEF Count

----------------------------------------------------------------------------
(* Workers that report that they are closed *)

\* A worker closes by announcing it, and no step reopens one.
LEMMA WorkerCloses ==
  ASSUME SessionAssumption, Typed, Passing, NEW w \in Workers, WorkerStep(w)
  PROVE  \/ /\ OpenWorkers' = OpenWorkers
            /\ Count(events', "NOTIFY_WORKER_CLOSED") = Count(events, "NOTIFY_WORKER_CLOSED")
         \/ /\ w \in OpenWorkers /\ OpenWorkers' = OpenWorkers \ {w} /\ worker[w] = "CLOSING"
            /\ Count(events', "NOTIFY_WORKER_CLOSED") = Count(events, "NOTIFY_WORKER_CLOSED") + 1
<1>0. /\ worker \in [Workers -> {"READY", "CLOSING", "CLOSED"}] /\ events \in Seq(Events)
      /\ "NOTIFY_WORKER_CLOSED" \in Events /\ "NOTIFY_READY" \in Events
      /\ Count(events, "NOTIFY_WORKER_CLOSED") \in Nat
  BY CountType DEF Typed, SessionTyped, WorkersTyped, Events
<1>1. CASE UNCHANGED <<worker, events>>
  BY <1>1 DEF OpenWorkers
<1>2. CASE WorkerOnExecuteBegins(w) \/ WorkerTakesRequest(w)
           \/ \E r \in Requests : RequestRetried(w, r)
  BY <1>1, <1>2 DEF WorkerOnExecuteBegins, WorkerTakesRequest, RequestRetried, session
<1>3. CASE WorkerTakesNull(w)
  <2>1. /\ WorkerDequeues(w) /\ Head(worker_queue[w]) = NULL /\ UNCHANGED events
        /\ worker'[w] = "CLOSING" /\ \A v \in Workers \ {w} : worker'[v] = worker[v]
    BY <1>0, <1>3 DEF WorkerTakesNull, session
  <2>2. Dispatched(w, NULL)
    BY <2>1, WorkerQueueShrinks
  <2>3. worker[w] = "READY"
    BY <2>2 DEF Passing
  <2> QED
    BY <2>1, <2>3 DEF OpenWorkers
<1>4. ASSUME NEW p, MaybeClose(w, worker[w], p)
      PROVE  \/ /\ OpenWorkers' = OpenWorkers
                /\ Count(events', "NOTIFY_WORKER_CLOSED") = Count(events, "NOTIFY_WORKER_CLOSED")
             \/ /\ w \in OpenWorkers /\ OpenWorkers' = OpenWorkers \ {w} /\ worker[w] = "CLOSING"
                /\ Count(events', "NOTIFY_WORKER_CLOSED") = Count(events, "NOTIFY_WORKER_CLOSED") + 1
  <2> DEFINE closing == {h \in Hosts : pool[w][h] \in {"CONNECTING", "READY", "CLOSING"}}
  <2>1. CASE worker[w] = "CLOSING" /\ p = {} /\ closing = {}
    <3>1. /\ worker' = [worker EXCEPT ![w] = "CLOSED"] /\ Notify("NOTIFY_WORKER_CLOSED", 1)
      BY <1>4, <2>1 DEF MaybeClose
    <3>2. Count(events', "NOTIFY_WORKER_CLOSED") = Count(events, "NOTIFY_WORKER_CLOSED") + 1
      BY <1>0, <3>1, CountNotify
    <3>3. OpenWorkers' = OpenWorkers \ {w} /\ w \in OpenWorkers
      BY <1>0, <2>1, <3>1 DEF OpenWorkers
    <3> QED
      BY <2>1, <3>2, <3>3
  <2>2. CASE worker[w] = "CLOSING" /\ p = {} /\ closing # {}
    <3>1. /\ worker' = [worker EXCEPT ![w] = "CLOSING"]
          /\ Notify("NOTIFY_READY", Cardinality(Announced(w)))
      BY <1>4, <2>2 DEF MaybeClose
    <3>2. Count(events', "NOTIFY_WORKER_CLOSED") = Count(events, "NOTIFY_WORKER_CLOSED")
      BY <1>0, <3>1, CountNotify, AnnouncedFinite
    <3>3. OpenWorkers' = OpenWorkers
      BY <1>0, <2>2, <3>1 DEF OpenWorkers
    <3> QED
      BY <3>2, <3>3
  <2>3. CASE ~(worker[w] = "CLOSING" /\ p = {})
    <3>1. worker' = [worker EXCEPT ![w] = worker[w]] /\ UNCHANGED events
      BY <1>4, <2>3 DEF MaybeClose
    <3>2. worker' = worker
      BY <1>0, <3>1
    <3> QED
      BY <1>1, <3>1, <3>2
  <2> QED
    BY <2>1, <2>2, <2>3
<1>5. CASE WorkerRefusesRequest(w) \/ WorkerOnExecuteEnds(w)
           \/ \E r \in Requests : RequestFinished(w, r)
  <2>1. \E p : MaybeClose(w, worker[w], p)
    BY <1>5 DEF WorkerRefusesRequest, WorkerOnExecuteEnds, RequestFinished
  <2> QED
    BY <1>4, <2>1
<1>6. ASSUME NEW h \in Hosts, PoolConnected(w, h)
      PROVE  /\ OpenWorkers' = OpenWorkers
             /\ Count(events', "NOTIFY_WORKER_CLOSED") = Count(events, "NOTIFY_WORKER_CLOSED")
  <2>1. UNCHANGED worker /\ Notify("NOTIFY_READY", IF initial[w][h] THEN 1 ELSE 0)
    BY <1>6 DEF PoolConnected
  <2>2. \E n \in {0, 1} : Notify("NOTIFY_READY", n)
    BY <2>1
  <2> QED
    BY <1>0, <2>1, <2>2, CountNotify DEF OpenWorkers
<1>7. ASSUME NEW h \in Hosts, PoolClosed(w, h), ~UNCHANGED <<worker, events>>
      PROVE  \/ /\ OpenWorkers' = OpenWorkers
                /\ Count(events', "NOTIFY_WORKER_CLOSED") = Count(events, "NOTIFY_WORKER_CLOSED")
             \/ /\ w \in OpenWorkers /\ OpenWorkers' = OpenWorkers \ {w} /\ worker[w] = "CLOSING"
                /\ Count(events', "NOTIFY_WORKER_CLOSED") = Count(events, "NOTIFY_WORKER_CLOSED") + 1
  <2> DEFINE last == \A g \in Hosts \ {h} : pool[w][g] = "none"
  <2>1. /\ worker[w] = "CLOSING"
        /\ worker' = [worker EXCEPT ![w] = IF last THEN "CLOSED" ELSE "CLOSING"]
        /\ Notify("NOTIFY_WORKER_CLOSED", IF last THEN 1 ELSE 0)
    BY <1>7 DEF PoolClosed
  <2>2. CASE last
    <3>1. worker' = [worker EXCEPT ![w] = "CLOSED"] /\ Notify("NOTIFY_WORKER_CLOSED", 1)
      BY <2>1, <2>2
    <3> QED
      BY <1>0, <2>1, <3>1, CountNotify DEF OpenWorkers
  <2>3. CASE ~last
    <3>1. worker' = [worker EXCEPT ![w] = "CLOSING"] /\ Notify("NOTIFY_WORKER_CLOSED", 0)
      BY <2>1, <2>3
    <3>2. Count(events', "NOTIFY_WORKER_CLOSED") = Count(events, "NOTIFY_WORKER_CLOSED") + 0
      BY <1>0, <3>1, CountNotify
    <3> QED
      BY <1>0, <2>1, <3>1, <3>2 DEF OpenWorkers
  <2> QED
    BY <2>2, <2>3
<1>8. ASSUME NEW h \in Hosts, AddPool(w, h) \/ PoolFails(w, h) \/ PoolReconnects(w, h)
      PROVE  UNCHANGED <<worker, events>>
  BY <1>8 DEF AddPool, PoolFails, PoolReconnects, session
<1> QED
  BY <1>1, <1>2, <1>3, <1>5, <1>6, <1>7, <1>8 DEF WorkerStep, WorkerCallback, PoolStep

\* Only the end of on_execute starts the broadcast of the close, and nothing
\* ends it.
LEMMA BroadcastStays ==
  ASSUME SessionAssumption, Typed, Starting, Passing,
         \/ ConnectAsync \/ CloseAsyncPushes \/ (\E force \in BOOLEAN : CloseAsync(force))
         \/ \E r \in Requests : ExecuteChecks(r) \/ ExecuteEnqueues(r)
         \/ OnConnect \/ OnControlConnectionReady \/ OnControlConnectionError
         \/ OnNotifyReady \/ OnNotifyWorkerClosed \/ OnAfterRun
         \/ OnExecuteBegins \/ OnExecuteDequeues \/ OnExecuteDispatches \/ OnExecuteGivesUp
         \/ \E w \in Workers : OnExecuteFindsWorker(w) \/ OnExecuteClosesWorker(w)
  PROVE  (Broadcast' <=> Broadcast) /\ UNCHANGED worker
<1>1. UNCHANGED worker
  BY Zenon
  DEF ConnectAsync, CloseAsyncPushes, CloseAsync, ExecuteChecks, ExecuteEnqueues, OnConnect,
      OnControlConnectionReady, OnControlConnectionError, OnNotifyReady, OnNotifyWorkerClosed,
      OnAfterRun, OnExecuteBegins, OnExecuteDequeues, OnExecuteDispatches, OnExecuteGivesUp,
      OnExecuteFindsWorker, OnExecuteClosesWorker, workers
<1>2. CASE \E w \in Workers : OnExecuteClosesWorker(w)
  <2>1. PICK w \in Workers : OnExecuteClosesWorker(w)
    BY <1>2
  <2>2. Dispatched(w, NULL)'
    BY <2>1, WorkerQueueGrows DEF OnExecuteClosesWorker, Entries
  <2> QED
    BY <1>1, <2>1, <2>2 DEF Broadcast, Told, OnExecuteClosesWorker
<1>3. CASE OnExecuteDispatches
  <2>1. PICK w \in Workers, r \in Entries \ {NULL} : w = thread.target /\ r = thread.request
    BY <1>3, ThreadCases DEF OnExecuteDispatches, Dispatching, Typed, SessionTyped
  <2>2. UNCHANGED worker_queue \/ worker_queue' = [worker_queue EXCEPT ![w] = Append(@, r)]
    BY <1>3, <2>1 DEF OnExecuteDispatches
  <2>3. \A v \in Workers : Dispatched(v, NULL)' <=> Dispatched(v, NULL)
    BY <2>2, WorkerQueueGrows DEF Dispatched
  <2>4. thread.kind = "on_execute" /\ thread'.kind = "on_execute"
    BY <1>3 DEF OnExecuteDispatches, Dispatching, OnExecute
  <2> QED
    BY <1>1, <2>3, <2>4 DEF Broadcast, Told
<1>4. CASE ~(\E w \in Workers : OnExecuteClosesWorker(w)) /\ ~OnExecuteDispatches
  <2>1. UNCHANGED worker_queue
    BY <1>4, Zenon
    DEF ConnectAsync, CloseAsyncPushes, CloseAsync, ExecuteChecks, ExecuteEnqueues, OnConnect,
        OnControlConnectionReady, OnControlConnectionError, OnNotifyReady, OnNotifyWorkerClosed,
        OnAfterRun, OnExecuteBegins, OnExecuteDequeues, OnExecuteGivesUp,
        OnExecuteFindsWorker, workers
  <2>2. \/ UNCHANGED thread
        \/ /\ connect_future = "none" \/ thread \in {Waiting, Closed} \/ thread.kind = "on_execute"
           /\ thread' \in {Waiting, Closed, NoThread} \/ thread'.kind = "on_execute"
    BY <1>4
    DEF ConnectAsync, CloseAsyncPushes, CloseAsync, ExecuteChecks, ExecuteEnqueues, OnConnect,
        OnControlConnectionReady, OnControlConnectionError, OnNotifyReady, OnNotifyWorkerClosed,
        OnAfterRun, OnExecuteBegins, OnExecuteDequeues, OnExecuteGivesUp,
        OnExecuteFindsWorker, OnEvent, BetweenRequests, Dispatching, OnExecute, session
  <2>3. UNCHANGED thread \/ (thread.kind # "close_async" /\ thread'.kind # "close_async")
    BY <2>2 DEF Starting, Waiting, Closed, NoThread
  <2> QED
    BY <1>1, <2>1, <2>3 DEF Broadcast, Told, Dispatched
<1> QED
  BY <1>2, <1>3, <1>4

\* Every step keeps the number of workers whose close is not yet counted.
LEMMA CountingStep ==
  ASSUME SessionAssumption, Typed, Starting, Halting, Counting, [Next]_vars
  PROVE  Counting'
<1>0. /\ IsFiniteSet(Workers) /\ IsFiniteSet(OpenWorkers)
      /\ Cardinality(Workers) \in Nat /\ Cardinality(OpenWorkers) \in Nat
      /\ events \in Seq(Events) /\ "NOTIFY_WORKER_CLOSED" \in Events
      /\ Count(events, "NOTIFY_WORKER_CLOSED") \in Nat /\ pending_workers_count \in Int /\ Passing
  BY FS_CardinalityType, FS_Subset, CountType
  DEF SessionAssumption, OpenWorkers, Typed, SessionTyped, Events, Halting
<1>1. CASE /\ Broadcast' <=> Broadcast
           /\ UNCHANGED worker /\ UNCHANGED pending_workers_count
           /\ Count(events', "NOTIFY_WORKER_CLOSED") = Count(events, "NOTIFY_WORKER_CLOSED")
  <2>1. OpenWorkers' = OpenWorkers
    BY <1>1 DEF OpenWorkers
  <2> QED
    BY <1>1, <2>1 DEF Counting
<1>2. CASE UNCHANGED vars \/ Done
  <2>1. UNCHANGED <<worker, pending_workers_count, events, thread, worker_queue>>
    BY <1>2 DEF vars, session, workers, Done
  <2>2. Broadcast' <=> Broadcast
    BY <2>1 DEF Broadcast, Told, Dispatched
  <2> QED
    BY <1>1, <2>1, <2>2
<1>3. CASE ConnectAsync
  <2>1. Count(events', "NOTIFY_WORKER_CLOSED") = Count(events, "NOTIFY_WORKER_CLOSED")
    BY <1>0, <1>3, CountAppend DEF ConnectAsync, Events
  <2> QED
    BY <1>0, <1>1, <1>3, <2>1, BroadcastStays DEF ConnectAsync
<1>4. CASE \/ CloseAsyncPushes \/ (\E force \in BOOLEAN : CloseAsync(force))
           \/ \E r \in Requests : ExecuteChecks(r) \/ ExecuteEnqueues(r)
           \/ OnControlConnectionReady \/ OnControlConnectionError \/ OnAfterRun
           \/ OnExecuteBegins \/ OnExecuteDequeues \/ OnExecuteDispatches \/ OnExecuteGivesUp
           \/ \E w \in Workers : OnExecuteFindsWorker(w) \/ OnExecuteClosesWorker(w)
  <2>1. UNCHANGED <<events, pending_workers_count>>
    BY <1>4, Zenon
    DEF CloseAsyncPushes, CloseAsync, ExecuteChecks, ExecuteEnqueues,
        OnControlConnectionReady, OnControlConnectionError, OnAfterRun, OnExecuteBegins,
        OnExecuteDequeues, OnExecuteDispatches, OnExecuteGivesUp, OnExecuteFindsWorker,
        OnExecuteClosesWorker, session
  <2>2. (Broadcast' <=> Broadcast) /\ UNCHANGED worker
    BY <1>0, <1>4, BroadcastStays
  <2> QED
    BY <1>1, <2>1, <2>2
<1>5. CASE OnConnect \/ OnNotifyReady
  <2>1. /\ UNCHANGED pending_workers_count /\ events # <<>> /\ events' = Tail(events)
        /\ Head(events) # "NOTIFY_WORKER_CLOSED"
    BY <1>5 DEF OnConnect, OnNotifyReady, OnEvent
  <2>2. Count(events', "NOTIFY_WORKER_CLOSED") = Count(events, "NOTIFY_WORKER_CLOSED")
    BY <1>0, <2>1, CountTail
  <2>3. (Broadcast' <=> Broadcast) /\ UNCHANGED worker
    BY <1>0, <1>5, BroadcastStays
  <2> QED
    BY <1>1, <2>1, <2>2, <2>3
<1>6. CASE OnNotifyWorkerClosed
  <2>1. /\ events # <<>> /\ events' = Tail(events) /\ Head(events) = "NOTIFY_WORKER_CLOSED"
        /\ pending_workers_count' = pending_workers_count - 1
    BY <1>6 DEF OnNotifyWorkerClosed, OnEvent
  <2>2. Count(events', "NOTIFY_WORKER_CLOSED") = Count(events, "NOTIFY_WORKER_CLOSED") - 1
    BY <1>0, <2>1, CountTail
  <2>3. Count(events', "NOTIFY_WORKER_CLOSED") \in Nat
    BY <1>0, <2>1, TailFacts, CountType
  <2>4. (Broadcast' <=> Broadcast) /\ UNCHANGED worker
    BY <1>0, <1>6, BroadcastStays
  <2>5. OpenWorkers' = OpenWorkers
    BY <2>4 DEF OpenWorkers
  <2>6. Broadcast
    BY <1>0, <2>2, <2>3 DEF Counting
  <2>7. pending_workers_count = Cardinality(OpenWorkers) + Count(events, "NOTIFY_WORKER_CLOSED")
    BY <2>6 DEF Counting
  <2>8. pending_workers_count' <= Cardinality(Workers)
    BY <1>0, <2>1 DEF Counting
  <2>9. pending_workers_count'
          = Cardinality(OpenWorkers') + Count(events', "NOTIFY_WORKER_CLOSED")
    BY <1>0, <2>1, <2>2, <2>5, <2>7
  <2> QED
    BY <2>4, <2>6, <2>8, <2>9 DEF Counting
<1>7. CASE OnExecuteEnds
  <2>1. /\ UNCHANGED <<events, worker, worker_queue>> /\ thread.kind = "on_execute"
        /\ \/ ~thread.closing /\ thread'.kind = "loop" /\ UNCHANGED pending_workers_count
           \/ thread.closing /\ thread'.kind = "close_async"
              /\ pending_workers_count' = Cardinality(Workers)
    BY <1>7 DEF OnExecuteEnds, BetweenRequests, Waiting, CloseWorkers, workers
  <2>2. CASE ~thread.closing /\ thread'.kind = "loop" /\ UNCHANGED pending_workers_count
    <3>1. Broadcast' <=> Broadcast
      BY <2>1, <2>2 DEF Broadcast, Told, Dispatched
    <3> QED
      BY <1>1, <2>1, <2>2, <3>1
  <2>3. CASE thread.closing /\ thread'.kind = "close_async"
             /\ pending_workers_count' = Cardinality(Workers)
    <3>1. ~Broadcast /\ Broadcast'
      BY <2>1, <2>3 DEF Halting, Announcing, ClosingNow, Broadcast
    <3>2. OpenWorkers' = Workers
      BY <2>1, <3>1 DEF OpenWorkers, Broadcast, Told
    <3>3. Count(events', "NOTIFY_WORKER_CLOSED") = 0
      BY <2>1, <3>1 DEF Counting
    <3> QED
      BY <1>0, <2>3, <3>1, <3>2, <3>3 DEF Counting
  <2> QED
    BY <2>1, <2>2, <2>3
<1>8. ASSUME NEW w \in Workers, WorkerStep(w)
      PROVE  Counting'
  <2>1. UNCHANGED thread /\ UNCHANGED pending_workers_count
    BY <1>8, WorkerLeaves
  <2>2. \A v \in Workers : Told(v)' <=> Told(v)
    BY <1>0, <1>8, WorkerPasses
  <2>3. Broadcast' <=> Broadcast
    BY <2>1, <2>2 DEF Broadcast
  <2>4. CASE /\ OpenWorkers' = OpenWorkers
             /\ Count(events', "NOTIFY_WORKER_CLOSED") = Count(events, "NOTIFY_WORKER_CLOSED")
    BY <2>1, <2>3, <2>4 DEF Counting
  <2>5. CASE /\ w \in OpenWorkers /\ OpenWorkers' = OpenWorkers \ {w} /\ worker[w] = "CLOSING"
             /\ Count(events', "NOTIFY_WORKER_CLOSED") = Count(events, "NOTIFY_WORKER_CLOSED") + 1
    <3>1. Broadcast
      BY <2>5 DEF Broadcast, Told
    <3>2. Cardinality(OpenWorkers') = Cardinality(OpenWorkers) - 1
      BY <1>0, <2>5, FS_RemoveElement
    <3>3. pending_workers_count
            = Cardinality(OpenWorkers') + Count(events', "NOTIFY_WORKER_CLOSED")
      <4>1. pending_workers_count = Cardinality(OpenWorkers) + Count(events, "NOTIFY_WORKER_CLOSED")
        BY <3>1 DEF Counting
      <4> QED
        BY <1>0, <2>5, <3>2, <4>1
    <3> QED
      BY <2>1, <2>3, <3>1, <3>3 DEF Counting
  <2> QED
    BY <1>0, <1>8, <2>4, <2>5, WorkerCloses
<1> QED
  BY <1>2, <1>3, <1>4, <1>5, <1>6, <1>7, <1>8 DEF Next, SessionThread, WorkerStep

----------------------------------------------------------------------------
(* Pools that report that they are connected *)

\* The pools that still owe a report are finitely many.
LEMMA OutstandingFinite ==
  ASSUME SessionAssumption
  PROVE  /\ IsFiniteSet(Hosts \X Workers)
         /\ IsFiniteSet(Outstanding) /\ Cardinality(Outstanding) \in Nat
         /\ \A h \in Hosts, w \in Workers : <<h, w>> \in Outstanding <=> Owes(w, h)
<1>1. IsFiniteSet(Hosts \X Workers)
  BY FS_Product DEF SessionAssumption
<1>2. Outstanding \in SUBSET (Hosts \X Workers)
  BY DEF Outstanding
<1>3. \A h \in Hosts, w \in Workers : <<h, w>> \in Outstanding <=> Owes(w, h)
  BY DEF Outstanding
<1> QED
  BY <1>1, <1>2, <1>3, FS_Subset, FS_CardinalityType

\* No more is owed than before.
LEMMA OwesLess ==
  ASSUME SessionAssumption, \A w \in Workers, h \in Hosts : Owes(w, h)' => Owes(w, h)
  PROVE  Cardinality(Outstanding') \in Nat /\ Cardinality(Outstanding') <= Cardinality(Outstanding)
<1>1. Outstanding' \in SUBSET Outstanding
  BY DEF Outstanding
<1> QED
  BY <1>1, OutstandingFinite, FS_Subset, FS_CardinalityType

\* A part of what was owed is not any more.
LEMMA OwesLessBy ==
  ASSUME SessionAssumption, NEW w \in Workers, NEW A \in SUBSET Hosts, IsFiniteSet(A),
         \A h \in A : Owes(w, h),
         \A v \in Workers, h \in Hosts : Owes(v, h)' => Owes(v, h) /\ ~(v = w /\ h \in A)
  PROVE  /\ Cardinality(Outstanding') \in Nat /\ Cardinality(A) \in Nat
         /\ Cardinality(Outstanding') + Cardinality(A) <= Cardinality(Outstanding)
<1> DEFINE P == A \X {w}
<1>1. IsFiniteSet({w}) /\ Cardinality({w}) = 1
  BY FS_Singleton
<1>2. Cardinality(A) \in Nat
  BY FS_CardinalityType
<1>3. IsFiniteSet(P) /\ Cardinality(P) = Cardinality(A) * Cardinality({w})
  BY <1>1, FS_Product
<1>4. Cardinality(P) = Cardinality(A)
  BY <1>1, <1>2, <1>3
<1>5. P \subseteq Outstanding
  BY DEF Outstanding
<1>6. Outstanding' \subseteq Outstanding \ P
  BY DEF Outstanding
<1>7. IsFiniteSet(Outstanding) /\ Cardinality(Outstanding) \in Nat
  BY OutstandingFinite
<1> HIDE DEF P
<1>8. Outstanding \cap P = P
  BY <1>5
<1>9. /\ IsFiniteSet(Outstanding \ P)
      /\ Cardinality(Outstanding \ P) = Cardinality(Outstanding) - Cardinality(P)
  BY <1>7, <1>8, FS_Difference
<1>10. Cardinality(Outstanding') <= Cardinality(Outstanding \ P) /\ IsFiniteSet(Outstanding')
  BY <1>6, <1>9, FS_Subset
<1>11. Cardinality(Outstanding') \in Nat
  BY <1>10, FS_CardinalityType
<1> QED
  BY <1>2, <1>4, <1>7, <1>9, <1>10, <1>11

\* What a worker may do: it owes less, and reports at most the difference.
Reports(w) ==
  /\ PoolsFit' /\ (NoPools => NoPools')
  /\ Cardinality(Outstanding') \in Nat
  /\ Cardinality(Outstanding') + Count(events', "NOTIFY_READY")
       <= Cardinality(Outstanding) + Count(events, "NOTIFY_READY")

\* maybe_close reports each pool that was still connecting for the first time.
LEMMA MaybeCloseReports ==
  ASSUME SessionAssumption, Typed, PoolsFit, NEW w \in Workers, NEW p,
         MaybeClose(w, worker[w], p), UNCHANGED <<worker_events, initial>>
  PROVE  Reports(w)
<1>0. /\ events \in Seq(Events) /\ "NOTIFY_WORKER_CLOSED" \in Events /\ "NOTIFY_READY" \in Events
      /\ Count(events, "NOTIFY_READY") \in Nat /\ pool \in [Workers -> [Hosts -> PoolStates]]
      /\ Cardinality(Outstanding) \in Nat
      /\ IsFiniteSet(Announced(w)) /\ Cardinality(Announced(w)) \in Nat
  BY CountType, OutstandingFinite, AnnouncedFinite DEF Typed, SessionTyped, WorkersTyped, Events
<1> DEFINE closing == {h \in Hosts : pool[w][h] \in {"CONNECTING", "READY", "CLOSING"}}
           new == [h \in Hosts |-> IF h \in closing THEN "CLOSING" ELSE "none"]
<1>1. CASE ~(worker[w] = "CLOSING" /\ p = {})
  <2>1. UNCHANGED <<pool, events>>
    BY <1>1 DEF MaybeClose
  <2>2. \A v \in Workers, h \in Hosts : Owes(v, h)' => Owes(v, h)
    BY <2>1 DEF Owes
  <2>3. PoolsFit' /\ (NoPools => NoPools')
    BY <2>1 DEF PoolsFit, NoPools
  <2> QED
    BY <1>0, <2>1, <2>2, <2>3, OwesLess DEF Reports
<1>2. CASE worker[w] = "CLOSING" /\ p = {}
  <2>1. pool' = [pool EXCEPT ![w] = new]
    BY <1>2 DEF MaybeClose
  <2>2. /\ \A h \in Hosts : pool'[w][h] \in {"CLOSING", "none"}
        /\ \A h \in Hosts : pool[w][h] = "none" => pool'[w][h] = "none"
        /\ \A v \in Workers \ {w} : pool'[v] = pool[v]
    BY <1>0, <2>1
  <2>3. PoolsFit' /\ (NoPools => NoPools')
    BY <2>2 DEF PoolsFit, NoPools
  <2>4. \A h \in Announced(w) : Owes(w, h)
    BY DEF Announced, Owes
  <2>5. \A v \in Workers, h \in Hosts : Owes(v, h)' => Owes(v, h) /\ ~(v = w /\ h \in Announced(w))
    BY <2>2 DEF Announced, Owes, PoolsFit
  <2>6. Announced(w) \in SUBSET Hosts
    BY DEF Announced
  <2>7. /\ Cardinality(Outstanding') \in Nat
        /\ Cardinality(Outstanding') + Cardinality(Announced(w)) <= Cardinality(Outstanding)
    BY <1>0, <2>4, <2>5, <2>6, OwesLessBy
  <2>8. \/ Count(events', "NOTIFY_READY") = Count(events, "NOTIFY_READY")
        \/ Count(events', "NOTIFY_READY") = Count(events, "NOTIFY_READY") + Cardinality(Announced(w))
    <3>1. Notify("NOTIFY_WORKER_CLOSED", 1) \/ Notify("NOTIFY_READY", Cardinality(Announced(w)))
      BY <1>2 DEF MaybeClose
    <3> QED
      BY <1>0, <3>1, CountNotify
  <2> HIDE DEF new, closing
  <2> QED
    BY <1>0, <2>3, <2>7, <2>8 DEF Reports
<1> QED
  BY <1>1, <1>2

\* The pool of one host changes.
LEMMA OnePool ==
  ASSUME SessionAssumption, Typed, PoolsFit, NEW w \in Workers, NEW h \in Hosts, NEW s \in PoolStates,
         SetPool(w, h, s), pool[w][h] # "none", UNCHANGED worker_events,
         UNCHANGED initial \/ initial' = [initial EXCEPT ![w][h] = FALSE],
         s = "WAITING" => initial' = [initial EXCEPT ![w][h] = FALSE],
         s = "CONNECTING" => pool[w][h] = "WAITING"
  PROVE  /\ PoolsFit' /\ ~NoPools
         /\ ~Owes(w, h)'
         /\ \A v \in Workers, g \in Hosts : Owes(v, g)' => Owes(v, g)
<1>0. /\ pool \in [Workers -> [Hosts -> PoolStates]] /\ initial \in [Workers -> [Hosts -> BOOLEAN]]
  BY DEF Typed, WorkersTyped
<1>1. /\ pool'[w][h] = s
      /\ \A v \in Workers, g \in Hosts : v # w \/ g # h => pool'[v][g] = pool[v][g]
  BY <1>0 DEF SetPool
<1>2. /\ \A v \in Workers, g \in Hosts : v # w \/ g # h => initial'[v][g] = initial[v][g]
      /\ initial' = [initial EXCEPT ![w][h] = FALSE] => ~initial'[w][h]
      /\ initial'[w][h] => initial[w][h]
  <2>1. CASE UNCHANGED initial
    <3>1. initial' = [initial EXCEPT ![w][h] = FALSE] => initial'[w][h] = FALSE
      BY <1>0
    <3> QED
      BY <2>1, <3>1
  <2>2. CASE initial' = [initial EXCEPT ![w][h] = FALSE]
    <3>1. initial'[w][h] = FALSE /\ \A v \in Workers, g \in Hosts :
             v # w \/ g # h => initial'[v][g] = initial[v][g]
      BY <1>0, <2>2
    <3> QED
      BY <3>1
  <2> QED
    BY <2>1, <2>2
<1>3. h \notin worker_events[w]
  BY DEF PoolsFit
<1>4. PoolsFit'
  BY <1>1, <1>2, <1>3 DEF PoolsFit
<1>5. ~Owes(w, h)'
  BY <1>1, <1>2, <1>3 DEF Owes, PoolsFit
<1>6. ASSUME NEW v \in Workers, NEW g \in Hosts, v # w \/ g # h, Owes(v, g)'
      PROVE  Owes(v, g)
  BY <1>1, <1>2, <1>6 DEF Owes
<1> QED
  BY <1>4, <1>5, <1>6 DEF NoPools

\* A pool reports at most once that its first connect is over.
LEMMA PoolReports ==
  ASSUME SessionAssumption, Typed, PoolsFit, NEW w \in Workers, NEW h \in Hosts,
         AddPool(w, h) \/ PoolConnected(w, h) \/ PoolClosed(w, h) \/ PoolFails(w, h)
           \/ PoolReconnects(w, h)
  PROVE  Reports(w)
<1>0. /\ events \in Seq(Events) /\ "NOTIFY_WORKER_CLOSED" \in Events /\ "NOTIFY_READY" \in Events
      /\ Count(events, "NOTIFY_READY") \in Nat
      /\ pool \in [Workers -> [Hosts -> PoolStates]] /\ initial \in [Workers -> [Hosts -> BOOLEAN]]
      /\ worker_events \in [Workers -> SUBSET Hosts]
      /\ Cardinality(Outstanding) \in Nat
  BY CountType, OutstandingFinite DEF Typed, SessionTyped, WorkersTyped, Events
<1>1. CASE AddPool(w, h)
  <2>1. /\ h \in worker_events[w] /\ UNCHANGED events
        /\ worker_events'[w] = worker_events[w] \ {h}
        /\ \A v \in Workers \ {w} : worker_events'[v] = worker_events[v]
    BY <1>0, <1>1 DEF AddPool, session
  <2>2. /\ \A v \in Workers, g \in Hosts : v # w \/ g # h =>
             pool'[v][g] = pool[v][g] /\ initial'[v][g] = initial[v][g]
        /\ pool'[w][h] \in {"none", "CONNECTING"}
    <3>1. CASE SetPool(w, h, "CONNECTING") /\ initial' = [initial EXCEPT ![w][h] = TRUE]
      BY <1>0, <3>1 DEF SetPool
    <3>2. CASE UNCHANGED <<pool, initial>>
      BY <1>0, <2>1, <3>2 DEF PoolsFit
    <3> QED
      BY <1>1, <3>1, <3>2 DEF AddPool
  <2>3. PoolsFit' /\ ~NoPools
    BY <2>1, <2>2 DEF PoolsFit, NoPools
  <2>4. ASSUME NEW v \in Workers, NEW g \in Hosts, Owes(v, g)'
        PROVE  Owes(v, g)
    <3>1. CASE v = w /\ g = h
      BY <2>1, <3>1 DEF Owes
    <3>2. CASE v # w \/ g # h
      BY <2>1, <2>2, <2>4, <3>2 DEF Owes
    <3> QED
      BY <3>1, <3>2
  <2> QED
    BY <1>0, <2>1, <2>3, <2>4, OwesLess DEF Reports
<1>2. CASE PoolConnected(w, h)
  <2>1. /\ pool[w][h] = "CONNECTING" /\ UNCHANGED <<worker_events, initial>>
        /\ \E s \in {"READY", "CLOSING"} : SetPool(w, h, s)
        /\ Notify("NOTIFY_READY", IF initial[w][h] THEN 1 ELSE 0)
    BY <1>2 DEF PoolConnected
  <2>2. /\ PoolsFit' /\ ~NoPools /\ ~Owes(w, h)'
        /\ \A v \in Workers, g \in Hosts : Owes(v, g)' => Owes(v, g)
    BY <2>1, OnePool DEF PoolStates, NotReadyPools
  <2>3. CASE initial[w][h]
    <3>1. Count(events', "NOTIFY_READY") = Count(events, "NOTIFY_READY") + 1
      <4>1. Notify("NOTIFY_READY", 1)
        BY <2>1, <2>3
      <4> QED
        BY <1>0, <4>1, CountNotify
    <3>2. IsFiniteSet({h}) /\ Cardinality({h}) = 1 /\ {h} \in SUBSET Hosts /\ Owes(w, h)
      BY <2>1, <2>3, FS_Singleton DEF Owes
    <3>3. /\ \A g \in {h} : Owes(w, g)
          /\ \A v \in Workers, g \in Hosts : Owes(v, g)' => Owes(v, g) /\ ~(v = w /\ g \in {h})
      BY <2>2, <3>2
    <3>4. /\ Cardinality(Outstanding') \in Nat
          /\ Cardinality(Outstanding') + Cardinality({h}) <= Cardinality(Outstanding)
      BY <3>2, <3>3, OwesLessBy
    <3> QED
      BY <1>0, <2>2, <3>1, <3>2, <3>4 DEF Reports
  <2>4. CASE ~initial[w][h]
    <3>1. Count(events', "NOTIFY_READY") = Count(events, "NOTIFY_READY")
      <4>1. Notify("NOTIFY_READY", 0)
        BY <2>1, <2>4
      <4>2. Count(events', "NOTIFY_READY") = Count(events, "NOTIFY_READY") + 0
        BY <1>0, <4>1, CountNotify
      <4> QED
        BY <1>0, <4>2
    <3> QED
      BY <1>0, <2>2, <3>1, OwesLess DEF Reports
  <2> QED
    BY <2>3, <2>4
<1>3. CASE PoolClosed(w, h) \/ PoolFails(w, h) \/ PoolReconnects(w, h)
  <2>1. /\ UNCHANGED worker_events /\ pool[w][h] # "none"
        /\ UNCHANGED initial \/ initial' = [initial EXCEPT ![w][h] = FALSE]
        /\ \E s \in PoolStates :
             /\ SetPool(w, h, s)
             /\ s = "WAITING" => initial' = [initial EXCEPT ![w][h] = FALSE]
             /\ s = "CONNECTING" => pool[w][h] = "WAITING"
        /\ UNCHANGED events \/ \E n \in {0, 1} : Notify("NOTIFY_WORKER_CLOSED", n)
    <3>1. CASE PoolClosed(w, h)
      <4>1. SetPool(w, h, "none") \/ (SetPool(w, h, "WAITING") /\ initial' = [initial EXCEPT ![w][h] = FALSE])
        BY <3>1 DEF PoolClosed
      <4> QED
        BY <3>1, <4>1 DEF PoolClosed, PoolStates, NotReadyPools
    <3>2. CASE PoolFails(w, h) \/ PoolReconnects(w, h)
      BY <3>2 DEF PoolFails, PoolReconnects, PoolStates, NotReadyPools, session
    <3> QED
      BY <1>3, <3>1, <3>2
  <2>2. /\ PoolsFit' /\ ~NoPools /\ \A v \in Workers, g \in Hosts : Owes(v, g)' => Owes(v, g)
    BY <2>1, OnePool
  <2>3. Count(events', "NOTIFY_READY") = Count(events, "NOTIFY_READY")
    BY <1>0, <2>1, CountNotify
  <2> QED
    BY <1>0, <2>2, <2>3, OwesLess DEF Reports
<1> QED
  BY <1>1, <1>2, <1>3

\* Whatever a worker does, as many reports are sent as pools stop owing one.
LEMMA WorkerReports ==
  ASSUME SessionAssumption, Typed, PoolsFit, NEW w \in Workers, WorkerStep(w)
  PROVE  Reports(w)
<1>1. CASE \/ WorkerOnExecuteBegins(w) \/ WorkerTakesRequest(w) \/ WorkerTakesNull(w)
           \/ \E r \in Requests : RequestRetried(w, r)
  <2>1. UNCHANGED <<worker_events, pool, initial, events>>
    BY <1>1 DEF WorkerOnExecuteBegins, WorkerTakesRequest, WorkerTakesNull, RequestRetried, session
  <2>2. \A v \in Workers, h \in Hosts : Owes(v, h)' => Owes(v, h)
    BY <2>1 DEF Owes
  <2>3. PoolsFit' /\ (NoPools => NoPools')
    BY <2>1 DEF PoolsFit, NoPools
  <2>4. Cardinality(Outstanding) \in Nat /\ Count(events, "NOTIFY_READY") \in Nat
    BY OutstandingFinite, CountType DEF Typed, SessionTyped
  <2> QED
    BY <2>1, <2>2, <2>3, <2>4, OwesLess DEF Reports
<1>2. CASE WorkerRefusesRequest(w) \/ WorkerOnExecuteEnds(w) \/ \E r \in Requests : RequestFinished(w, r)
  <2>1. UNCHANGED <<worker_events, initial>> /\ \E p : MaybeClose(w, worker[w], p)
    BY <1>2 DEF WorkerRefusesRequest, WorkerOnExecuteEnds, RequestFinished
  <2> QED
    BY <2>1, MaybeCloseReports
<1> QED
  BY <1>1, <1>2, PoolReports DEF WorkerStep, WorkerCallback, PoolStep

\* Every step keeps the pending count equal to reports owed or not yet read.
LEMMA ReportingStep ==
  ASSUME SessionAssumption, Typed, Starting, Reporting, [Next]_vars
  PROVE  Reporting'
<1>0. /\ events \in Seq(Events) /\ Count(events, "NOTIFY_READY") \in Nat
      /\ Cardinality(Outstanding) \in Nat /\ pending_pool_count \in Nat
      /\ PoolsFit
  BY CountType, OutstandingFinite DEF Typed, SessionTyped, Reporting
<1>1. CASE /\ UNCHANGED <<worker_events, pool, initial, pending_pool_count>>
           /\ Count(events', "NOTIFY_READY") = Count(events, "NOTIFY_READY")
           /\ control' \in {"none", "connecting"} \/ In(events', "CONNECT") =>
                control \in {"none", "connecting"} \/ In(events, "CONNECT")
  <2>1. PoolsFit' /\ (NoPools => NoPools')
    BY <1>0, <1>1 DEF PoolsFit, NoPools
  <2>2. Cardinality(Outstanding') <= Cardinality(Outstanding) /\ Cardinality(Outstanding') \in Nat
    BY <1>1, OwesLess DEF Owes
  <2> QED
    BY <1>0, <1>1, <2>1, <2>2 DEF Reporting
<1>2. CASE UNCHANGED vars \/ Done
  <2>1. UNCHANGED <<worker_events, pool, initial, pending_pool_count, events, control>>
    BY <1>2 DEF vars, session, workers, Done
  <2> QED
    BY <1>1, <2>1 DEF In
<1>3. CASE ConnectAsync
  <2>1. control = "none" /\ UNCHANGED <<worker_events, pool, initial, pending_pool_count>>
    BY <1>3 DEF ConnectAsync, Starting, workers
  <2>2. Count(events', "NOTIFY_READY") = Count(events, "NOTIFY_READY")
    BY <1>0, <1>3, CountAppend DEF ConnectAsync, Events
  <2> QED
    BY <1>1, <2>1, <2>2
<1>4. CASE \/ CloseAsyncPushes \/ (\E force \in BOOLEAN : CloseAsync(force))
           \/ \E r \in Requests : ExecuteChecks(r) \/ ExecuteEnqueues(r)
           \/ OnControlConnectionError \/ OnAfterRun
           \/ OnExecuteBegins \/ OnExecuteDequeues \/ OnExecuteDispatches \/ OnExecuteGivesUp
           \/ OnExecuteEnds
           \/ \E w \in Workers : OnExecuteFindsWorker(w) \/ OnExecuteClosesWorker(w)
  <2>1. /\ UNCHANGED <<events, worker_events, pool, initial, pending_pool_count>>
        /\ UNCHANGED control \/ control' = "error"
    BY <1>4, Zenon
    DEF CloseAsyncPushes, CloseAsync, ExecuteChecks, ExecuteEnqueues,
        OnControlConnectionError, OnAfterRun, OnExecuteBegins,
        OnExecuteDequeues, OnExecuteDispatches, OnExecuteGivesUp, OnExecuteEnds, OnExecuteFindsWorker,
        OnExecuteClosesWorker, session, workers
  <2> QED
    BY <1>1, <2>1 DEF In
<1>5. CASE OnConnect \/ OnNotifyWorkerClosed
  <2>1. PICK e : OnEvent(e) /\ e # "NOTIFY_READY"
    BY <1>5 DEF OnConnect, OnNotifyWorkerClosed
  <2>2. UNCHANGED <<worker_events, pool, initial, pending_pool_count>>
    BY <1>5 DEF OnConnect, OnNotifyWorkerClosed, workers
  <2>3. Count(events', "NOTIFY_READY") = Count(events, "NOTIFY_READY")
    BY <1>0, <2>1, CountTail DEF OnEvent
  <2>4. In(events', "CONNECT") => In(events, "CONNECT")
    BY <2>1, EventTaken
  <2>5. control' \in {"none", "connecting"} =>
          control \in {"none", "connecting"} \/ In(events, "CONNECT")
    <3>1. OnConnect => In(events, "CONNECT")
      BY EventTaken DEF OnConnect
    <3> QED
      BY <1>5, <3>1 DEF OnNotifyWorkerClosed
  <2> QED
    BY <1>1, <2>2, <2>3, <2>4, <2>5
<1>6. CASE OnNotifyReady
  <2>1. /\ OnEvent("NOTIFY_READY") /\ events # <<>> /\ events' = Tail(events)
        /\ Head(events) = "NOTIFY_READY" /\ UNCHANGED <<worker_events, pool, initial, control>>
        /\ pending_pool_count' = IF pending_pool_count > 0 THEN pending_pool_count - 1 ELSE 0
    BY <1>6 DEF OnNotifyReady, OnEvent, workers
  <2>2. Count(events', "NOTIFY_READY") = Count(events, "NOTIFY_READY") - 1
    BY <1>0, <2>1, CountTail
  <2>3. Count(events', "NOTIFY_READY") \in Nat
    BY <1>0, <2>1, TailFacts, CountType
  <2>4. In(events', "CONNECT") => In(events, "CONNECT")
    BY <2>1, EventTaken
  <2>5. PoolsFit' /\ (NoPools => NoPools')
    BY <1>0, <2>1 DEF PoolsFit, NoPools
  <2>6. Cardinality(Outstanding') <= Cardinality(Outstanding) /\ Cardinality(Outstanding') \in Nat
    BY <2>1, OwesLess DEF Owes
  <2>7. Cardinality(Outstanding) + Count(events, "NOTIFY_READY") <= pending_pool_count
    BY DEF Reporting
  <2>8. Cardinality(Outstanding') + Count(events', "NOTIFY_READY") <= pending_pool_count'
    BY <1>0, <2>1, <2>2, <2>3, <2>6, <2>7
  <2> QED
    BY <2>1, <2>4, <2>5, <2>8 DEF Reporting
<1>7. CASE OnControlConnectionReady
  <2>1. /\ UNCHANGED <<events, pool, initial>> /\ control = "connecting" /\ control' = "ready"
        /\ pending_pool_count' = Cardinality(Hosts) * Cardinality(Workers)
        /\ \A w \in Workers : worker_events'[w] = Hosts
    BY <1>7 DEF OnControlConnectionReady
  <2>2. NoPools /\ ~In(events, "CONNECT") /\ pending_pool_count = 0
    BY <2>1 DEF Reporting, Starting
  <2>3. Count(events, "NOTIFY_READY") = 0
    BY <1>0, <2>2 DEF Reporting
  <2>4. PoolsFit'
    BY <2>1, <2>2 DEF PoolsFit, NoPools
  <2>5. Cardinality(Outstanding') <= Cardinality(Hosts \X Workers)
        /\ Cardinality(Outstanding') \in Nat
    <3>1. Outstanding' \in SUBSET (Hosts \X Workers)
      BY DEF Outstanding
    <3> QED
      BY <3>1, OutstandingFinite, FS_Subset, FS_CardinalityType
  <2>6. Cardinality(Hosts \X Workers) = Cardinality(Hosts) * Cardinality(Workers)
    BY FS_Product DEF SessionAssumption
  <2>7. Cardinality(Outstanding') + Count(events', "NOTIFY_READY") <= pending_pool_count'
    <3>1. Count(events', "NOTIFY_READY") = 0
      BY <2>1, <2>3
    <3>2. Cardinality(Outstanding') <= pending_pool_count'
      BY <2>1, <2>5, <2>6
    <3> QED
      BY <2>5, <3>1, <3>2
  <2>8. ~In(events', "CONNECT")
    BY <2>1, <2>2
  <2> QED
    BY <2>1, <2>4, <2>7, <2>8 DEF Reporting
<1>8. ASSUME NEW w \in Workers, WorkerStep(w)
      PROVE  Reporting'
  <2>1. Reports(w)
    BY <1>0, <1>8, WorkerReports
  <2>2. UNCHANGED <<control, pending_pool_count>> /\ (In(events', "CONNECT") => In(events, "CONNECT"))
    BY <1>8, WorkerLeaves
  <2>3. /\ Cardinality(Outstanding') \in Nat /\ Count(events', "NOTIFY_READY") \in Nat
        /\ Cardinality(Outstanding') + Count(events', "NOTIFY_READY")
             <= Cardinality(Outstanding) + Count(events, "NOTIFY_READY")
    <3>1. Typed'
      BY TypedStep
    <3> QED
      BY <2>1, <3>1, CountType DEF Reports, Typed, SessionTyped
  <2>4. Cardinality(Outstanding') + Count(events', "NOTIFY_READY") <= pending_pool_count
    BY <1>0, <2>3 DEF Reporting
  <2> QED
    BY <2>1, <2>2, <2>4 DEF Reporting, Reports
<1> QED
  BY <1>2, <1>3, <1>4, <1>5, <1>6, <1>7, <1>8 DEF Next, SessionThread, WorkerStep

----------------------------------------------------------------------------
(* The counters of the session thread *)

Inv == Closing /\ Counting /\ Reporting

\* The whole invariant holds initially.
LEMMA InvInit ==
  ASSUME SessionAssumption, Init
  PROVE  Inv
<1>1. Closing
  BY ClosingInit
<1>2. \A x : Count(events, x) = 0
  <2>1. \A x : Where(events, x) = {}
    BY DEF Init, Where
  <2> QED
    BY <2>1, FS_EmptySet DEF Count
<1>3. Counting
  <2>1. ~Broadcast
    <3>1. thread.kind = "none" /\ \A w \in Workers : ~Dispatched(w, NULL) /\ worker[w] = "READY"
      BY DEF Init, NoThread, Dispatched, In
    <3> QED
      BY <3>1 DEF Broadcast, Told
  <2>2. Cardinality(Workers) \in Nat /\ pending_workers_count = 0
    BY FS_CardinalityType DEF SessionAssumption, Init
  <2> QED
    BY <1>2, <2>1, <2>2 DEF Counting
<1>4. Reporting
  <2>1. NoPools /\ PoolsFit /\ pending_pool_count = 0
    BY DEF Init, NoPools, PoolsFit
  <2>2. Outstanding = {}
    BY <2>1 DEF Outstanding, Owes, NoPools
  <2>3. Cardinality(Outstanding) = 0
    BY <2>2, FS_EmptySet
  <2> QED
    BY <1>2, <2>1, <2>3 DEF Reporting
<1> QED
  BY <1>1, <1>3, <1>4 DEF Inv

\* The whole invariant is inductive.
LEMMA InvStep ==
  ASSUME SessionAssumption, Inv, [Next]_vars
  PROVE  Inv'
<1>1. Typed /\ Starting /\ Halting
  BY DEF Inv, Closing
<1>2. Closing' /\ Counting' /\ Reporting'
  BY <1>1, ClosingStep, CountingStep, ReportingStep DEF Inv
<1> QED
  BY <1>2 DEF Inv

\* The invariant implies TypeOK.
LEMMA InvTypes ==
  ASSUME SessionAssumption, Inv
  PROVE  TypeOK
<1>1. AppTyped /\ SessionTyped /\ WorkersTyped /\ Owned /\ Counting
  BY DEF Inv, Closing, Typed
<1>2. answers \in [Requests -> {0, 1}]
  BY <1>1 DEF AppTyped, Owned, OwnedOnce
<1>3. pending_workers_count \in 0..Cardinality(Workers)
  <2>1. /\ Cardinality(Workers) \in Nat /\ Cardinality(OpenWorkers) \in Nat
        /\ Count(events, "NOTIFY_WORKER_CLOSED") \in Nat /\ pending_workers_count \in Int
    BY <1>1, FS_CardinalityType, FS_Subset, CountType DEF SessionAssumption, OpenWorkers, SessionTyped
  <2>2. pending_workers_count >= 0 /\ pending_workers_count <= Cardinality(Workers)
    BY <1>1, <2>1 DEF Counting
  <2> QED
    BY <2>1, <2>2
<1>4. /\ request_queue \in Seq(Requests \cup {NULL}) /\ Len(request_queue) <= QueueSize
      /\ worker_queue \in [Workers -> Seq(Requests \cup {NULL})]
      /\ \A w \in Workers : Len(worker_queue[w]) <= WorkerQueueSize
  BY <1>1 DEF SessionTyped, WorkersTyped, Entries
<1>5. /\ {connect_future, close_future} \subseteq {"none", "unset", "set", "error"}
      /\ caller \in [Requests -> {"new", "checked", "returned"}]
      /\ in_flight \subseteq Requests
  BY <1>1 DEF AppTyped
<1>6. /\ worker \in [Workers -> {"READY", "CLOSING", "CLOSED"}]
      /\ remaining \in [Workers -> -1..MaxPerFlush]
      /\ pool \in [Workers -> [Hosts -> NotReadyPools \cup {"READY"}]]
  BY <1>1 DEF WorkersTyped, PoolStates
<1>7. /\ state \in {"CLOSED", "CONNECTING", "CONNECTED", "CLOSING"}
      /\ mutex \in BOOLEAN /\ woken \in BOOLEAN /\ pending_pool_count \in Nat
  BY <1>1 DEF SessionTyped
<1> QED
  BY <1>2, <1>3, <1>4, <1>5, <1>6, <1>7 DEF TypeOK

\* The state of a session keeps its types: a request's future is set once at
\* most, no queue exceeds its capacity, and pending_workers_count, which
\* on_execute sets and each NOTIFY_WORKER_CLOSED decrements, counts between
\* none and all of the workers.
THEOREM TypesHold ==
  ASSUME SessionAssumption
  PROVE  Spec => []TypeOK
<1>1. Init => Inv
  BY InvInit
<1>2. Inv /\ [Next]_vars => Inv'
  BY InvStep
<1>3. Inv => TypeOK
  BY InvTypes
<1> QED
  BY <1>1, <1>2, <1>3, PTL DEF Spec

\* notify_connected sets the connect future only when every pool of every
\* worker has connected or failed once: pending_pool_count_ is at least the
\* reports to come and those in the event queue, also while a forced close
\* ends pools that are still connecting.
THEOREM ConnectWaits ==
  ASSUME SessionAssumption
  PROVE  Spec => []ConnectedAfterAllPools
<1>1. Init => Inv
  BY InvInit
<1>2. Inv /\ [Next]_vars => Inv'
  BY InvStep
<1>3. Inv => ConnectedAfterAllPools
  <2>1. ASSUME Inv, connect_future = "set", NEW w \in Workers
        PROVE  worker_events[w] = {} /\ Announced(w) = {}
    <3>1. /\ Cardinality(Outstanding) + Count(events, "NOTIFY_READY") <= 0
          /\ events \in Seq(Events)
      BY <2>1 DEF Inv, Closing, Starting, Reporting, Typed, SessionTyped
    <3>2. /\ IsFiniteSet(Outstanding) /\ Cardinality(Outstanding) \in Nat
          /\ Count(events, "NOTIFY_READY") \in Nat
      BY <3>1, OutstandingFinite, CountType
    <3>3. Outstanding = {}
      <4>1. Cardinality(Outstanding) = 0
        BY <3>1, <3>2
      <4> QED
        BY <3>2, <4>1, FS_EmptySet
    <3>4. \A h \in Hosts : ~Owes(w, h)
      BY <3>3, OutstandingFinite
    <3>5. worker_events[w] \subseteq Hosts
      BY <2>1 DEF Inv, Closing, Typed, WorkersTyped
    <3> QED
      BY <3>4, <3>5 DEF Owes, Announced
  <2> QED
    BY <2>1 DEF ConnectedAfterAllPools
<1> QED
  BY <1>1, <1>2, <1>3, PTL DEF Spec
-----------------------------------------------------------------------------
(* The plans that the session makes for its requests *)

CONSTANTS DC, Configs, Replicas, Latencies, MinMeasured, Exclusion
VARIABLES config, policy, up, latency, measured, min_average, plan, given, stable, downs, updates

Pln == INSTANCE QueryPlan

\* The instance counts as this module does.
LEMMA SameCounts ==
  /\ \A S : Pln!IsFiniteSet(S) <=> IsFiniteSet(S)
  /\ \A S : Pln!Cardinality(S) = Cardinality(S)
BY DEF Pln!IsFiniteSet, IsFiniteSet, Pln!Cardinality, Cardinality

-----------------------------------------------------------------------------
(* Numbers in their order *)

\* A set of numbers has a least one, which Min gives.
LEMMA LeastIsIn ==
  ASSUME NEW S \in SUBSET Nat, S # {}
  PROVE  Pln!Min(S) \in S /\ \A y \in S : Pln!Min(S) <= y
<1> DEFINE R == {ss \in Nat \X Nat : ss[1] < ss[2]}
<1>1. IsWellFoundedOn(R, Nat)
  BY NatLessThanWellFounded DEF OpToRel
<1>2. \A x, y \in Nat : <<x, y>> \in R <=> x < y
  OBVIOUS
<1> HIDE DEF R
<1>3. PICK x \in S : \A y \in S : ~ (<<y, x>> \in R)
  BY <1>1, WFMin
<1>4. \A y \in S : x <= y
  <2> TAKE y \in S
  <2>1. x \in Nat /\ y \in Nat /\ ~(y < x)
    BY <1>2, <1>3
  <2> QED
    BY <2>1
<1> QED
  BY <1>4 DEF Pln!Min

\* Every rank among finitely many numbers is that of one of them.
LEMMA RanksOf ==
  ASSUME NEW S \in SUBSET Nat, IsFiniteSet(S)
  PROVE  LET Rank(h) == Cardinality({g \in S : g < h}) IN
         /\ Cardinality(S) \in Nat
         /\ \A h \in S : Rank(h) + 1 \in 1..Cardinality(S)
         /\ \A g, h \in S : Rank(g) = Rank(h) => g = h
         /\ \A i \in 1..Cardinality(S) : \E h \in S : Rank(h) = i - 1
<1> DEFINE Less(h) == {g \in S : g < h}
           Rank(h) == Cardinality(Less(h))
           c == Cardinality(S)
           f == [h \in S |-> Rank(h) + 1]
<1>1. c \in Nat
  BY FS_CardinalityType
<1>2. ASSUME NEW h \in S
      PROVE  Rank(h) \in Nat /\ Rank(h) + 1 \in 1..c
  <2>1. IsFiniteSet(S \ {h}) /\ Cardinality(S \ {h}) = c - 1
    BY FS_RemoveElement
  <2>2. Less(h) \in SUBSET (S \ {h})
    OBVIOUS
  <2>3. IsFiniteSet(Less(h)) /\ Rank(h) <= Cardinality(S \ {h})
    BY <2>1, <2>2, FS_Subset
  <2>4. Rank(h) \in Nat
    BY <2>3, FS_CardinalityType
  <2> HIDE DEF Rank, c
  <2> QED
    BY <1>1, <2>1, <2>3, <2>4
<1>3. ASSUME NEW g \in S, NEW h \in S, g < h
      PROVE  Rank(g) < Rank(h)
  <2>1. IsFiniteSet(Less(h))
    BY FS_Subset
  <2>2. Less(g) \in SUBSET Less(h) /\ Less(g) # Less(h)
    <3>1. \A x \in S : x \in Int /\ (x < g => x < h)
      BY <1>3
    <3>2. g \in Less(h) /\ g \notin Less(g)
      BY <1>3
    <3> QED
      BY <3>1, <3>2
  <2>3. Rank(g) <= Rank(h) /\ Rank(g) # Rank(h)
    <3> HIDE DEF Less
    <3> QED
      BY <2>1, <2>2, FS_Subset
  <2> HIDE DEF Rank
  <2> QED
    BY <1>2, <2>3
<1>4. \A g, h \in S : Rank(g) = Rank(h) => g = h
  <2> SUFFICES ASSUME NEW g \in S, NEW h \in S, Rank(g) = Rank(h) PROVE g = h
    OBVIOUS
  <2>1. Rank(g) \in Nat /\ ~(g < h) /\ ~(h < g)
    <3> HIDE DEF Rank
    <3> QED
      BY <1>2, <1>3
  <2> QED
    BY <2>1
<1>5. f \in Injection(S, 1..c)
  <2> HIDE DEF Rank, c
  <2>1. f \in [S -> 1..c]
    BY <1>2
  <2>2. \A g, h \in S : f[g] = f[h] => g = h
    BY <1>2, <1>4
  <2> QED
    BY <2>1, <2>2 DEF Injection, IsInjective
<1>6. f \in Surjection(S, 1..c)
  <2>1. IsFiniteSet(1..c) /\ Cardinality(1..c) = c
    <3> HIDE DEF c
    <3>1. IsFiniteSet(1..c) /\ Cardinality(1..c) = (IF 1 > c THEN 0 ELSE c - 1 + 1)
      BY <1>1, FS_Interval
    <3> QED
      BY <1>1, <3>1
  <2> HIDE DEF f
  <2> QED
    BY <1>5, <2>1, FS_Injection
<1>7. \A i \in 1..c : \E h \in S : Rank(h) = i - 1
  <2> SUFFICES ASSUME NEW i \in 1..c PROVE \E h \in S : Rank(h) = i - 1
    OBVIOUS
  <2>1. PICK h \in S : f[h] = i
    BY <1>6 DEF Surjection
  <2>2. Rank(h) + 1 = i /\ Rank(h) \in Nat
    BY <1>2, <2>1
  <2> HIDE DEF Rank
  <2> QED
    BY <2>2
<1> QED
  BY <1>1, <1>2, <1>4, <1>7

\* A list without repetitions, of the hosts in S.
Lists(q, S) ==
  /\ q \in Seq(S) /\ \A h \in S : \E i \in 1..Len(q) : q[i] = h
  /\ \A i, j \in 1..Len(q) : q[i] = q[j] => i = j

\* The addresses of a map, in their order, are a list of its hosts.
LEMMA InOrderLists ==
  ASSUME NEW S \in SUBSET Nat, IsFiniteSet(S)
  PROVE  Lists(Pln!InOrder(S), S)
<1> DEFINE Rank(h) == Cardinality({g \in S : g < h})
           c == Cardinality(S)
           Nth(i) == CHOOSE h \in S : Rank(h) = i - 1
<1>1. /\ c \in Nat
      /\ \A h \in S : Rank(h) + 1 \in 1..c
      /\ \A g, h \in S : Rank(g) = Rank(h) => g = h
      /\ \A i \in 1..c : \E h \in S : Rank(h) = i - 1
  BY RanksOf
<1>2. Pln!InOrder(S) = [i \in 1..c |-> Nth(i)]
  BY DEF Pln!InOrder, Pln!Cardinality, Cardinality
<1> HIDE DEF Rank, c
<1>3. \A i \in 1..c : Nth(i) \in S /\ Rank(Nth(i)) = i - 1
  BY <1>1
<1>4. \A h \in S : Rank(h) \in Int /\ Nth(Rank(h) + 1) = h
  <2> SUFFICES ASSUME NEW h \in S PROVE Rank(h) \in Int /\ Nth(Rank(h) + 1) = h
    OBVIOUS
  <2>1. Rank(h) + 1 \in 1..c /\ Rank(h) \in Int
    <3>1. Rank(h) \in Nat
      <4>1. IsFiniteSet({g \in S : g < h})
        BY FS_Subset
      <4> QED
        BY <4>1, FS_CardinalityType DEF Rank
    <3> QED
      BY <1>1, <3>1
  <2>2. Nth(Rank(h) + 1) \in S /\ Rank(Nth(Rank(h) + 1)) = Rank(h) + 1 - 1
    BY <1>3, <2>1
  <2>3. Rank(h) + 1 - 1 = Rank(h)
    BY <2>1
  <2> HIDE DEF Nth
  <2> QED
    BY <1>1, <2>1, <2>2, <2>3
<1> HIDE DEF Nth
<1>5. Pln!InOrder(S) \in Seq(S) /\ Len(Pln!InOrder(S)) = c
  BY <1>1, <1>2, <1>3
<1>6. \A h \in S : \E i \in 1..c : Pln!InOrder(S)[i] = h
  BY <1>1, <1>2, <1>4
<1>7. \A i, j \in 1..c : Pln!InOrder(S)[i] = Pln!InOrder(S)[j] => i = j
  <2> SUFFICES ASSUME NEW i \in 1..c, NEW j \in 1..c, Nth(i) = Nth(j) PROVE i = j
    BY <1>2
  <2>1. i - 1 = j - 1
    BY <1>3
  <2> QED
    BY <1>1, <2>1
<1> QED
  BY <1>5, <1>6, <1>7 DEF Lists

\* What the operators on sequences say of a list.
LEMMA ListFacts ==
  ASSUME NEW S, NEW q, Lists(q, S)
  PROVE  /\ q \in Seq(S) /\ Len(q) \in Nat /\ DOMAIN q = 1..Len(q)
         /\ Pln!ToSet(q) = S /\ Pln!IsInjective(q)
         /\ \A h : Pln!Contains(q, h) <=> h \in S
<1>1. q \in Seq(S) /\ Len(q) \in Nat /\ DOMAIN q = 1..Len(q) /\ \A i \in 1..Len(q) : q[i] \in S
  BY DEF Lists
<1>2. Pln!ToSet(q) = S
  BY <1>1 DEF Lists, Pln!ToSet
<1>3. Pln!IsInjective(q)
  BY <1>1 DEF Lists, Pln!IsInjective
<1>4. \A h : Pln!Contains(q, h) <=> h \in S
  BY <1>1 DEF Lists, Pln!Contains
<1> QED
  BY <1>1, <1>2, <1>3, <1>4

\* add_host and push_back: one more host.
LEMMA AppendLists ==
  ASSUME NEW S, NEW q, Lists(q, S), NEW h, h \notin S
  PROVE  Lists(Append(q, h), S \cup {h})
<1> DEFINE r == Append(q, h)
           n == Len(q)
<1>1. /\ q \in Seq(S) /\ n \in Nat /\ DOMAIN q = 1..n /\ \A i \in 1..n : q[i] \in S
      /\ \A x \in S : \E i \in 1..n : q[i] = x
      /\ \A i, j \in 1..n : q[i] = q[j] => i = j
  BY DEF Lists
<1>2. /\ r \in Seq(S \cup {h}) /\ Len(r) = n + 1 /\ r[n + 1] = h
      /\ \A i \in 1..n : r[i] = q[i]
  BY <1>1
<1> HIDE DEF r, n
<1>3. \A x \in S \cup {h} : \E i \in 1..(n + 1) : r[i] = x
  <2>1. n + 1 \in 1..(n + 1) /\ \A i \in 1..n : i \in 1..(n + 1)
    BY <1>1
  <2> QED
    BY <1>1, <1>2, <2>1
<1>4. \A i, j \in 1..(n + 1) : r[i] = r[j] => i = j
  <2>1. \A i \in 1..(n + 1) : i = n + 1 \/ i \in 1..n
    BY <1>1
  <2> QED
    BY <1>1, <1>2, <2>1
<1> QED
  BY <1>2, <1>3, <1>4 DEF Lists, r

\* add_host: one more host, unless it is in the list.
LEMMA AddHostLists ==
  ASSUME NEW S, NEW q, Lists(q, S), NEW h
  PROVE  Lists(Pln!add_host(q, h), S \cup {h})
<1>1. CASE h \in S
  <2>1. S \cup {h} = S
    BY <1>1
  <2> QED
    BY <1>1, <2>1, ListFacts DEF Pln!add_host
<1>2. CASE h \notin S
  BY <1>2, AppendLists, ListFacts DEF Pln!add_host
<1> QED
  BY <1>1, <1>2

\* remove_host: without the host, if it was there.
LEMMA RemoveHostLists ==
  ASSUME NEW S, NEW q, Lists(q, S), NEW h
  PROVE  Lists(Pln!remove_host(q, h), S \ {h})
<1> DEFINE n == Len(q)
           I == {i \in 1..n : q[i] = h}
           k == Pln!Min(I)
           r == Pln!RemoveAt(q, k)
<1>1. /\ q \in Seq(S) /\ n \in Nat /\ DOMAIN q = 1..n /\ \A i \in 1..n : q[i] \in S
      /\ \A x \in S : \E i \in 1..n : q[i] = x
      /\ \A i, j \in 1..n : q[i] = q[j] => i = j
  BY DEF Lists
<1>2. CASE h \notin S
  <2>1. S \ {h} = S
    BY <1>2
  <2> QED
    BY <1>2, <2>1, ListFacts DEF Pln!remove_host
<1>3. CASE h \in S
  <2>1. k \in 1..n /\ q[k] = h
    <3>1. I \in SUBSET Nat /\ I # {}
      BY <1>1, <1>3
    <3> QED
      BY <3>1, LeastIsIn
  <2>2. Pln!remove_host(q, h) = r
    <3>1. Pln!Contains(q, h) /\ \E i \in 1..n : q[i] = h
      BY <1>1, <1>3 DEF Pln!Contains
    <3>2. I # {}
      BY <3>1
    <3> QED
      BY <3>1, <3>2 DEF Pln!remove_host, Pln!RemoveFirst, Pln!SelectInSeq
  <2> HIDE DEF k
  <2>3. /\ r \in Seq(S) /\ Len(r) = n - 1
        /\ \A i \in 1..(n - 1) : r[i] = IF i < k THEN q[i] ELSE q[i + 1]
    <3> DEFINE a == SubSeq(q, 1, k - 1)
               b == SubSeq(q, k + 1, n)
    <3>1. /\ a \in Seq(S) /\ Len(a) = k - 1
          /\ \A i \in 1..(k - 1) : a[i] = q[i]
      <4>1. k - 1 \in Nat /\ k - 1 <= n /\ \A i \in 1..(k - 1) : i \in 1..n
        BY <1>1, <2>1
      <4>2. a = [i \in 1..(k - 1) |-> q[i]]
        BY <1>1, <2>1, <4>1
      <4> HIDE DEF a
      <4> QED
        BY <1>1, <4>1, <4>2
    <3>2. /\ b \in Seq(S) /\ Len(b) = n - k
          /\ \A i \in 1..(n - k) : b[i] = q[i + k]
      <4>1. n - k \in Nat /\ \A i \in 1..(n - k) : i + k \in 1..n
        BY <1>1, <2>1
      <4>2. b = [i \in 1..(n - k) |-> q[i + k]]
        BY <1>1, <2>1, <4>1
      <4> HIDE DEF b
      <4> QED
        BY <1>1, <4>1, <4>2
    <3>3. r = a \o b
      BY DEF Pln!RemoveAt
    <3> HIDE DEF a, b, r, n
    <3>4. r \in Seq(S) /\ Len(r) = n - 1
      BY <1>1, <2>1, <3>1, <3>2, <3>3
    <3>5. ASSUME NEW i \in 1..(n - 1)
          PROVE  r[i] = IF i < k THEN q[i] ELSE q[i + 1]
      <4>1. r[i] = IF i <= k - 1 THEN a[i] ELSE b[i - (k - 1)]
        BY <1>1, <2>1, <3>1, <3>2, <3>3, SMTT(30)
      <4>2. CASE i < k
        BY <2>1, <3>1, <4>1, <4>2
      <4>3. CASE ~(i < k)
        <5>1. i - (k - 1) \in 1..(n - k) /\ i - (k - 1) + k = i + 1 /\ ~(i <= k - 1)
          BY <1>1, <2>1, <4>3
        <5> QED
          BY <3>2, <4>1, <4>3, <5>1
      <4> QED
        BY <4>2, <4>3
    <3> QED
      BY <3>4, <3>5
  <2> HIDE DEF r, n
  <2>4. \A i \in 1..(n - 1) : r[i] \in S \ {h}
    <3> SUFFICES ASSUME NEW i \in 1..(n - 1) PROVE r[i] \in S \ {h}
      OBVIOUS
    <3>1. CASE i < k
      <4>1. i \in 1..n /\ i # k /\ r[i] = q[i]
        BY <1>1, <2>1, <2>3, <3>1
      <4> QED
        BY <1>1, <2>1, <4>1
    <3>2. CASE ~(i < k)
      <4>1. i + 1 \in 1..n /\ i + 1 # k /\ r[i] = q[i + 1]
        BY <1>1, <2>1, <2>3, <3>2
      <4> QED
        BY <1>1, <2>1, <4>1
    <3> QED
      BY <3>1, <3>2
  <2>5. r \in Seq(S \ {h})
    <3>1. n - 1 \in Nat /\ r = [i \in 1..(n - 1) |-> r[i]]
      BY <1>1, <2>1, <2>3
    <3> QED
      BY <2>4, <3>1
  <2>6. \A x \in S \ {h} : \E i \in 1..(n - 1) : r[i] = x
    <3> SUFFICES ASSUME NEW x \in S \ {h} PROVE \E i \in 1..(n - 1) : r[i] = x
      OBVIOUS
    <3>1. PICK j \in 1..n : q[j] = x
      BY <1>1
    <3>2. CASE j < k
      <4>1. j \in 1..(n - 1) /\ r[j] = q[j]
        BY <1>1, <2>1, <2>3, <3>2
      <4> QED
        BY <3>1, <4>1
    <3>3. CASE ~(j < k)
      <4>1. j # k
        BY <2>1, <3>1
      <4>2. j - 1 \in 1..(n - 1) /\ ~(j - 1 < k) /\ j - 1 + 1 = j
        BY <1>1, <2>1, <3>3, <4>1
      <4>3. r[j - 1] = q[j]
        BY <2>3, <4>2
      <4> QED
        BY <3>1, <4>2, <4>3
    <3> QED
      BY <3>2, <3>3
  <2>7. \A i, j \in 1..(n - 1) : r[i] = r[j] => i = j
    <3> SUFFICES ASSUME NEW i \in 1..(n - 1), NEW j \in 1..(n - 1), r[i] = r[j] PROVE i = j
      OBVIOUS
    <3> DEFINE at(x) == IF x < k THEN x ELSE x + 1
    <3>1. at(i) \in 1..n /\ at(j) \in 1..n /\ r[i] = q[at(i)] /\ r[j] = q[at(j)]
      BY <1>1, <2>1, <2>3
    <3>2. at(i) = at(j)
      <4> HIDE DEF at
      <4> QED
        BY <1>1, <3>1
    <3> QED
      BY <2>1, <3>2
  <2> QED
    BY <2>2, <2>3, <2>5, <2>6, <2>7 DEF Lists
<1> QED
  BY <1>2, <1>3

\* copy_hosts to an empty list.
LEMMA CopyHostsLists ==
  ASSUME NEW S \in SUBSET Nat, IsFiniteSet(S)
  PROVE  Lists(Pln!copy_hosts(S, <<>>), S)
<1>1. Pln!InOrder(S) \in Seq(S)
  BY InOrderLists DEF Lists
<1>2. Pln!copy_hosts(S, <<>>) = Pln!InOrder(S)
  BY <1>1 DEF Pln!copy_hosts
<1> QED
  BY <1>2, InOrderLists
-----------------------------------------------------------------------------
(* The lists of the policy *)

SettingsTyped == [kind : {"RoundRobin", "DCAware"}, local_dc : Nat, used : Nat, skip : BOOLEAN,
                  whitelist : SUBSET Nat]
Policies == [settings : SettingsTyped, local_dc : Nat, hosts : Seq(Hosts),
             remote : UNION {[D -> Seq(Hosts)] : D \in SUBSET Nat}, index : Nat]

\* A host that counts as local, as long as the policy lasts.
Home(p, h) == Pln!is_valid_host(p, h) /\ (p.settings.kind = "RoundRobin" \/ DC[h] = p.local_dc)

\* A host is in one list, and there once; that of its data center, or, if it
\* has none, the local one if it came first.  What is local is settled.
ListsFit(p, u) ==
  /\ p \in Policies
  /\ Pln!IsInjective(p.hosts) /\ \A h \in Pln!ToSet(p.hosts) : Pln!is_valid_host(p, h)
  /\ p.settings.kind = "DCAware" =>
       /\ \A h \in Pln!ToSet(p.hosts) : DC[h] \in {p.local_dc, Pln!NoDC}
       /\ \A h \in Hosts \ u : DC[h] = p.local_dc => h \notin Pln!ToSet(p.hosts)
       /\ p.local_dc = Pln!NoDC => \A h \in Hosts : Pln!is_valid_host(p, h) => DC[h] = Pln!NoDC
       /\ \A d \in DOMAIN p.remote :
            /\ Pln!IsInjective(p.remote[d]) /\ d # p.local_dc
            /\ \A h \in Pln!ToSet(p.remote[d]) : DC[h] = d /\ h \notin Pln!ToSet(p.hosts)

\* What is local stays so, and hosts of the local list that are not local stay there.
SameHome(p, q) ==
  /\ q.settings = p.settings /\ q.local_dc = p.local_dc
  /\ \A h \in Hosts : ~Home(p, h) => (h \in Pln!ToSet(q.hosts) <=> h \in Pln!ToSet(p.hosts))

\* Lists that have no host twice, in the terms of the policy.
LEMMA InjectiveLists ==
  ASSUME NEW T, NEW q \in Seq(T)
  PROVE  /\ Pln!IsInjective(q) => Lists(q, Pln!ToSet(q))
         /\ Pln!ToSet(q) \subseteq T /\ \A h : Pln!Contains(q, h) <=> h \in Pln!ToSet(q)
<1>1. Len(q) \in Nat /\ DOMAIN q = 1..Len(q) /\ Pln!ToSet(q) = {q[i] : i \in 1..Len(q)}
  BY DEF Pln!ToSet
<1>2. q \in Seq(Pln!ToSet(q))
  BY <1>1
<1>3. \A h \in Pln!ToSet(q) : \E i \in 1..Len(q) : q[i] = h
  BY <1>1
<1> QED
  BY <1>1, <1>2, <1>3 DEF Lists, Pln!IsInjective, Pln!Contains

\* The types of a policy's fields.
LEMMA PolicyTypes ==
  ASSUME NEW p \in Policies
  PROVE  /\ p.settings.kind \in {"RoundRobin", "DCAware"} /\ p.settings.used \in Nat
         /\ p.local_dc \in Nat /\ p.index \in Nat /\ p.hosts \in Seq(Hosts)
         /\ DOMAIN p.remote \subseteq Nat /\ p.remote \in [DOMAIN p.remote -> Seq(Hosts)]
         /\ \A d : Pln!get_hosts(p, d) \in Seq(Hosts)
<1>1. /\ p.settings.kind \in {"RoundRobin", "DCAware"} /\ p.settings.used \in Nat
      /\ p.local_dc \in Nat /\ p.index \in Nat /\ p.hosts \in Seq(Hosts)
      /\ p.remote \in UNION {[D -> Seq(Hosts)] : D \in SUBSET Nat}
  BY DEF Policies, SettingsTyped
<1>2. PICK D \in SUBSET Nat : p.remote \in [D -> Seq(Hosts)]
  BY <1>1
<1>3. DOMAIN p.remote = D /\ p.remote \in [DOMAIN p.remote -> Seq(Hosts)]
  BY <1>2
<1>4. ASSUME NEW d PROVE Pln!get_hosts(p, d) \in Seq(Hosts)
  <2>1. CASE d \in DOMAIN p.remote
    BY <1>3, <2>1 DEF Pln!get_hosts
  <2>2. CASE d \notin DOMAIN p.remote
    BY <2>2 DEF Pln!get_hosts
  <2> QED
    BY <2>1, <2>2
<1> QED
  BY <1>1, <1>3, <1>4

\* The distance, case by case.
LEMMA DistanceCases ==
  ASSUME NEW p, NEW h, NEW d
  PROVE  /\ ~Pln!is_valid_host(p, h) => Pln!Distance(p, h, d) = "IGNORE"
         /\ Pln!is_valid_host(p, h) /\ (p.settings.kind = "RoundRobin" \/ p.local_dc = Pln!NoDC \/ d = p.local_dc)
              => Pln!Distance(p, h, d) = "LOCAL"
         /\ Pln!is_valid_host(p, h) /\ ~(p.settings.kind = "RoundRobin" \/ p.local_dc = Pln!NoDC \/ d = p.local_dc)
              => Pln!Distance(p, h, d) =
                   LET hosts == Pln!get_hosts(p, d)
                       used == IF Len(hosts) < p.settings.used THEN Len(hosts) ELSE p.settings.used
                   IN  IF Pln!Contains(SubSeq(hosts, 1, used), h) THEN "REMOTE" ELSE "IGNORE"
BY DEF Pln!Distance

\* The local hosts are those at distance LOCAL.
LEMMA HomeIsLocal ==
  ASSUME NEW p, NEW u, ListsFit(p, u), NEW h \in Hosts
  PROVE  Pln!Distance(p, h, DC[h]) = "LOCAL" <=> Home(p, h)
<1>1. p.settings.kind \in {"RoundRobin", "DCAware"}
  BY PolicyTypes DEF ListsFit
<1> DEFINE settled == p.settings.kind = "RoundRobin" \/ p.local_dc = Pln!NoDC \/ DC[h] = p.local_dc
<1>2. CASE Pln!is_valid_host(p, h) /\ settled
  BY <1>1, <1>2, DistanceCases DEF Home, ListsFit
<1>3. CASE ~Pln!is_valid_host(p, h)
  BY <1>3, DistanceCases DEF Home
<1>4. CASE Pln!is_valid_host(p, h) /\ ~settled
  <2>1. Pln!Distance(p, h, DC[h]) # "LOCAL"
    BY <1>4, DistanceCases
  <2> QED
    BY <1>4, <2>1 DEF Home
<1> QED
  BY <1>2, <1>3, <1>4

\* A host of another data center that is used is in the list of it.
LEMMA RemoteIsListed ==
  ASSUME NEW p, NEW u, ListsFit(p, u), NEW h \in Hosts,
         Pln!Distance(p, h, DC[h]) # "IGNORE", ~Home(p, h)
  PROVE  /\ p.settings.kind = "DCAware" /\ Pln!is_valid_host(p, h) /\ DC[h] # p.local_dc
         /\ DC[h] \in DOMAIN p.remote /\ h \in Pln!ToSet(p.remote[DC[h]])
<1>1. p.settings.kind \in {"RoundRobin", "DCAware"} /\ p.settings.used \in Nat
  BY PolicyTypes DEF ListsFit
<1>2. p.settings.kind = "DCAware" /\ Pln!is_valid_host(p, h) /\ DC[h] # p.local_dc
  BY <1>1, DistanceCases DEF Home
<1>3. p.local_dc # Pln!NoDC
  BY <1>2 DEF ListsFit
<1> DEFINE q == Pln!get_hosts(p, DC[h])
           used == IF Len(q) < p.settings.used THEN Len(q) ELSE p.settings.used
<1>4. Pln!Contains(SubSeq(q, 1, used), h)
  BY <1>2, <1>3, DistanceCases
<1>5. q \in Seq(Hosts) /\ Len(q) \in Nat /\ DOMAIN q = 1..Len(q)
  BY PolicyTypes DEF ListsFit
<1>6. \E i \in 1..Len(q) : q[i] = h
  <2>1. used \in Nat /\ used <= Len(q)
    BY <1>1, <1>5
  <2> HIDE DEF q, used
  <2>2. Len(SubSeq(q, 1, used)) = used /\ \A i \in 1..used : i \in 1..Len(q) /\ SubSeq(q, 1, used)[i] = q[i]
    BY <1>5, <2>1
  <2> QED
    BY <1>4, <2>2 DEF Pln!Contains
<1>7. DC[h] \in DOMAIN p.remote
  BY <1>6 DEF Pln!get_hosts
<1> QED
  BY <1>2, <1>5, <1>6, <1>7 DEF Pln!get_hosts, Pln!ToSet

\* A host that goes down leaves its list; who is local does not change.
LEMMA DownFits ==
  ASSUME NEW p, NEW u, ListsFit(p, u), NEW h \in Hosts, Pln!QueryPlanAssumption
  PROVE  LET q == Pln!PolicyOnRemove(p, h, DC[h]) IN
         ListsFit(q, u \ {h}) /\ SameHome(p, q)
<1> DEFINE q == Pln!PolicyOnRemove(p, h, DC[h])
           d == DC[h]
           gone == Pln!remove_host(p.hosts, h)
           left == Pln!remove_host(p.remote[d], h)
<1>1. /\ p \in Policies /\ p.hosts \in Seq(Hosts) /\ Pln!IsInjective(p.hosts) /\ d \in Nat
      /\ p.settings.kind \in {"RoundRobin", "DCAware"}
      /\ DOMAIN p.remote \subseteq Nat /\ p.remote \in [DOMAIN p.remote -> Seq(Hosts)]
  BY PolicyTypes DEF ListsFit, Pln!QueryPlanAssumption
<1>2. Lists(gone, Pln!ToSet(p.hosts) \ {h})
  BY <1>1, InjectiveLists, RemoveHostLists
<1>3. gone \in Seq(Hosts) /\ Pln!IsInjective(gone) /\ Pln!ToSet(gone) = Pln!ToSet(p.hosts) \ {h}
  <2>1. Pln!ToSet(p.hosts) \ {h} \subseteq Hosts
    BY <1>1, InjectiveLists
  <2> QED
    BY <1>2, <2>1, ListFacts
<1> HIDE DEF gone, left, d
<1>4. CASE ~Pln!is_valid_host(p, h)
  <2>1. q = p
    BY <1>4 DEF Pln!PolicyOnRemove
  <2>2. h \notin Pln!ToSet(p.hosts)
    BY <1>4 DEF ListsFit
  <2> QED
    BY <2>1, <2>2 DEF ListsFit, SameHome
<1>5. CASE Pln!is_valid_host(p, h) /\ (p.settings.kind = "RoundRobin" \/ d = p.local_dc)
  <2>1. q = [p EXCEPT !.hosts = gone]
    BY <1>5 DEF Pln!PolicyOnRemove, d, gone
  <2>2. /\ q \in Policies /\ q.hosts = gone /\ q.settings = p.settings /\ q.local_dc = p.local_dc
        /\ q.remote = p.remote
    BY <1>1, <1>3, <2>1 DEF Policies
  <2>3. Home(p, h)
    BY <1>5 DEF Home, d
  <2> HIDE DEF q
  <2>4. \A g : Pln!is_valid_host(q, g) <=> Pln!is_valid_host(p, g)
    BY <2>2 DEF Pln!is_valid_host
  <2>5. ListsFit(q, u \ {h})
    BY <1>3, <2>2, <2>4 DEF ListsFit
  <2>6. SameHome(p, q)
    BY <1>3, <2>2, <2>3 DEF SameHome
  <2> QED
    BY <2>5, <2>6 DEF q
<1>6. CASE Pln!is_valid_host(p, h) /\ p.settings.kind # "RoundRobin" /\ d # p.local_dc
  <2>1. CASE d \notin DOMAIN p.remote
    <3>1. q = p
      BY <1>6, <2>1 DEF Pln!PolicyOnRemove, d
    <3>2. ListsFit(p, u \ {h})
      BY <1>6 DEF ListsFit, d
    <3> QED
      BY <3>1, <3>2 DEF SameHome
  <2>2. CASE d \in DOMAIN p.remote
    <3>1. q = Pln!WithRemote(p, d, left)
      BY <1>6, <2>2 DEF Pln!PolicyOnRemove, d, left
    <3>2. Pln!IsInjective(p.remote[d]) /\ p.remote[d] \in Seq(Hosts)
      BY <1>1, <1>6, <2>2 DEF ListsFit
    <3>3. left \in Seq(Hosts) /\ Pln!IsInjective(left) /\ Pln!ToSet(left) = Pln!ToSet(p.remote[d]) \ {h}
      <4>1. Lists(left, Pln!ToSet(p.remote[d]) \ {h}) /\ Pln!ToSet(p.remote[d]) \ {h} \subseteq Hosts
        BY <3>2, InjectiveLists, RemoveHostLists DEF left
      <4> QED
        BY <4>1, ListFacts
    <3>4. /\ q \in Policies /\ q.hosts = p.hosts /\ q.settings = p.settings /\ q.local_dc = p.local_dc
          /\ DOMAIN q.remote = DOMAIN p.remote
          /\ \A e \in DOMAIN p.remote : q.remote[e] = IF e = d THEN left ELSE p.remote[e]
      <4> DEFINE f == [x \in DOMAIN p.remote \cup {d} |-> IF x = d THEN left ELSE p.remote[x]]
      <4>1. q = [p EXCEPT !.remote = f]
        BY <3>1 DEF Pln!WithRemote
      <4>2. f \in [DOMAIN p.remote -> Seq(Hosts)]
        BY <1>1, <2>2, <3>3
      <4>3. DOMAIN f = DOMAIN p.remote /\ \A e \in DOMAIN p.remote : f[e] = IF e = d THEN left ELSE p.remote[e]
        BY <2>2
      <4> HIDE DEF f, q
      <4>4. f \in UNION {[D -> Seq(Hosts)] : D \in SUBSET Nat}
        BY <1>1, <4>2
      <4>5. /\ q \in Policies /\ q.remote = f
            /\ q.hosts = p.hosts /\ q.settings = p.settings /\ q.local_dc = p.local_dc
        BY <1>1, <4>1, <4>4 DEF Policies
      <4> QED
        BY <4>3, <4>5
    <3> HIDE DEF q
    <3>5. \A g : Pln!is_valid_host(q, g) <=> Pln!is_valid_host(p, g)
      BY <3>4 DEF Pln!is_valid_host
    <3>6. \A e \in DOMAIN p.remote :
            Pln!IsInjective(q.remote[e]) /\ Pln!ToSet(q.remote[e]) \subseteq Pln!ToSet(p.remote[e])
      <4> SUFFICES ASSUME NEW e \in DOMAIN p.remote
                   PROVE  Pln!IsInjective(q.remote[e]) /\ Pln!ToSet(q.remote[e]) \subseteq Pln!ToSet(p.remote[e])
        OBVIOUS
      <4>1. CASE e = d
        BY <3>3, <3>4, <4>1
      <4>2. CASE e # d
        BY <1>1, <1>6, <3>4, <4>2 DEF ListsFit
      <4> QED
        BY <4>1, <4>2
    <3>7. ListsFit(q, u \ {h})
      <4>1. /\ \A g \in Pln!ToSet(q.hosts) : DC[g] \in {q.local_dc, Pln!NoDC}
            /\ \A g \in Hosts \ (u \ {h}) : DC[g] = q.local_dc => g \notin Pln!ToSet(q.hosts)
            /\ q.local_dc = Pln!NoDC => \A g \in Hosts : Pln!is_valid_host(q, g) => DC[g] = Pln!NoDC
        BY <1>1, <1>6, <3>4, <3>5 DEF ListsFit, d
      <4>2. \A e \in DOMAIN q.remote :
              /\ Pln!IsInjective(q.remote[e]) /\ e # q.local_dc
              /\ \A g \in Pln!ToSet(q.remote[e]) : DC[g] = e /\ g \notin Pln!ToSet(q.hosts)
        BY <1>1, <1>6, <3>4, <3>6 DEF ListsFit
      <4>3. Pln!IsInjective(q.hosts) /\ \A g \in Pln!ToSet(q.hosts) : Pln!is_valid_host(q, g)
        BY <3>4, <3>5 DEF ListsFit
      <4> QED
        BY <3>4, <4>1, <4>2, <4>3 DEF ListsFit
    <3>8. SameHome(p, q)
      BY <3>4 DEF SameHome
    <3> QED
      BY <3>7, <3>8 DEF q
  <2> QED
    BY <2>1, <2>2
<1> QED
  BY <1>1, <1>4, <1>5, <1>6

\* A host that comes up joins its list again; who is local does not change.
LEMMA UpFits ==
  ASSUME NEW p, NEW u, ListsFit(p, u), NEW h \in Hosts \ u, Pln!QueryPlanAssumption
  PROVE  LET q == Pln!SessionOnUp(p, h, DC[h]) IN
         ListsFit(q, u \cup {h}) /\ SameHome(p, q)
<1> DEFINE q == Pln!SessionOnUp(p, h, DC[h])
           d == DC[h]
<1>1. /\ p \in Policies /\ p.hosts \in Seq(Hosts) /\ Pln!IsInjective(p.hosts) /\ d \in Nat
      /\ p.settings.kind \in {"RoundRobin", "DCAware"}
      /\ DOMAIN p.remote \subseteq Nat /\ p.remote \in [DOMAIN p.remote -> Seq(Hosts)]
  BY PolicyTypes DEF ListsFit, Pln!QueryPlanAssumption
<1>2. ListsFit(p, u \cup {h}) /\ SameHome(p, p)
  BY DEF ListsFit, SameHome
<1>3. ASSUME NEW g \in Seq(Hosts), Lists(g, Pln!ToSet(p.hosts) \cup {h}), q = [p EXCEPT !.hosts = g],
             Home(p, h), Pln!is_valid_host(p, h)
      PROVE  ListsFit(q, u \cup {h}) /\ SameHome(p, q)
  <2>1. Pln!IsInjective(g) /\ Pln!ToSet(g) = Pln!ToSet(p.hosts) \cup {h}
    BY <1>3, ListFacts
  <2>2. /\ q \in Policies /\ q.hosts = g /\ q.settings = p.settings /\ q.local_dc = p.local_dc
        /\ q.remote = p.remote
    BY <1>1, <1>3 DEF Policies
  <2> HIDE DEF q
  <2>3. \A x : Pln!is_valid_host(q, x) <=> Pln!is_valid_host(p, x)
    BY <2>2 DEF Pln!is_valid_host
  <2>4. ASSUME q.settings.kind = "DCAware"
        PROVE  /\ \A x \in Pln!ToSet(q.hosts) : DC[x] \in {q.local_dc, Pln!NoDC}
               /\ \A x \in Hosts \ (u \cup {h}) : DC[x] = q.local_dc => x \notin Pln!ToSet(q.hosts)
               /\ q.local_dc = Pln!NoDC => \A x \in Hosts : Pln!is_valid_host(q, x) => DC[x] = Pln!NoDC
               /\ \A e \in DOMAIN q.remote :
                    /\ Pln!IsInjective(q.remote[e]) /\ e # q.local_dc
                    /\ \A x \in Pln!ToSet(q.remote[e]) : DC[x] = e /\ x \notin Pln!ToSet(q.hosts)
    <3>1. p.settings.kind = "DCAware" /\ DC[h] = p.local_dc
      BY <1>3, <2>2, <2>4 DEF Home
    <3>2. \A e \in DOMAIN p.remote : \A x \in Pln!ToSet(p.remote[e]) : x # h
      BY <3>1 DEF ListsFit
    <3> QED
      BY <2>1, <2>2, <2>3, <3>1, <3>2 DEF ListsFit
  <2>5. \A x \in Pln!ToSet(q.hosts) : Pln!is_valid_host(q, x)
    BY <1>3, <2>1, <2>2, <2>3 DEF ListsFit
  <2>6. ListsFit(q, u \cup {h})
    BY <2>1, <2>2, <2>4, <2>5 DEF ListsFit
  <2>7. SameHome(p, q)
    BY <1>3, <2>1, <2>2 DEF SameHome
  <2> QED
    BY <2>6, <2>7 DEF q
<1>4. Lists(p.hosts, Pln!ToSet(p.hosts)) /\ Pln!ToSet(p.hosts) \subseteq Hosts
  BY <1>1, InjectiveLists
<1> HIDE DEF d
<1>5. CASE Pln!Distance(p, h, d) = "IGNORE"
  <2>1. q = p
    BY <1>5 DEF Pln!SessionOnUp, d
  <2> QED
    BY <1>2, <2>1
<1>6. CASE Pln!Distance(p, h, d) # "IGNORE"
  <2>1. Pln!is_valid_host(p, h) /\ q = Pln!OnAddValid(p, h, d)
    BY <1>6, DistanceCases DEF Pln!SessionOnUp, Pln!PolicyOnAdd, d
  <2>2. CASE p.settings.kind = "RoundRobin"
    <3> DEFINE g == Pln!add_host(p.hosts, h)
    <3>1. Lists(g, Pln!ToSet(p.hosts) \cup {h}) /\ Pln!ToSet(p.hosts) \cup {h} \subseteq Hosts
      BY <1>4, AddHostLists
    <3>2. g \in Seq(Hosts)
      BY <3>1 DEF Lists
    <3>3. q = [p EXCEPT !.hosts = g] /\ Home(p, h)
      BY <2>1, <2>2 DEF Pln!OnAddValid, Home
    <3> HIDE DEF g, q
    <3> QED
      BY <1>3, <2>1, <3>1, <3>2, <3>3 DEF q
  <2>3. CASE p.settings.kind = "DCAware"
    <3>1. Pln!Discover(p, d) = p
      <4>1. CASE p.local_dc = Pln!NoDC
        <5>1. d = Pln!NoDC
          BY <2>1, <2>3, <4>1 DEF ListsFit, d
        <5>2. [p EXCEPT !.local_dc = d] = p
          BY <1>1, <4>1, <5>1 DEF Policies
        <5> QED
          BY <5>2 DEF Pln!Discover
      <4>2. CASE p.local_dc # Pln!NoDC
        BY <4>2 DEF Pln!Discover
      <4> QED
        BY <4>1, <4>2
    <3>2. q = IF d = p.local_dc THEN [p EXCEPT !.hosts = Append(p.hosts, h)]
              ELSE Pln!WithRemote(p, d, Pln!add_host(Pln!get_hosts(p, d), h))
      BY <2>1, <2>3, <3>1 DEF Pln!OnAddValid, Pln!OnAddDCAware
    <3>3. CASE d = p.local_dc
      <4> DEFINE g == Append(p.hosts, h)
      <4>1. h \notin Pln!ToSet(p.hosts)
        BY <2>3, <3>3 DEF ListsFit, d
      <4>2. Lists(g, Pln!ToSet(p.hosts) \cup {h}) /\ g \in Seq(Hosts)
        BY <1>1, <1>4, <4>1, AppendLists
      <4>3. q = [p EXCEPT !.hosts = g] /\ Home(p, h)
        BY <2>1, <2>3, <3>2, <3>3 DEF Home, d
      <4> HIDE DEF g, q
      <4> QED
        BY <1>3, <2>1, <4>2, <4>3 DEF q
    <3>4. CASE d # p.local_dc
      <4>1. d \in DOMAIN p.remote /\ h \in Pln!ToSet(p.remote[d])
        BY <1>6, <2>3, <3>4, RemoteIsListed DEF Home, d
      <4>2. Pln!get_hosts(p, d) = p.remote[d] /\ p.remote[d] \in Seq(Hosts)
        BY <1>1, <4>1 DEF Pln!get_hosts
      <4>3. Pln!add_host(p.remote[d], h) = p.remote[d]
        BY <4>1, <4>2, InjectiveLists DEF Pln!add_host
      <4>4. [x \in DOMAIN p.remote \cup {d} |-> IF x = d THEN p.remote[d] ELSE p.remote[x]] = p.remote
        BY <1>1, <4>1
      <4>5. q = [p EXCEPT !.remote = p.remote]
        BY <3>2, <3>4, <4>2, <4>3, <4>4 DEF Pln!WithRemote
      <4>6. q = p
        BY <1>1, <4>5 DEF Policies
      <4> QED
        BY <1>2, <4>6
    <3> QED
      BY <3>3, <3>4
  <2> QED
    BY <1>1, <2>2, <2>3
<1> QED
  BY <1>5, <1>6

\* The policy once it is told of all hosts.
LEMMA InitFits ==
  ASSUME NEW s \in SettingsTyped, NEW d \in Nat, Pln!QueryPlanAssumption
  PROVE  ListsFit(Pln!PolicyInit(Pln!NewPolicy(s), d, Hosts, DC), Hosts)
<1> DEFINE p == Pln!NewPolicy(s)
           q == Pln!PolicyInit(p, d, Hosts, DC)
           valid == {h \in Hosts : Pln!is_valid_host(p, h)}
           known == {h \in valid : DC[h] # Pln!NoDC}
           discovered == Pln!Discover(p, d).local_dc
           local == IF discovered = Pln!NoDC /\ known # {} THEN DC[Pln!Min(known)] ELSE discovered
           early == {h \in valid : DC[h] = discovered /\ \A g \in known : h < g}
           home == {h \in valid : DC[h] = local} \cup early
           away(e) == {h \in valid \ home : DC[h] = e /\ ~Pln!Contains(Pln!get_hosts(p, e), h)}
           remote == [e \in {DC[h] : h \in valid \ home} |-> Pln!copy_hosts(away(e), <<>>)]
<1>1. /\ p.settings = s /\ p.local_dc = s.local_dc /\ p.hosts = <<>> /\ p.remote = <<>> /\ p.index = 0
      /\ s.kind \in {"RoundRobin", "DCAware"} /\ s.local_dc \in Nat
  BY DEF Pln!NewPolicy, SettingsTyped
<1>2. DOMAIN p.remote = {} /\ \A e : Pln!get_hosts(p, e) = <<>>
  BY <1>1 DEF Pln!get_hosts
<1>3. /\ Hosts \subseteq Nat /\ IsFiniteSet(Hosts) /\ \A h \in Hosts : DC[h] \in Nat
  BY SameCounts DEF Pln!QueryPlanAssumption
<1>4. ASSUME NEW S \in SUBSET Hosts
      PROVE  LET l == Pln!copy_hosts(S, <<>>) IN l \in Seq(Hosts) /\ Pln!IsInjective(l) /\ Pln!ToSet(l) = S
  <2>1. S \in SUBSET Nat /\ IsFiniteSet(S)
    BY <1>3, FS_Subset
  <2>2. Lists(Pln!copy_hosts(S, <<>>), S)
    BY <2>1, CopyHostsLists
  <2> QED
    BY <2>2, ListFacts
<1>5. CASE s.kind = "RoundRobin"
  <2> DEFINE l == Pln!copy_hosts(valid, <<>>)
  <2>1. q = [p EXCEPT !.hosts = l]
    BY <1>1, <1>5 DEF Pln!PolicyInit
  <2>2. l \in Seq(Hosts) /\ Pln!IsInjective(l) /\ Pln!ToSet(l) = valid
    BY <1>4
  <2>3. <<>> \in UNION {[D -> Seq(Hosts)] : D \in SUBSET Nat}
    <3>1. <<>> \in [{} -> Seq(Hosts)] /\ {} \in SUBSET Nat
      OBVIOUS
    <3> QED
      BY <3>1
  <2> HIDE DEF l, q
  <2>4. /\ q \in Policies /\ q.settings = s /\ q.hosts = l
    BY <1>1, <2>1, <2>2, <2>3 DEF Pln!NewPolicy, Policies, SettingsTyped
  <2>5. \A h \in Pln!ToSet(q.hosts) : Pln!is_valid_host(q, h)
    BY <1>1, <2>2, <2>4 DEF Pln!is_valid_host
  <2> QED
    BY <1>5, <2>2, <2>4, <2>5 DEF ListsFit, q
<1>6. CASE s.kind = "DCAware"
  <2> DEFINE l == Pln!copy_hosts(home, <<>>)
  <2>1. discovered \in Nat /\ known \in SUBSET Nat
    BY <1>1, <1>3 DEF Pln!Discover, Pln!NewPolicy
  <2>2. /\ local \in Nat
        /\ local = Pln!NoDC => known = {} /\ discovered = Pln!NoDC
        /\ discovered # Pln!NoDC => local = discovered
    <3>1. CASE known # {}
      <4>1. Pln!Min(known) \in known
        BY <2>1, <3>1, LeastIsIn
      <4>2. DC[Pln!Min(known)] \in Nat /\ DC[Pln!Min(known)] # Pln!NoDC
        BY <1>3, <4>1
      <4> HIDE DEF discovered, known
      <4> QED
        BY <2>1, <3>1, <4>2
    <3>2. CASE known = {}
      <4> HIDE DEF discovered, known
      <4> QED
        BY <2>1, <3>2
    <3> QED
      BY <3>1, <3>2
  <2>3. q = [p EXCEPT !.local_dc = local, !.hosts = l, !.remote = remote]
    <3>1. [e \in DOMAIN p.remote \cup {DC[h] : h \in valid \ home} |->
             Pln!copy_hosts(away(e), Pln!get_hosts(p, e))] = remote
      BY <1>2
    <3> HIDE DEF remote, l
    <3>2. q = [p EXCEPT !.local_dc = local, !.hosts = Pln!copy_hosts(home, p.hosts), !.remote = remote]
      BY <1>1, <1>6, <3>1 DEF Pln!PolicyInit
    <3> QED
      BY <1>1, <3>2 DEF l
  <2>4. l \in Seq(Hosts) /\ Pln!IsInjective(l) /\ Pln!ToSet(l) = home
    BY <1>4
  <2>5. \A h \in home : h \in valid /\ DC[h] \in {local, Pln!NoDC}
    <3> HIDE DEF valid, known, local, discovered
    <3> QED
      BY <2>2
  <2>6. \A h \in valid \ home : DC[h] # local
    OBVIOUS
  <2> HIDE DEF home
  <2>7. \A e \in DOMAIN remote :
          /\ remote[e] \in Seq(Hosts) /\ Pln!IsInjective(remote[e]) /\ e # local /\ e \in Nat
          /\ \A h \in Pln!ToSet(remote[e]) : DC[h] = e /\ h \notin home
    <3> SUFFICES ASSUME NEW e \in DOMAIN remote
                 PROVE  /\ remote[e] \in Seq(Hosts) /\ Pln!IsInjective(remote[e]) /\ e # local /\ e \in Nat
                        /\ \A h \in Pln!ToSet(remote[e]) : DC[h] = e /\ h \notin home
      OBVIOUS
    <3>1. remote[e] = Pln!copy_hosts(away(e), <<>>) /\ \E h \in valid \ home : e = DC[h]
      OBVIOUS
    <3>2. e # local /\ e \in Nat
      BY <1>3, <2>6, <3>1
    <3>3. away(e) \in SUBSET Hosts /\ \A h \in away(e) : DC[h] = e /\ h \notin home
      OBVIOUS
    <3> HIDE DEF away, remote
    <3> QED
      BY <1>4, <3>1, <3>2, <3>3
  <2>8. DOMAIN remote \subseteq Nat /\ remote \in [DOMAIN remote -> Seq(Hosts)]
    <3>1. remote = [e \in DOMAIN remote |-> remote[e]]
      OBVIOUS
    <3> HIDE DEF remote
    <3> QED
      BY <2>7, <3>1
  <2> HIDE DEF q, l, remote, local, discovered, away
  <2>9. /\ q \in Policies /\ q.settings = s /\ q.hosts = l /\ q.local_dc = local /\ q.remote = remote
    <3>1. remote \in UNION {[D -> Seq(Hosts)] : D \in SUBSET Nat}
      BY <2>8
    <3> QED
      BY <1>1, <2>2, <2>3, <2>4, <3>1 DEF Pln!NewPolicy, Policies, SettingsTyped
  <2>10. \A h : Pln!is_valid_host(q, h) <=> Pln!is_valid_host(p, h)
    BY <1>1, <2>9 DEF Pln!is_valid_host
  <2>11. local = Pln!NoDC => \A h \in Hosts : Pln!is_valid_host(q, h) => DC[h] = Pln!NoDC
    BY <2>2, <2>10
  <2> QED
    BY <2>4, <2>5, <2>7, <2>9, <2>10, <2>11 DEF ListsFit, q
<1> QED
  BY <1>1, <1>5, <1>6
-----------------------------------------------------------------------------
(* The walk: of policy p, plan w, the hosts g given so far, and the hosts s *)
(* that were up all the time                                               *)

\* The hosts of the n places of list q from the one of index i on, round the end.
Ring(q, i, n) == {q[((i + j) % Len(q)) + 1] : j \in 0..(n - 1)}

NamedHosts(w, g) == Pln!ToSet(g) \cup Pln!ToSet(w.skipped)
ReplicasAhead(w) == Ring(w.replicas, w.replica_index, w.replicas_left)
LocalAhead(w) == Ring(w.hosts, w.index, w.local)
RemoteAhead(w) == Ring(w.hosts, w.index, w.remote)
LocalReplica(p, w, h) == h \in Pln!ToSet(w.replicas) /\ Home(p, h)

\* A host in the local list that is none of the local data center.
Early(p, h) == ~Home(p, h) /\ h \in Pln!ToSet(p.hosts)

DistinctHosts(q) == q \in Seq(Hosts) /\ Pln!IsInjective(q)

\* A list that has no host twice, those of R excepted.
OnceBut(q, R) ==
  /\ q \in Seq(Hosts)
  /\ \A i, j \in 1..Len(q) : q[i] = q[j] => i = j \/ q[i] \in R

PlanFields == {"state", "min", "local_cl", "hosts", "index", "local", "remote", "dcs", "replicas",
               "replica_index", "replicas_left", "skipped", "skipped_index"}

PlanTyped(w) ==
  /\ DOMAIN w = PlanFields /\ w.state \in {"idle", "walking", "ended"}
  /\ DistinctHosts(w.hosts) /\ w.index \in Nat
  /\ w.local \in 0..Len(w.hosts) /\ w.remote \in 0..Len(w.hosts)
  /\ w.dcs = Pln!NoDCs \/ w.dcs \in SUBSET Nat
  /\ w.replicas \in Seq(Hosts) /\ w.replica_index \in Nat
  /\ w.replicas_left \in 0..Len(w.replicas)
  /\ OnceBut(w.skipped, Pln!Repeated(w.replicas)) /\ w.skipped_index \in 0..Len(w.skipped)

\* What was skipped is given later, from the front.
SkippedFit(w, g) ==
  \A i \in 1..Len(w.skipped) :
    /\ i <= w.skipped_index => w.skipped[i] \in Pln!ToSet(g)
    /\ w.skipped[i] \in Pln!ToSet(g) =>
         i <= w.skipped_index \/ w.skipped[i] \in Pln!Repeated(w.replicas)

\* The parts of the plan follow one another.
PhasesFit(w) ==
  /\ w.replicas_left > 0 \/ w.local > 0 => w.dcs = Pln!NoDCs
  /\ w.dcs = Pln!NoDCs => w.remote = 0
  /\ w.state = "ended" =>
       w.replicas_left = 0 /\ w.local = 0 /\ w.skipped_index = Len(w.skipped)

\* Nothing ahead was named, but for repeated replicas, and for the replicas that the
\* plan below passes over.
AheadFit(p, w, g) ==
  /\ NamedHosts(w, g) \cap ReplicasAhead(w) \subseteq Pln!Repeated(w.replicas)
  /\ NamedHosts(w, g) \cap RemoteAhead(w) = {}
  /\ \A h \in NamedHosts(w, g) \cap LocalAhead(w) : LocalReplica(p, w, h)

\* Which part of the plan may have named a host.
Origin(p, w, h) == Home(p, h) \/ Early(p, h) \/ (w.dcs # Pln!NoDCs /\ DC[h] \notin w.dcs)

OriginsFit(p, w, g) ==
  /\ \A h \in NamedHosts(w, g) : Origin(p, w, h)
  /\ w.local > 0 => \A h \in Pln!ToSet(w.hosts) : Home(p, h) \/ Early(p, h)
  /\ w.remote > 0 => \A h \in Pln!ToSet(w.hosts) : DC[h] \notin w.dcs
  /\ w.dcs # Pln!NoDCs => p.settings.kind = "DCAware"

\* A host that was up all the time was named, or is ahead.
NothingLost(p, w, g, s) ==
  \A h \in s :
    /\ h \in LocalAhead(w) \/ h \in NamedHosts(w, g) \/ LocalReplica(p, w, h)
    /\ LocalReplica(p, w, h) => h \in ReplicasAhead(w) \/ h \in NamedHosts(w, g)

\* A host of another data center, known to be.
Away(p, h) == ~Home(p, h) /\ DC[h] # Pln!NoDC

\* No host of another data center was given before those.
RemoteLast(p, w, g, s) ==
  \A i \in 1..Len(g) : Away(p, g[i]) => s \subseteq Pln!ToSet(SubSeq(g, 1, i)) \cup Pln!ToSet(w.skipped)

WalkFits(p, w, g, s) ==
  /\ PlanTyped(w) /\ OnceBut(g, Pln!Repeated(w.replicas))
  /\ SkippedFit(w, g) /\ PhasesFit(w) /\ AheadFit(p, w, g) /\ OriginsFit(p, w, g)
  /\ NothingLost(p, w, g, s)

WalkInv ==
  /\ ListsFit(policy, up) /\ stable \subseteq up
  /\ plan = Pln!NoPlan => given = <<>>
  /\ plan # Pln!NoPlan => WalkFits(policy, plan, given, stable)

OrderInv == plan # Pln!NoPlan => RemoteLast(policy, plan, given, stable)
-----------------------------------------------------------------------------
(* The rounds of a loop over a list *)

\* A number determines its remainder.
LEMMA RemainderOf ==
  ASSUME NEW n \in Nat \ {0}, NEW a \in Int, NEW r \in 0..(n - 1)
  PROVE  (n * a + r) % n = r
<1> DEFINE k == n * a + r
           b == k \div n
           t == k % n
<1>1. k \in Int /\ b \in Int /\ t \in 0..(n - 1) /\ k = n * b + t
  OBVIOUS
<1>2. k = n * a + r
  OBVIOUS
<1> HIDE DEF k, b, t
<1> DEFINE d == a - b
<1>3. d \in Int /\ n * d = t - r
  <2>1. n * (a - b) = n * a - n * b
    BY <1>1
  <2> QED
    BY <1>1, <1>2, <2>1
<1> HIDE DEF d
<1>4. d = 0
  <2>1. CASE d >= 1
    <3>1. n * d >= n
      BY <1>3, <2>1
    <3> QED
      BY <1>1, <1>3, <3>1
  <2>2. CASE d <= -1
    <3>1. n * d <= -n
      BY <1>3, <2>2
    <3> QED
      BY <1>1, <1>3, <3>1
  <2> QED
    BY <1>3, <2>1, <2>2
<1>5. n * d = 0
  BY <1>4
<1>6. t = r
  BY <1>1, <1>3, <1>5
<1> QED
  BY <1>6 DEF t, k

\* The remainders of the places of a round.
LEMMA PlacesOf ==
  ASSUME NEW n \in Nat \ {0}, NEW k \in Nat, NEW d \in 0..(n - 1)
  PROVE  /\ k % n \in 0..(n - 1)
         /\ (k + d) % n = IF (k % n) + d < n THEN (k % n) + d ELSE (k % n) + d - n
<1> DEFINE a == k \div n
           r == k % n
<1>1. a \in Int /\ r \in 0..(n - 1) /\ k = n * a + r
  OBVIOUS
<1> HIDE DEF a, r
<1>2. CASE r + d < n
  <2>1. r + d \in 0..(n - 1) /\ k + d = n * a + (r + d)
    BY <1>1, <1>2
  <2>2. (n * a + (r + d)) % n = r + d
    BY <1>1, <2>1, RemainderOf
  <2>3. (k + d) % n = r + d
    BY ONLY <2>1, <2>2
  <2> QED
    BY <1>1, <1>2, <2>3 DEF r
<1>3. CASE ~(r + d < n)
  <2>1. n * (a + 1) = n * a + n
    BY <1>1
  <2>2. r + d - n \in 0..(n - 1) /\ k + d = n * (a + 1) + (r + d - n) /\ a + 1 \in Int
    BY <1>1, <1>3, <2>1
  <2>3. (n * (a + 1) + (r + d - n)) % n = r + d - n
    BY <2>2, RemainderOf
  <2>4. (k + d) % n = r + d - n
    BY ONLY <2>2, <2>3
  <2> QED
    BY <1>1, <1>3, <2>4 DEF r
<1> QED
  BY <1>2, <1>3

\* One round more: the host at the index, and the places after it, which hold it only if
\* the list repeats it.
LEMMA RingStep ==
  ASSUME NEW S, NEW q \in Seq(S), NEW i \in Nat, NEW n \in 1..Len(q)
  PROVE  LET h == q[(i % Len(q)) + 1]
             rest == Ring(q, i + 1, n - 1) IN
         /\ h \in S /\ h \in Pln!ToSet(q) /\ Ring(q, i, n) = rest \cup {h}
         /\ h \in rest => h \in Pln!Repeated(q)
<1> DEFINE l == Len(q)
           at(k) == q[(k % l) + 1]
           rest == Ring(q, i + 1, n - 1)
<1>1. l \in Nat \ {0} /\ DOMAIN q = 1..l /\ n \in 1..l
  OBVIOUS
<1> HIDE DEF l
<1>2. \A k \in Nat : (k % l) + 1 \in 1..l
  BY <1>1
<1>3. at(i) \in S /\ at(i) \in Pln!ToSet(q)
  <2> DEFINE k == (i % l) + 1
  <2>1. k \in 1..l
    BY <1>2
  <2> HIDE DEF k
  <2>2. q[k] \in S /\ q[k] \in Pln!ToSet(q)
    BY <1>1, <2>1 DEF Pln!ToSet
  <2> QED
    BY <2>2 DEF k
<1>4. rest = {at(i + 1 + j) : j \in 0..(n - 2)}
  <2>1. n - 1 - 1 = n - 2
    BY <1>1
  <2> QED
    BY <2>1 DEF Ring, l
<1>5. Ring(q, i, n) = {at(i + j) : j \in 0..(n - 1)}
  BY DEF Ring, l
<1>6. ASSUME at(i) \in rest PROVE at(i) \in Pln!Repeated(q)
  <2>1. PICK j \in 0..(n - 2) : at(i + 1 + j) = at(i)
    <3> HIDE DEF at, rest
    <3> QED
      BY <1>4, <1>6
  <2>2. j + 1 \in 0..(l - 1) /\ i + 1 + j = i + (j + 1) /\ i + (j + 1) \in Nat
    BY <1>1
  <2>3. /\ i % l \in 0..(l - 1)
        /\ (i + (j + 1)) % l = IF (i % l) + (j + 1) < l THEN (i % l) + (j + 1) ELSE (i % l) + (j + 1) - l
    BY <1>1, <2>2, PlacesOf
  <2> DEFINE x == i % l
             y == (i + (j + 1)) % l
  <2>4. x \in 0..(l - 1) /\ y = IF x + (j + 1) < l THEN x + (j + 1) ELSE x + (j + 1) - l
    BY <2>3
  <2>5. q[x + 1] = at(i) /\ q[y + 1] = at(i)
    BY <2>1, <2>2
  <2> HIDE DEF x, y, at
  <2>6. x + 1 \in 1..l /\ y + 1 \in 1..l /\ x + 1 # y + 1
    BY <1>1, <2>2, <2>4
  <2> QED
    BY <1>1, <1>3, <2>5, <2>6 DEF Pln!Repeated
<1>7. Ring(q, i, n) = rest \cup {at(i)}
  <2>1. \A j \in 0..(n - 1) : j = 0 \/ (j - 1 \in 0..(n - 2) /\ i + 1 + (j - 1) = i + j)
    BY <1>1
  <2>2. \A j \in 0..(n - 2) : j + 1 \in 0..(n - 1) /\ i + (j + 1) = i + 1 + j
    BY <1>1
  <2>3. 0 \in 0..(n - 1) /\ i + 0 = i
    BY <1>1
  <2> HIDE DEF at, rest
  <2> QED
    BY <1>4, <1>5, <2>1, <2>2, <2>3
<1> HIDE DEF rest
<1> QED
  BY <1>3, <1>6, <1>7 DEF rest, l

\* As many rounds as the list is long meet every host of it.
LEMMA RingAll ==
  ASSUME NEW S, NEW q \in Seq(S), NEW i \in Nat
  PROVE  /\ Ring(q, i, Len(q)) = Pln!ToSet(q) /\ Ring(q, i, 0) = {}
         /\ \A n \in 0..Len(q) : Ring(q, i, n) \subseteq Pln!ToSet(q)
<1> DEFINE l == Len(q)
           at(k) == q[(k % l) + 1]
<1>1. l \in Nat /\ Pln!ToSet(q) = {q[k] : k \in 1..l}
  BY DEF Pln!ToSet
<1>2. Ring(q, i, 0) = {}
  BY DEF Ring
<1>3. \A n : Ring(q, i, n) = {at(i + j) : j \in 0..(n - 1)}
  BY DEF Ring
<1> HIDE DEF l
<1>4. CASE l = 0
  <2>1. Ring(q, i, l) = {} /\ Pln!ToSet(q) = {} /\ \A n \in 0..l : n = 0
    BY <1>1, <1>2, <1>4
  <2> QED
    BY <1>2, <2>1 DEF l
<1>5. CASE l > 0
  <2>1. \A k \in Nat : (k % l) + 1 \in 1..l
    BY <1>1, <1>5
  <2>2. \A n \in 0..l : Ring(q, i, n) \subseteq Pln!ToSet(q)
    <3>1. \A n \in 0..l : \A j \in 0..(n - 1) : i + j \in Nat
      BY <1>1
    <3>2. \A k \in Nat : at(k) \in Pln!ToSet(q)
      BY <1>1, <2>1
    <3> HIDE DEF at
    <3> QED
      BY <1>3, <3>1, <3>2
  <2>3. ASSUME NEW k \in 1..l
        PROVE  \E j \in 0..(l - 1) : at(i + j) = q[k]
    <3> DEFINE r == i % l
               d == IF k - 1 >= r THEN k - 1 - r ELSE k - 1 - r + l
    <3>1. r \in 0..(l - 1)
      BY <1>1, <1>5
    <3> HIDE DEF r
    <3>2. d \in 0..(l - 1) /\ (IF r + d < l THEN r + d ELSE r + d - l) = k - 1
      BY <1>1, <3>1
    <3>3. (i + d) % l = k - 1
      <4>1. l \in Nat \ {0} /\ i \in Nat /\ d \in 0..(l - 1)
        BY <1>1, <1>5, <3>2
      <4>2. (i + d) % l = IF (i % l) + d < l THEN (i % l) + d ELSE (i % l) + d - l
        BY <4>1, PlacesOf
      <4> HIDE DEF d
      <4>3. (i + d) % l = IF r + d < l THEN r + d ELSE r + d - l
        BY <4>2 DEF r
      <4> QED
        BY <3>2, <4>3
    <3> HIDE DEF d
    <3>4. k - 1 + 1 = k
      BY <1>1
    <3>5. at(i + d) = q[k]
      BY <3>3, <3>4
    <3> QED
      BY <3>2, <3>5
  <2>4. Pln!ToSet(q) \subseteq Ring(q, i, l)
    <3> HIDE DEF at
    <3> QED
      BY <1>1, <1>3, <2>3
  <2>5. l \in 0..l
    BY <1>1
  <2> QED
    BY <1>2, <2>2, <2>4, <2>5 DEF l
<1> QED
  BY <1>1, <1>4, <1>5

\* A list of different hosts repeats none.
LEMMA RingHosts ==
  ASSUME NEW q, DistinctHosts(q), NEW i, i \in Nat, NEW n, n \in 1..Len(q),
         NEW h, h = q[(i % Len(q)) + 1], NEW rest, rest = Ring(q, i + 1, n - 1)
  PROVE  h \in Hosts /\ h \in Pln!ToSet(q) /\ h \notin rest /\ Ring(q, i, n) = rest \cup {h}
<1>1. q \in Seq(Hosts) /\ Pln!IsInjective(q)
  BY DEF DistinctHosts
<1>2. h \notin Pln!Repeated(q)
  BY <1>1 DEF Pln!Repeated, Pln!IsInjective
<1> QED
  BY <1>1, <1>2, RingStep
-----------------------------------------------------------------------------
(* The steps of a walk *)

\* Who is local depends on the settings and the local data center alone.
LEMMA HomeAgain ==
  ASSUME NEW p, NEW q, SameHome(p, q)
  PROVE  /\ \A h : Home(q, h) <=> Home(p, h)
         /\ \A h \in Hosts : Early(q, h) <=> Early(p, h)
BY DEF SameHome, Home, Early, Pln!is_valid_host

\* What a plan has named or skipped are hosts.
LEMMA NamedAreHosts ==
  ASSUME NEW w, NEW g, PlanTyped(w), g \in Seq(Hosts)
  PROVE  NamedHosts(w, g) \subseteq Hosts
BY InjectiveLists DEF PlanTyped, OnceBut, NamedHosts

\* The session thread changes the lists meanwhile, and hosts go down.
LEMMA PolicyChanges ==
  ASSUME NEW p, NEW q, NEW w, NEW g, NEW s, NEW t \in SUBSET s,
         SameHome(p, q), WalkFits(p, w, g, s)
  PROVE  WalkFits(q, w, g, t)
<1>1. /\ \A h : Home(q, h) <=> Home(p, h)
      /\ \A h \in Hosts : Early(q, h) <=> Early(p, h)
  BY HomeAgain
<1>2. NamedHosts(w, g) \subseteq Hosts /\ Pln!ToSet(w.hosts) \subseteq Hosts
  BY NamedAreHosts, InjectiveLists DEF WalkFits, PlanTyped, DistinctHosts, OnceBut
<1>3. \A h : LocalReplica(q, w, h) <=> LocalReplica(p, w, h)
  BY <1>1 DEF LocalReplica
<1>4. \A h \in Hosts : Origin(q, w, h) <=> Origin(p, w, h)
  BY <1>1 DEF Origin
<1>5. AheadFit(q, w, g)
  BY <1>3 DEF AheadFit, WalkFits
<1>6. OriginsFit(q, w, g)
  BY <1>1, <1>2, <1>4 DEF OriginsFit, WalkFits, SameHome
<1>7. NothingLost(q, w, g, t)
  BY <1>3 DEF NothingLost, WalkFits
<1> QED
  BY <1>5, <1>6, <1>7 DEF WalkFits

\* The order of a plan survives changes of the lists.
LEMMA LastAgain ==
  ASSUME NEW p, NEW q, NEW w, NEW g, NEW s, NEW t \in SUBSET s,
         SameHome(p, q), RemoteLast(p, w, g, s)
  PROVE  RemoteLast(q, w, g, t)
BY HomeAgain DEF RemoteLast, Away

\* A host that a step passes over is none that the plan has to name.
LEMMA Passed ==
  ASSUME NEW p, NEW w, NEW g, NEW s, NEW h,
         WalkFits(p, w, g, s \ {h}), h \in s => h \in NamedHosts(w, g)
  PROVE  WalkFits(p, w, g, s)
<1>1. NothingLost(p, w, g, s)
  BY DEF WalkFits, NothingLost
<1> QED
  BY <1>1 DEF WalkFits

\* A host that may be named now.
Free(p, w, g, h) ==
  /\ h \in Hosts /\ w.state = "walking"
  /\ h \notin NamedHosts(w, g) \cup ReplicasAhead(w) \/ h \in Pln!Repeated(w.replicas)
  /\ h \notin RemoteAhead(w)
  /\ h \in LocalAhead(w) => LocalReplica(p, w, h)
  /\ Origin(p, w, h)

\* One more in a list.
LEMMA OneMore ==
  ASSUME NEW q, NEW R, OnceBut(q, R), NEW h \in Hosts, h \notin Pln!ToSet(q) \/ h \in R
  PROVE  /\ OnceBut(Append(q, h), R) /\ Pln!ToSet(Append(q, h)) = Pln!ToSet(q) \cup {h}
         /\ Len(q) \in Nat /\ Len(Append(q, h)) = Len(q) + 1 /\ Append(q, h)[Len(q) + 1] = h
         /\ \A i \in 1..Len(q) : Append(q, h)[i] = q[i]
<1> DEFINE f == Append(q, h)
           n == Len(q)
<1>1. q \in Seq(Hosts) /\ n \in Nat /\ Pln!ToSet(q) = {q[i] : i \in 1..n}
  BY DEF OnceBut, Pln!ToSet
<1>2. f \in Seq(Hosts) /\ Len(f) = n + 1 /\ f[n + 1] = h /\ \A i \in 1..n : f[i] = q[i]
  BY <1>1
<1>3. Pln!ToSet(f) = {f[i] : i \in 1..(n + 1)}
  BY <1>2 DEF Pln!ToSet
<1>4. \A i, j \in 1..n : q[i] = q[j] => i = j \/ q[i] \in R
  BY DEF OnceBut
<1> HIDE DEF f, n
<1>5. /\ \A i \in 1..(n + 1) : i = n + 1 \/ i \in 1..n
      /\ n + 1 \in 1..(n + 1) /\ \A i \in 1..n : i \in 1..(n + 1)
  BY <1>1
<1>6. Pln!ToSet(f) = Pln!ToSet(q) \cup {h}
  BY <1>1, <1>2, <1>3, <1>5
<1>7. ASSUME NEW i \in 1..(n + 1), NEW j \in 1..(n + 1), f[i] = f[j]
      PROVE  i = j \/ f[i] \in R
  BY <1>1, <1>2, <1>4, <1>5, <1>7
<1>8. OnceBut(f, R)
  BY <1>2, <1>7 DEF OnceBut
<1> QED
  BY <1>1, <1>2, <1>6, <1>8 DEF f, n

\* Give.
LEMMA GivenFits ==
  ASSUME NEW p, NEW w, NEW g, NEW s, NEW h,
         WalkFits(p, w, g, s \ {h}), Free(p, w, g, h)
  PROVE  WalkFits(p, [w EXCEPT !.state = "idle"], Append(g, h), s)
<1> DEFINE v == [w EXCEPT !.state = "idle"]
           f == Append(g, h)
<1>1. /\ DOMAIN v = PlanFields /\ v.state = "idle" /\ v.hosts = w.hosts /\ v.index = w.index
      /\ v.local = w.local /\ v.remote = w.remote /\ v.dcs = w.dcs
      /\ v.replicas = w.replicas /\ v.replica_index = w.replica_index
      /\ v.replicas_left = w.replicas_left /\ v.skipped = w.skipped
      /\ v.skipped_index = w.skipped_index
  BY DEF WalkFits, PlanTyped, PlanFields
<1> HIDE DEF v
<1>2. OnceBut(f, Pln!Repeated(w.replicas)) /\ Pln!ToSet(f) = Pln!ToSet(g) \cup {h}
  BY OneMore DEF WalkFits, Free, NamedHosts
<1> HIDE DEF f
<1>3. /\ NamedHosts(v, f) = NamedHosts(w, g) \cup {h}
      /\ ReplicasAhead(v) = ReplicasAhead(w) /\ LocalAhead(v) = LocalAhead(w)
      /\ RemoteAhead(v) = RemoteAhead(w)
      /\ \A x : LocalReplica(p, v, x) <=> LocalReplica(p, w, x)
      /\ \A x : Origin(p, v, x) <=> Origin(p, w, x)
  BY <1>1, <1>2 DEF NamedHosts, ReplicasAhead, LocalAhead, RemoteAhead, LocalReplica, Origin
<1>4. PlanTyped(v) /\ PhasesFit(v)
  BY <1>1 DEF PlanTyped, PhasesFit, WalkFits
<1>5. SkippedFit(v, f)
  <2>1. \A i \in 1..Len(w.skipped) : w.skipped[i] # h \/ h \in Pln!Repeated(w.replicas)
    BY DEF Free, NamedHosts, Pln!ToSet, WalkFits, PlanTyped, OnceBut
  <2> QED
    BY <1>1, <1>2, <2>1 DEF SkippedFit, WalkFits
<1>6. AheadFit(p, v, f)
  BY <1>1, <1>3 DEF AheadFit, WalkFits, Free
<1>7. OriginsFit(p, v, f)
  BY <1>1, <1>3 DEF OriginsFit, WalkFits, Free
<1>8. NothingLost(p, v, f, s)
  BY <1>3 DEF NothingLost, WalkFits
<1> QED
  BY <1>1, <1>2, <1>4, <1>5, <1>6, <1>7, <1>8 DEF WalkFits, v, f

\* A host that is too slow.
LEMMA SkippedFits ==
  ASSUME NEW p, NEW w, NEW g, NEW s, NEW h,
         WalkFits(p, w, g, s \ {h}), Free(p, w, g, h)
  PROVE  WalkFits(p, [w EXCEPT !.skipped = Append(w.skipped, h)], g, s)
<1> DEFINE f == Append(w.skipped, h)
           v == [w EXCEPT !.skipped = f]
           n == Len(w.skipped)
<1>1. /\ DOMAIN v = PlanFields /\ v.state = w.state /\ v.hosts = w.hosts /\ v.index = w.index
      /\ v.local = w.local /\ v.remote = w.remote /\ v.dcs = w.dcs
      /\ v.replicas = w.replicas /\ v.replica_index = w.replica_index
      /\ v.replicas_left = w.replicas_left /\ v.skipped = f
      /\ v.skipped_index = w.skipped_index
  BY DEF WalkFits, PlanTyped, PlanFields
<1> HIDE DEF v
<1>2. OnceBut(f, Pln!Repeated(w.replicas)) /\ Pln!ToSet(f) = Pln!ToSet(w.skipped) \cup {h}
  BY OneMore DEF WalkFits, PlanTyped, Free, NamedHosts
<1>3. /\ n \in Nat /\ Len(f) = n + 1 /\ f[n + 1] = h
      /\ \A i \in 1..n : f[i] = w.skipped[i]
  BY OneMore DEF WalkFits, PlanTyped, Free, NamedHosts
<1> HIDE DEF f, n
<1>4. /\ NamedHosts(v, g) = NamedHosts(w, g) \cup {h}
      /\ ReplicasAhead(v) = ReplicasAhead(w) /\ LocalAhead(v) = LocalAhead(w)
      /\ RemoteAhead(v) = RemoteAhead(w)
      /\ \A x : LocalReplica(p, v, x) <=> LocalReplica(p, w, x)
      /\ \A x : Origin(p, v, x) <=> Origin(p, w, x)
  BY <1>1, <1>2 DEF NamedHosts, ReplicasAhead, LocalAhead, RemoteAhead, LocalReplica, Origin
<1>5. w.skipped_index \in 0..n /\ w.state = "walking"
  BY DEF WalkFits, PlanTyped, Free, n
<1>6. PlanTyped(v) /\ PhasesFit(v)
  <2>1. v.skipped_index \in 0..Len(v.skipped) /\ v.state # "ended"
    BY <1>1, <1>3, <1>5
  <2> QED
    BY <1>1, <1>2, <2>1 DEF PlanTyped, PhasesFit, WalkFits
<1>7. SkippedFit(v, g)
  <2> SUFFICES ASSUME NEW i \in 1..(n + 1)
               PROVE  /\ i <= w.skipped_index => f[i] \in Pln!ToSet(g)
                      /\ f[i] \in Pln!ToSet(g) =>
                           i <= w.skipped_index \/ f[i] \in Pln!Repeated(w.replicas)
    BY <1>1, <1>3 DEF SkippedFit
  <2>1. CASE i = n + 1
    <3>1. (h \notin Pln!ToSet(g) \/ h \in Pln!Repeated(w.replicas)) /\ ~(i <= w.skipped_index)
      BY <1>3, <1>5, <2>1 DEF Free, NamedHosts
    <3> QED
      BY <1>3, <2>1, <3>1
  <2>2. CASE i # n + 1
    <3>1. i \in 1..n
      BY <1>3, <2>2
    <3> QED
      BY <1>3, <3>1 DEF SkippedFit, WalkFits, n
  <2> QED
    BY <2>1, <2>2
<1>8. AheadFit(p, v, g)
  BY <1>1, <1>4 DEF AheadFit, WalkFits, Free
<1>9. OriginsFit(p, v, g)
  BY <1>1, <1>4 DEF OriginsFit, WalkFits, Free
<1>10. NothingLost(p, v, g, s)
  BY <1>4 DEF NothingLost, WalkFits
<1> QED
  BY <1>1, <1>6, <1>7, <1>8, <1>9, <1>10 DEF WalkFits, v, f

\* Where nothing of the local lists is ahead, what was up all the time was named.
LEMMA AllNamed ==
  ASSUME NEW p, NEW w, NEW g, NEW s, WalkFits(p, w, g, s), w.local = 0, w.replicas_left = 0
  PROVE  s \subseteq NamedHosts(w, g) /\ LocalAhead(w) = {} /\ ReplicasAhead(w) = {}
<1>1. LocalAhead(w) = {} /\ ReplicasAhead(w) = {}
  BY RingAll DEF LocalAhead, ReplicasAhead, WalkFits, PlanTyped, DistinctHosts
<1> QED
  BY <1>1 DEF NothingLost, WalkFits

\* A round over the replicas.
LEMMA ReplicaStep ==
  ASSUME NEW p, NEW w, NEW g, NEW s, WalkFits(p, w, g, s),
         w.state = "walking", w.replicas_left > 0
  PROVE  LET h == w.replicas[(w.replica_index % Len(w.replicas)) + 1]
             v == [w EXCEPT !.replicas_left = @ - 1, !.replica_index = @ + 1] IN
         /\ h \in Hosts /\ WalkFits(p, v, g, s \ {h})
         /\ Home(p, h) => Free(p, v, g, h)
         /\ ~Home(p, h) => WalkFits(p, v, g, s)
         /\ v.skipped = w.skipped
<1> DEFINE h == w.replicas[(w.replica_index % Len(w.replicas)) + 1]
           v == [w EXCEPT !.replicas_left = @ - 1, !.replica_index = @ + 1]
<1>1. /\ DOMAIN v = PlanFields /\ v.state = w.state /\ v.hosts = w.hosts /\ v.index = w.index
      /\ v.local = w.local /\ v.remote = w.remote /\ v.dcs = w.dcs
      /\ v.replicas = w.replicas /\ v.replica_index = w.replica_index + 1
      /\ v.replicas_left = w.replicas_left - 1 /\ v.skipped = w.skipped
      /\ v.skipped_index = w.skipped_index
  BY DEF WalkFits, PlanTyped, PlanFields
<1> HIDE DEF v
<1>2. /\ w.replicas \in Seq(Hosts) /\ w.replica_index \in Nat
      /\ w.replicas_left \in 1..Len(w.replicas)
      /\ w.hosts \in Seq(Hosts) /\ w.index \in Nat /\ w.remote = 0
  BY DEF WalkFits, PlanTyped, DistinctHosts, PhasesFit
<1>3. /\ h \in Hosts /\ h \in Pln!ToSet(w.replicas)
      /\ h \in ReplicasAhead(v) => h \in Pln!Repeated(w.replicas)
      /\ ReplicasAhead(w) = ReplicasAhead(v) \cup {h}
  <2> DEFINE x == w.replicas[(w.replica_index % Len(w.replicas)) + 1]
             rest == Ring(w.replicas, w.replica_index + 1, w.replicas_left - 1)
  <2>1. /\ x \in Hosts /\ x \in Pln!ToSet(w.replicas)
        /\ x \in rest => x \in Pln!Repeated(w.replicas)
        /\ Ring(w.replicas, w.replica_index, w.replicas_left) = rest \cup {x}
    <3>1. w.replicas \in Seq(Hosts) /\ w.replica_index \in Nat /\ w.replicas_left \in 1..Len(w.replicas)
      BY <1>2
    <3> QED
      BY ONLY <3>1, RingStep
  <2>2. h = x
    OBVIOUS
  <2>3. ReplicasAhead(w) = Ring(w.replicas, w.replica_index, w.replicas_left) /\ ReplicasAhead(v) = rest
    BY <1>1 DEF ReplicasAhead
  <2> HIDE DEF h, x, rest
  <2> QED
    BY <2>1, <2>2, <2>3
<1> HIDE DEF h
<1>4. /\ NamedHosts(v, g) = NamedHosts(w, g)
      /\ LocalAhead(v) = LocalAhead(w) /\ RemoteAhead(v) = RemoteAhead(w)
      /\ \A x : LocalReplica(p, v, x) <=> LocalReplica(p, w, x)
      /\ \A x : Origin(p, v, x) <=> Origin(p, w, x)
  BY <1>1 DEF NamedHosts, LocalAhead, RemoteAhead, LocalReplica, Origin
<1>5. RemoteAhead(v) = {}
  BY <1>1, <1>2, RingAll DEF RemoteAhead
<1>6. PlanTyped(v) /\ PhasesFit(v) /\ SkippedFit(v, g)
  <2>1. /\ v.replicas_left \in 0..Len(v.replicas) /\ v.replica_index \in Nat /\ v.state # "ended"
        /\ v.replicas_left > 0 => w.replicas_left > 0
    BY <1>1, <1>2
  <2> QED
    BY <1>1, <2>1 DEF PlanTyped, PhasesFit, SkippedFit, WalkFits
<1>7. AheadFit(p, v, g) /\ (h \in NamedHosts(v, g) => h \in Pln!Repeated(v.replicas))
  BY <1>1, <1>3, <1>4 DEF AheadFit, WalkFits
<1>8. OriginsFit(p, v, g)
  BY <1>1, <1>4 DEF OriginsFit, WalkFits
<1>9. NothingLost(p, v, g, s \ {h})
  BY <1>3, <1>4 DEF NothingLost, WalkFits
<1>10. WalkFits(p, v, g, s \ {h})
  BY <1>1, <1>6, <1>7, <1>8, <1>9 DEF WalkFits
<1>11. ASSUME Home(p, h) PROVE Free(p, v, g, h)
  BY <1>1, <1>3, <1>5, <1>7, <1>11 DEF Free, LocalReplica, Origin
<1>12. ASSUME ~Home(p, h) PROVE WalkFits(p, v, g, s)
  <2>1. NothingLost(p, v, g, s)
    BY <1>3, <1>4, <1>12 DEF NothingLost, WalkFits, LocalReplica
  <2> QED
    BY <1>10, <2>1 DEF WalkFits
<1> QED
  BY <1>1, <1>3, <1>10, <1>11, <1>12 DEF h, v

\* A round over the local list.
LEMMA LocalStep ==
  ASSUME NEW p, NEW w, NEW g, NEW s, WalkFits(p, w, g, s),
         w.state = "walking", w.replicas_left = 0, w.local > 0
  PROVE  LET h == Pln!HostAt(w)
             v == [w EXCEPT !.local = @ - 1, !.index = @ + 1] IN
         /\ h \in Hosts /\ WalkFits(p, v, g, s \ {h})
         /\ ~LocalReplica(p, v, h) => Free(p, v, g, h)
         /\ h \in s /\ LocalReplica(p, v, h) => h \in NamedHosts(v, g)
         /\ v.skipped = w.skipped /\ v.replicas = w.replicas
<1> DEFINE h == Pln!HostAt(w)
           v == [w EXCEPT !.local = @ - 1, !.index = @ + 1]
<1>1. /\ DOMAIN v = PlanFields /\ v.state = w.state /\ v.hosts = w.hosts /\ v.index = w.index + 1
      /\ v.local = w.local - 1 /\ v.remote = w.remote /\ v.dcs = w.dcs
      /\ v.replicas = w.replicas /\ v.replica_index = w.replica_index
      /\ v.replicas_left = w.replicas_left /\ v.skipped = w.skipped
      /\ v.skipped_index = w.skipped_index
  BY DEF WalkFits, PlanTyped, PlanFields
<1> HIDE DEF v
<1>2. /\ w.hosts \in Seq(Hosts) /\ Pln!IsInjective(w.hosts) /\ w.index \in Nat
      /\ w.local \in 1..Len(w.hosts) /\ w.remote = 0
      /\ w.replicas \in Seq(Hosts) /\ w.replica_index \in Nat
  BY DEF WalkFits, PlanTyped, DistinctHosts, PhasesFit
<1>3. /\ h \in Hosts /\ h \in Pln!ToSet(w.hosts) /\ h \notin LocalAhead(v)
      /\ LocalAhead(w) = LocalAhead(v) \cup {h}
  <2> DEFINE x == w.hosts[(w.index % Len(w.hosts)) + 1]
             rest == Ring(w.hosts, w.index + 1, w.local - 1)
  <2>1. /\ x \in Hosts /\ x \in Pln!ToSet(w.hosts) /\ x \notin rest
        /\ Ring(w.hosts, w.index, w.local) = rest \cup {x}
    <3>1. DistinctHosts(w.hosts)
      BY <1>2 DEF DistinctHosts
    <3>2. x = w.hosts[(w.index % Len(w.hosts)) + 1] /\ rest = Ring(w.hosts, w.index + 1, w.local - 1)
      OBVIOUS
    <3>3. w.index \in Nat /\ w.local \in 1..Len(w.hosts)
      BY <1>2
    <3> HIDE DEF x, rest
    <3> QED
      BY ONLY <3>1, <3>2, <3>3, RingHosts
  <2>2. h = x
    BY DEF Pln!HostAt
  <2>3. LocalAhead(w) = Ring(w.hosts, w.index, w.local) /\ LocalAhead(v) = rest
    BY <1>1 DEF LocalAhead
  <2> HIDE DEF h, x, rest
  <2> QED
    BY <2>1, <2>2, <2>3
<1> HIDE DEF h
<1>4. /\ NamedHosts(v, g) = NamedHosts(w, g)
      /\ ReplicasAhead(v) = ReplicasAhead(w)
      /\ \A x : LocalReplica(p, v, x) <=> LocalReplica(p, w, x)
      /\ \A x : Origin(p, v, x) <=> Origin(p, w, x)
  BY <1>1 DEF NamedHosts, ReplicasAhead, LocalReplica, Origin
<1>5. RemoteAhead(v) = {} /\ ReplicasAhead(v) = {}
  BY <1>1, <1>2, RingAll DEF RemoteAhead, ReplicasAhead
<1>6. PlanTyped(v) /\ PhasesFit(v) /\ SkippedFit(v, g)
  <2>1. v.local \in 0..Len(v.hosts) /\ v.index \in Nat /\ v.state # "ended" /\ w.remote \in 0..Len(w.hosts)
    BY <1>1, <1>2
  <2>2. PhasesFit(v)
    BY <1>1, <1>2, <2>1 DEF PhasesFit, WalkFits
  <2> QED
    BY <1>1, <2>1, <2>2 DEF PlanTyped, SkippedFit, WalkFits
<1>7. AheadFit(p, v, g)
  BY <1>1, <1>3, <1>4, <1>5 DEF AheadFit, WalkFits
<1>8. OriginsFit(p, v, g) /\ Origin(p, v, h)
  <2>1. w.local > 0 /\ (Home(p, h) \/ Early(p, h))
    BY <1>2, <1>3 DEF OriginsFit, WalkFits
  <2> QED
    BY <1>1, <1>4, <2>1 DEF OriginsFit, WalkFits, Origin
<1>9. NothingLost(p, v, g, s \ {h})
  BY <1>3, <1>4 DEF NothingLost, WalkFits
<1>10. WalkFits(p, v, g, s \ {h})
  BY <1>1, <1>6, <1>7, <1>8, <1>9 DEF WalkFits
<1>11. ASSUME ~LocalReplica(p, v, h) PROVE Free(p, v, g, h)
  <2>1. h \notin NamedHosts(v, g)
    BY <1>3, <1>4, <1>11 DEF AheadFit, WalkFits
  <2> QED
    BY <1>1, <1>3, <1>5, <1>8, <2>1 DEF Free
<1>12. ASSUME h \in s, LocalReplica(p, v, h) PROVE h \in NamedHosts(v, g)
  BY <1>4, <1>5, <1>12 DEF NothingLost, WalkFits
<1> QED
  BY <1>1, <1>3, <1>10, <1>11, <1>12 DEF h, v

\* A round over the list of another data center.
LEMMA RemoteStep ==
  ASSUME NEW p, NEW w, NEW g, NEW s, WalkFits(p, w, g, s),
         w.state = "walking", w.replicas_left = 0, w.local = 0, w.remote > 0
  PROVE  LET h == Pln!HostAt(w)
             v == [w EXCEPT !.remote = @ - 1, !.index = @ + 1] IN
         /\ WalkFits(p, v, g, s) /\ Free(p, v, g, h)
         /\ v.skipped = w.skipped /\ v.replicas = w.replicas
<1> DEFINE h == Pln!HostAt(w)
           v == [w EXCEPT !.remote = @ - 1, !.index = @ + 1]
<1>1. /\ DOMAIN v = PlanFields /\ v.state = w.state /\ v.hosts = w.hosts /\ v.index = w.index + 1
      /\ v.local = w.local /\ v.remote = w.remote - 1 /\ v.dcs = w.dcs
      /\ v.replicas = w.replicas /\ v.replica_index = w.replica_index
      /\ v.replicas_left = w.replicas_left /\ v.skipped = w.skipped
      /\ v.skipped_index = w.skipped_index
  BY DEF WalkFits, PlanTyped, PlanFields
<1> HIDE DEF v
<1>2. /\ w.hosts \in Seq(Hosts) /\ Pln!IsInjective(w.hosts) /\ w.index \in Nat
      /\ w.remote \in 1..Len(w.hosts) /\ w.dcs # Pln!NoDCs
      /\ w.replicas \in Seq(Hosts) /\ w.replica_index \in Nat
  BY DEF WalkFits, PlanTyped, DistinctHosts, PhasesFit
<1>3. /\ h \in Hosts /\ h \in Pln!ToSet(w.hosts) /\ h \notin RemoteAhead(v)
      /\ RemoteAhead(w) = RemoteAhead(v) \cup {h}
  <2> DEFINE x == w.hosts[(w.index % Len(w.hosts)) + 1]
             rest == Ring(w.hosts, w.index + 1, w.remote - 1)
  <2>1. /\ x \in Hosts /\ x \in Pln!ToSet(w.hosts) /\ x \notin rest
        /\ Ring(w.hosts, w.index, w.remote) = rest \cup {x}
    <3>1. DistinctHosts(w.hosts)
      BY <1>2 DEF DistinctHosts
    <3>2. x = w.hosts[(w.index % Len(w.hosts)) + 1] /\ rest = Ring(w.hosts, w.index + 1, w.remote - 1)
      OBVIOUS
    <3>3. w.index \in Nat /\ w.remote \in 1..Len(w.hosts)
      BY <1>2
    <3> HIDE DEF x, rest
    <3> QED
      BY ONLY <3>1, <3>2, <3>3, RingHosts
  <2>2. h = x
    BY DEF Pln!HostAt
  <2>3. RemoteAhead(w) = Ring(w.hosts, w.index, w.remote) /\ RemoteAhead(v) = rest
    BY <1>1 DEF RemoteAhead
  <2> HIDE DEF h, x, rest
  <2> QED
    BY <2>1, <2>2, <2>3
<1> HIDE DEF h
<1>4. /\ NamedHosts(v, g) = NamedHosts(w, g)
      /\ ReplicasAhead(v) = ReplicasAhead(w)
      /\ \A x : LocalReplica(p, v, x) <=> LocalReplica(p, w, x)
      /\ \A x : Origin(p, v, x) <=> Origin(p, w, x)
  BY <1>1 DEF NamedHosts, ReplicasAhead, LocalReplica, Origin
<1>5. LocalAhead(v) = {} /\ ReplicasAhead(v) = {} /\ LocalAhead(w) = {}
  BY <1>1, <1>2, RingAll DEF LocalAhead, ReplicasAhead
<1>6. PlanTyped(v) /\ PhasesFit(v) /\ SkippedFit(v, g)
  <2>1. v.remote \in 0..Len(v.hosts) /\ v.index \in Nat /\ v.state # "ended" /\ w.local \in 0..Len(w.hosts)
    BY <1>1, <1>2
  <2>2. PhasesFit(v)
    BY <1>1, <1>2, <2>1 DEF PhasesFit, WalkFits
  <2> QED
    BY <1>1, <2>1, <2>2 DEF PlanTyped, SkippedFit, WalkFits
<1>7. AheadFit(p, v, g) /\ h \notin NamedHosts(v, g)
  BY <1>1, <1>3, <1>4, <1>5 DEF AheadFit, WalkFits
<1>8. OriginsFit(p, v, g) /\ Origin(p, v, h)
  <2>1. w.remote > 0 /\ DC[h] \notin w.dcs
    BY <1>2, <1>3 DEF OriginsFit, WalkFits
  <2> QED
    BY <1>1, <1>2, <1>4, <2>1 DEF OriginsFit, WalkFits, Origin
<1>9. NothingLost(p, v, g, s)
  BY <1>4, <1>5 DEF NothingLost, WalkFits
<1>10. WalkFits(p, v, g, s)
  BY <1>1, <1>6, <1>7, <1>8, <1>9 DEF WalkFits
<1>11. Free(p, v, g, h)
  BY <1>1, <1>3, <1>5, <1>7, <1>8 DEF Free
<1> QED
  BY <1>1, <1>10, <1>11 DEF h, v

\* A step that leaves alone what the parts of the plan depend on.
LEMMA CallFits ==
  ASSUME NEW p, NEW w, NEW g, NEW s, WalkFits(p, w, g, s), NEW m
  PROVE  LET v == [w EXCEPT !.state = "walking", !.min = m] IN
         WalkFits(p, v, g, s) /\ v.skipped = w.skipped
<1> DEFINE v == [w EXCEPT !.state = "walking", !.min = m]
<1>1. /\ DOMAIN v = PlanFields /\ v.state = "walking" /\ v.hosts = w.hosts /\ v.index = w.index
      /\ v.local = w.local /\ v.remote = w.remote /\ v.dcs = w.dcs
      /\ v.replicas = w.replicas /\ v.replica_index = w.replica_index
      /\ v.replicas_left = w.replicas_left /\ v.skipped = w.skipped
      /\ v.skipped_index = w.skipped_index
  BY DEF WalkFits, PlanTyped, PlanFields
<1> HIDE DEF v
<1>2. /\ NamedHosts(v, g) = NamedHosts(w, g)
      /\ ReplicasAhead(v) = ReplicasAhead(w) /\ LocalAhead(v) = LocalAhead(w)
      /\ RemoteAhead(v) = RemoteAhead(w)
      /\ \A x : LocalReplica(p, v, x) <=> LocalReplica(p, w, x)
      /\ \A x : Origin(p, v, x) <=> Origin(p, w, x)
  BY <1>1 DEF NamedHosts, ReplicasAhead, LocalAhead, RemoteAhead, LocalReplica, Origin
<1>3. PlanTyped(v) /\ PhasesFit(v) /\ SkippedFit(v, g)
  BY <1>1 DEF PlanTyped, PhasesFit, SkippedFit, WalkFits
<1>4. AheadFit(p, v, g) /\ OriginsFit(p, v, g) /\ NothingLost(p, v, g, s)
  BY <1>1, <1>2 DEF AheadFit, OriginsFit, NothingLost, WalkFits
<1> QED
  BY <1>1, <1>3, <1>4 DEF WalkFits, v

\* The other data centers, as they are when the local hosts are through.
LEMMA DCsFit ==
  ASSUME NEW p, NEW w, NEW g, NEW s, WalkFits(p, w, g, s), p \in Policies,
         w.state = "walking", w.replicas_left = 0, w.local = 0, w.dcs = Pln!NoDCs,
         p.settings.kind = "DCAware"
  PROVE  LET v == [w EXCEPT !.dcs = DOMAIN p.remote] IN
         WalkFits(p, v, g, s) /\ v.skipped = w.skipped
<1> DEFINE v == [w EXCEPT !.dcs = DOMAIN p.remote]
<1>1. /\ DOMAIN v = PlanFields /\ v.state = "walking" /\ v.hosts = w.hosts /\ v.index = w.index
      /\ v.local = w.local /\ v.remote = w.remote /\ v.dcs = DOMAIN p.remote
      /\ v.replicas = w.replicas /\ v.replica_index = w.replica_index
      /\ v.replicas_left = w.replicas_left /\ v.skipped = w.skipped
      /\ v.skipped_index = w.skipped_index
  BY DEF WalkFits, PlanTyped, PlanFields
<1> HIDE DEF v
<1>2. DOMAIN p.remote \in SUBSET Nat /\ DOMAIN p.remote # Pln!NoDCs
  <2>1. DOMAIN p.remote \in SUBSET Nat
    BY PolicyTypes
  <2>2. -1 \in Pln!NoDCs /\ -1 \notin Nat
    BY DEF Pln!NoDCs
  <2> QED
    BY <2>1, <2>2
<1>3. w.remote = 0
  BY DEF PhasesFit, WalkFits
<1>4. /\ NamedHosts(v, g) = NamedHosts(w, g)
      /\ ReplicasAhead(v) = ReplicasAhead(w) /\ LocalAhead(v) = LocalAhead(w)
      /\ RemoteAhead(v) = RemoteAhead(w)
      /\ \A x : LocalReplica(p, v, x) <=> LocalReplica(p, w, x)
  BY <1>1 DEF NamedHosts, ReplicasAhead, LocalAhead, RemoteAhead, LocalReplica
<1>5. PlanTyped(v) /\ PhasesFit(v) /\ SkippedFit(v, g)
  BY <1>1, <1>2, <1>3 DEF PlanTyped, PhasesFit, SkippedFit, WalkFits
<1>6. OriginsFit(p, v, g)
  BY <1>1, <1>3, <1>4 DEF OriginsFit, Origin, WalkFits
<1>7. AheadFit(p, v, g) /\ NothingLost(p, v, g, s)
  BY <1>1, <1>4 DEF AheadFit, NothingLost, WalkFits
<1> QED
  BY <1>1, <1>5, <1>6, <1>7 DEF WalkFits, v

\* The list of the next one holds no host that was named.
LEMMA NextDCFits ==
  ASSUME NEW p, NEW u, ListsFit(p, u), NEW w, NEW g, NEW s, WalkFits(p, w, g, s), NEW n,
         w.state = "walking", w.replicas_left = 0, w.local = 0, w.remote = 0,
         w.dcs \notin {Pln!NoDCs, {}}
  PROVE  LET d == Pln!Min(w.dcs)
             hosts == Pln!get_hosts(p, d)
             v == [w EXCEPT !.hosts = hosts, !.dcs = @ \ {d},
                            !.remote = IF Len(hosts) < p.settings.used THEN Len(hosts)
                                       ELSE p.settings.used] IN
         WalkFits(p, v, g, s) /\ v.skipped = w.skipped
<1> DEFINE d == Pln!Min(w.dcs)
           hosts == Pln!get_hosts(p, d)
           used == IF Len(hosts) < p.settings.used THEN Len(hosts) ELSE p.settings.used
           v == [w EXCEPT !.hosts = hosts, !.dcs = @ \ {d}, !.remote = used]
<1>1. d \in w.dcs /\ w.dcs \in SUBSET Nat
  <2>1. w.dcs \in SUBSET Nat /\ w.dcs # {}
    BY DEF WalkFits, PlanTyped
  <2> QED
    BY <2>1, LeastIsIn
<1>2. p.settings.used \in Nat /\ hosts \in Seq(Hosts) /\ p.settings.kind = "DCAware"
  BY PolicyTypes DEF ListsFit, WalkFits, OriginsFit
<1>3. Pln!IsInjective(hosts) /\ \A h \in Pln!ToSet(hosts) : DC[h] = d /\ ~Home(p, h) /\ ~Early(p, h)
  <2>1. CASE d \in DOMAIN p.remote
    <3>1. /\ hosts = p.remote[d] /\ Pln!IsInjective(hosts) /\ d # p.local_dc
          /\ \A h \in Pln!ToSet(hosts) : DC[h] = d /\ h \notin Pln!ToSet(p.hosts)
      BY <1>2, <2>1 DEF Pln!get_hosts, ListsFit
    <3> HIDE DEF hosts, d
    <3> QED
      BY <1>2, <3>1 DEF Home, Early
  <2>2. CASE d \notin DOMAIN p.remote
    <3>1. hosts = <<>>
      BY <2>2 DEF Pln!get_hosts
    <3> HIDE DEF hosts, d
    <3> QED
      BY <3>1 DEF Pln!IsInjective, Pln!ToSet
  <2> QED
    BY <2>1, <2>2
<1> HIDE DEF d, hosts
<1>4. used \in 0..Len(hosts)
  BY <1>2
<1> HIDE DEF used
<1>5. /\ DOMAIN v = PlanFields /\ v.state = "walking" /\ v.hosts = hosts /\ v.index = w.index
      /\ v.local = w.local /\ v.remote = used /\ v.dcs = w.dcs \ {d}
      /\ v.replicas = w.replicas /\ v.replica_index = w.replica_index
      /\ v.replicas_left = w.replicas_left /\ v.skipped = w.skipped
      /\ v.skipped_index = w.skipped_index
  BY DEF WalkFits, PlanTyped, PlanFields
<1> HIDE DEF v
<1>6. w.index \in Nat /\ w.dcs \ {d} \in SUBSET Nat /\ w.dcs \ {d} # Pln!NoDCs /\ w.dcs # Pln!NoDCs
  <2>1. w.index \in Nat
    BY DEF WalkFits, PlanTyped
  <2>2. -1 \in Pln!NoDCs /\ -1 \notin w.dcs /\ -1 \notin w.dcs \ {d}
    BY <1>1 DEF Pln!NoDCs
  <2> QED
    BY <1>1, <2>1, <2>2
<1>7. /\ NamedHosts(v, g) = NamedHosts(w, g)
      /\ ReplicasAhead(v) = ReplicasAhead(w)
      /\ \A x : LocalReplica(p, v, x) <=> LocalReplica(p, w, x)
      /\ \A x : Origin(p, w, x) => Origin(p, v, x)
  BY <1>5, <1>6 DEF NamedHosts, ReplicasAhead, LocalReplica, Origin
<1>8. LocalAhead(v) = {} /\ LocalAhead(w) = {} /\ RemoteAhead(v) \subseteq Pln!ToSet(hosts)
  <2>1. LocalAhead(w) = {}
    BY AllNamed
  <2> QED
    BY <1>2, <1>4, <1>5, <1>6, <2>1, RingAll DEF LocalAhead, RemoteAhead
<1>9. PlanTyped(v) /\ PhasesFit(v) /\ SkippedFit(v, g)
  <2>1. w.local \in 0..Len(hosts)
    BY <1>2
  <2> QED
    BY <1>2, <1>3, <1>4, <1>5, <1>6, <2>1
       DEF PlanTyped, PhasesFit, SkippedFit, WalkFits, DistinctHosts
<1>10. OriginsFit(p, v, g)
  BY <1>2, <1>3, <1>5, <1>6, <1>7 DEF OriginsFit, WalkFits
<1>11. AheadFit(p, v, g)
  <2>1. \A h \in NamedHosts(w, g) : h \notin Pln!ToSet(hosts)
    BY <1>1, <1>3, <1>6 DEF OriginsFit, Origin, WalkFits
  <2> QED
    BY <1>5, <1>7, <1>8, <2>1 DEF AheadFit, WalkFits
<1>12. NothingLost(p, v, g, s)
  BY <1>7, <1>8 DEF NothingLost, WalkFits
<1> QED
  BY <1>5, <1>9, <1>10, <1>11, <1>12 DEF WalkFits, v, used, hosts, d

\* What was skipped, one after the other.
LEMMA SkippedGiven ==
  ASSUME NEW p, NEW w, NEW g, NEW s, WalkFits(p, w, g, s),
         w.state = "walking", w.skipped_index < Len(w.skipped)
  PROVE  LET h == w.skipped[w.skipped_index + 1]
             v == [w EXCEPT !.skipped_index = @ + 1, !.state = "idle"] IN
         /\ WalkFits(p, v, Append(g, h), s) /\ v.skipped = w.skipped
         /\ h \in Hosts
<1> DEFINE i == w.skipped_index
           n == Len(w.skipped)
           h == w.skipped[i + 1]
           v == [w EXCEPT !.skipped_index = @ + 1, !.state = "idle"]
           f == Append(g, h)
<1>1. /\ DOMAIN v = PlanFields /\ v.state = "idle" /\ v.hosts = w.hosts /\ v.index = w.index
      /\ v.local = w.local /\ v.remote = w.remote /\ v.dcs = w.dcs
      /\ v.replicas = w.replicas /\ v.replica_index = w.replica_index
      /\ v.replicas_left = w.replicas_left /\ v.skipped = w.skipped
      /\ v.skipped_index = i + 1
  BY DEF WalkFits, PlanTyped, PlanFields
<1> HIDE DEF v
<1> DEFINE R == Pln!Repeated(w.replicas)
<1>2. /\ w.skipped \in Seq(Hosts) /\ n \in Nat /\ i \in 0..n
      /\ \A j, k \in 1..n : w.skipped[j] = w.skipped[k] => j = k \/ w.skipped[j] \in R
      /\ i + 1 \in 1..n /\ OnceBut(g, R)
  BY DEF WalkFits, PlanTyped, OnceBut
<1>3. h \in Hosts /\ h \in Pln!ToSet(w.skipped) /\ (h \notin Pln!ToSet(g) \/ h \in R)
  <2>1. ~(i + 1 <= i)
    BY <1>2
  <2> HIDE DEF i
  <2> QED
    BY <1>2, <2>1 DEF SkippedFit, WalkFits, Pln!ToSet, i
<1>4. OnceBut(f, R) /\ Pln!ToSet(f) = Pln!ToSet(g) \cup {h}
  BY <1>2, <1>3, OneMore
<1> HIDE DEF f
<1>5. /\ NamedHosts(v, f) = NamedHosts(w, g)
      /\ ReplicasAhead(v) = ReplicasAhead(w) /\ LocalAhead(v) = LocalAhead(w)
      /\ RemoteAhead(v) = RemoteAhead(w)
      /\ \A x : LocalReplica(p, v, x) <=> LocalReplica(p, w, x)
      /\ \A x : Origin(p, v, x) <=> Origin(p, w, x)
  BY <1>1, <1>3, <1>4 DEF NamedHosts, ReplicasAhead, LocalAhead, RemoteAhead, LocalReplica, Origin
<1>6. PlanTyped(v) /\ PhasesFit(v)
  <2>1. i + 1 \in 0..n
    BY <1>2
  <2> QED
    BY <1>1, <2>1 DEF PlanTyped, PhasesFit, WalkFits
<1>7. SkippedFit(v, f)
  <2> SUFFICES ASSUME NEW j \in 1..n
               PROVE  /\ j <= i + 1 => w.skipped[j] \in Pln!ToSet(f)
                      /\ w.skipped[j] \in Pln!ToSet(f) => j <= i + 1 \/ w.skipped[j] \in R
    BY <1>1 DEF SkippedFit
  <2>1. /\ j <= i => w.skipped[j] \in Pln!ToSet(g)
        /\ w.skipped[j] \in Pln!ToSet(g) => j <= i \/ w.skipped[j] \in R
    BY DEF SkippedFit, WalkFits
  <2>2. /\ j = i + 1 => w.skipped[j] = h
        /\ w.skipped[j] = h => j = i + 1 \/ w.skipped[j] \in R
    BY <1>2
  <2>3. j <= i + 1 <=> (j <= i \/ j = i + 1)
    BY <1>2
  <2> HIDE DEF h, i, n, R
  <2> QED
    BY <1>4, <2>1, <2>2, <2>3
<1>8. AheadFit(p, v, f) /\ OriginsFit(p, v, f) /\ NothingLost(p, v, f, s)
  BY <1>1, <1>5 DEF AheadFit, OriginsFit, NothingLost, WalkFits
<1> QED
  BY <1>1, <1>3, <1>4, <1>6, <1>7, <1>8 DEF WalkFits, v, f, R

\* The end of a plan.
LEMMA EndFits ==
  ASSUME NEW p, NEW w, NEW g, NEW s, WalkFits(p, w, g, s),
         w.replicas_left = 0, w.local = 0, w.skipped_index = Len(w.skipped)
  PROVE  LET v == [w EXCEPT !.state = "ended"] IN
         WalkFits(p, v, g, s) /\ v.skipped = w.skipped
<1> DEFINE v == [w EXCEPT !.state = "ended"]
<1>1. /\ DOMAIN v = PlanFields /\ v.state = "ended" /\ v.hosts = w.hosts /\ v.index = w.index
      /\ v.local = w.local /\ v.remote = w.remote /\ v.dcs = w.dcs
      /\ v.replicas = w.replicas /\ v.replica_index = w.replica_index
      /\ v.replicas_left = w.replicas_left /\ v.skipped = w.skipped
      /\ v.skipped_index = w.skipped_index
  BY DEF WalkFits, PlanTyped, PlanFields
<1> HIDE DEF v
<1>2. /\ NamedHosts(v, g) = NamedHosts(w, g)
      /\ ReplicasAhead(v) = ReplicasAhead(w) /\ LocalAhead(v) = LocalAhead(w)
      /\ RemoteAhead(v) = RemoteAhead(w)
      /\ \A x : LocalReplica(p, v, x) <=> LocalReplica(p, w, x)
      /\ \A x : Origin(p, v, x) <=> Origin(p, w, x)
  BY <1>1 DEF NamedHosts, ReplicasAhead, LocalAhead, RemoteAhead, LocalReplica, Origin
<1>3. PlanTyped(v) /\ PhasesFit(v) /\ SkippedFit(v, g)
  BY <1>1 DEF PlanTyped, PhasesFit, SkippedFit, WalkFits
<1>4. AheadFit(p, v, g) /\ OriginsFit(p, v, g) /\ NothingLost(p, v, g, s)
  BY <1>1, <1>2 DEF AheadFit, OriginsFit, NothingLost, WalkFits
<1> QED
  BY <1>1, <1>3, <1>4 DEF WalkFits, v

\* A plan that was just made has all the hosts ahead.
LEMMA NewFits ==
  ASSUME NEW p, NEW u, ListsFit(p, u), NEW r \in Seq(Hosts), NEW k \in Nat,
         NEW s, s \subseteq Pln!ToSet(p.hosts), NEW cl
  PROVE  WalkFits(p, [state |-> "idle", min |-> -1, local_cl |-> cl,
                      hosts |-> p.hosts, index |-> p.index,
                      local |-> Len(p.hosts), remote |-> 0, dcs |-> Pln!NoDCs,
                      replicas |-> r, replica_index |-> k, replicas_left |-> Len(r),
                      skipped |-> <<>>, skipped_index |-> 0], <<>>, s)
<1> DEFINE w == [state |-> "idle", min |-> -1, local_cl |-> cl,
                 hosts |-> p.hosts, index |-> p.index,
                 local |-> Len(p.hosts), remote |-> 0, dcs |-> Pln!NoDCs,
                 replicas |-> r, replica_index |-> k, replicas_left |-> Len(r),
                 skipped |-> <<>>, skipped_index |-> 0]
<1>1. /\ DOMAIN w = PlanFields /\ w.state = "idle" /\ w.hosts = p.hosts /\ w.index = p.index
      /\ w.local = Len(p.hosts) /\ w.remote = 0 /\ w.dcs = Pln!NoDCs
      /\ w.replicas = r /\ w.replica_index = k /\ w.replicas_left = Len(r)
      /\ w.skipped = <<>> /\ w.skipped_index = 0
  BY DEF PlanFields
<1> HIDE DEF w
<1>2. p.hosts \in Seq(Hosts) /\ Pln!IsInjective(p.hosts) /\ p.index \in Nat
  BY PolicyTypes DEF ListsFit
<1>3. OnceBut(<<>>, Pln!Repeated(r)) /\ Len(<<>>) = 0
  BY DEF OnceBut
<1>4. NamedHosts(w, <<>>) = {}
  BY <1>1 DEF NamedHosts, Pln!ToSet
<1>5. LocalAhead(w) = Pln!ToSet(p.hosts) /\ ReplicasAhead(w) = Pln!ToSet(r)
  BY <1>1, <1>2, RingAll DEF LocalAhead, ReplicasAhead
<1>6. PlanTyped(w)
  <2>1. Len(p.hosts) \in 0..Len(p.hosts) /\ 0 \in 0..Len(p.hosts) /\ Len(r) \in 0..Len(r)
    BY <1>2
  <2> QED
    BY <1>1, <1>2, <1>3, <2>1 DEF PlanTyped, DistinctHosts
<1>7. SkippedFit(w, <<>>) /\ PhasesFit(w)
  BY <1>1, <1>3 DEF SkippedFit, PhasesFit
<1>8. AheadFit(p, w, <<>>)
  BY <1>4 DEF AheadFit
<1>9. OriginsFit(p, w, <<>>)
  BY <1>1, <1>4 DEF OriginsFit, Early
<1>10. NothingLost(p, w, <<>>, s)
  BY <1>1, <1>5 DEF NothingLost, LocalReplica
<1> QED
  BY <1>1, <1>3, <1>6, <1>7, <1>8, <1>9, <1>10 DEF WalkFits, w
-----------------------------------------------------------------------------
(* Local hosts before those of other data centers *)

\* A host that is known to be of another data center is named late.
LEMMA LateOrigin ==
  ASSUME NEW p, NEW u, ListsFit(p, u), NEW w, NEW h \in Hosts, Origin(p, w, h), Away(p, h)
  PROVE  w.dcs # Pln!NoDCs
<1>1. ~Early(p, h)
  <2> SUFFICES ASSUME h \in Pln!ToSet(p.hosts) PROVE FALSE
    BY DEF Early
  <2>1. Pln!is_valid_host(p, h) /\ p.settings.kind \in {"RoundRobin", "DCAware"}
    BY PolicyTypes DEF ListsFit
  <2>2. p.settings.kind = "DCAware" => DC[h] = p.local_dc
    BY DEF ListsFit, Away
  <2> QED
    BY <2>1, <2>2 DEF Home, Away
<1> QED
  BY <1>1 DEF Origin, Away

\* The order of a plan survives a step that names no host.
LEMMA LastStays ==
  ASSUME NEW p, NEW w, NEW v, NEW g, NEW s, RemoteLast(p, w, g, s),
         Pln!ToSet(w.skipped) \subseteq Pln!ToSet(v.skipped)
  PROVE  RemoteLast(p, v, g, s)
BY DEF RemoteLast

\* A host of another data center may be named when all local ones were.
LEMMA LastGiven ==
  ASSUME NEW p, NEW w, NEW v, NEW g, NEW s, NEW h \in Hosts, g \in Seq(Hosts),
         RemoteLast(p, w, g, s), Pln!ToSet(w.skipped) \subseteq Pln!ToSet(v.skipped),
         Away(p, h) => s \subseteq Pln!ToSet(g) \cup {h} \cup Pln!ToSet(v.skipped)
  PROVE  RemoteLast(p, v, Append(g, h), s)
<1> DEFINE f == Append(g, h)
           n == Len(g)
<1>1. g \in Seq(Hosts) /\ n \in Nat
  OBVIOUS
<1>2. f \in Seq(Hosts) /\ Len(f) = n + 1 /\ f[n + 1] = h /\ \A i \in 1..n : f[i] = g[i]
  BY <1>1
<1> HIDE DEF f, n
<1>3. ASSUME NEW q \in Seq(Hosts), NEW i \in 1..Len(q)
      PROVE  Pln!ToSet(SubSeq(q, 1, i)) = {q[j] : j \in 1..i}
  <2>1. i \in Nat /\ \A j \in 1..i : j \in 1..Len(q)
    BY <1>3
  <2>2. Len(SubSeq(q, 1, i)) = i /\ \A j \in 1..i : SubSeq(q, 1, i)[j] = q[j]
    BY <1>3, <2>1
  <2>3. DOMAIN SubSeq(q, 1, i) = 1..i
    BY <1>3, <2>1, <2>2
  <2> QED
    BY <2>2, <2>3 DEF Pln!ToSet
<1>4. \A i \in 1..(n + 1) : i = n + 1 \/ i \in 1..n
  BY <1>1
<1>5. ASSUME NEW i \in 1..n, Away(p, f[i])
      PROVE  s \subseteq Pln!ToSet(SubSeq(f, 1, i)) \cup Pln!ToSet(v.skipped)
  <2>1. \A j \in 1..i : j \in 1..n /\ f[j] = g[j]
    BY <1>1, <1>2
  <2>2. i \in 1..Len(f) /\ i \in 1..Len(g)
    BY <1>1, <1>2 DEF n
  <2>3. Pln!ToSet(SubSeq(f, 1, i)) = {f[j] : j \in 1..i} /\ Pln!ToSet(SubSeq(g, 1, i)) = {g[j] : j \in 1..i}
    BY <1>1, <1>2, <1>3, <2>2
  <2>4. s \subseteq Pln!ToSet(SubSeq(g, 1, i)) \cup Pln!ToSet(w.skipped)
    BY <1>2, <1>5 DEF RemoteLast, n
  <2> QED
    BY <2>1, <2>3, <2>4
<1>6. ASSUME Away(p, h)
      PROVE  s \subseteq Pln!ToSet(SubSeq(f, 1, n + 1)) \cup Pln!ToSet(v.skipped)
  <2>1. n + 1 \in 1..Len(f) /\ n + 1 \in 1..(n + 1) /\ \A j \in 1..n : j \in 1..(n + 1)
    BY <1>1, <1>2
  <2>2. Pln!ToSet(g) \cup {h} \subseteq Pln!ToSet(SubSeq(f, 1, n + 1))
    <3>1. Pln!ToSet(SubSeq(f, 1, n + 1)) = {f[j] : j \in 1..(n + 1)}
      BY <1>2, <1>3, <2>1
    <3>2. Pln!ToSet(g) = {g[j] : j \in 1..n}
      BY <1>1 DEF Pln!ToSet, n
    <3> QED
      BY <1>2, <2>1, <3>1, <3>2
  <2> QED
    BY <1>6, <2>2
<1>7. \A i \in 1..(n + 1) : Away(p, f[i]) => s \subseteq Pln!ToSet(SubSeq(f, 1, i)) \cup Pln!ToSet(v.skipped)
  BY <1>2, <1>4, <1>5, <1>6
<1> QED
  BY <1>2, <1>7 DEF RemoteLast, f
-----------------------------------------------------------------------------
(* The actions *)

\* The plan after a step, and what was given.
StepFits ==
  /\ plan' # Pln!NoPlan /\ WalkFits(policy, plan', given', stable)
  /\ RemoteLast(policy, plan, given, stable) => RemoteLast(policy, plan', given', stable)

\* A typed plan is one.
LEMMA PlanIsThere ==
  ASSUME NEW w, PlanTyped(w)
  PROVE  w # Pln!NoPlan
BY DEF PlanTyped, Pln!NoPlan

\* What the walk may name next: given to the caller, or skipped as too slow.
LEMMA ThroughFits ==
  ASSUME ListsFit(policy, up), NEW w, NEW h, WalkFits(policy, w, given, stable \ {h}),
         Free(policy, w, given, h), Pln!ToSet(w.skipped) = Pln!ToSet(plan.skipped), Pln!ThroughLatency(w, h)
  PROVE  StepFits
<1>1. /\ given \in Seq(Hosts) /\ h \in Hosts
      /\ h \notin Pln!ToSet(w.skipped) \/ h \in Pln!Repeated(w.replicas)
  BY DEF WalkFits, Free, NamedHosts, OnceBut
<1>2. CASE Pln!Give(w, h)
  <2>1. plan' = [w EXCEPT !.state = "idle"] /\ given' = Append(given, h)
    BY <1>2 DEF Pln!Give
  <2>2. WalkFits(policy, plan', given', stable)
    BY <2>1, GivenFits
  <2>3. ASSUME RemoteLast(policy, plan, given, stable)
        PROVE  RemoteLast(policy, plan', given', stable)
    <3>1. plan'.skipped = w.skipped
      BY <2>1 DEF WalkFits, PlanTyped, PlanFields
    <3>2. ASSUME Away(policy, h)
          PROVE  stable \subseteq Pln!ToSet(given) \cup {h} \cup Pln!ToSet(w.skipped)
      <4>1. w.dcs # Pln!NoDCs
        BY <1>1, <3>2, LateOrigin DEF Free
      <4>2. w.local = 0 /\ w.replicas_left = 0
        BY <4>1 DEF WalkFits, PhasesFit, PlanTyped, DistinctHosts
      <4>3. stable \ {h} \subseteq NamedHosts(w, given)
        BY <4>2, AllNamed
      <4> QED
        BY <4>3 DEF NamedHosts
    <3>3. Pln!ToSet(plan'.skipped) = Pln!ToSet(w.skipped) /\ Pln!ToSet(plan.skipped) \subseteq Pln!ToSet(plan'.skipped)
      BY <3>1
    <3> QED
      BY <1>1, <2>1, <2>3, <3>2, <3>3, LastGiven
  <2> QED
    BY <2>2, <2>3, PlanIsThere DEF StepFits, WalkFits
<1>3. CASE plan' = [w EXCEPT !.skipped = Append(@, h)] /\ given' = given
  <2>1. plan' = [w EXCEPT !.skipped = Append(w.skipped, h)]
    BY <1>3
  <2>2. WalkFits(policy, plan', given', stable)
    BY <1>3, <2>1, SkippedFits
  <2>3. Pln!ToSet(plan.skipped) \subseteq Pln!ToSet(plan'.skipped)
    <3>1. plan'.skipped = Append(w.skipped, h)
      BY <2>1 DEF WalkFits, PlanTyped, PlanFields
    <3>2. Pln!ToSet(Append(w.skipped, h)) = Pln!ToSet(w.skipped) \cup {h}
      BY <1>1, OneMore DEF WalkFits, PlanTyped
    <3> QED
      BY <3>1, <3>2
  <2> QED
    BY <1>3, <2>2, <2>3, LastStays, PlanIsThere DEF StepFits, WalkFits
<1> QED
  BY <1>2, <1>3 DEF Pln!ThroughLatency

\* A step that names no host.
LEMMA OtherFits ==
  ASSUME WalkFits(policy, plan', given, stable), plan'.skipped = plan.skipped, given' = given
  PROVE  StepFits
BY LastStays, PlanIsThere DEF StepFits, WalkFits

\* The same, of the policy of the system.
LEMMA HomeOrNot ==
  ASSUME ListsFit(policy, up), NEW h \in Hosts
  PROVE  Pln!Distance(policy, h, DC[h]) = "LOCAL" <=> Home(policy, h)
BY HomeIsLocal

\* A round of TokenAwarePolicy over the replicas.
LEMMA ReplicasStep ==
  ASSUME WalkInv, plan # Pln!NoPlan, Pln!WalkReplicas
  PROVE  StepFits
<1> DEFINE h == plan.replicas[(plan.replica_index % Len(plan.replicas)) + 1]
           w == [plan EXCEPT !.replicas_left = @ - 1, !.replica_index = @ + 1]
<1>1. WalkFits(policy, plan, given, stable) /\ ListsFit(policy, up) /\ stable \subseteq up
  BY DEF WalkInv
<1>2. /\ h \in Hosts /\ WalkFits(policy, w, given, stable \ {h})
      /\ Home(policy, h) => Free(policy, w, given, h)
      /\ ~Home(policy, h) => WalkFits(policy, w, given, stable)
      /\ w.skipped = plan.skipped
  BY <1>1, ReplicaStep DEF Pln!WalkReplicas
<1>3. IF h \in up /\ Pln!Distance(policy, h, DC[h]) = "LOCAL" THEN Pln!ThroughLatency(w, h)
      ELSE plan' = w /\ given' = given
  BY DEF Pln!WalkReplicas
<1> HIDE DEF h, w
<1>4. CASE h \in up /\ Home(policy, h)
  BY <1>1, <1>2, <1>3, <1>4, HomeOrNot, ThroughFits
<1>5. CASE ~(h \in up /\ Home(policy, h))
  <2>1. plan' = w /\ given' = given
    BY <1>1, <1>2, <1>3, <1>5, HomeOrNot
  <2>2. WalkFits(policy, w, given, stable)
    BY <1>1, <1>2, <1>5, Passed
  <2> QED
    BY <1>2, <2>1, <2>2, OtherFits
<1> QED
  BY <1>4, <1>5

\* A round over the local list.
LEMMA LocalsStep ==
  ASSUME WalkInv, plan # Pln!NoPlan, Pln!WalkLocal
  PROVE  StepFits
<1> DEFINE h == Pln!HostAt(plan)
           w == [plan EXCEPT !.local = @ - 1, !.index = @ + 1]
<1>1. WalkFits(policy, plan, given, stable) /\ ListsFit(policy, up) /\ stable \subseteq up
  BY DEF WalkInv
<1>2. /\ h \in Hosts /\ WalkFits(policy, w, given, stable \ {h})
      /\ ~LocalReplica(policy, w, h) => Free(policy, w, given, h)
      /\ h \in stable /\ LocalReplica(policy, w, h) => h \in NamedHosts(w, given)
      /\ w.skipped = plan.skipped
  BY <1>1, LocalStep DEF Pln!WalkLocal
<1>3. \/ h \in up /\ Pln!ThroughToken(w, h)
      \/ h \notin up /\ plan' = w /\ given' = given
  BY DEF Pln!WalkLocal
<1> HIDE DEF h, w
<1>4. LocalReplica(policy, w, h) <=>
        Pln!Contains(w.replicas, h) /\ Pln!Distance(policy, h, DC[h]) = "LOCAL"
  BY <1>1, <1>2, HomeOrNot, InjectiveLists DEF LocalReplica, WalkFits, PlanTyped
<1>5. CASE h \in up /\ Pln!ThroughLatency(w, h) /\ ~LocalReplica(policy, w, h)
  BY <1>1, <1>2, <1>5, ThroughFits
<1>6. CASE plan' = w /\ given' = given /\ (h \notin up \/ LocalReplica(policy, w, h))
  <2>1. WalkFits(policy, w, given, stable)
    BY <1>1, <1>2, <1>6, Passed
  <2> QED
    BY <1>2, <1>6, <2>1, OtherFits
<1> QED
  BY <1>3, <1>4, <1>5, <1>6 DEF Pln!ThroughToken

\* A round over the list of another data center.
LEMMA RemotesStep ==
  ASSUME WalkInv, plan # Pln!NoPlan, Pln!WalkRemote
  PROVE  StepFits
<1> DEFINE h == Pln!HostAt(plan)
           w == [plan EXCEPT !.remote = @ - 1, !.index = @ + 1]
<1>1. WalkFits(policy, plan, given, stable) /\ ListsFit(policy, up) /\ stable \subseteq up
  BY DEF WalkInv
<1>2. /\ WalkFits(policy, w, given, stable) /\ Free(policy, w, given, h)
      /\ w.skipped = plan.skipped
  BY <1>1, RemoteStep DEF Pln!WalkRemote, Pln!LocalDone
<1>3. \/ Pln!ThroughLatency(w, h)
      \/ plan' = w /\ given' = given
  BY DEF Pln!WalkRemote, Pln!ThroughToken
<1> HIDE DEF h, w
<1>4. WalkFits(policy, w, given, stable \ {h})
  BY <1>2 DEF WalkFits, NothingLost
<1> QED
  BY <1>1, <1>2, <1>3, <1>4, ThroughFits, OtherFits

\* The lists are through: the skipped hosts, then the end.
LEMMA FinishStep ==
  ASSUME WalkInv, plan # Pln!NoPlan, Pln!Finish
  PROVE  StepFits
<1>1. WalkFits(policy, plan, given, stable) /\ ListsFit(policy, up)
  BY DEF WalkInv
<1>2. plan.state = "walking" /\ plan.replicas_left = 0 /\ plan.local = 0
  BY DEF Pln!Finish, Pln!Exhausted, Pln!LocalDone
<1>3. CASE /\ plan.skipped_index < Len(plan.skipped)
           /\ Pln!Give([plan EXCEPT !.skipped_index = @ + 1], plan.skipped[plan.skipped_index + 1])
  <2> DEFINE h == plan.skipped[plan.skipped_index + 1]
             w == [plan EXCEPT !.skipped_index = @ + 1, !.state = "idle"]
  <2>1. [[plan EXCEPT !.skipped_index = @ + 1] EXCEPT !.state = "idle"] = w
    OBVIOUS
  <2>2. plan' = w /\ given' = Append(given, h)
    BY <1>3, <2>1 DEF Pln!Give
  <2>3. /\ WalkFits(policy, w, Append(given, h), stable) /\ w.skipped = plan.skipped
        /\ h \in Hosts
    BY <1>1, <1>2, <1>3, SkippedGiven
  <2> HIDE DEF h, w
  <2>4. stable \subseteq Pln!ToSet(given) \cup {h} \cup Pln!ToSet(w.skipped)
    BY <1>1, <1>2, <2>3, AllNamed DEF NamedHosts
  <2>5. RemoteLast(policy, plan, given, stable) => RemoteLast(policy, w, Append(given, h), stable)
    BY <1>1, <2>3, <2>4, LastGiven DEF WalkFits, OnceBut
  <2> QED
    BY <2>2, <2>3, <2>5, PlanIsThere DEF StepFits, WalkFits
<1>4. CASE /\ plan.skipped_index = Len(plan.skipped)
           /\ plan' = [plan EXCEPT !.state = "ended"] /\ given' = given
  BY <1>1, <1>2, <1>4, EndFits, OtherFits
<1> QED
  BY <1>3, <1>4 DEF Pln!Finish

\* The call of compute_next, and the two steps to the next data center.
LEMMA QuietSteps ==
  ASSUME WalkInv, plan # Pln!NoPlan, Pln!ComputeNext \/ Pln!CopyDCs \/ Pln!NextDC
  PROVE  StepFits
<1>1. WalkFits(policy, plan, given, stable) /\ ListsFit(policy, up)
  BY DEF WalkInv
<1>2. CASE Pln!ComputeNext
  BY <1>1, <1>2, CallFits, OtherFits DEF Pln!ComputeNext
<1>3. CASE Pln!CopyDCs
  BY <1>1, <1>3, DCsFit, OtherFits DEF Pln!CopyDCs, Pln!LocalDone, Pln!UsesRemote, ListsFit
<1>4. CASE Pln!NextDC
  <2> DEFINE d == Pln!Min(plan.dcs)
             hosts == Pln!get_hosts(policy, d)
             w == [plan EXCEPT !.hosts = hosts, !.dcs = @ \ {d},
                               !.remote = IF Len(hosts) < policy.settings.used THEN Len(hosts)
                                          ELSE policy.settings.used]
  <2>1. plan' = w /\ given' = given
    BY <1>4 DEF Pln!NextDC
  <2>2. WalkFits(policy, w, given, stable) /\ w.skipped = plan.skipped
    BY <1>1, <1>4, NextDCFits DEF Pln!NextDC, Pln!LocalDone
  <2> HIDE DEF w
  <2> QED
    BY <2>1, <2>2, OtherFits
<1> QED
  BY <1>2, <1>3, <1>4

\* The index of the policy, which a plan takes and advances, is that of no list.
LEMMA IndexFits ==
  ASSUME NEW p, NEW u, ListsFit(p, u), NEW i \in Nat
  PROVE  LET q == [p EXCEPT !.index = i] IN ListsFit(q, u) /\ SameHome(p, q)
<1> DEFINE q == [p EXCEPT !.index = i]
<1>1. p \in Policies
  BY DEF ListsFit
<1>2. /\ q \in Policies /\ q.settings = p.settings /\ q.local_dc = p.local_dc
      /\ q.hosts = p.hosts /\ q.remote = p.remote
  BY <1>1 DEF Policies
<1> HIDE DEF q
<1>3. \A h : Pln!is_valid_host(q, h) <=> Pln!is_valid_host(p, h)
  BY <1>2 DEF Pln!is_valid_host
<1>4. ListsFit(q, u)
  BY <1>2, <1>3 DEF ListsFit
<1>5. SameHome(p, q)
  BY <1>2 DEF SameHome
<1> QED
  BY <1>4, <1>5 DEF q

\* The initial states.
LEMMA InitWalk ==
  ASSUME Pln!QueryPlanAssumption, Pln!Init
  PROVE  WalkInv /\ OrderInv
<1>1. plan = Pln!NoPlan /\ given = <<>> /\ stable = {} /\ up = Hosts /\ config \in Configs
  BY DEF Pln!Init
<1>2. PICK connected \in Hosts, i \in 0..(Cardinality(Hosts) - 1) :
        policy = [Pln!PolicyInit(Pln!NewPolicy(config.settings), DC[connected], Hosts, DC) EXCEPT !.index = i]
  BY SameCounts DEF Pln!Init
<1>3. config.settings \in SettingsTyped /\ DC[connected] \in Nat /\ i \in Nat
  <2>1. Cardinality(Hosts) \in Nat
    BY SameCounts, FS_CardinalityType DEF Pln!QueryPlanAssumption
  <2> QED
    BY <1>1, <2>1 DEF Pln!QueryPlanAssumption, SettingsTyped
<1>4. ListsFit(policy, Hosts)
  BY <1>2, <1>3, InitFits, IndexFits
<1> QED
  BY <1>1, <1>4 DEF WalkInv, OrderInv

\* A step of the session thread: the lists, and who was up all the time.
LEMMA SessionSteps ==
  ASSUME WalkInv, NEW t \in SUBSET stable, SameHome(policy, policy'),
         ListsFit(policy', up'), stable' = t, t \subseteq up', plan' = plan, given' = given
  PROVE  WalkInv' /\ (OrderInv => OrderInv')
<1>1. plan # Pln!NoPlan => WalkFits(policy', plan, given, t)
  BY PolicyChanges DEF WalkInv
<1>2. OrderInv => OrderInv'
  BY LastAgain DEF OrderInv, Pln!NoPlan
<1>3. Pln!NoPlan' = Pln!NoPlan
  BY DEF Pln!NoPlan
<1> QED
  BY <1>1, <1>2, <1>3 DEF WalkInv

\* Every step.
LEMMA NextWalk ==
  ASSUME Pln!QueryPlanAssumption, WalkInv, [Pln!Next]_(Pln!vars)
  PROVE  WalkInv' /\ (OrderInv => OrderInv')
<1>1. ListsFit(policy, up) /\ stable \subseteq up /\ SameHome(policy, policy)
  BY DEF WalkInv, SameHome
<1>2. ASSUME NEW h \in Hosts, Pln!OnDown(h)
      PROVE  WalkInv' /\ (OrderInv => OrderInv')
  <2>1. /\ policy' = Pln!PolicyOnRemove(policy, h, DC[h]) /\ up' = up \ {h} /\ stable' = stable \ {h}
        /\ plan' = plan /\ given' = given
    BY <1>2 DEF Pln!OnDown
  <2>2. ListsFit(policy', up') /\ SameHome(policy, policy')
    BY <1>1, <2>1, DownFits
  <2> QED
    BY <1>1, <2>1, <2>2, SessionSteps
<1>3. ASSUME NEW h \in Hosts, Pln!OnUp(h)
      PROVE  WalkInv' /\ (OrderInv => OrderInv')
  <2>1. /\ h \notin up /\ policy' = Pln!SessionOnUp(policy, h, DC[h]) /\ up' = up \cup {h}
        /\ stable' = stable /\ plan' = plan /\ given' = given
    BY <1>3 DEF Pln!OnUp
  <2>2. ListsFit(policy', up') /\ SameHome(policy, policy')
    BY <1>1, <2>1, UpFits
  <2> QED
    BY <1>1, <2>1, <2>2, SessionSteps
<1>4. ASSUME policy' = policy, up' = up, stable' = stable, plan' = plan, given' = given
      PROVE  WalkInv' /\ (OrderInv => OrderInv')
  BY <1>1, <1>4, SessionSteps
<1>5. ASSUME NEW routed \in BOOLEAN, NEW local_cl \in BOOLEAN, NEW r \in Replicas,
             NEW start \in 0..Len(r), Pln!NewQueryPlan(routed, r, start, local_cl)
      PROVE  WalkInv' /\ OrderInv'
  <2> DEFINE token == config.token /\ routed /\ r # <<>>
             q == IF token THEN r ELSE <<>>
             k == IF token THEN start ELSE 0
             cl == local_cl /\ policy.settings.kind = "DCAware"
             s == up \cap Pln!ToSet(policy.hosts)
             w == [state |-> "idle", min |-> -1, local_cl |-> cl,
                   hosts |-> policy.hosts, index |-> policy.index,
                   local |-> Len(policy.hosts), remote |-> 0, dcs |-> Pln!NoDCs,
                   replicas |-> q, replica_index |-> k, replicas_left |-> Len(q),
                   skipped |-> <<>>, skipped_index |-> 0]
  <2>1. r \in Seq(Hosts) /\ k \in Nat
    BY DEF Pln!QueryPlanAssumption
  <2>2. q \in Seq(Hosts)
    BY <2>1
  <2>3. plan' = w
    <3>1. (IF token THEN Len(r) ELSE 0) = Len(q)
      OBVIOUS
    <3>2. plan' = [state |-> "idle", min |-> -1, local_cl |-> cl,
                   hosts |-> policy.hosts, index |-> policy.index,
                   local |-> Len(policy.hosts), remote |-> 0, dcs |-> Pln!NoDCs,
                   replicas |-> q, replica_index |-> k,
                   replicas_left |-> IF token THEN Len(r) ELSE 0,
                   skipped |-> <<>>, skipped_index |-> 0]
      BY <1>5 DEF Pln!NewQueryPlan
    <3> HIDE DEF q, k, cl, token
    <3> QED
      BY <3>1, <3>2
  <2>4. /\ plan = Pln!NoPlan /\ policy' = [policy EXCEPT !.index = policy.index + 1]
        /\ stable' = s /\ up' = up /\ given' = given
    BY <1>5 DEF Pln!NewQueryPlan
  <2>5. given = <<>>
    BY <2>4 DEF WalkInv
  <2> HIDE DEF q, k, cl
  <2>6. WalkFits(policy, w, <<>>, s)
    BY <1>1, <2>1, <2>2, NewFits
  <2> HIDE DEF w
  <2>7. ListsFit(policy', up) /\ SameHome(policy, policy')
    <3>1. policy.index + 1 \in Nat
      BY <1>1, PolicyTypes DEF ListsFit
    <3> QED
      BY <1>1, <2>4, <3>1, IndexFits
  <2>8. WalkFits(policy', w, <<>>, s)
    BY <2>6, <2>7, PolicyChanges
  <2>9. RemoteLast(policy', w, <<>>, s)
    BY DEF RemoteLast
  <2> QED
    BY <2>3, <2>4, <2>5, <2>7, <2>8, <2>9, PlanIsThere DEF WalkInv, OrderInv, WalkFits
<1>6. ASSUME Pln!ComputeNext \/ Pln!WalkReplicas \/ Pln!WalkLocal \/ Pln!CopyDCs \/ Pln!NextDC \/ Pln!WalkRemote \/ Pln!Finish
      PROVE  WalkInv' /\ (OrderInv => OrderInv')
  <2>1. policy' = policy /\ up' = up /\ stable' = stable
    BY <1>6 DEF Pln!ComputeNext, Pln!WalkReplicas, Pln!WalkLocal, Pln!CopyDCs, Pln!NextDC, Pln!WalkRemote, Pln!Finish, Pln!WalkFrame
  <2>2. plan # Pln!NoPlan
    <3>1. plan.state \in {"idle", "walking"}
      BY <1>6 DEF Pln!ComputeNext, Pln!WalkReplicas, Pln!WalkLocal, Pln!CopyDCs, Pln!NextDC, Pln!WalkRemote, Pln!Finish,
                  Pln!LocalDone, Pln!Exhausted
    <3> QED
      BY <3>1 DEF Pln!NoPlan
  <2>3. StepFits
    BY <1>6, <2>2, ReplicasStep, LocalsStep, RemotesStep, FinishStep, QuietSteps
  <2> QED
    BY <1>1, <2>1, <2>2, <2>3 DEF StepFits, WalkInv, OrderInv, Pln!NoPlan
<1>7. CASE Pln!Next
  <2>1. CASE \E h \in Hosts : Pln!Expire(h)
    BY <1>4, <2>1 DEF Pln!Expire
  <2>2. CASE \E h \in Hosts, l \in Latencies : Pln!UpdateLatency(h, l)
    BY <1>4, <2>2 DEF Pln!UpdateLatency
  <2>3. CASE Pln!OnWork
    BY <1>4, <2>3 DEF Pln!OnWork
  <2> QED
    BY <1>2, <1>3, <1>5, <1>6, <1>7, <2>1, <2>2, <2>3 DEF Pln!Next
<1>8. CASE UNCHANGED Pln!vars
  BY <1>4, <1>8 DEF Pln!vars
<1> QED
  BY <1>7, <1>8

\* What the walk promises, of its invariant.
LEMMA OnceOfInv ==
  ASSUME WalkInv
  PROVE  Pln!EachHostOnce
<1>1. CASE plan = Pln!NoPlan
  <2>1. given = <<>> /\ plan.state = "none"
    BY <1>1 DEF WalkInv, Pln!NoPlan
  <2> QED
    BY <2>1 DEF Pln!EachHostOnce
<1>2. CASE plan # Pln!NoPlan
  <2>1. WalkFits(policy, plan, given, stable)
    BY <1>2 DEF WalkInv
  <2>2. ASSUME plan.state = "ended" PROVE stable \subseteq Pln!ToSet(given)
    <3>1. plan.replicas_left = 0 /\ plan.local = 0 /\ plan.skipped_index = Len(plan.skipped)
      BY <2>1, <2>2 DEF WalkFits, PhasesFit
    <3>2. stable \subseteq NamedHosts(plan, given)
      BY <2>1, <3>1, AllNamed
    <3>3. \A i \in 1..Len(plan.skipped) : plan.skipped[i] \in Pln!ToSet(given)
      BY <2>1, <3>1 DEF WalkFits, SkippedFit
    <3>4. Pln!ToSet(plan.skipped) \subseteq Pln!ToSet(given)
      <4>1. plan.skipped \in Seq(Hosts)
        BY <2>1 DEF WalkFits, PlanTyped, OnceBut
      <4> QED
        BY <3>3, <4>1 DEF Pln!ToSet
    <3> QED
      BY <3>2, <3>4 DEF NamedHosts
  <2> QED
    BY <2>1, <2>2 DEF Pln!EachHostOnce, WalkFits, OnceBut
<1> QED
  BY <1>1, <1>2

\* Local hosts come first, of its invariant.
LEMMA OrderOfInv ==
  ASSUME WalkInv, OrderInv
  PROVE  Pln!LocalBeforeRemote
<1> SUFFICES ASSUME NEW i \in DOMAIN given, ~Pln!IsLocal(given[i]), DC[given[i]] # Pln!NoDC
             PROVE  stable \subseteq Pln!ToSet(SubSeq(given, 1, i)) \cup Pln!ToSet(plan.skipped)
  BY DEF Pln!LocalBeforeRemote
<1>1. plan # Pln!NoPlan
  BY DEF WalkInv
<1>2. WalkFits(policy, plan, given, stable) /\ RemoteLast(policy, plan, given, stable) /\ ListsFit(policy, up)
  BY <1>1 DEF WalkInv, OrderInv
<1>3. i \in 1..Len(given) /\ given[i] \in Hosts
  BY <1>2 DEF WalkFits, OnceBut
<1>4. Away(policy, given[i])
  BY <1>2, <1>3, HomeOrNot DEF Pln!IsLocal, Away
<1> QED
  BY <1>2, <1>3, <1>4 DEF RemoteLast

(***************************************************************************)
(* However the session thread, the latencies and the walk interleave, a    *)
(* query plan names no host twice that the replicas of the key do not      *)
(* repeat and, once it has ended, has named every local host that was up   *)
(* all the time.                                                           *)
(***************************************************************************)
THEOREM PlanNamesEachOnce ==
  ASSUME Pln!QueryPlanAssumption
  PROVE  Pln!Spec => []Pln!EachHostOnce
<1>1. Pln!Init => WalkInv
  BY InitWalk
<1>2. WalkInv /\ [Pln!Next]_(Pln!vars) => WalkInv'
  BY NextWalk
<1>3. WalkInv => Pln!EachHostOnce
  BY OnceOfInv
<1> QED
  BY <1>1, <1>2, <1>3, PTL DEF Pln!Spec

(***************************************************************************)
(* The whole of what a query plan promises: moreover local hosts come      *)
(* before those that are known to be of other data centers.                *)
(***************************************************************************)
THEOREM PlansAreSound ==
  ASSUME Pln!QueryPlanAssumption
  PROVE  Pln!Spec => []Pln!PlanSound
<1> DEFINE I == WalkInv /\ OrderInv
<1>1. Pln!Init => I
  BY InitWalk
<1>2. I /\ [Pln!Next]_(Pln!vars) => I'
  BY NextWalk
<1>3. I => Pln!PlanSound
  BY OnceOfInv, OrderOfInv DEF Pln!PlanSound
<1> QED
  BY <1>1, <1>2, <1>3, PTL DEF Pln!Spec
=============================================================================
