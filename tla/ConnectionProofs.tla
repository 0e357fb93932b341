-------------------------- MODULE ConnectionProofs --------------------------
(***************************************************************************)
(* Proofs about Connection: for every number of requests, heartbeats and   *)
(* stream ids, every water mark and every start-up exchange, a response    *)
(* reaches the request it answers, references are exact, no stream id      *)
(* leaks and a connection is ready only after its start-up exchange.       *)
(***************************************************************************)
EXTENDS Connection, SequenceTheorems, TLAPS

-----------------------------------------------------------------------------
(* The inductive invariant *)

Types ==
  /\ conn \in ConnStates
  /\ connect_timer \in BOOLEAN /\ heartbeat_outstanding \in BOOLEAN /\ idle \in BOOLEAN
  /\ callback \in {NoCallback, Reading} \cup {OnWrite(ok) : ok \in BOOLEAN}
                    \cup {Consuming(h) : h \in Startup \cup {None}}
  /\ queued \in Batches /\ writes \in Seq(Batches)
  /\ pending_writes_size \in Nat /\ pending_reads \subseteq Handlers
  /\ DOMAIN pending \subseteq Streams /\ pending \in [DOMAIN pending -> Handlers]
  /\ wire \subseteq Streams \X Handlers
  /\ state \in [Handlers -> HandlerStates]
  /\ stream \in [Handlers -> Streams \cup {-1}]
  /\ timer \in [Handlers -> BOOLEAN]
  /\ refs \in [Handlers -> Nat]
  /\ finished \in [Requests -> {0, 1}] /\ retries \in 0..MaxRetries

\* The handler h is in one of the batches w.
In(w, h) == \E i \in DOMAIN w : h \in w[i].handlers

\* No handler is in two of the batches w, or in one of them and in q.
Disjoint(q, w) ==
  /\ \A i \in DOMAIN w : w[i].handlers \cap q.handlers = {}
  /\ \A i, j \in DOMAIN w : i # j => w[i].handlers \cap w[j].handlers = {}

\* The sizes of the batches w add up to n: rest[i] is what the batches from the
\* i-th on add up to.
AddUp(w, n) ==
  \E rest \in [1..(Len(w) + 1) -> Nat] :
    /\ rest[1] = n /\ rest[Len(w) + 1] = 0
    /\ \A i \in 1..Len(w) : rest[i] = w[i].size + rest[i + 1]

\* pending_writes_size_ is the size of what is queued and of what is written.
SizesExact ==
  \E n \in Nat : AddUp(writes, n) /\ pending_writes_size = n + queued.size

Unanswered == {"WRITING", "READING", "TIMEOUT", "TIMEOUT_WRITE_OUTSTANDING"}

\* Its state tells in which list a handler is.
Placed(h) ==
  /\ h \in queued.handlers => state[h] \in {"WRITING", "TIMEOUT_WRITE_OUTSTANDING"}
  /\ In(writes, h) => state[h] \in {"WRITING", "TIMEOUT_WRITE_OUTSTANDING",
                                    "READ_BEFORE_WRITE", "RETRY_WRITE_OUTSTANDING"}
  /\ h \in pending_reads => state[h] \in {"READING", "TIMEOUT"}
  /\ state[h] \in {"WRITING", "TIMEOUT_WRITE_OUTSTANDING"} => h \in queued.handlers \/ In(writes, h)
  /\ state[h] \in {"READ_BEFORE_WRITE", "RETRY_WRITE_OUTSTANDING"} => In(writes, h)
  /\ state[h] \in {"READING", "TIMEOUT"} => h \in pending_reads

\* Its future is not set while a request is expected to be answered or retried,
\* and is set once it timed out or was answered.
FinishedFits(h) ==
  /\ state[h] \in {"WRITING", "READING", "RETRY_WRITE_OUTSTANDING"} => finished[h] = 0
  /\ state[h] \in {"TIMEOUT", "TIMEOUT_WRITE_OUTSTANDING", "READ_BEFORE_WRITE", "DONE"}
       => finished[h] = 1

\* One reference of the owner, one of the connection.
References(h) ==
  refs[h] = (IF h \in Requests THEN 1 - finished[h] ELSE 0)
              + (IF h \in queued.handlers \/ In(writes, h) \/ h \in pending_reads THEN 1 ELSE 0)

\* A handler that waits for an answer is registered under its stream id.
Registered(h) ==
  state[h] \in Unanswered => stream[h] \in DOMAIN pending /\ pending[stream[h]] = h

\* The timer runs exactly while the handler is expected to be answered.
Fits(h) ==
  /\ Placed(h) /\ Registered(h)
  /\ timer[h] <=> Live(h)
  /\ h \in Requests => FinishedFits(h)

HandlersFit == \A h \in Handlers : Fits(h)

\* The ids in use are those of handlers that wait for an answer, and a response
\* on the way is for the handler registered under its id, which was flushed.
StreamsFit ==
  /\ \A s \in DOMAIN pending : state[pending[s]] \in Unanswered /\ stream[pending[s]] = s
  /\ \A s \in Streams, h \in Handlers :
       <<s, h>> \in wire => s \in DOMAIN pending /\ pending[s] = h /\ h \notin queued.handlers

Answered(h) == state[h] \in {"DONE", "READ_BEFORE_WRITE"}
\* The start-up request h is to be written, or to be answered.
Current(h) == state[h] \in Unanswered \/ callback = Consuming(h)

\* The start-up requests that come after h.
Later ==
  [options |-> {"startup", "auth", "auth2", "register", "use"},
   startup |-> {"auth", "auth2", "register", "use"},
   auth |-> {"auth2", "register", "use"},
   auth2 |-> {"register", "use"},
   register |-> {"use"},
   use |-> {}]

\* Where the start-up exchange is while the request h is in progress.
InProgress(h) ==
  /\ \A g \in Startup \ {h} : ~Current(g)
  /\ \A g \in Later[h] : state[g] = "NEW"
  /\ callback = Consuming(h) => state[h] = "NEW"
  /\ state[h] \in Unanswered => Live(h)
  /\ h \in {"options", "startup", "auth", "auth2"} => conn = "CONNECTED"
  /\ h \notin {"options", "startup"} => Answered("startup")
  /\ h = "register" => EventTypes /\ conn = "REGISTERING_EVENTS"
  /\ h = "use" => IF EventTypes THEN conn = "REGISTERING_EVENTS" /\ Answered("register")
                  ELSE conn = "CONNECTED"

\* One start-up request at a time until the connection is ready, and no other
\* request before that.
Exchange ==
  /\ conn \in {"CONNECTED", "REGISTERING_EVENTS"} =>
       \A h \in Startup : Current(h) => InProgress(h)
  /\ conn \in {"READY", "OVERWHELMED"} => \A h \in Startup : ~Current(h)
  /\ conn \in Closing /\ callback.kind \in {"read", "consume"} => \A h \in Startup : ~Current(h)
  /\ conn \notin {"READY", "OVERWHELMED", "CLOSED"} \cup Closing =>
       pending_writes_size = 0 /\ \A h \in Handlers \ Startup : state[h] = "NEW"

\* Which callbacks run in which state of the connection.
Callbacks ==
  /\ callback # NoCallback => conn \in Open \cup Closing
  /\ callback.kind = "on_write" => writes # <<>>
  /\ conn \in {"NEW", "CONNECTING"} => writes = <<>> /\ \A h \in Handlers : state[h] = "NEW"

Inv ==
  /\ Types
  /\ Disjoint(queued, writes)
  /\ \A h \in Handlers : References(h)
  /\ conn # "CLOSED" => SizesExact /\ HandlersFit /\ StreamsFit
  /\ conn = "CLOSED" => queued = NoWrite /\ writes = <<>> /\ pending_reads = {}
  /\ Exchange /\ ReadyAfterStartup /\ Callbacks

-----------------------------------------------------------------------------
(* The two state machines *)

\* The transitions of a handler that Handler::set_state allows.
LEMMA HandlerSteps ==
  /\ HandlerState("NEW", "WRITING") = "WRITING"
  /\ HandlerState("WRITING", "READING") = "READING"
  /\ HandlerState("WRITING", "READ_BEFORE_WRITE") = "READ_BEFORE_WRITE"
  /\ HandlerState("WRITING", "DONE") = "DONE"
  /\ HandlerState("WRITING", "TIMEOUT") = "TIMEOUT_WRITE_OUTSTANDING"
  /\ HandlerState("READING", "DONE") = "DONE"
  /\ HandlerState("READING", "TIMEOUT") = "TIMEOUT"
  /\ HandlerState("TIMEOUT", "DONE") = "DONE"
  /\ HandlerState("TIMEOUT_WRITE_OUTSTANDING", "TIMEOUT") = "TIMEOUT"
  /\ HandlerState("TIMEOUT_WRITE_OUTSTANDING", "READ_BEFORE_WRITE") = "READ_BEFORE_WRITE"
  /\ HandlerState("READ_BEFORE_WRITE", "DONE") = "DONE"
  /\ HandlerState("READ_BEFORE_WRITE", "RETRY_WRITE_OUTSTANDING") = "RETRY_WRITE_OUTSTANDING"
  /\ HandlerState("RETRY_WRITE_OUTSTANDING", "NEW") = "NEW"
  /\ HandlerState("DONE", "NEW") = "NEW"
BY DEF HandlerState

\* The transitions of a connection; closing is possible from every state.
LEMMA ConnSteps ==
  /\ ConnState("NEW", "CONNECTING") = "CONNECTING"
  /\ ConnState("CONNECTING", "CONNECTED") = "CONNECTED"
  /\ ConnState("CONNECTED", "REGISTERING_EVENTS") = "REGISTERING_EVENTS"
  /\ ConnState("CONNECTED", "READY") = "READY"
  /\ ConnState("REGISTERING_EVENTS", "READY") = "READY"
  /\ ConnState("OVERWHELMED", "READY") = "READY"
  /\ ConnState("READY", "OVERWHELMED") = "OVERWHELMED"
  /\ ConnState("OVERWHELMED", "OVERWHELMED") = "OVERWHELMED"
  /\ \A c \in Open \cup {"CONNECTING"}, d \in Closing : ConnState(c, d) = d
BY DEF ConnState, ConnTransitions, Open, Closing

\* What a response makes of the handler it is for.
LEMMA ResponseSteps ==
  ASSUME NEW h
  PROVE  /\ state[h] \in {"READING", "TIMEOUT"} => AfterResponse(h) = "DONE"
         /\ state[h] \in {"WRITING", "TIMEOUT_WRITE_OUTSTANDING"}
              => AfterResponse(h) = "READ_BEFORE_WRITE"
BY HandlerSteps DEF AfterResponse

-----------------------------------------------------------------------------
(* The lists of handlers to be written *)

\* A batch that is put after the others: who is in the list then.
LEMMA AppendBatch ==
  ASSUME NEW w \in Seq(Batches), NEW q \in Batches
  PROVE  /\ Append(w, q) \in Seq(Batches)
         /\ \A h : In(Append(w, q), h) <=> In(w, h) \/ h \in q.handlers
         /\ Disjoint(q, w) => Disjoint(NoWrite, Append(w, q))
<1> DEFINE v == Append(w, q)
<1>1. /\ v \in Seq(Batches) /\ Len(v) = Len(w) + 1 /\ DOMAIN v = 1..(Len(w) + 1)
      /\ Len(w) \in Nat /\ DOMAIN w = 1..Len(w)
      /\ \A i \in 1..Len(w) : v[i] = w[i]
      /\ v[Len(w) + 1] = q
  OBVIOUS
<1> HIDE DEF v
<1>2. ASSUME NEW h
      PROVE  In(v, h) <=> In(w, h) \/ h \in q.handlers
  BY <1>1 DEF In
<1>3. ASSUME Disjoint(q, w)
      PROVE  Disjoint(NoWrite, v)
  <2>1. \A i, j \in DOMAIN v : i # j => v[i].handlers \cap v[j].handlers = {}
    BY <1>1, <1>3 DEF Disjoint
  <2> QED
    BY <2>1 DEF Disjoint, NoWrite
<1> QED
  BY <1>1, <1>2, <1>3 DEF v

\* A batch that is put after the others adds its size to the sum.
LEMMA AppendAddsUp ==
  ASSUME NEW w \in Seq(Batches), NEW q \in Batches, NEW n \in Nat, AddUp(w, n)
  PROVE  AddUp(Append(w, q), n + q.size) /\ n + q.size \in Nat
<1> DEFINE v == Append(w, q)
<1>1. /\ Len(v) = Len(w) + 1 /\ Len(w) \in Nat
      /\ \A i \in 1..Len(w) : v[i] = w[i]
      /\ v[Len(w) + 1] = q
  OBVIOUS
<1>2. q.size \in Nat
  BY DEF Batches
<1>3. PICK rest \in [1..(Len(w) + 1) -> Nat] :
        /\ rest[1] = n /\ rest[Len(w) + 1] = 0
        /\ \A i \in 1..Len(w) : rest[i] = w[i].size + rest[i + 1]
  BY DEF AddUp
<1> HIDE DEF v
<1> DEFINE more == [i \in 1..(Len(v) + 1) |-> IF i = Len(v) + 1 THEN 0 ELSE rest[i] + q.size]
<1>4. more \in [1..(Len(v) + 1) -> Nat]
  BY <1>1, <1>2
<1>5. more[1] = n + q.size /\ more[Len(v) + 1] = 0
  BY <1>1, <1>2, <1>3
<1>6. ASSUME NEW i \in 1..Len(v)
      PROVE  more[i] = v[i].size + more[i + 1]
  <2>1. CASE i = Len(w) + 1
    BY <1>1, <1>2, <1>3, <2>1
  <2>2. CASE i \in 1..Len(w)
    <3>0. w[i] \in Batches /\ i + 1 \in 1..(Len(w) + 1)
      BY <2>2, <1>1
    <3>1. w[i].size \in Nat /\ rest[i + 1] \in Nat
      BY <3>0 DEF Batches
    <3>2. more[i] = rest[i] + q.size /\ more[i + 1] = rest[i + 1] + q.size
      BY <2>2, <1>1
    <3> QED
      BY <3>1, <3>2, <2>2, <1>1, <1>2, <1>3
  <2> QED
    BY <1>1, <2>1, <2>2
<1> HIDE DEF more
<1>7. AddUp(v, n + q.size)
  BY <1>4, <1>5, <1>6 DEF AddUp
<1> QED
  BY <1>2, <1>7 DEF v

\* A batch whose handlers are all taken care of is deleted.
LEMMA TailBatch ==
  ASSUME NEW w \in Seq(Batches), w # <<>>, NEW q \in Batches
  PROVE  /\ Tail(w) \in Seq(Batches) /\ Head(w) \in Batches
         /\ Head(w).handlers = {} => \A h : In(Tail(w), h) <=> In(w, h)
         /\ Disjoint(q, w) => Disjoint(q, Tail(w))
<1> DEFINE v == Tail(w)
<1>1. /\ v \in Seq(Batches) /\ Len(v) = Len(w) - 1 /\ DOMAIN v = 1..(Len(w) - 1)
      /\ Len(w) \in Nat \ {0} /\ DOMAIN w = 1..Len(w)
      /\ \A i \in 1..(Len(w) - 1) : v[i] = w[i + 1]
      /\ Head(w) = w[1] /\ w[1] \in Batches
  OBVIOUS
<1> HIDE DEF v
<1>2. ASSUME NEW h, Head(w).handlers = {}
      PROVE  In(v, h) <=> In(w, h)
  <2>1. ASSUME NEW i \in DOMAIN w, h \in w[i].handlers
        PROVE  i - 1 \in DOMAIN v /\ h \in v[i - 1].handlers
    <3>1. i # 1
      BY <1>1, <1>2, <2>1
    <3>2. i - 1 \in 1..(Len(w) - 1) /\ i = (i - 1) + 1
      BY <1>1, <3>1
    <3> QED
      BY <1>1, <2>1, <3>2
  <2>2. ASSUME NEW i \in DOMAIN v, h \in v[i].handlers
        PROVE  i + 1 \in DOMAIN w /\ h \in w[i + 1].handlers
    BY <1>1, <2>2
  <2> QED
    BY <2>1, <2>2 DEF In
<1>3. ASSUME Disjoint(q, w)
      PROVE  Disjoint(q, v)
  <2>1. \A i \in DOMAIN v : i + 1 \in DOMAIN w /\ v[i] = w[i + 1]
    BY <1>1
  <2>2. \A i, j \in DOMAIN v : i # j => i + 1 # j + 1
    BY <1>1
  <2> QED
    BY <1>3, <2>1, <2>2 DEF Disjoint
<1> QED
  BY <1>1, <1>2, <1>3 DEF v

\* Without the oldest batch the sum is less by the size of that batch.
LEMMA TailAddsUp ==
  ASSUME NEW w \in Seq(Batches), w # <<>>, NEW n \in Nat, AddUp(w, n)
  PROVE  AddUp(Tail(w), n - Head(w).size) /\ n - Head(w).size \in Nat
<1> DEFINE v == Tail(w)
<1>1. /\ Len(v) = Len(w) - 1 /\ Len(w) \in Nat \ {0} /\ DOMAIN w = 1..Len(w)
      /\ \A i \in 1..(Len(w) - 1) : v[i] = w[i + 1]
      /\ Head(w) = w[1] /\ w[1] \in Batches
  OBVIOUS
<1>2. PICK rest \in [1..(Len(w) + 1) -> Nat] :
        /\ rest[1] = n /\ rest[Len(w) + 1] = 0
        /\ \A i \in 1..Len(w) : rest[i] = w[i].size + rest[i + 1]
  BY DEF AddUp
<1>3. w[1].size \in Nat /\ rest[2] \in Nat /\ n = w[1].size + rest[2]
  <2>1. 1 \in 1..Len(w) /\ 2 \in 1..(Len(w) + 1) /\ 2 = 1 + 1
    BY <1>1
  <2>2. w[1].size \in Nat
    BY <1>1 DEF Batches
  <2> QED
    BY <1>2, <2>1, <2>2
<1>4. rest[2] = n - Head(w).size
  BY <1>1, <1>3
<1> HIDE DEF v
<1> DEFINE less == [i \in 1..(Len(v) + 1) |-> rest[i + 1]]
<1>5. less \in [1..(Len(v) + 1) -> Nat]
  BY <1>1
<1>6. less[1] = rest[2] /\ less[Len(v) + 1] = 0
  BY <1>1, <1>2
<1>7. ASSUME NEW i \in 1..Len(v)
      PROVE  less[i] = v[i].size + less[i + 1]
  <2>1. /\ i \in 1..(Len(v) + 1) /\ i + 1 \in 1..(Len(v) + 1) /\ i + 1 \in 1..Len(w)
        /\ v[i] = w[i + 1]
    BY <1>1
  <2>2. less[i] = rest[i + 1] /\ less[i + 1] = rest[(i + 1) + 1]
    BY <2>1
  <2> QED
    BY <1>2, <2>1, <2>2
<1> HIDE DEF less
<1>8. AddUp(v, rest[2])
  BY <1>5, <1>6, <1>7 DEF AddUp
<1> QED
  BY <1>3, <1>4, <1>8 DEF v

\* The write callback takes a handler from the oldest batch.
LEMMA StrikeBatch ==
  ASSUME NEW w \in Seq(Batches), w # <<>>, NEW q \in Batches, NEW h \in Head(w).handlers,
         Disjoint(q, w)
  PROVE  LET v == [w EXCEPT ![1].handlers = @ \ {h}] IN
           /\ v \in Seq(Batches) /\ v # <<>>
           /\ \A x : In(v, x) <=> In(w, x) /\ x # h
           /\ Disjoint(q, v)
           /\ \A n : AddUp(w, n) => AddUp(v, n)
           /\ h \notin q.handlers /\ In(w, h) /\ h \in Handlers
<1> DEFINE v == [w EXCEPT ![1].handlers = @ \ {h}]
<1>1. Len(w) \in Nat \ {0} /\ DOMAIN w = 1..Len(w) /\ Head(w) = w[1] /\ 1 \in DOMAIN w
  OBVIOUS
<1>2. \A i \in DOMAIN w : w[i] \in Batches
  OBVIOUS
<1>3. [w[1] EXCEPT !.handlers = @ \ {h}] \in Batches
  BY <1>1, <1>2 DEF Batches
<1>4. /\ DOMAIN v = DOMAIN w /\ v[1] = [w[1] EXCEPT !.handlers = @ \ {h}]
      /\ \A i \in DOMAIN w : i # 1 => v[i] = w[i]
  BY <1>1
<1>5. /\ v[1].handlers = w[1].handlers \ {h} /\ v[1].size = w[1].size
  BY <1>1, <1>2, <1>4 DEF Batches
<1>6. v \in Seq(Batches) /\ Len(v) = Len(w)
  <2>1. v = [w EXCEPT ![1] = [w[1] EXCEPT !.handlers = @ \ {h}]]
    BY <1>1
  <2> QED
    BY <1>1, <1>3, <2>1, ExceptSeq
<1>7. v # <<>>
  BY <1>1, <1>6
<1> HIDE DEF v
<1>8. ASSUME NEW x
      PROVE  In(v, x) <=> In(w, x) /\ x # h
  <2>1. h \in w[1].handlers /\ \A i \in DOMAIN w : i # 1 => h \notin w[i].handlers
    BY <1>1 DEF Disjoint
  <2>2. \A i \in DOMAIN w : x \in v[i].handlers <=> x \in w[i].handlers /\ x # h
    BY <1>4, <1>5, <2>1
  <2> QED
    BY <1>4, <2>2 DEF In
<1>9. Disjoint(q, v)
  <2>1. \A i \in DOMAIN w : v[i].handlers \subseteq w[i].handlers
    BY <1>4, <1>5
  <2>2. \A i, j \in DOMAIN w : i # j => v[i].handlers \cap v[j].handlers = {}
    BY <2>1 DEF Disjoint
  <2> QED
    BY <1>4, <2>1, <2>2 DEF Disjoint
<1>10. ASSUME NEW n, AddUp(w, n)
       PROVE  AddUp(v, n)
  <2>1. \A i \in 1..Len(w) : v[i].size = w[i].size
    BY <1>1, <1>4, <1>5
  <2> QED
    BY <1>6, <1>10, <2>1 DEF AddUp
<1>11. h \notin q.handlers /\ In(w, h) /\ h \in Handlers
  BY <1>1, <1>2 DEF In, Disjoint, Batches
<1> QED
  BY <1>6, <1>7, <1>8, <1>9, <1>10, <1>11 DEF v

\* Flushing moves the last batch to the end of those that are written, or
\* leaves it where it is.
LEMMA FlushLists ==
  ASSUME NEW q \in Batches, NEW w \in Seq(Batches), Disjoint(q, w), Flush(q, w)
  PROVE  /\ queued' \in Batches /\ writes' \in Seq(Batches) /\ Disjoint(queued', writes')
         /\ \A h : h \in queued'.handlers \/ In(writes', h) <=> h \in q.handlers \/ In(w, h)
         /\ \A h : (h \in queued'.handlers => h \in q.handlers) /\ (In(w, h) => In(writes', h))
         /\ \A n \in Nat : AddUp(w, n) =>
              \E m \in Nat : AddUp(writes', m) /\ n + q.size = m + queued'.size
         /\ \/ wire' = wire
            \/ queued'.handlers = {} /\ wire' = wire \cup {<<stream'[h], h>> : h \in q.handlers}
         /\ writes' = w \/ writes' # <<>>
<1>1. CASE q.handlers = {} \/ conn \in Closing
  BY <1>1 DEF Flush
<1>2. CASE ~(q.handlers = {} \/ conn \in Closing)
  <2>1. /\ queued' = NoWrite /\ writes' = Append(w, q)
        /\ wire' = wire \cup {<<stream'[h], h>> : h \in q.handlers}
    BY <1>2 DEF Flush
  <2>2. NoWrite \in Batches /\ NoWrite.handlers = {} /\ NoWrite.size = 0
    BY DEF NoWrite, Batches
  <2>3. /\ writes' \in Seq(Batches) /\ Disjoint(queued', writes')
        /\ \A h : In(writes', h) <=> In(w, h) \/ h \in q.handlers
    BY <2>1, AppendBatch
  <2>4. ASSUME NEW n \in Nat, AddUp(w, n)
        PROVE  \E m \in Nat : AddUp(writes', m) /\ n + q.size = m + queued'.size
    <3>1. AddUp(writes', n + q.size) /\ n + q.size \in Nat
      BY <2>1, <2>4, AppendAddsUp
    <3>2. n + q.size = (n + q.size) + queued'.size
      BY <2>1, <2>2, <3>1
    <3> QED
      BY <3>1, <3>2
  <2>5. writes' # <<>>
    BY <2>1
  <2> QED
    BY <2>1, <2>2, <2>3, <2>4, <2>5
<1> QED
  BY <1>1, <1>2

-----------------------------------------------------------------------------
(* What a step leaves alone *)

\* A step leaves the handler x in the list it is in; flushing takes it from the
\* queued batch to a written one.
SameList(x) ==
  /\ x \in queued'.handlers => x \in queued.handlers
  /\ In(writes, x) => In(writes', x)
  /\ x \in queued.handlers \/ In(writes, x) <=> x \in queued'.handlers \/ In(writes', x)
  /\ x \in pending_reads <=> x \in pending_reads'

SameHandler(x) ==
  /\ state'[x] = state[x] /\ stream'[x] = stream[x] /\ timer'[x] = timer[x]
  /\ refs'[x] = refs[x] /\ (x \in Requests => finished'[x] = finished[x])

\* A handler stays as it should be when a step is about another one.
LEMMA Untouched ==
  ASSUME NEW x \in Handlers, SameList(x), SameHandler(x), Fits(x), References(x),
         state[x] \in Unanswered => stream[x] \in DOMAIN pending' /\ pending'[stream[x]] = x
  PROVE  Fits(x)' /\ References(x)'
<1>1. Placed(x)'
  BY DEF Fits, Placed, SameList, SameHandler
<1>2. Registered(x)'
  BY DEF Fits, Registered, SameHandler
<1>3. (timer[x] <=> Live(x))'
  BY DEF Fits, Live, SameHandler
<1>4. x \in Requests => FinishedFits(x)'
  BY DEF Fits, FinishedFits, SameHandler
<1>5. References(x)'
  BY DEF References, SameList, SameHandler
<1> QED
  BY <1>1, <1>2, <1>3, <1>4, <1>5 DEF Fits

\* The steps of the connection itself: no handler and no list changes.
Handling == <<lists, pending, handlers>>

\* Steps that leave the handlers, the lists and the streams alone.
LEMMA ConnectionStep ==
  ASSUME Inv, UNCHANGED Handling, wire' \subseteq wire, conn # "CLOSED", conn' # "CLOSED"
  PROVE  /\ Disjoint(queued, writes)' /\ \A h \in Handlers : References(h)'
         /\ SizesExact' /\ HandlersFit' /\ StreamsFit'
<1> USE DEF Handling, lists, handlers
<1>1. Disjoint(queued, writes)' /\ \A h \in Handlers : References(h)'
  BY DEF Inv, Disjoint, References, In
<1>2. SizesExact'
  BY DEF Inv, SizesExact, AddUp
<1>3. HandlersFit'
  BY DEF Inv, HandlersFit, Fits, Placed, In, Registered, Live, FinishedFits
<1>4. StreamsFit'
  BY DEF Inv, StreamsFit
<1> QED
  BY <1>1, <1>2, <1>3, <1>4

\* The kinds of the callbacks, which tell them apart.
LEMMA Kinds ==
  /\ NoCallback.kind = "none" /\ Reading.kind = "read"
  /\ \A ok : OnWrite(ok).kind = "on_write"
  /\ \A h : Consuming(h).kind = "consume" /\ Consuming(h).write = h
BY DEF NoCallback, Reading, OnWrite, Consuming

\* The callbacks that write no start-up request.
LEMMA NoStartupWrite ==
  /\ \A h \in Startup : NoCallback # Consuming(h) /\ Reading # Consuming(h)
  /\ \A h \in Startup : Consuming(None) # Consuming(h)
  /\ \A ok : \A h \in Startup : OnWrite(ok) # Consuming(h)
<1>1. \A h \in Startup : h # None
  BY ConnectionAssumption DEF Handlers
<1> QED
  BY <1>1, Kinds

\* A start-up request stays, is written, or is answered.
Advances(g) ==
  /\ state[g] = "NEW" => state'[g] = "NEW"
  /\ Answered(g) => Answered(g)'
  /\ state'[g] \in Unanswered => state[g] \in Unanswered
  /\ Live(g) /\ state'[g] \in Unanswered => Live(g)'

\* The start-up exchange rests while nothing is sent or answered in it.
LEMMA ExchangeGoesOn ==
  ASSUME Exchange, ReadyAfterStartup,
         conn' = conn \/ (conn \in {"READY", "OVERWHELMED"} /\ conn' \in {"READY", "OVERWHELMED"}),
         connect_timer' = connect_timer,
         \A g \in Startup : Advances(g),
         conn \notin {"READY", "OVERWHELMED", "CLOSED"} \cup Closing =>
           pending_writes_size' = 0 /\ \A h \in Handlers \ Startup : state'[h] = "NEW",
         \A h \in Startup : callback' = Consuming(h) => callback = Consuming(h),
         conn \in Closing /\ callback'.kind \in {"read", "consume"}
           => callback.kind \in {"read", "consume"}
  PROVE  Exchange' /\ ReadyAfterStartup'
<1>1. \A h \in Startup : Current(h)' => Current(h)
  BY DEF Current, Advances
<1>2. ASSUME NEW h \in Startup, InProgress(h), Current(h)', conn' = conn
      PROVE  InProgress(h)'
  <2>1. "startup" \in Startup /\ "register" \in Startup /\ \A g \in Later[h] : g \in Startup
    BY DEF Startup, Later
  <2>2. \A g \in Startup \ {h} : ~Current(g)'
    BY <1>1, <1>2 DEF InProgress
  <2>3. \A g \in Later[h] : state'[g] = "NEW"
    BY <1>2, <2>1 DEF InProgress, Advances
  <2>4. /\ callback' = Consuming(h) => state'[h] = "NEW"
        /\ state'[h] \in Unanswered => Live(h)'
    BY <1>2 DEF InProgress, Advances
  <2>5. /\ Answered("startup") => Answered("startup")'
        /\ Answered("register") => Answered("register")'
    BY <2>1 DEF Advances
  <2> QED
    BY <1>2, <2>2, <2>3, <2>4, <2>5 DEF InProgress
<1>3. Exchange'
  BY <1>1, <1>2 DEF Exchange, Closing
<1>4. ReadyAfterStartup'
  <2>1. \A h \in {"startup", "register", "use"} : Answered(h) => Answered(h)'
    BY DEF Advances, Startup
  <2> QED
    BY <2>1 DEF ReadyAfterStartup, Answered
<1> QED
  BY <1>3, <1>4

\* The exchange is over when the connection closes.
LEMMA ExchangeIsOver ==
  ASSUME conn' \in Closing,
         callback'.kind \in {"read", "consume"} =>
           \A h \in Startup : state'[h] \notin Unanswered /\ callback' # Consuming(h)
  PROVE  Exchange' /\ ReadyAfterStartup'
BY DEF Exchange, Current, ReadyAfterStartup, Closing

-----------------------------------------------------------------------------
(* Init *)

\* Before connecting no handler has a stream, a timer or a place in a list.
LEMMA InvInit == Init => Inv
<1> SUFFICES ASSUME Init PROVE Inv
  OBVIOUS
<1> USE ConnectionAssumption
<1>1. NoWrite \in Batches /\ NoWrite.handlers = {} /\ NoWrite.size = 0
  BY DEF NoWrite, Batches
<1>2. writes = <<>> /\ <<>> \in Seq(Batches) /\ DOMAIN <<>> = {} /\ Len(<<>>) = 0
  BY DEF Init
<1>3. state \in [Handlers -> HandlerStates] /\ stream \in [Handlers -> Streams \cup {-1}]
  BY DEF Init, HandlerStates
<1>4. timer \in [Handlers -> BOOLEAN]
  BY Zenon DEF Init
<1>5. refs \in [Handlers -> Nat] /\ finished \in [Requests -> {0, 1}] /\ retries \in 0..MaxRetries
  BY DEF Init
<1>6. pending \in [{} -> Handlers] /\ DOMAIN pending = {}
  BY DEF Init
<1>7. Types
  BY <1>1, <1>2, <1>3, <1>4, <1>5, <1>6 DEF Init, Types, ConnStates
<1>8. Disjoint(queued, writes) /\ \A h : ~In(writes, h) /\ h \notin queued.handlers
  BY <1>1, <1>2 DEF Init, Disjoint, In
<1>9. SizesExact
  <2> DEFINE rest == [i \in 1..1 |-> 0]
  <2>1. rest \in [1..1 -> Nat] /\ rest[1] = 0
    OBVIOUS
  <2>2. AddUp(writes, 0)
    <3>1. Len(writes) = 0 /\ 1..(Len(writes) + 1) = 1..1 /\ 1..Len(writes) = {}
      BY <1>2
    <3> HIDE DEF rest
    <3>2. /\ rest \in [1..(Len(writes) + 1) -> Nat] /\ rest[Len(writes) + 1] = 0
          /\ \A i \in 1..Len(writes) : rest[i] = writes[i].size + rest[i + 1]
      BY <2>1, <3>1
    <3> QED
      BY <2>1, <3>2 DEF AddUp
  <2> QED
    BY <1>1, <2>2 DEF SizesExact, Init
<1>10. \A h \in Handlers : References(h) /\ Fits(h)
  BY <1>8 DEF Init, References, Fits, Placed, Registered, Live, FinishedFits, Handlers, Unanswered
<1>11. StreamsFit
  BY <1>6 DEF Init, StreamsFit
<1>12. \A h \in Startup : ~Current(h)
  BY NoStartupWrite DEF Init, Current, Unanswered, Handlers
<1>13. Exchange /\ ReadyAfterStartup
  BY <1>12 DEF Init, Exchange, ReadyAfterStartup, Closing
<1>14. Callbacks
  BY Kinds DEF Init, Callbacks
<1> QED
  BY <1>7, <1>8, <1>9, <1>10, <1>11, <1>13, <1>14 DEF Init, Inv, HandlersFit

-----------------------------------------------------------------------------
(* Steps of the connection *)

\* A connection that fails or is closed between two callbacks.
LEMMA ClosingStep ==
  ASSUME Inv, Quiet, UNCHANGED <<callback, Handling, heartbeat>>, wire' = {},
         conn' \in Closing, connect_timer' = FALSE
  PROVE  Inv'
<1>1. conn # "CLOSED" /\ conn' # "CLOSED" /\ callback' = NoCallback
  BY DEF Quiet, Closing
<1>2. /\ Disjoint(queued, writes)' /\ \A h \in Handlers : References(h)'
      /\ SizesExact' /\ HandlersFit' /\ StreamsFit'
  BY <1>1, ConnectionStep
<1>3. Exchange' /\ ReadyAfterStartup'
  BY <1>1, Kinds, ExchangeIsOver
<1>4. Callbacks'
  BY <1>1, Kinds DEF Callbacks, Closing
<1>5. Types'
  BY DEF Inv, Types, Handling, lists, handlers, heartbeat, ConnStates
<1> QED
  BY <1>1, <1>2, <1>3, <1>4, <1>5 DEF Inv

\* Connecting begins, and its timer is started.
LEMMA ConnectInv == Inv /\ Connect => Inv'
<1> SUFFICES ASSUME Inv, Connect PROVE Inv'
  OBVIOUS
<1> USE DEF Handling, lists, streams, handlers, heartbeat
<1>1. conn = "NEW" /\ conn' = "CONNECTING" /\ connect_timer' = TRUE /\ callback' = callback
  BY ConnSteps DEF Connect
<1>2. UNCHANGED <<lists, streams, handlers, heartbeat>>
  BY DEF Connect
<1>3. /\ Disjoint(queued, writes)' /\ \A h \in Handlers : References(h)'
      /\ SizesExact' /\ HandlersFit' /\ StreamsFit'
  BY <1>1, <1>2, ConnectionStep
<1>4. Exchange' /\ ReadyAfterStartup'
  BY <1>1, <1>2 DEF Inv, Exchange, ReadyAfterStartup, Closing
<1>5. Callbacks'
  BY <1>1, <1>2 DEF Inv, Callbacks, Open, Closing
<1>6. Types'
  BY <1>1, <1>2 DEF Inv, Types, ConnStates
<1> QED
  BY <1>1, <1>3, <1>4, <1>5, <1>6 DEF Inv

\* The connection is made, and the exchange of the start-up begins.
LEMMA OnConnectInv == Inv /\ OnConnect => Inv'
<1> SUFFICES ASSUME Inv, OnConnect PROVE Inv'
  OBVIOUS
<1> USE DEF Handling, lists, streams, handlers, heartbeat
<1>1. conn = "CONNECTING" /\ conn' = "CONNECTED" /\ callback' = Consuming("options")
  BY ConnSteps DEF OnConnect
<1>2. UNCHANGED <<connect_timer, lists, streams, handlers, heartbeat>>
  BY DEF OnConnect
<1>3. /\ Disjoint(queued, writes)' /\ \A h \in Handlers : References(h)'
      /\ SizesExact' /\ HandlersFit' /\ StreamsFit'
  BY <1>1, <1>2, ConnectionStep
<1>4. Exchange' /\ ReadyAfterStartup'
  <2>1. \A h \in Handlers : state'[h] = "NEW"
    BY <1>1, <1>2 DEF Inv, Callbacks
  <2>2. ASSUME NEW h \in Startup, Current(h)'
        PROVE  h = "options"
    BY <1>1, <2>1, <2>2, Kinds DEF Current, Unanswered, Handlers
  <2>3. InProgress("options")'
    BY <1>1, <2>1, <2>2 DEF InProgress, Later, Startup, Handlers, Unanswered
  <2>4. pending_writes_size' = 0
    BY <1>1, <1>2 DEF Inv, Exchange, Closing
  <2> QED
    BY <1>1, <2>1, <2>2, <2>3, <2>4 DEF Exchange, ReadyAfterStartup, Closing
<1>5. Callbacks'
  BY <1>1, <1>2, Kinds DEF Callbacks, Open
<1>6. Types'
  BY <1>1, <1>2 DEF Inv, Types, ConnStates, Open, Startup
<1> QED
  BY <1>1, <1>3, <1>4, <1>5, <1>6 DEF Inv

\* The callbacks that begin and end, and heartbeats that only note the time.
LEMMA CallbackBeginsInv ==
  Inv /\ (OnWriteBegins \/ OnReadBegins \/ OnReadEnds \/ OnHeartbeatWaits) => Inv'
<1> SUFFICES ASSUME Inv, OnWriteBegins \/ OnReadBegins \/ OnReadEnds \/ OnHeartbeatWaits
             PROVE  Inv'
  OBVIOUS
<1> USE DEF Handling, lists, streams, handlers, heartbeat
<1>1. /\ UNCHANGED <<conn, connect_timer, Handling, heartbeat_outstanding>>
      /\ wire' = wire \/ wire' = {}
  BY DEF OnWriteBegins, OnReadBegins, OnReadEnds, OnHeartbeatWaits
<1>2. idle' \in BOOLEAN
  <2>1. idle' = idle \/ idle' = TRUE
    BY DEF OnWriteBegins, OnReadBegins, OnReadEnds, OnHeartbeatWaits
  <2>2. idle \in BOOLEAN
    BY DEF Inv, Types
  <2> QED
    BY <2>1, <2>2, Zenon
<1>3. conn # "CLOSED"
  <2>1. CASE Quiet
    BY <2>1 DEF Quiet
  <2>2. CASE OnReadEnds
    BY <2>2, Kinds DEF OnReadEnds, Inv, Callbacks, Open, Closing
  <2> QED
    BY <2>1, <2>2 DEF OnWriteBegins, OnReadBegins, OnHeartbeatWaits
<1>4. /\ Disjoint(queued, writes)' /\ \A h \in Handlers : References(h)'
      /\ SizesExact' /\ HandlersFit' /\ StreamsFit'
  BY <1>1, <1>3, ConnectionStep
<1>5. \/ \E ok \in BOOLEAN : callback' = OnWrite(ok) /\ writes # <<>>
      \/ callback' = Reading /\ conn \in Open
      \/ callback' = NoCallback
  BY DEF OnWriteBegins, OnReadBegins, OnReadEnds, OnHeartbeatWaits, Quiet
<1>6. \A h \in Startup : callback' # Consuming(h)
  BY <1>5, NoStartupWrite
<1>7. Exchange' /\ ReadyAfterStartup'
  <2>1. conn \in Closing => callback'.kind \notin {"read", "consume"}
    BY <1>5, Kinds DEF Open, Closing
  <2> QED
    BY <1>1, <1>6, <2>1, ExchangeGoesOn DEF Inv, Advances, Answered, Live, Exchange
<1>8. Callbacks'
  <2>1. callback' # NoCallback => conn' \in Open \cup Closing
    BY <1>1, <1>3, <1>5, Kinds DEF Inv, Callbacks, Types, ConnStates
  <2>2. callback'.kind = "on_write" => writes' # <<>>
    BY <1>1, <1>5, Kinds
  <2>3. conn' \in {"NEW", "CONNECTING"} => writes' = <<>> /\ \A h \in Handlers : state'[h] = "NEW"
    BY <1>1 DEF Inv, Callbacks
  <2> QED
    BY <2>1, <2>2, <2>3 DEF Callbacks
<1>9. Types'
  <2>1. callback' \in {NoCallback, Reading} \cup {OnWrite(ok) : ok \in BOOLEAN}
    BY <1>5
  <2> QED
    BY <1>1, <1>2, <2>1 DEF Inv, Types
<1> QED
  BY <1>1, <1>3, <1>4, <1>7, <1>8, <1>9 DEF Inv

\* The connection fails, or is closed by the pool.
LEMMA FailureInv ==
  Inv /\ (ConnectFails \/ OnReadFails \/ OnHeartbeatFails \/ Close) => Inv'
<1> SUFFICES ASSUME Inv, ConnectFails \/ OnReadFails \/ OnHeartbeatFails \/ Close
             PROVE  Inv'
  OBVIOUS
<1>1. /\ Quiet /\ UNCHANGED <<callback, Handling, heartbeat>> /\ wire' = {}
      /\ connect_timer' = FALSE
  BY DEF ConnectFails, OnReadFails, OnHeartbeatFails, Close, Defunct, Handling
<1>2. conn' \in Closing
  BY ConnSteps DEF ConnectFails, OnReadFails, OnHeartbeatFails, Close, Defunct, Open, Closing
<1> QED
  BY <1>1, <1>2, ClosingStep

\* A response with a stream nobody uses: the connection is given up.
LEMMA InvalidStreamInv == Inv /\ InvalidStream => Inv'
<1> SUFFICES ASSUME Inv, InvalidStream PROVE Inv'
  OBVIOUS
<1> USE DEF Handling, lists, streams, handlers, heartbeat
<1>1. /\ conn \in {"READY", "OVERWHELMED"} /\ conn' \in Closing /\ connect_timer' = FALSE
      /\ callback' = Consuming(None)
      /\ UNCHANGED <<lists, streams, handlers, heartbeat>>
  BY ConnSteps DEF InvalidStream, Defunct, Open, Closing
<1>2. conn # "CLOSED" /\ conn' # "CLOSED"
  BY <1>1 DEF Closing
<1>3. /\ Disjoint(queued, writes)' /\ \A h \in Handlers : References(h)'
      /\ SizesExact' /\ HandlersFit' /\ StreamsFit'
  BY <1>1, <1>2, ConnectionStep
<1>4. \A h \in Startup : state'[h] \notin Unanswered /\ callback' # Consuming(h)
  BY <1>1, NoStartupWrite DEF Inv, Exchange, Current
<1>5. Exchange' /\ ReadyAfterStartup'
  BY <1>1, <1>4, ExchangeIsOver
<1>6. Callbacks'
  BY <1>1, Kinds DEF Callbacks, Closing
<1>7. Types'
  BY <1>1 DEF Inv, Types, ConnStates
<1> QED
  BY <1>2, <1>3, <1>5, <1>6, <1>7 DEF Inv

-----------------------------------------------------------------------------
(* Requests that are answered, or cannot be encoded, without being written *)

\* A request that is not written here is answered, or cannot be encoded.
LEMMA FinishElsewhereInv ==
  ASSUME NEW h \in Requests, Inv, FinishElsewhere(h) \/ WriteEncodeError(h)
  PROVE  Inv'
<1> USE DEF lists, streams, handlers, heartbeat
<1>1. h \in Handlers /\ h \notin Startup
  BY ConnectionAssumption DEF Handlers
<1>2. /\ state[h] = "NEW" /\ finished[h] = 0
      /\ finished' = [finished EXCEPT ![h] = @ + 1]
      /\ refs' = [refs EXCEPT ![h] = @ - 1]
      /\ UNCHANGED <<conn, connect_timer, callback, lists, streams, state, timer, retries, heartbeat>>
  BY DEF FinishElsewhere, WriteEncodeError
<1>3. /\ stream' \in [Handlers -> Streams \cup {-1}]
      /\ \A x \in Handlers \ {h} : stream'[x] = stream[x]
  <2>1. stream' = stream \/ \E s \in Streams : stream' = [stream EXCEPT ![h] = s]
    BY DEF FinishElsewhere, WriteEncodeError
  <2>2. stream \in [Handlers -> Streams \cup {-1}]
    BY DEF Inv, Types
  <2>3. CASE stream' = stream
    BY <2>2, <2>3
  <2>4. ASSUME NEW s \in Streams, stream' = [stream EXCEPT ![h] = s]
        PROVE  /\ stream' \in [Handlers -> Streams \cup {-1}]
               /\ \A x \in Handlers \ {h} : stream'[x] = stream[x]
    BY <2>2, <2>4
  <2> QED
    BY <2>1, <2>3, <2>4
<1>4. finished'[h] = 1 /\ refs'[h] = refs[h] - 1
  BY <1>1, <1>2 DEF Inv, Types
<1>5. ~In(writes, h) /\ h \notin queued.handlers /\ h \notin pending_reads
  <2>1. CASE conn = "CLOSED"
    BY <2>1 DEF Inv, In, NoWrite
  <2>2. CASE conn # "CLOSED"
    BY <1>1, <1>2, <2>2 DEF Inv, HandlersFit, Fits, Placed
  <2> QED
    BY <2>1, <2>2
<1>6. refs[h] = 1
  BY <1>1, <1>2, <1>5 DEF Inv, References
<1>7. References(h)'
  BY <1>2, <1>4, <1>5, <1>6 DEF References, In
<1>8. conn # "CLOSED" => Fits(h)'
  BY <1>1, <1>2, <1>4, <1>5 DEF Inv, HandlersFit, Fits, Placed, Registered, FinishedFits, Live, In, Unanswered
<1>9. ASSUME NEW x \in Handlers \ {h}
      PROVE  References(x)' /\ (conn # "CLOSED" => Fits(x)')
  <2>1. SameHandler(x)
    BY <1>2, <1>3 DEF SameHandler, Inv, Types
  <2>2. SameList(x)
    BY <1>2 DEF SameList
  <2>3. References(x)'
    BY <2>1, <1>2 DEF Inv, References, SameHandler, In
  <2>4. CASE conn # "CLOSED"
    BY <1>2, <2>1, <2>2, <2>4, Untouched DEF Inv, HandlersFit, Fits, Registered
  <2> QED
    BY <2>3, <2>4
<1>10. conn # "CLOSED" => HandlersFit' /\ SizesExact'
  <2>1. SizesExact => SizesExact'
    BY <1>2 DEF SizesExact, AddUp
  <2> QED
    BY <1>8, <1>9, <2>1 DEF HandlersFit, Inv
<1>11. conn # "CLOSED" => StreamsFit'
  <2> SUFFICES ASSUME conn # "CLOSED" PROVE StreamsFit'
    OBVIOUS
  <2>1. \A s \in DOMAIN pending : pending[s] \in Handlers /\ pending[s] # h
    BY <1>2 DEF Inv, Types, StreamsFit, Unanswered
  <2> QED
    BY <1>2, <1>3, <2>1 DEF Inv, StreamsFit
<1>12. Exchange' /\ ReadyAfterStartup'
  BY <1>2, ExchangeGoesOn DEF Inv, Advances, Answered, Live, Exchange
<1>13. Callbacks'
  BY <1>2 DEF Inv, Callbacks
<1>14. Types'
  <2>1. refs' \in [Handlers -> Nat]
    BY <1>1, <1>2, <1>6 DEF Inv, Types
  <2>2. finished' \in [Requests -> {0, 1}]
    BY <1>2 DEF Inv, Types
  <2> QED
    BY <1>2, <1>3, <2>1, <2>2 DEF Inv, Types
<1>15. Disjoint(queued, writes)'
  BY <1>2 DEF Inv, Disjoint
<1> QED
  BY <1>2, <1>7, <1>9, <1>10, <1>11, <1>12, <1>13, <1>14, <1>15 DEF Inv

-----------------------------------------------------------------------------
(* Writing *)

\* The handlers that were queued are put into a batch and sent.
LEMMA FlushQueuedInv == Inv /\ FlushQueued => Inv'
<1> SUFFICES ASSUME Inv, FlushQueued PROVE Inv'
  OBVIOUS
<1> USE DEF lists, streams, handlers, heartbeat
<1>1. /\ conn # "CLOSED" /\ callback = NoCallback /\ Flush(queued, writes)
      /\ UNCHANGED <<conn, connect_timer, callback, pending_writes_size, pending_reads,
                     pending, handlers, heartbeat>>
  BY DEF FlushQueued, Quiet
<1>2. queued \in Batches /\ writes \in Seq(Batches) /\ Disjoint(queued, writes)
  BY DEF Inv, Types
<1>3. /\ queued' \in Batches /\ writes' \in Seq(Batches) /\ Disjoint(queued', writes')
      /\ \A h : SameList(h)
      /\ \A n \in Nat : AddUp(writes, n) =>
           \E m \in Nat : AddUp(writes', m) /\ n + queued.size = m + queued'.size
      /\ \/ wire' = wire
         \/ queued'.handlers = {} /\ wire' = wire \cup {<<stream'[h], h>> : h \in queued.handlers}
      /\ writes' = writes \/ writes' # <<>>
  BY <1>1, <1>2, FlushLists DEF SameList
<1>4. SizesExact'
  BY <1>1, <1>3 DEF Inv, SizesExact
<1>5. \A x \in Handlers : References(x)' /\ Fits(x)'
  <2> SUFFICES ASSUME NEW x \in Handlers PROVE References(x)' /\ Fits(x)'
    OBVIOUS
  <2>1. SameHandler(x)
    BY <1>1 DEF SameHandler
  <2> QED
    BY <1>1, <1>3, <2>1, Untouched DEF Inv, HandlersFit, Fits, Registered
<1>6. StreamsFit'
  <2>1. \A s \in DOMAIN pending' : state'[pending'[s]] \in Unanswered /\ stream'[pending'[s]] = s
    BY <1>1 DEF Inv, StreamsFit
  <2>2. ASSUME NEW s \in Streams, NEW h \in Handlers, <<s, h>> \in wire'
        PROVE  s \in DOMAIN pending' /\ pending'[s] = h /\ h \notin queued'.handlers
    <3>1. CASE <<s, h>> \in wire
      BY <1>1, <1>3, <3>1 DEF Inv, StreamsFit, SameList
    <3>2. CASE <<s, h>> \notin wire
      <4>1. h \in queued.handlers /\ s = stream[h] /\ queued'.handlers = {}
        BY <1>1, <1>3, <2>2, <3>2
      <4>2. state[h] \in Unanswered
        BY <1>1, <4>1 DEF Inv, HandlersFit, Fits, Placed, Unanswered
      <4> QED
        BY <1>1, <4>1, <4>2 DEF Inv, HandlersFit, Fits, Registered
    <3> QED
      BY <3>1, <3>2
  <2> QED
    BY <2>1, <2>2 DEF StreamsFit
<1>7. Exchange' /\ ReadyAfterStartup'
  BY <1>1, ExchangeGoesOn DEF Inv, Advances, Answered, Live, Exchange
<1>8. Callbacks'
  <2>1. conn \notin {"NEW", "CONNECTING"}
    <3>1. CASE conn \in {"NEW", "CONNECTING"}
      <4>1. queued.handlers = {}
        BY <1>2, <1>1, <3>1 DEF Inv, Callbacks, HandlersFit, Fits, Placed, Batches
      <4>2. pending_writes_size = 0 /\ queued.size = 0
        <5>1. pending_writes_size = 0
          BY <3>1 DEF Inv, Exchange, Closing
        <5> QED
          BY <1>1, <1>2, <5>1 DEF Inv, SizesExact, Batches
      <4>3. queued = NoWrite
        BY <1>2, <4>1, <4>2 DEF Batches, NoWrite
      <4> QED
        BY <4>3 DEF FlushQueued
    <3> QED
      BY <3>1
  <2> QED
    BY <1>1, <2>1, Kinds DEF Callbacks
<1>9. wire' \subseteq Streams \X Handlers
  <2>1. \A h \in queued.handlers : h \in Handlers /\ stream[h] \in Streams
    <3> SUFFICES ASSUME NEW h \in queued.handlers PROVE h \in Handlers /\ stream[h] \in Streams
      OBVIOUS
    <3>1. h \in Handlers /\ state[h] \in Unanswered
      BY <1>1, <1>2 DEF Inv, HandlersFit, Fits, Placed, Unanswered, Batches
    <3> QED
      BY <1>1, <3>1 DEF Inv, HandlersFit, Fits, Registered, Types
  <2> QED
    BY <1>1, <1>3, <2>1 DEF Inv, Types
<1>10. Types'
  BY <1>1, <1>3, <1>9 DEF Inv, Types
<1> QED
  BY <1>1, <1>3, <1>4, <1>5, <1>6, <1>7, <1>8, <1>10 DEF Inv, HandlersFit

\* What internal_write does to the handlers, the lists and the stream ids.
WrittenOnce(h) ==
  /\ queued' \in Batches /\ writes' \in Seq(Batches) /\ Disjoint(queued, writes)'
  /\ writes' = writes \/ writes' # <<>>
  /\ SizesExact' /\ pending_writes_size' = pending_writes_size + Size(h)
  /\ pending_writes_size' \in Nat
  /\ conn' = IF pending_writes_size' > HighWaterMark
             THEN ConnState(conn, "OVERWHELMED") ELSE conn
  /\ state' = [state EXCEPT ![h] = "WRITING"]
  /\ UNCHANGED <<pending_reads, finished, retries>>
  /\ DOMAIN pending' \subseteq Streams /\ pending' \in [DOMAIN pending' -> Handlers]
  /\ wire' \subseteq Streams \X Handlers
  /\ stream' \in [Handlers -> Streams \cup {-1}]
  /\ timer' \in [Handlers -> BOOLEAN]
  /\ refs' \in [Handlers -> Nat]
  /\ \A x \in Handlers : References(x)'
  /\ HandlersFit' /\ StreamsFit'

\* internal_write of a handler that is in no list.
LEMMA InternalWriteStep ==
  ASSUME NEW h \in Handlers, Inv, conn \in Open,
         InternalWrite(h, TRUE) \/ InternalWrite(h, FALSE),
         state[h] = "NEW" \/ refs[h] = 0,
         h \in Requests => finished[h] = 0
  PROVE  WrittenOnce(h)
<1>1. conn # "CLOSED" /\ conn \notin Closing
  BY DEF Open, Closing
<1>2. HandlersFit /\ StreamsFit /\ SizesExact /\ Types /\ Disjoint(queued, writes)
  BY <1>1 DEF Inv
<1>3. h \notin queued.handlers /\ ~In(writes, h) /\ h \notin pending_reads
  <2>1. CASE state[h] = "NEW"
    BY <1>2, <2>1 DEF HandlersFit, Fits, Placed
  <2>2. CASE refs[h] = 0
    BY <1>2, <2>2 DEF Inv, References, Types
  <2> QED
    BY <2>1, <2>2
<1>4. PICK s \in Streams \ DOMAIN pending :
        pending' = With(pending, s, h) /\ stream' = [stream EXCEPT ![h] = s]
  BY DEF InternalWrite
<1>5. /\ refs' = [refs EXCEPT ![h] = @ + 1]
      /\ pending_writes_size' = pending_writes_size + Size(h)
      /\ conn' = IF pending_writes_size' > HighWaterMark
                 THEN ConnState(conn, "OVERWHELMED") ELSE conn
      /\ timer' = [timer EXCEPT ![h] = TRUE]
      /\ UNCHANGED <<pending_reads, finished, retries>>
  BY DEF InternalWrite
<1>6. state' = [state EXCEPT ![h] = "WRITING"]
  <2>1. state' = [state EXCEPT ![h] = HandlerState(IF refs[h] = 0 THEN "NEW" ELSE state[h], "WRITING")]
    BY DEF InternalWrite
  <2> QED
    BY <2>1, HandlerSteps
<1> DEFINE q == [handlers |-> queued.handlers \cup {h}, size |-> queued.size + Size(h)]
<1>7. Size(h) \in Nat
  BY DEF Size
<1>8. q \in Batches /\ q.handlers = queued.handlers \cup {h} /\ q.size = queued.size + Size(h)
  BY <1>2, <1>7 DEF Types, Batches
<1>9. Flush(q, writes) \/ (queued' = q /\ writes' = writes /\ wire' = wire)
  BY DEF InternalWrite
<1> HIDE DEF q
<1>10. Disjoint(q, writes)
  BY <1>2, <1>3, <1>8 DEF Disjoint, In
<1>11. /\ queued' \in Batches /\ writes' \in Seq(Batches) /\ Disjoint(queued', writes')
       /\ \A x : x \in queued'.handlers \/ In(writes', x) <=> x \in q.handlers \/ In(writes, x)
       /\ \A x : (x \in queued'.handlers => x \in q.handlers) /\ (In(writes, x) => In(writes', x))
       /\ \A n \in Nat : AddUp(writes, n) =>
            \E m \in Nat : AddUp(writes', m) /\ n + q.size = m + queued'.size
       /\ \/ wire' = wire
          \/ queued'.handlers = {} /\ wire' = wire \cup {<<stream'[x], x>> : x \in q.handlers}
       /\ writes' = writes \/ writes' # <<>>
  <2>1. writes \in Seq(Batches)
    BY <1>2 DEF Types
  <2>2. CASE Flush(q, writes)
    BY <1>8, <1>10, <2>1, <2>2, FlushLists
  <2>3. CASE queued' = q /\ writes' = writes /\ wire' = wire
    BY <1>8, <1>10, <2>1, <2>3
  <2> QED
    BY <1>9, <2>2, <2>3
<1>12. SizesExact'
  <2>1. PICK n \in Nat : AddUp(writes, n) /\ pending_writes_size = n + queued.size
    BY <1>2 DEF SizesExact
  <2>2. PICK m \in Nat : AddUp(writes', m) /\ n + q.size = m + queued'.size
    BY <1>11, <2>1
  <2>3. queued.size \in Nat
    BY <1>2 DEF Types, Batches
  <2>4. pending_writes_size' = m + queued'.size
    BY <1>5, <1>7, <1>8, <2>1, <2>2, <2>3
  <2> QED
    BY <2>2, <2>4 DEF SizesExact
<1>13. /\ DOMAIN pending' = DOMAIN pending \cup {s} /\ pending'[s] = h
       /\ \A t \in DOMAIN pending : t # s /\ pending'[t] = pending[t] /\ pending[t] \in Handlers
       /\ pending' \in [DOMAIN pending' -> Handlers]
  BY <1>2, <1>4 DEF With, Types
<1>14. /\ stream'[h] = s /\ state'[h] = "WRITING" /\ timer'[h] = TRUE /\ refs'[h] = refs[h] + 1
       /\ stream' \in [Handlers -> Streams \cup {-1}] /\ refs' \in [Handlers -> Nat]
  BY <1>2, <1>4, <1>5, <1>6 DEF Types
<1>15. timer' \in [Handlers -> BOOLEAN]
  <2>1. timer \in [Handlers -> BOOLEAN] /\ TRUE \in BOOLEAN
    BY <1>2 DEF Types
  <2> QED
    BY <1>5, <2>1
<1>16. \A x \in Handlers \ {h} : SameHandler(x) /\ SameList(x)
  <2> SUFFICES ASSUME NEW x \in Handlers \ {h} PROVE SameHandler(x) /\ SameList(x)
    OBVIOUS
  <2>1. SameHandler(x)
    BY <1>2, <1>4, <1>5, <1>6 DEF SameHandler, Types
  <2>2. SameList(x)
    BY <1>5, <1>8, <1>11 DEF SameList
  <2> QED
    BY <2>1, <2>2
<1>17. ASSUME NEW x \in Handlers \ {h}
       PROVE  References(x)' /\ Fits(x)'
  <2>1. state[x] \in Unanswered => stream[x] \in DOMAIN pending' /\ pending'[stream[x]] = x
    BY <1>2, <1>13 DEF HandlersFit, Fits, Registered
  <2> QED
    BY <1>2, <1>16, <2>1, Untouched DEF Inv, HandlersFit
<1>18. h \in queued'.handlers \/ In(writes', h)
  BY <1>8, <1>11
<1>19. References(h)' /\ Fits(h)'
  <2>1. References(h)'
    BY <1>2, <1>3, <1>5, <1>14, <1>18 DEF Inv, References, Types
  <2>2. Placed(h)'
    BY <1>3, <1>5, <1>14, <1>18 DEF Placed
  <2>3. Registered(h)'
    BY <1>13, <1>14 DEF Registered
  <2>4. (timer[h] <=> Live(h))'
    BY <1>14 DEF Live
  <2>5. h \in Requests => FinishedFits(h)'
    BY <1>5, <1>14 DEF FinishedFits
  <2> QED
    BY <2>1, <2>2, <2>3, <2>4, <2>5 DEF Fits
<1>20. StreamsFit'
  <2>1. ASSUME NEW t \in DOMAIN pending'
        PROVE  state'[pending'[t]] \in Unanswered /\ stream'[pending'[t]] = t
    <3>1. CASE t = s
      BY <1>13, <1>14, <3>1 DEF Unanswered
    <3>2. CASE t # s
      <4>1. t \in DOMAIN pending /\ pending'[t] = pending[t] /\ pending[t] \in Handlers
        BY <1>13, <2>1, <3>2
      <4>2. state[pending[t]] \in Unanswered /\ stream[pending[t]] = t
        BY <1>2, <4>1 DEF StreamsFit
      <4>3. CASE pending[t] = h
        <5>1. state[h] # "NEW" /\ refs[h] = 0
          BY <4>2, <4>3 DEF Unanswered
        <5> QED
          BY <1>2, <1>3, <4>2, <4>3 DEF HandlersFit, Fits, Placed, Unanswered
      <4>4. CASE pending[t] # h
        BY <1>16, <4>1, <4>2, <4>4 DEF SameHandler
      <4> QED
        BY <4>3, <4>4
    <3> QED
      BY <3>1, <3>2
  <2>2. ASSUME NEW t \in Streams, NEW x \in Handlers, <<t, x>> \in wire'
        PROVE  t \in DOMAIN pending' /\ pending'[t] = x /\ x \notin queued'.handlers
    <3>1. CASE <<t, x>> \in wire
      <4>1. t \in DOMAIN pending /\ pending[t] = x /\ x \notin queued.handlers
        BY <1>2, <3>1 DEF StreamsFit
      <4>2. x # h
        <5>1. state[x] \in Unanswered
          BY <1>2, <4>1 DEF StreamsFit
        <5> QED
          BY <1>2, <1>3, <5>1 DEF HandlersFit, Fits, Placed, Unanswered
      <4> QED
        BY <1>13, <1>8, <1>11, <4>1, <4>2
    <3>2. CASE <<t, x>> \notin wire
      <4>1. x \in q.handlers /\ t = stream'[x] /\ queued'.handlers = {}
        BY <1>11, <2>2, <3>2
      <4>2. state'[x] \in Unanswered
        <5>1. CASE x = h
          BY <5>1, <1>14 DEF Unanswered
        <5>2. CASE x # h
          <6>1. x \in queued.handlers
            BY <4>1, <1>8, <5>2
          <6> QED
            BY <6>1, <1>2, <1>16, <5>2 DEF HandlersFit, Fits, Placed, Unanswered, SameHandler
        <5> QED
          BY <5>1, <5>2
      <4>3. Registered(x)'
        BY <1>17, <1>19 DEF Fits
      <4> QED
        BY <4>1, <4>2, <4>3 DEF Registered
    <3> QED
      BY <3>1, <3>2
  <2> QED
    BY <2>1, <2>2 DEF StreamsFit
<1>21. wire' \subseteq Streams \X Handlers
  <2>1. \A x \in q.handlers : x \in Handlers /\ stream'[x] \in Streams
    <3> SUFFICES ASSUME NEW x \in q.handlers PROVE x \in Handlers /\ stream'[x] \in Streams
      OBVIOUS
    <3>1. CASE x = h
      BY <3>1, <1>14
    <3>2. CASE x # h
      <4>1. x \in queued.handlers /\ x \in Handlers
        BY <1>8, <3>2 DEF Batches
      <4>2. state[x] \in Unanswered
        BY <4>1, <1>2 DEF HandlersFit, Fits, Placed, Unanswered
      <4>3. stream[x] \in Streams
        BY <4>1, <4>2, <1>2 DEF HandlersFit, Fits, Registered, Types
      <4> QED
        BY <4>1, <4>3, <1>16, <3>2 DEF SameHandler
    <3> QED
      BY <3>1, <3>2
  <2> QED
    <3>1. wire \subseteq Streams \X Handlers
      BY <1>2 DEF Types
    <3>2. {<<stream'[x], x>> : x \in q.handlers} \subseteq Streams \X Handlers
      BY <2>1
    <3> QED
      BY <1>11, <3>1, <3>2
<1>22. DOMAIN pending' \subseteq Streams
  BY <1>2, <1>13 DEF Types
<1>23. pending_writes_size' \in Nat
  BY <1>2, <1>5, <1>7 DEF Types
<1>24. HandlersFit' /\ \A x \in Handlers : References(x)'
  BY <1>17, <1>19 DEF HandlersFit
<1>25. Disjoint(queued, writes)'
  BY <1>11
<1> QED
  BY <1>5, <1>6, <1>11, <1>12, <1>13, <1>14, <1>15, <1>20, <1>21, <1>22, <1>23, <1>24, <1>25 DEF WrittenOnce

\* A request takes a stream and is queued.
LEMMA WriteInv ==
  ASSUME NEW h \in Requests, Inv, Write(h)
  PROVE  Inv'
<1>1. h \in Handlers /\ h \notin Startup
  BY ConnectionAssumption DEF Handlers
<1>2. /\ conn = "READY" /\ state[h] = "NEW" /\ finished[h] = 0 /\ InternalWrite(h, FALSE)
      /\ idle' = FALSE /\ UNCHANGED <<connect_timer, callback, heartbeat_outstanding>>
  BY DEF Write
<1>3. conn \in Open
  BY <1>2 DEF Open
<1>4. WrittenOnce(h)
  BY <1>1, <1>2, <1>3, InternalWriteStep
<1> USE DEF WrittenOnce
<1>5. conn' \in {"READY", "OVERWHELMED"}
  BY <1>2, <1>4, ConnSteps
<1>6. state' \in [Handlers -> HandlerStates] /\ \A g \in Startup : state'[g] = state[g]
  BY <1>1, <1>4 DEF Inv, Types, HandlerStates, Handlers
<1>7. Exchange' /\ ReadyAfterStartup'
  BY <1>2, <1>5, <1>6, ExchangeGoesOn DEF Inv, Advances, Answered, Live, Closing
<1>8. Callbacks'
  BY <1>2, <1>4, <1>5 DEF Inv, Callbacks, Open
<1>9. Types'
  BY <1>2, <1>4, <1>5, <1>6 DEF Inv, Types, ConnStates, Open
<1> QED
  BY <1>4, <1>5, <1>7, <1>8, <1>9 DEF Inv

\* A heartbeat takes a stream and is queued.
LEMMA OnHeartbeatInv ==
  ASSUME NEW h \in Heartbeats, Inv, OnHeartbeat(h)
  PROVE  Inv'
<1>1. h \in Handlers /\ h \notin Startup /\ h \notin Requests
  BY ConnectionAssumption DEF Handlers
<1>2. /\ conn \in {"READY", "OVERWHELMED"} /\ refs[h] = 0 /\ InternalWrite(h, TRUE)
      /\ heartbeat_outstanding' = TRUE /\ idle' = TRUE /\ UNCHANGED <<connect_timer, callback>>
  BY DEF OnHeartbeat
<1>3. conn \in Open
  BY <1>2 DEF Open
<1>4. WrittenOnce(h)
  BY <1>1, <1>2, <1>3, InternalWriteStep
<1> USE DEF WrittenOnce
<1>5. conn' \in {"READY", "OVERWHELMED"}
  BY <1>2, <1>4, ConnSteps
<1>6. state' \in [Handlers -> HandlerStates] /\ \A g \in Startup : state'[g] = state[g]
  BY <1>1, <1>4 DEF Inv, Types, HandlerStates, Handlers
<1>7. Exchange' /\ ReadyAfterStartup'
  BY <1>2, <1>5, <1>6, ExchangeGoesOn DEF Inv, Advances, Answered, Live, Closing
<1>8. Callbacks'
  BY <1>2, <1>4, <1>5 DEF Inv, Callbacks, Open
<1>9. Types'
  BY <1>2, <1>4, <1>5, <1>6 DEF Inv, Types, ConnStates, Open
<1> QED
  BY <1>4, <1>5, <1>7, <1>8, <1>9 DEF Inv

\* The next request of the start-up is written by the callback of the last response.
LEMMA WriteStartupInv == Inv /\ WriteStartup => Inv'
<1> SUFFICES ASSUME Inv, WriteStartup PROVE Inv'
  OBVIOUS
<1>1. PICK h \in Startup : callback = Consuming(h)
  BY Kinds DEF WriteStartup, Inv, Types
<1>2. /\ InternalWrite(h, TRUE) /\ callback' = Consuming(None) /\ idle' = FALSE
      /\ UNCHANGED <<connect_timer, heartbeat_outstanding>>
  BY <1>1, Kinds DEF WriteStartup
<1>3. h \in Handlers /\ h \notin Requests
  BY <1>1, ConnectionAssumption DEF Handlers
<1>4. conn \in {"CONNECTED", "REGISTERING_EVENTS"} /\ InProgress(h)
  <2>1. Current(h) /\ callback.kind = "consume" /\ callback # NoCallback
    BY <1>1, Kinds DEF Current
  <2> QED
    BY <1>1, <2>1 DEF Inv, Exchange, Callbacks, Open
<1>5. conn \in Open /\ state[h] = "NEW"
  BY <1>1, <1>4 DEF Open, InProgress
<1>6. WrittenOnce(h)
  BY <1>2, <1>3, <1>5, InternalWriteStep
<1> USE DEF WrittenOnce
<1>7. pending_writes_size' = 0 /\ conn' = conn
  <2>1. pending_writes_size = 0
    BY <1>4 DEF Inv, Exchange, Closing
  <2> QED
    BY <1>3, <1>6, <2>1, ConnectionAssumption DEF Size
<1>8. /\ state' \in [Handlers -> HandlerStates] /\ state'[h] = "WRITING"
      /\ \A g \in Handlers \ {h} : state'[g] = state[g]
  BY <1>3, <1>6 DEF Inv, Types, HandlerStates
<1>9. \A g \in Startup : callback' # Consuming(g)
  BY <1>2, NoStartupWrite
<1>10. InProgress(h)'
  <2>1. \A g \in Startup \ {h} : ~Current(g)'
    BY <1>4, <1>8, <1>9 DEF InProgress, Current, Handlers
  <2>2. \A g \in Later[h] : g \in Startup /\ g # h
    BY <1>1 DEF Later, Startup
  <2>3. \A g \in Later[h] : state'[g] = "NEW"
    BY <1>4, <1>8, <2>2 DEF InProgress, Handlers
  <2>4. h # "startup" => (Answered("startup") => Answered("startup")')
    BY <1>8 DEF Answered, Handlers, Startup
  <2>5. h # "register" => (Answered("register") => Answered("register")')
    BY <1>8 DEF Answered, Handlers, Startup
  <2>6. Live(h)'
    BY <1>8 DEF Live
  <2> QED
    BY <1>1, <1>4, <1>7, <1>9, <2>1, <2>3, <2>4, <2>5, <2>6 DEF InProgress
<1>11. Exchange' /\ ReadyAfterStartup'
  <2>1. ASSUME NEW g \in Startup, Current(g)'
        PROVE  InProgress(g)'
    <3>1. g = h
      BY <1>10, <2>1 DEF InProgress
    <3> QED
      BY <1>10, <3>1
  <2>2. \A g \in Handlers \ Startup : state'[g] = "NEW"
    BY <1>1, <1>4, <1>8 DEF Inv, Exchange, Closing
  <2> QED
    BY <1>4, <1>7, <2>1, <2>2 DEF Exchange, ReadyAfterStartup, Closing
<1>12. Callbacks'
  BY <1>2, <1>4, <1>7, Kinds DEF Callbacks, Open
<1>13. Types'
  BY <1>2, <1>4, <1>6, <1>7, <1>8 DEF Inv, Types, ConnStates, Open
<1> QED
  BY <1>4, <1>6, <1>7, <1>11, <1>12, <1>13 DEF Inv

-----------------------------------------------------------------------------
(* Write callbacks *)

\* A step that concerns one handler.
LEMMA OthersFit ==
  ASSUME Inv, conn # "CLOSED", NEW h \in Handlers,
         \A x \in Handlers \ {h} : SameHandler(x) /\ SameList(x),
         \A x \in Handlers \ {h} : state[x] \in Unanswered
           => stream[x] \in DOMAIN pending' /\ pending'[stream[x]] = x,
         Fits(h)', References(h)'
  PROVE  HandlersFit' /\ \A x \in Handlers : References(x)'
<1>1. \A x \in Handlers \ {h} : Fits(x)' /\ References(x)'
  BY Untouched DEF Inv, HandlersFit
<1> QED
  BY <1>1 DEF HandlersFit

\* A handler that waits for an answer is registered under an id of its own.
LEMMA OwnStream ==
  ASSUME Inv, conn # "CLOSED", NEW h \in Handlers, state[h] \in Unanswered,
         pending' = Without(pending, stream[h])
  PROVE  /\ stream[h] \in DOMAIN pending /\ pending[stream[h]] = h
         /\ DOMAIN pending' = DOMAIN pending \ {stream[h]}
         /\ \A s \in DOMAIN pending' : pending'[s] = pending[s] /\ pending[s] \in Handlers \ {h}
         /\ DOMAIN pending' \subseteq Streams /\ pending' \in [DOMAIN pending' -> Handlers]
         /\ \A x \in Handlers \ {h} : state[x] \in Unanswered
              => stream[x] \in DOMAIN pending' /\ pending'[stream[x]] = x
<1>1. stream[h] \in DOMAIN pending /\ pending[stream[h]] = h
  BY DEF Inv, HandlersFit, Fits, Registered
<1>2. /\ DOMAIN pending' = DOMAIN pending \ {stream[h]}
      /\ \A s \in DOMAIN pending' : pending'[s] = pending[s]
  BY DEF Without
<1>3. \A s \in DOMAIN pending : pending[s] \in Handlers /\ stream[pending[s]] = s
  BY DEF Inv, Types, StreamsFit
<1>4. \A s \in DOMAIN pending' : pending[s] \in Handlers \ {h}
  BY <1>2, <1>3
<1>5. pending' \in [DOMAIN pending' -> Handlers]
  BY <1>2, <1>4 DEF Without
<1>6. DOMAIN pending' \subseteq Streams
  BY <1>2 DEF Inv, Types
<1>7. ASSUME NEW x \in Handlers \ {h}, state[x] \in Unanswered
      PROVE  stream[x] \in DOMAIN pending' /\ pending'[stream[x]] = x
  <2>1. stream[x] \in DOMAIN pending /\ pending[stream[x]] = x
    BY <1>7 DEF Inv, HandlersFit, Fits, Registered
  <2> QED
    BY <1>1, <1>2, <2>1
<1> QED
  BY <1>1, <1>2, <1>4, <1>5, <1>6, <1>7

\* A connection that is defunct is closing, and does not wait to be connected.
LEMMA DefunctCloses ==
  ASSUME conn \in Open \cup Closing \cup {"CONNECTING"}, Defunct
  PROVE  conn' \in Closing /\ connect_timer' = FALSE
BY ConnSteps DEF Defunct, Closing

\* What the loop of on_write does for every handler of the oldest batch.
Struck(h) ==
  /\ conn \in Open \cup Closing /\ conn # "CLOSED"
  /\ callback.kind = "on_write"
  /\ writes' \in Seq(Batches) /\ writes' # <<>> /\ Disjoint(queued, writes)' /\ SizesExact'
  /\ queued' = queued /\ pending_writes_size' = pending_writes_size
  /\ h \notin queued.handlers /\ h \notin pending_reads /\ ~In(writes', h)
  /\ \A x \in Handlers \ {h} : In(writes', x) <=> In(writes, x)
  /\ refs[h] = (IF h \in Requests THEN 1 - finished[h] ELSE 0) + 1
  /\ Fits(h) /\ state[h] # "NEW" /\ In(writes, h)
  /\ UNCHANGED <<callback, queued, pending_writes_size, stream, finished, retries, idle>>

\* The loop of on_write: h leaves the oldest batch.
LEMMA OutstandingStep ==
  ASSUME Inv, NEW h \in Handlers, Outstanding(h)
  PROVE  Struck(h)
<1>1. /\ callback.kind = "on_write" /\ h \in Head(writes).handlers
      /\ writes' = [writes EXCEPT ![1].handlers = @ \ {h}]
      /\ UNCHANGED <<callback, queued, pending_writes_size, stream, finished, retries, idle>>
  BY DEF Outstanding
<1>2. conn \in Open \cup Closing /\ conn # "CLOSED" /\ writes # <<>>
  BY <1>1, Kinds DEF Inv, Callbacks, Open, Closing
<1>3. queued \in Batches /\ writes \in Seq(Batches) /\ Disjoint(queued, writes)
  BY DEF Inv, Types
<1>4. /\ writes' \in Seq(Batches) /\ writes' # <<>>
      /\ \A x : In(writes', x) <=> In(writes, x) /\ x # h
      /\ Disjoint(queued, writes')
      /\ \A n : AddUp(writes, n) => AddUp(writes', n)
      /\ h \notin queued.handlers /\ In(writes, h)
  BY <1>1, <1>2, <1>3, StrikeBatch
<1>5. SizesExact'
  BY <1>1, <1>2, <1>4 DEF Inv, SizesExact
<1>6. Disjoint(queued, writes)'
  BY <1>1, <1>4
<1>7. Fits(h) /\ state[h] # "NEW" /\ h \notin pending_reads
  BY <1>2, <1>4 DEF Inv, HandlersFit, Fits, Placed
<1>8. refs[h] = (IF h \in Requests THEN 1 - finished[h] ELSE 0) + 1
  BY <1>4 DEF Inv, References
<1> QED
  BY <1>1, <1>2, <1>4, <1>5, <1>6, <1>7, <1>8 DEF Struck

\* The request was written: it waits for its response, timed or timed out.
LEMMA OnWriteWrittenInv ==
  ASSUME NEW h \in Handlers, Inv, OnWriteWritten(h) \/ OnWriteTimedOut(h)
  PROVE  Inv'
<1> DEFINE next == IF state[h] = "WRITING" THEN "READING" ELSE "TIMEOUT"
<1>1. /\ Outstanding(h) /\ state[h] \in {"WRITING", "TIMEOUT_WRITE_OUTSTANDING"}
      /\ state' = [state EXCEPT ![h] = next]
      /\ pending_reads' = pending_reads \cup {h}
      /\ UNCHANGED <<conn, connect_timer, pending, wire, timer, refs, heartbeat_outstanding>>
  BY HandlerSteps DEF OnWriteWritten, OnWriteTimedOut, streams
<1>2. Struck(h)
  BY <1>1, OutstandingStep
<1> USE DEF Struck
<1>3. /\ state' \in [Handlers -> HandlerStates] /\ state'[h] = next
      /\ \A x \in Handlers \ {h} : state'[x] = state[x]
  BY <1>1 DEF Inv, Types, HandlerStates
<1>4. Fits(h)' /\ References(h)'
  <2>1. References(h)'
    BY <1>1, <1>2 DEF References
  <2>2. Placed(h)'
    BY <1>1, <1>2, <1>3 DEF Placed
  <2>3. Registered(h)'
    BY <1>1, <1>2 DEF Fits, Registered, Unanswered
  <2>4. (timer[h] <=> Live(h))'
    BY <1>1, <1>2, <1>3 DEF Fits, Live
  <2>5. h \in Requests => FinishedFits(h)'
    BY <1>1, <1>2, <1>3 DEF Fits, FinishedFits
  <2> QED
    BY <2>1, <2>2, <2>3, <2>4, <2>5 DEF Fits
<1>5. \A x \in Handlers \ {h} : SameHandler(x) /\ SameList(x)
  BY <1>1, <1>2, <1>3 DEF SameHandler, SameList
<1>6. HandlersFit' /\ \A x \in Handlers : References(x)'
  <2>1. \A x \in Handlers \ {h} : state[x] \in Unanswered
          => stream[x] \in DOMAIN pending' /\ pending'[stream[x]] = x
    BY <1>1, <1>2 DEF Inv, HandlersFit, Fits, Registered
  <2> QED
    BY <1>2, <1>4, <1>5, <2>1, OthersFit
<1>7. StreamsFit'
  <2>1. \A x \in Handlers : state[x] \in Unanswered => state'[x] \in Unanswered
    BY <1>3 DEF Unanswered
  <2> QED
    BY <1>1, <1>2, <2>1 DEF Inv, Types, StreamsFit
<1>8. Exchange' /\ ReadyAfterStartup'
  <2>1. \A g \in Startup : Advances(g)
    BY <1>1, <1>3 DEF Advances, Answered, Live, Unanswered, Handlers
  <2>2. conn \notin {"READY", "OVERWHELMED", "CLOSED"} \cup Closing =>
          pending_writes_size' = 0 /\ \A x \in Handlers \ Startup : state'[x] = "NEW"
    BY <1>2, <1>3 DEF Inv, Exchange
  <2> QED
    BY <1>1, <1>2, <2>1, <2>2, ExchangeGoesOn DEF Inv
<1>9. Callbacks'
  BY <1>1, <1>2 DEF Inv, Callbacks, Open, Closing
<1>10. Types'
  BY <1>1, <1>2, <1>3 DEF Inv, Types
<1> QED
  BY <1>1, <1>2, <1>6, <1>7, <1>8, <1>9, <1>10 DEF Inv

\* The response came first, or the request waits for its retry.
LEMMA OnWriteAnsweredInv ==
  ASSUME NEW h \in Handlers, Inv, OnWriteAnswered(h)
  PROVE  Inv'
<1> DEFINE next == IF state[h] = "READ_BEFORE_WRITE" THEN "DONE" ELSE "NEW"
<1>1. /\ Outstanding(h) /\ state[h] \in {"READ_BEFORE_WRITE", "RETRY_WRITE_OUTSTANDING"}
      /\ state' = [state EXCEPT ![h] = next]
      /\ timer' = [timer EXCEPT ![h] = FALSE]
      /\ refs' = [refs EXCEPT ![h] = @ - 1]
      /\ UNCHANGED <<conn, connect_timer, pending_reads, pending, wire, heartbeat_outstanding>>
  BY HandlerSteps DEF OnWriteAnswered, streams
<1>2. Struck(h)
  BY <1>1, OutstandingStep
<1> USE DEF Struck
<1>3. /\ state' \in [Handlers -> HandlerStates] /\ state'[h] = next
      /\ \A x \in Handlers \ {h} : state'[x] = state[x]
  BY <1>1 DEF Inv, Types, HandlerStates
<1>4. /\ timer' \in [Handlers -> BOOLEAN] /\ timer'[h] = FALSE
      /\ \A x \in Handlers \ {h} : timer'[x] = timer[x]
  <2>1. timer \in [Handlers -> BOOLEAN] /\ FALSE \in BOOLEAN
    BY DEF Inv, Types
  <2> QED
    BY <1>1, <2>1
<1>5. /\ refs' \in [Handlers -> Nat] /\ refs'[h] = refs[h] - 1
      /\ \A x \in Handlers \ {h} : refs'[x] = refs[x]
  <2>1. refs[h] - 1 \in Nat
    <3>1. h \in Requests => finished[h] \in {0, 1}
      BY DEF Inv, Types
    <3> QED
      BY <1>2, <3>1
  <2> QED
    BY <1>1, <2>1 DEF Inv, Types
<1>6. Fits(h)' /\ References(h)'
  <2>1. References(h)'
    <3>1. h \in Requests => finished[h] \in {0, 1}
      BY DEF Inv, Types
    <3> QED
      BY <1>1, <1>2, <1>5, <3>1 DEF References
  <2>2. Placed(h)'
    BY <1>1, <1>2, <1>3 DEF Placed
  <2>3. Registered(h)'
    BY <1>3 DEF Registered, Unanswered
  <2>4. (timer[h] <=> Live(h))'
    BY <1>3, <1>4 DEF Live
  <2>5. h \in Requests => FinishedFits(h)'
    BY <1>1, <1>2, <1>3 DEF Fits, FinishedFits
  <2> QED
    BY <2>1, <2>2, <2>3, <2>4, <2>5 DEF Fits
<1>7. \A x \in Handlers \ {h} : SameHandler(x) /\ SameList(x)
  BY <1>1, <1>2, <1>3, <1>4, <1>5 DEF SameHandler, SameList
<1>8. HandlersFit' /\ \A x \in Handlers : References(x)'
  <2>1. \A x \in Handlers \ {h} : state[x] \in Unanswered
          => stream[x] \in DOMAIN pending' /\ pending'[stream[x]] = x
    BY <1>1, <1>2 DEF Inv, HandlersFit, Fits, Registered
  <2> QED
    BY <1>2, <1>6, <1>7, <2>1, OthersFit
<1>9. StreamsFit'
  <2>1. \A x \in Handlers : state[x] \in Unanswered => state'[x] \in Unanswered
    BY <1>1, <1>3 DEF Unanswered
  <2> QED
    BY <1>1, <1>2, <2>1 DEF Inv, Types, StreamsFit
<1>10. Exchange' /\ ReadyAfterStartup'
  <2>1. conn \notin {"READY", "OVERWHELMED", "CLOSED"} \cup Closing =>
          pending_writes_size' = 0 /\ \A x \in Handlers \ Startup : state'[x] = "NEW"
    BY <1>2, <1>3 DEF Inv, Exchange
  <2>2. \A g \in Startup : Advances(g)
    BY <1>1, <1>3 DEF Advances, Answered, Live, Unanswered, Handlers
  <2> QED
    BY <1>1, <1>2, <2>1, <2>2, ExchangeGoesOn DEF Inv
<1>11. Callbacks'
  BY <1>1, <1>2 DEF Inv, Callbacks, Open, Closing
<1>12. Types'
  BY <1>1, <1>2, <1>3, <1>4, <1>5 DEF Inv, Types
<1> QED
  BY <1>1, <1>2, <1>8, <1>9, <1>10, <1>11, <1>12 DEF Inv

\* The write failed: the connection is given up, a request is tried elsewhere.
LEMMA OnWriteFailedInv ==
  ASSUME NEW h \in Handlers, Inv, OnWriteFailed(h)
  PROVE  Inv'
<1> DEFINE next == IF h \in Requests THEN "NEW" ELSE "DONE"
<1>1. /\ Outstanding(h) /\ state[h] = "WRITING" /\ Defunct /\ wire' = {}
      /\ pending' = Without(pending, stream[h])
      /\ timer' = [timer EXCEPT ![h] = FALSE]
      /\ state' = [state EXCEPT ![h] = next]
      /\ refs' = [refs EXCEPT ![h] = @ - 1]
      /\ UNCHANGED pending_reads
  BY HandlerSteps DEF OnWriteFailed
<1>2. Struck(h)
  BY <1>1, OutstandingStep
<1> USE DEF Struck
<1>3. conn' \in Closing /\ connect_timer' = FALSE /\ conn' # "CLOSED"
  BY <1>1, <1>2, DefunctCloses DEF Closing
<1>4. /\ state' \in [Handlers -> HandlerStates] /\ state'[h] = next
      /\ \A x \in Handlers \ {h} : state'[x] = state[x]
  BY <1>1 DEF Inv, Types, HandlerStates
<1>5. /\ timer' \in [Handlers -> BOOLEAN] /\ timer'[h] = FALSE
      /\ \A x \in Handlers \ {h} : timer'[x] = timer[x]
  <2>1. timer \in [Handlers -> BOOLEAN] /\ FALSE \in BOOLEAN
    BY DEF Inv, Types
  <2> QED
    BY <1>1, <2>1
<1>6. h \in Requests => finished[h] \in {0, 1}
  BY DEF Inv, Types
<1>7. /\ refs' \in [Handlers -> Nat] /\ refs'[h] = refs[h] - 1
      /\ \A x \in Handlers \ {h} : refs'[x] = refs[x]
  <2>1. refs[h] - 1 \in Nat
    BY <1>2, <1>6
  <2> QED
    BY <1>1, <2>1 DEF Inv, Types
<1>8. /\ \A s \in DOMAIN pending' : /\ s \in DOMAIN pending
                                    /\ pending'[s] = pending[s] /\ pending[s] \in Handlers \ {h}
      /\ DOMAIN pending' \subseteq Streams /\ pending' \in [DOMAIN pending' -> Handlers]
      /\ \A x \in Handlers \ {h} : state[x] \in Unanswered
           => stream[x] \in DOMAIN pending' /\ pending'[stream[x]] = x
  <2>1. state[h] \in Unanswered /\ pending' = Without(pending, stream[h]) /\ conn # "CLOSED"
    BY <1>1, <1>2 DEF Unanswered
  <2>2. /\ DOMAIN pending' = DOMAIN pending \ {stream[h]}
        /\ \A s \in DOMAIN pending' : pending'[s] = pending[s] /\ pending[s] \in Handlers \ {h}
        /\ DOMAIN pending' \subseteq Streams /\ pending' \in [DOMAIN pending' -> Handlers]
        /\ \A x \in Handlers \ {h} : state[x] \in Unanswered
             => stream[x] \in DOMAIN pending' /\ pending'[stream[x]] = x
    BY <2>1, OwnStream
  <2> QED
    BY <2>2
<1>9. Fits(h)' /\ References(h)'
  <2>1. References(h)'
    BY <1>1, <1>2, <1>6, <1>7 DEF References
  <2>2. Placed(h)'
    BY <1>1, <1>2, <1>4 DEF Placed
  <2>3. Registered(h)'
    BY <1>4 DEF Registered, Unanswered
  <2>4. (timer[h] <=> Live(h))'
    BY <1>4, <1>5 DEF Live
  <2>5. h \in Requests => FinishedFits(h)'
    BY <1>4 DEF FinishedFits
  <2> QED
    BY <2>1, <2>2, <2>3, <2>4, <2>5 DEF Fits
<1>10. \A x \in Handlers \ {h} : SameHandler(x) /\ SameList(x)
  BY <1>1, <1>2, <1>4, <1>5, <1>7 DEF SameHandler, SameList
<1>11. HandlersFit' /\ \A x \in Handlers : References(x)'
  BY <1>2, <1>8, <1>9, <1>10, OthersFit
<1>12. StreamsFit'
  BY <1>1, <1>2, <1>4, <1>8 DEF Inv, StreamsFit
<1>13. Exchange' /\ ReadyAfterStartup'
  BY <1>2, <1>3, ExchangeIsOver
<1>14. Callbacks'
  BY <1>2, <1>3 DEF Callbacks, Closing
<1>15. heartbeat_outstanding' \in BOOLEAN
  <2>1. heartbeat_outstanding' = (heartbeat_outstanding /\ h \notin Heartbeats)
    BY DEF OnWriteFailed
  <2> QED
    BY <2>1, Zenon
<1>16. Types'
  BY <1>1, <1>2, <1>3, <1>4, <1>5, <1>7, <1>8, <1>15 DEF Inv, Types, ConnStates
<1> QED
  BY <1>2, <1>3, <1>11, <1>12, <1>13, <1>14, <1>16 DEF Inv

\* After the loop, what was queued meanwhile is flushed.
LEMMA OnWriteEndsInv == Inv /\ OnWriteEnds => Inv'
<1> SUFFICES ASSUME Inv, OnWriteEnds PROVE Inv'
  OBVIOUS
<1> USE DEF handlers, heartbeat
<1>1. /\ callback.kind = "on_write" /\ Head(writes).handlers = {}
      /\ pending_writes_size' = pending_writes_size - Head(writes).size
      /\ conn' = IF pending_writes_size' < LowWaterMark /\ conn = "OVERWHELMED"
                 THEN ConnState(conn, "READY") ELSE conn
      /\ callback' = NoCallback /\ Flush(queued, Tail(writes))
      /\ UNCHANGED <<connect_timer, pending_reads, pending, handlers, heartbeat>>
  BY DEF OnWriteEnds
<1>2. conn \in Open \cup Closing /\ conn # "CLOSED" /\ writes # <<>>
  BY <1>1, Kinds DEF Inv, Callbacks, Open, Closing
<1>3. queued \in Batches /\ writes \in Seq(Batches) /\ Disjoint(queued, writes)
  BY DEF Inv, Types
<1>4. /\ Tail(writes) \in Seq(Batches) /\ Head(writes) \in Batches
      /\ \A x : In(Tail(writes), x) <=> In(writes, x)
      /\ Disjoint(queued, Tail(writes))
  BY <1>1, <1>2, <1>3, TailBatch
<1>5. /\ queued' \in Batches /\ writes' \in Seq(Batches) /\ Disjoint(queued', writes')
      /\ \A x : SameList(x)
      /\ \A n \in Nat : AddUp(Tail(writes), n) =>
           \E m \in Nat : AddUp(writes', m) /\ n + queued.size = m + queued'.size
      /\ \/ wire' = wire
         \/ queued'.handlers = {} /\ wire' = wire \cup {<<stream'[x], x>> : x \in queued.handlers}
  BY <1>1, <1>3, <1>4, FlushLists DEF SameList
<1>6. conn' = conn \/ (conn = "OVERWHELMED" /\ conn' = "READY")
  BY <1>1, ConnSteps
<1>7. conn' # "CLOSED" /\ conn' \in Open \cup Closing
  BY <1>2, <1>6 DEF Open
<1>8. /\ SizesExact' /\ pending_writes_size' \in Nat
      /\ pending_writes_size = 0 => pending_writes_size' = 0
  <2>1. PICK n \in Nat : AddUp(writes, n) /\ pending_writes_size = n + queued.size
    BY <1>2 DEF Inv, SizesExact
  <2>2. AddUp(Tail(writes), n - Head(writes).size) /\ n - Head(writes).size \in Nat
    BY <1>2, <1>3, <2>1, TailAddsUp
  <2>3. PICK m \in Nat : AddUp(writes', m)
                         /\ (n - Head(writes).size) + queued.size = m + queued'.size
    BY <1>5, <2>2
  <2>4. queued.size \in Nat /\ queued'.size \in Nat /\ Head(writes).size \in Nat
    BY <1>3, <1>4, <1>5 DEF Batches
  <2>5. pending_writes_size' = m + queued'.size
    BY <1>1, <2>1, <2>2, <2>3, <2>4
  <2>6. SizesExact'
    BY <2>3, <2>5 DEF SizesExact
  <2>7. pending_writes_size' \in Nat /\ (pending_writes_size = 0 => pending_writes_size' = 0)
    <3> DEFINE k == Head(writes).size
               qs == queued.size
    <3>1. n \in Nat /\ k \in Nat /\ qs \in Nat /\ n - k \in Nat
      BY <2>2, <2>4
    <3>2. pending_writes_size = n + qs /\ pending_writes_size' = pending_writes_size - k
      BY <1>1, <2>1
    <3> HIDE DEF k, qs
    <3> QED
      BY <3>1, <3>2
  <2> QED
    BY <2>6, <2>7
<1>9. \A x \in Handlers : References(x)' /\ Fits(x)'
  <2> SUFFICES ASSUME NEW x \in Handlers PROVE References(x)' /\ Fits(x)'
    OBVIOUS
  <2>1. SameHandler(x)
    BY <1>1 DEF SameHandler
  <2> QED
    BY <1>1, <1>2, <1>5, <2>1, Untouched DEF Inv, HandlersFit, Fits, Registered
<1>10. \A x \in queued.handlers : x \in Handlers /\ state[x] \in Unanswered /\ stream[x] \in Streams
  <2> SUFFICES ASSUME NEW x \in queued.handlers
               PROVE  x \in Handlers /\ state[x] \in Unanswered /\ stream[x] \in Streams
    OBVIOUS
  <2>1. x \in Handlers /\ state[x] \in Unanswered
    BY <1>2, <1>3 DEF Inv, HandlersFit, Fits, Placed, Unanswered, Batches
  <2> QED
    BY <1>2, <2>1 DEF Inv, HandlersFit, Fits, Registered, Types
<1>11. StreamsFit'
  <2>1. \A s \in DOMAIN pending' : state'[pending'[s]] \in Unanswered /\ stream'[pending'[s]] = s
    BY <1>1, <1>2 DEF Inv, StreamsFit
  <2>2. ASSUME NEW s \in Streams, NEW x \in Handlers, <<s, x>> \in wire'
        PROVE  s \in DOMAIN pending' /\ pending'[s] = x /\ x \notin queued'.handlers
    <3>1. CASE <<s, x>> \in wire
      BY <1>1, <1>2, <1>5, <3>1 DEF Inv, StreamsFit, SameList
    <3>2. CASE <<s, x>> \notin wire
      <4>1. x \in queued.handlers /\ s = stream[x] /\ queued'.handlers = {}
        BY <1>1, <1>5, <2>2, <3>2
      <4> QED
        BY <1>1, <1>2, <1>10, <4>1 DEF Inv, HandlersFit, Fits, Registered
    <3> QED
      BY <3>1, <3>2
  <2> QED
    BY <2>1, <2>2 DEF StreamsFit
<1>12. Exchange' /\ ReadyAfterStartup'
  <2>1. conn \notin {"READY", "OVERWHELMED", "CLOSED"} \cup Closing =>
          pending_writes_size' = 0 /\ \A x \in Handlers \ Startup : state'[x] = "NEW"
    BY <1>1, <1>8 DEF Inv, Exchange
  <2>2. \A g \in Startup : Advances(g) /\ callback' # Consuming(g)
    BY <1>1, NoStartupWrite DEF Advances, Answered, Live
  <2> QED
    BY <1>1, <1>6, <2>1, <2>2, Kinds, ExchangeGoesOn DEF Inv
<1>13. Callbacks'
  BY <1>1, <1>7, Kinds DEF Callbacks, Open, Closing
<1>14. wire' \subseteq Streams \X Handlers
  <2>1. wire \subseteq Streams \X Handlers
    BY DEF Inv, Types
  <2>2. {<<stream'[x], x>> : x \in queued.handlers} \subseteq Streams \X Handlers
    BY <1>1, <1>10
  <2> QED
    BY <1>5, <2>1, <2>2
<1>15. Types'
  BY <1>1, <1>5, <1>7, <1>8, <1>14 DEF Inv, Types, ConnStates
<1> QED
  BY <1>5, <1>7, <1>8, <1>9, <1>11, <1>12, <1>13, <1>15 DEF Inv, HandlersFit

-----------------------------------------------------------------------------
(* Responses *)

\* The handler that gets the response is the one that waits for it.
LEMMA ResponseMatches ==
  ASSUME Inv, NEW s \in Streams, NEW h \in Handlers, Response(s, h)
  PROVE  /\ conn \in Open \cup Closing /\ conn # "CLOSED"
         /\ callback.kind \in {"read", "consume"} /\ \A g \in Startup : callback # Consuming(g)
         /\ s \in DOMAIN pending /\ pending[s] = h /\ stream[h] = s /\ state[h] \in Unanswered
         /\ h \notin queued.handlers
         /\ wire' \subseteq wire /\ \A x \in Handlers : <<s, x>> \notin wire'
         /\ pending' = Without(pending, s)
         /\ UNCHANGED <<queued, writes, pending_writes_size, stream>>
<1>1. /\ callback \in {Reading, Consuming(None)}
      /\ s \in DOMAIN pending /\ h = pending[s] /\ pending' = Without(pending, s)
      /\ UNCHANGED <<queued, writes, pending_writes_size, stream>>
  BY DEF Response
<1>2. PICK sent \in Handlers : <<s, sent>> \in wire /\ wire' = wire \ {<<s, sent>>}
  BY DEF Response
<1>3. callback.kind \in {"read", "consume"} /\ \A g \in Startup : callback # Consuming(g)
  BY <1>1, Kinds, NoStartupWrite
<1>4. conn \in Open \cup Closing /\ conn # "CLOSED"
  BY <1>3, Kinds DEF Inv, Callbacks, Open, Closing
<1>5. sent = h /\ h \notin queued.handlers
  BY <1>1, <1>2, <1>4 DEF Inv, StreamsFit
<1>6. stream[h] = s /\ state[h] \in Unanswered
  BY <1>1, <1>4 DEF Inv, StreamsFit
<1>7. \A x \in Handlers : <<s, x>> \in wire => x = h
  BY <1>1, <1>4 DEF Inv, StreamsFit
<1> QED
  BY <1>1, <1>2, <1>3, <1>4, <1>5, <1>6, <1>7

\* What a response does to the handlers, the lists and the stream ids.
Answers(h, next) ==
  /\ state' \in [Handlers -> HandlerStates] /\ state'[h] = next
  /\ \A x \in Handlers \ {h} : state'[x] = state[x]
  /\ timer' \in [Handlers -> BOOLEAN] /\ refs' \in [Handlers -> Nat]
  /\ pending_reads' \subseteq Handlers
  /\ DOMAIN pending' \subseteq Streams /\ pending' \in [DOMAIN pending' -> Handlers]
  /\ wire' \subseteq Streams \X Handlers
  /\ Disjoint(queued, writes)' /\ SizesExact' /\ HandlersFit' /\ StreamsFit'
  /\ \A x \in Handlers : References(x)'

\* What a response does to the handlers, the lists and the stream ids.  The
\* owner drops d references.
LEMMA ReceivedStep ==
  ASSUME Inv, NEW s \in Streams, NEW h \in Handlers, Response(s, h),
         NEW next, Received(h, next), NEW d \in {0, 1},
         state[h] \in {"READING", "TIMEOUT"} => next \in {"DONE", "NEW"},
         state[h] \in {"WRITING", "TIMEOUT_WRITE_OUTSTANDING"}
           => next \in {"READ_BEFORE_WRITE", "RETRY_WRITE_OUTSTANDING"},
         refs' = [refs EXCEPT ![h] = @ - d - ConnectionRef(h)],
         h \notin Requests => d = 0,
         finished' \in [Requests -> {0, 1}],
         h \in Requests => finished'[h] = finished[h] + d,
         \A x \in Requests \ {h} : finished'[x] = finished[x],
         h \in Requests /\ next = "RETRY_WRITE_OUTSTANDING" => finished'[h] = 0,
         h \in Requests /\ next \in {"READ_BEFORE_WRITE", "DONE"} => finished'[h] = 1
  PROVE  Answers(h, next)
<1>1. /\ conn # "CLOSED"
      /\ s \in DOMAIN pending /\ pending[s] = h /\ stream[h] = s /\ state[h] \in Unanswered
      /\ h \notin queued.handlers
      /\ wire' \subseteq wire /\ \A x \in Handlers : <<s, x>> \notin wire'
      /\ pending' = Without(pending, s)
      /\ UNCHANGED <<queued, writes, pending_writes_size, stream>>
  BY ResponseMatches
<1>2. /\ state' = [state EXCEPT ![h] = next]
      /\ timer' = [timer EXCEPT ![h] = timer[h] /\ KeepsTimer(state[h], AfterResponse(h))]
      /\ pending_reads' = pending_reads \ {h}
  BY DEF Received
<1>3. Fits(h) /\ References(h)
  BY <1>1 DEF Inv, HandlersFit
<1>4. next \in {"DONE", "NEW", "READ_BEFORE_WRITE", "RETRY_WRITE_OUTSTANDING"}
  BY <1>1 DEF Unanswered
<1>5. /\ state' \in [Handlers -> HandlerStates] /\ state'[h] = next
      /\ \A x \in Handlers \ {h} : state'[x] = state[x]
  BY <1>2, <1>4 DEF Inv, Types, HandlerStates
<1>6. /\ timer' \in [Handlers -> BOOLEAN] /\ ~timer'[h]
      /\ \A x \in Handlers \ {h} : timer'[x] = timer[x]
  <2>1. timer \in [Handlers -> BOOLEAN]
    BY DEF Inv, Types
  <2>2. ~(timer[h] /\ KeepsTimer(state[h], AfterResponse(h)))
    <3>1. CASE Live(h)
      BY <3>1, ResponseSteps DEF KeepsTimer, Live
    <3>2. CASE ~Live(h)
      BY <3>2, <1>3 DEF Fits
    <3> QED
      BY <3>1, <3>2
  <2>3. timer' = [timer EXCEPT ![h] = FALSE]
    BY <1>2, <2>2
  <2> QED
    BY <2>1, <2>3
<1>7. /\ DOMAIN pending' = DOMAIN pending \ {s}
      /\ \A t \in DOMAIN pending' : pending'[t] = pending[t] /\ pending[t] \in Handlers \ {h}
      /\ DOMAIN pending' \subseteq Streams /\ pending' \in [DOMAIN pending' -> Handlers]
      /\ \A x \in Handlers \ {h} : state[x] \in Unanswered
           => stream[x] \in DOMAIN pending' /\ pending'[stream[x]] = x
  BY <1>1, OwnStream
<1>8. /\ In(writes', h) <=> state[h] \in {"WRITING", "TIMEOUT_WRITE_OUTSTANDING"}
      /\ h \in pending_reads <=> state[h] \in {"READING", "TIMEOUT"}
      /\ h \notin pending_reads' /\ h \notin queued'.handlers
      /\ In(writes, h) <=> In(writes', h)
  BY <1>1, <1>2, <1>3 DEF Fits, Placed, Unanswered
<1>9. /\ refs' \in [Handlers -> Nat] /\ \A x \in Handlers \ {h} : refs'[x] = refs[x]
      /\ References(h)'
  <2> DEFINE own == IF h \in Requests THEN 1 - finished[h] ELSE 0
             later == IF h \in Requests THEN 1 - finished'[h] ELSE 0
             listed == IF In(writes', h) THEN 1 ELSE 0
  <2>1. own \in {0, 1} /\ later \in {0, 1} /\ later = own - d
    BY DEF Inv, Types
  <2>2. refs[h] = own + 1
    BY <1>1, <1>3, <1>8 DEF References, Unanswered
  <2>3. 1 - ConnectionRef(h) = listed /\ ConnectionRef(h) \in {0, 1}
    BY <1>1, <1>8 DEF ConnectionRef, Unanswered
  <2>4. refs[h] - d - ConnectionRef(h) = later + listed /\ later + listed \in Nat
    <3> HIDE DEF own, later
    <3>1. listed \in {0, 1}
      OBVIOUS
    <3> HIDE DEF listed
    <3> QED
      BY <2>1, <2>2, <2>3, <3>1
  <2>5. /\ refs' \in [Handlers -> Nat] /\ refs'[h] = later + listed
        /\ \A x \in Handlers \ {h} : refs'[x] = refs[x]
    <3> HIDE DEF later, listed
    <3> QED
      BY <2>4 DEF Inv, Types
  <2>6. References(h)'
    BY <1>8, <2>5 DEF References
  <2> QED
    BY <2>5, <2>6
<1>10. Fits(h)'
  <2>1. Placed(h)'
    BY <1>1, <1>5, <1>8 DEF Placed, Unanswered
  <2>2. Registered(h)'
    BY <1>4, <1>5 DEF Registered, Unanswered
  <2>3. (timer[h] <=> Live(h))'
    BY <1>4, <1>5, <1>6 DEF Live
  <2>4. h \in Requests => FinishedFits(h)'
    BY <1>4, <1>5 DEF FinishedFits
  <2> QED
    BY <2>1, <2>2, <2>3, <2>4 DEF Fits
<1>11. \A x \in Handlers \ {h} : SameHandler(x) /\ SameList(x)
  BY <1>1, <1>2, <1>5, <1>6, <1>9 DEF SameHandler, SameList
<1>12. HandlersFit' /\ \A x \in Handlers : References(x)'
  BY <1>1, <1>7, <1>9, <1>10, <1>11, OthersFit
<1>13. StreamsFit'
  <2>1. \A t \in DOMAIN pending' : state'[pending'[t]] \in Unanswered /\ stream'[pending'[t]] = t
    BY <1>1, <1>5, <1>7 DEF Inv, StreamsFit
  <2>2. ASSUME NEW t \in Streams, NEW x \in Handlers, <<t, x>> \in wire'
        PROVE  t \in DOMAIN pending' /\ pending'[t] = x /\ x \notin queued'.handlers
    <3>1. t # s /\ <<t, x>> \in wire
      BY <1>1, <2>2
    <3> QED
      BY <1>1, <1>7, <3>1 DEF Inv, StreamsFit
  <2> QED
    BY <2>1, <2>2 DEF StreamsFit
<1>14. Disjoint(queued, writes)' /\ SizesExact'
  BY <1>1, SMTT(30) DEF Inv, Disjoint, SizesExact, AddUp
<1>15. pending_reads' \subseteq Handlers /\ wire' \subseteq Streams \X Handlers
  BY <1>1, <1>2 DEF Inv, Types
<1> QED
  BY <1>5, <1>6, <1>7, <1>9, <1>12, <1>13, <1>14, <1>15 DEF Answers

\* A response after which the connection stays as it is: one that came too
\* late, one that is retried, or one to a heartbeat.
LEMMA PlainResponseInv ==
  ASSUME NEW s \in Streams, NEW h \in Handlers, Inv,
         LateResponse(s, h) \/ RetryResponse(s, h) \/ HeartbeatResponse(s, h)
  PROVE  Inv'
<1>1. /\ Response(s, h) /\ callback' = Consuming(None)
      /\ UNCHANGED <<conn, connect_timer, finished>>
      /\ refs' = [refs EXCEPT ![h] = @ - ConnectionRef(h)]
  BY DEF LateResponse, RetryResponse, HeartbeatResponse
<1>2. /\ conn \in Open \cup Closing /\ conn # "CLOSED"
      /\ callback.kind \in {"read", "consume"} /\ \A g \in Startup : callback # Consuming(g)
      /\ state[h] \in Unanswered
      /\ UNCHANGED <<queued, writes, pending_writes_size, stream>>
  BY <1>1, ResponseMatches
<1>3. PICK next :
        /\ Received(h, next)
        /\ state[h] \in {"READING", "TIMEOUT"} => next \in {"DONE", "NEW"}
        /\ state[h] \in {"WRITING", "TIMEOUT_WRITE_OUTSTANDING"}
             => next \in {"READ_BEFORE_WRITE", "RETRY_WRITE_OUTSTANDING"}
        /\ h \in Requests /\ next = "RETRY_WRITE_OUTSTANDING" => finished[h] = 0
        /\ h \in Requests /\ next \in {"READ_BEFORE_WRITE", "DONE"} => finished[h] = 1
  <2>1. h \in Requests => FinishedFits(h)
    BY <1>2 DEF Inv, HandlersFit, Fits
  <2>2. CASE LateResponse(s, h)
    <3>1. Received(h, AfterResponse(h)) /\ ~Live(h)
      BY <2>2 DEF LateResponse
    <3>2. state[h] \in {"TIMEOUT", "TIMEOUT_WRITE_OUTSTANDING"}
      BY <1>2, <3>1 DEF Live, Unanswered
    <3>3. /\ state[h] = "TIMEOUT" => AfterResponse(h) = "DONE"
          /\ state[h] = "TIMEOUT_WRITE_OUTSTANDING" => AfterResponse(h) = "READ_BEFORE_WRITE"
      BY ResponseSteps
    <3>4. h \in Requests => finished[h] = 1
      BY <2>1, <3>2 DEF FinishedFits
    <3> QED
      BY <3>1, <3>2, <3>3, <3>4
  <2>3. CASE RetryResponse(s, h)
    <3>1. Live(h) /\ Received(h, IF AfterResponse(h) = "DONE" THEN HandlerState("DONE", "NEW")
                       ELSE HandlerState(AfterResponse(h), "RETRY_WRITE_OUTSTANDING"))
      BY <2>3 DEF RetryResponse
    <3>2. CASE state[h] = "READING"
      <4>1. Received(h, "NEW")
        BY <3>1, <3>2, ResponseSteps, HandlerSteps
      <4> QED
        BY <4>1, <3>2
    <3>3. CASE state[h] = "WRITING"
      <4>1. Received(h, "RETRY_WRITE_OUTSTANDING")
        BY <3>1, <3>3, ResponseSteps, HandlerSteps
      <4> QED
        BY <2>1, <4>1, <3>3 DEF FinishedFits
    <3> QED
      BY <3>1, <3>2, <3>3 DEF Live
  <2>4. CASE HeartbeatResponse(s, h)
    <3>1. Live(h) /\ Received(h, AfterResponse(h)) /\ h \notin Requests
      BY <2>4, ConnectionAssumption DEF HeartbeatResponse
    <3>2. /\ state[h] = "READING" => AfterResponse(h) = "DONE"
          /\ state[h] = "WRITING" => AfterResponse(h) = "READ_BEFORE_WRITE"
      BY ResponseSteps
    <3> QED
      BY <3>1, <3>2 DEF Live
  <2> QED
    BY <2>2, <2>3, <2>4
<1>4. refs' = [refs EXCEPT ![h] = @ - 0 - ConnectionRef(h)]
  <2>1. refs[h] - 0 - ConnectionRef(h) = refs[h] - ConnectionRef(h)
    BY DEF Inv, Types, ConnectionRef
  <2> QED
    BY <1>1, <2>1
<1>5. finished' \in [Requests -> {0, 1}] /\ (h \in Requests => finished'[h] = finished[h] + 0)
  <2>1. finished \in [Requests -> {0, 1}]
    BY DEF Inv, Types
  <2> QED
    BY <1>1, <2>1
<1>6. Answers(h, next)
  BY <1>1, <1>3, <1>4, <1>5, ReceivedStep
<1> USE DEF Answers
<1>7. Exchange' /\ ReadyAfterStartup'
  <2>1. next \notin Unanswered
    BY <1>2, <1>3 DEF Unanswered
  <2>2. \A g \in Startup : Advances(g)
    BY <1>2, <1>6, <2>1 DEF Advances, Answered, Live, Handlers, Unanswered
  <2>3. conn \notin {"READY", "OVERWHELMED", "CLOSED"} \cup Closing =>
          pending_writes_size' = 0 /\ \A x \in Handlers \ Startup : state'[x] = "NEW"
    BY <1>2, <1>6 DEF Inv, Exchange, Unanswered
  <2> QED
    BY <1>1, <1>2, <2>2, <2>3, NoStartupWrite, ExchangeGoesOn DEF Inv
<1>8. Callbacks'
  BY <1>1, <1>2, Kinds DEF Callbacks, Open, Closing
<1>9. retries' \in 0..MaxRetries
  BY ConnectionAssumption DEF LateResponse, RetryResponse, HeartbeatResponse, Inv, Types
<1>10. heartbeat_outstanding' \in BOOLEAN /\ idle' \in BOOLEAN
  <2>1. heartbeat_outstanding \in BOOLEAN /\ idle \in BOOLEAN
    BY DEF Inv, Types
  <2>2. /\ heartbeat_outstanding' = heartbeat_outstanding \/ heartbeat_outstanding' = FALSE
        /\ idle' = idle \/ idle' = FALSE
    BY DEF LateResponse, RetryResponse, HeartbeatResponse, heartbeat
  <2> QED
    BY <2>1, <2>2, Zenon
<1>11. Types'
  BY <1>1, <1>2, <1>5, <1>6, <1>9, <1>10 DEF Inv, Types
<1> QED
  BY <1>1, <1>2, <1>6, <1>7, <1>8, <1>11 DEF Inv

\* The future of a request is set.
LEMMA FinalResponseInv ==
  ASSUME NEW s \in Streams, NEW h \in Handlers, Inv, FinalResponse(s, h)
  PROVE  Inv'
<1>1. /\ Response(s, h) /\ h \in Requests /\ Live(h) /\ Received(h, AfterResponse(h))
      /\ finished' = [finished EXCEPT ![h] = @ + 1]
      /\ refs' = [refs EXCEPT ![h] = @ - 1 - ConnectionRef(h)]
      /\ Defunct \/ UNCHANGED <<conn, connect_timer>>
      /\ callback' = Consuming(None) /\ UNCHANGED <<retries, heartbeat_outstanding, idle>>
  BY DEF FinalResponse, heartbeat
<1>2. /\ conn \in Open \cup Closing /\ conn # "CLOSED"
      /\ callback.kind \in {"read", "consume"} /\ \A g \in Startup : callback # Consuming(g)
      /\ state[h] \in Unanswered
      /\ UNCHANGED <<queued, writes, pending_writes_size, stream>>
  BY <1>1, ResponseMatches
<1>3. /\ state[h] = "READING" => AfterResponse(h) = "DONE"
      /\ state[h] = "WRITING" => AfterResponse(h) = "READ_BEFORE_WRITE"
      /\ state[h] \in {"READING", "WRITING"}
  BY <1>1, ResponseSteps DEF Live
<1>4. finished[h] = 0
  BY <1>1, <1>2, <1>3 DEF Inv, HandlersFit, Fits, FinishedFits
<1>5. /\ finished' \in [Requests -> {0, 1}] /\ finished'[h] = finished[h] + 1 /\ finished'[h] = 1
      /\ \A x \in Requests \ {h} : finished'[x] = finished[x]
  BY <1>1, <1>4 DEF Inv, Types
<1>6. Answers(h, AfterResponse(h))
  <2> DEFINE next == AfterResponse(h)
  <2>1. /\ Received(h, next)
        /\ state[h] \in {"READING", "TIMEOUT"} => next \in {"DONE", "NEW"}
        /\ state[h] \in {"WRITING", "TIMEOUT_WRITE_OUTSTANDING"}
             => next \in {"READ_BEFORE_WRITE", "RETRY_WRITE_OUTSTANDING"}
        /\ next # "RETRY_WRITE_OUTSTANDING"
    BY <1>1, <1>3
  <2> HIDE DEF next
  <2>2. Answers(h, next)
    BY <1>1, <1>5, <2>1, ReceivedStep
  <2> QED
    BY <2>2 DEF next
<1> USE DEF Answers
<1>7. h \notin Startup /\ conn \in {"READY", "OVERWHELMED"} \cup Closing
  <2>1. h \in Handlers \ Startup /\ state[h] # "NEW"
    BY <1>1, <1>3, ConnectionAssumption
  <2> QED
    BY <1>2, <2>1 DEF Inv, Exchange
<1>8. \A g \in Startup : state'[g] = state[g] /\ state[g] \notin Unanswered /\ callback' # Consuming(g)
  BY <1>1, <1>2, <1>6, <1>7, NoStartupWrite DEF Inv, Exchange, Current, Handlers
<1>9. /\ Exchange' /\ ReadyAfterStartup' /\ conn' \in Open \cup Closing
      /\ connect_timer' \in BOOLEAN
  <2>1. CASE Defunct
    <3>1. conn' \in Closing /\ connect_timer' = FALSE
      BY <1>2, <2>1, DefunctCloses
    <3> QED
      BY <1>8, <3>1, ExchangeIsOver
  <2>2. CASE UNCHANGED <<conn, connect_timer>>
    <3>1. \A g \in Startup : Advances(g)
      BY <1>8 DEF Advances, Answered, Live
    <3>2. connect_timer \in BOOLEAN
      BY DEF Inv, Types
    <3> QED
      BY <1>1, <1>2, <1>7, <1>8, <2>2, <3>1, <3>2, ExchangeGoesOn DEF Inv
  <2> QED
    BY <1>1, <2>1, <2>2
<1>10. Callbacks' /\ conn' # "CLOSED"
  BY <1>1, <1>9, Kinds DEF Callbacks, Open, Closing
<1>11. Types'
  BY <1>1, <1>2, <1>5, <1>6, <1>9 DEF Inv, Types, ConnStates
<1> QED
  BY <1>6, <1>9, <1>10, <1>11 DEF Inv

\* The start-up request h is answered: what follows is one request further on,
\* or the connection is ready, or it is given up.
LEMMA ExchangeAnswered ==
  ASSUME Inv, NEW h \in Startup, state[h] \in Unanswered,
         conn \in {"CONNECTED", "REGISTERING_EVENTS"}, InProgress(h),
         Answered(h)', \A x \in Handlers \ {h} : state'[x] = state[x],
         pending_writes_size' = pending_writes_size
  PROVE  /\ \A g \in Startup : state'[g] \notin Unanswered
         /\ \A g \in Later[h] : state'[g] = "NEW"
         /\ \A g \in {"startup", "register"} : Answered(g) => Answered(g)'
         /\ h \notin {"options", "startup"} => Answered("startup")'
         /\ pending_writes_size' = 0 /\ \A x \in Handlers \ Startup : state'[x] = "NEW"
<1>1. \A g \in Startup : g \in Handlers
  BY DEF Handlers
<1>2. \A g \in Startup \ {h} : state[g] \notin Unanswered
  BY DEF InProgress, Current
<1>3. \A g \in Startup : state'[g] \notin Unanswered
  BY <1>1, <1>2 DEF Answered, Unanswered
<1>4. \A g \in Later[h] : g \in Startup /\ g # h
  BY DEF Later, Startup
<1>5. \A g \in Later[h] : state'[g] = "NEW"
  BY <1>1, <1>4 DEF InProgress
<1>6. \A g \in {"startup", "register"} : Answered(g) => Answered(g)'
  <2>1. \A g \in {"startup", "register"} : g \in Handlers
    BY <1>1 DEF Startup
  <2> QED
    BY <2>1 DEF Answered
<1>7. h \notin {"options", "startup"} => Answered("startup")'
  BY <1>6 DEF InProgress
<1>8. pending_writes_size = 0 /\ \A x \in Handlers \ Startup : state[x] = "NEW"
  BY DEF Inv, Exchange, Closing
<1> QED
  BY <1>3, <1>5, <1>6, <1>7, <1>8

\* A response of the start-up is consumed: the next request is due, or the end.
LEMMA StartupResponseInv ==
  ASSUME NEW s \in Streams, NEW h \in Handlers, Inv, StartupResponse(s, h)
  PROVE  Inv'
<1>1. /\ Response(s, h) /\ h \in Startup /\ Live(h) /\ Received(h, AfterResponse(h))
      /\ refs' = [refs EXCEPT ![h] = @ - ConnectionRef(h)]
      /\ UNCHANGED <<finished, retries, heartbeat_outstanding, idle>>
  BY DEF StartupResponse, heartbeat
<1>2. /\ conn \in Open \cup Closing /\ conn # "CLOSED"
      /\ callback.kind \in {"read", "consume"} /\ \A g \in Startup : callback # Consuming(g)
      /\ state[h] \in Unanswered
      /\ UNCHANGED <<queued, writes, pending_writes_size, stream>>
  BY <1>1, ResponseMatches
<1>3. h \notin Requests
  BY <1>1, ConnectionAssumption
<1>4. refs' = [refs EXCEPT ![h] = @ - 0 - ConnectionRef(h)]
  <2>1. refs[h] - 0 - ConnectionRef(h) = refs[h] - ConnectionRef(h)
    BY DEF Inv, Types, ConnectionRef
  <2> QED
    BY <1>1, <2>1
<1>5. AfterResponse(h) \in {"DONE", "READ_BEFORE_WRITE"}
  BY <1>1, ResponseSteps DEF Live
<1>6. finished' \in [Requests -> {0, 1}]
  BY <1>1 DEF Inv, Types
<1>7. Answers(h, AfterResponse(h))
  <2> DEFINE next == AfterResponse(h)
  <2>1. /\ Received(h, next)
        /\ state[h] \in {"READING", "TIMEOUT"} => next \in {"DONE", "NEW"}
        /\ state[h] \in {"WRITING", "TIMEOUT_WRITE_OUTSTANDING"}
             => next \in {"READ_BEFORE_WRITE", "RETRY_WRITE_OUTSTANDING"}
    BY <1>1, ResponseSteps
  <2> HIDE DEF next
  <2>2. Answers(h, next)
    BY <1>1, <1>3, <1>4, <1>6, <2>1, ReceivedStep
  <2> QED
    BY <2>2 DEF next
<1> USE DEF Answers
<1>8. conn \in {"CONNECTED", "REGISTERING_EVENTS"} /\ InProgress(h)
  <2>1. Current(h)
    BY <1>2 DEF Current
  <2> QED
    BY <1>1, <1>2, <2>1 DEF Inv, Exchange, Open
<1>9. Answered(h)'
  BY <1>5, <1>7 DEF Answered
<1>10. /\ \A g \in Startup : state'[g] \notin Unanswered
       /\ \A g \in Later[h] : state'[g] = "NEW"
       /\ \A g \in {"startup", "register"} : Answered(g) => Answered(g)'
       /\ h \notin {"options", "startup"} => Answered("startup")'
       /\ pending_writes_size' = 0 /\ \A x \in Handlers \ Startup : state'[x] = "NEW"
  BY <1>1, <1>2, <1>7, <1>8, <1>9, ExchangeAnswered
<1>11. ASSUME NEW g \in Later[h], callback' = Consuming(g),
              conn' \in {"CONNECTED", "REGISTERING_EVENTS"},
              g \in {"startup", "auth", "auth2"} => conn' = "CONNECTED",
              g # "startup" => Answered("startup")',
              g = "register" => EventTypes /\ conn' = "REGISTERING_EVENTS",
              g = "use" => IF EventTypes THEN conn' = "REGISTERING_EVENTS" /\ Answered("register")'
                           ELSE conn' = "CONNECTED"
       PROVE  Exchange' /\ ReadyAfterStartup'
  <2>1. g \in Startup /\ g # "options" /\ \A f \in Later[g] : f \in Later[h]
    BY <1>1 DEF Later, Startup
  <2>2. \A f \in Startup : Current(f)' => f = g
    BY <1>10, <1>11, Kinds DEF Current
  <2>3. InProgress(g)'
    BY <1>10, <1>11, <2>1, <2>2 DEF InProgress
  <2> QED
    BY <1>10, <1>11, <2>2, <2>3 DEF Exchange, ReadyAfterStartup, Closing
<1>12. ASSUME NotifyReady,
              Answered("startup")', EventTypes => Answered("register")',
              HasKeyspace => Answered("use")'
       PROVE  /\ Exchange' /\ ReadyAfterStartup' /\ conn' \in ConnStates /\ conn' \in Open
              /\ connect_timer' \in BOOLEAN /\ callback' = Consuming(None)
  <2>1. conn' = "READY" /\ connect_timer' = FALSE /\ callback' = Consuming(None)
    BY <1>8, <1>12, ConnSteps DEF NotifyReady
  <2>2. \A g \in Startup : ~Current(g)'
    BY <1>10, <2>1, NoStartupWrite DEF Current
  <2> QED
    BY <1>12, <2>1, <2>2 DEF Exchange, ReadyAfterStartup, Answered, Closing, ConnStates, Open
<1>13. ASSUME StartupFails
       PROVE  /\ Exchange' /\ ReadyAfterStartup' /\ conn' \in Closing
              /\ connect_timer' \in BOOLEAN /\ callback' = Consuming(None)
  <2>1. conn' \in Closing /\ connect_timer' = FALSE /\ callback' = Consuming(None)
    BY <1>2, <1>13, DefunctCloses DEF StartupFails
  <2>2. \A g \in Startup : state'[g] \notin Unanswered /\ callback' # Consuming(g)
    BY <1>10, <2>1, NoStartupWrite
  <2> QED
    BY <2>1, <2>2, ExchangeIsOver
<1>14. ASSUME NEW g \in Later[h], SendNext(g),
              g \in {"startup", "auth", "auth2"} => conn = "CONNECTED",
              g # "startup" => Answered("startup")', g # "register",
              g = "use" => IF EventTypes THEN conn = "REGISTERING_EVENTS" /\ Answered("register")'
                           ELSE conn = "CONNECTED"
       PROVE  /\ Exchange' /\ ReadyAfterStartup' /\ conn' \in Open
              /\ connect_timer' \in BOOLEAN /\ callback' = Consuming(g) /\ g \in Startup
  <2>1. callback' = Consuming(g) /\ conn' = conn /\ connect_timer' = connect_timer
    BY <1>14 DEF SendNext
  <2>2. Exchange' /\ ReadyAfterStartup'
    BY <1>8, <1>11, <1>14, <2>1
  <2>3. connect_timer \in BOOLEAN
    BY DEF Inv, Types
  <2> QED
    BY <1>1, <1>8, <2>1, <2>2, <2>3 DEF Open, Later, Startup
<1>15. ASSUME OnReady, h \in {"startup", "auth", "auth2", "register"}
       PROVE  /\ Exchange' /\ ReadyAfterStartup' /\ conn' \in Open
              /\ connect_timer' \in BOOLEAN
              /\ \E g \in Startup \cup {None} : callback' = Consuming(g)
  <2>1. Answered("startup")'
    BY <1>9, <1>10, <1>15
  <2>2. "use" \in Later[h] /\ (h # "register" => "register" \in Later[h])
    BY <1>15 DEF Later
  <2>3. h # "register" => conn = "CONNECTED"
    BY <1>8, <1>15 DEF InProgress
  <2>4. h = "register" => EventTypes /\ conn = "REGISTERING_EVENTS" /\ Answered("register")'
    BY <1>8, <1>9 DEF InProgress
  <2>5. CASE conn = "CONNECTED" /\ EventTypes
    <3>1. conn' = "REGISTERING_EVENTS" /\ callback' = Consuming("register")
          /\ connect_timer' = connect_timer
      BY <1>15, <2>5, ConnSteps DEF OnReady
    <3>2. "register" \in Later[h]
      BY <2>2, <2>4, <2>5
    <3>3. Exchange' /\ ReadyAfterStartup'
      BY <1>11, <2>1, <2>5, <3>1, <3>2
    <3>4. connect_timer \in BOOLEAN
      BY DEF Inv, Types
    <3> QED
      BY <3>1, <3>3, <3>4 DEF Open, Startup
  <2>6. CASE ~(conn = "CONNECTED" /\ EventTypes) /\ HasKeyspace
    <3>1. SendNext("use")
      BY <1>15, <2>6 DEF OnReady
    <3>2. IF EventTypes THEN conn = "REGISTERING_EVENTS" /\ Answered("register")'
          ELSE conn = "CONNECTED"
      BY <2>3, <2>4, <2>6
    <3> QED
      BY <1>14, <2>1, <2>2, <3>1, <3>2
  <2>7. CASE ~(conn = "CONNECTED" /\ EventTypes) /\ ~HasKeyspace
    <3>1. NotifyReady
      BY <1>15, <2>7 DEF OnReady
    <3>2. EventTypes => Answered("register")'
      BY <2>3, <2>4, <2>7
    <3> QED
      BY <1>12, <2>1, <2>7, <3>1, <3>2
  <2> QED
    BY <2>5, <2>6, <2>7
<1>16. /\ Exchange' /\ ReadyAfterStartup' /\ conn' \in Open \cup Closing
       /\ connect_timer' \in BOOLEAN
       /\ \E g \in Startup \cup {None} : callback' = Consuming(g)
  <2>1. CASE h = "options" /\ SendNext("startup")
    <3>1. "startup" \in Later[h] /\ conn = "CONNECTED"
      BY <1>8, <2>1 DEF Later, InProgress
    <3> QED
      BY <1>14, <2>1, <3>1
  <2>2. CASE h \in {"startup", "auth", "auth2", "register"} /\ OnReady
    BY <1>15, <2>2
  <2>3. CASE h = "startup" /\ SendNext("auth")
    <3>1. "auth" \in Later[h] /\ conn = "CONNECTED"
      BY <1>8, <2>3 DEF Later, InProgress
    <3> QED
      BY <1>9, <1>14, <2>3, <3>1
  <2>4. CASE h = "auth" /\ SendNext("auth2")
    <3>1. "auth2" \in Later[h] /\ conn = "CONNECTED" /\ Answered("startup")'
      BY <1>8, <1>10, <2>4 DEF Later, InProgress
    <3> QED
      BY <1>14, <2>4, <3>1
  <2>5. CASE h = "use" /\ NotifyReady
    <3>1. Answered("startup")' /\ (EventTypes => Answered("register")')
      BY <1>8, <1>10, <2>5 DEF InProgress
    <3> QED
      BY <1>9, <1>12, <2>5, <3>1
  <2>6. CASE StartupFails
    BY <1>13, <2>6
  <2>7. \/ h = "options" /\ SendNext("startup")
        \/ h \in {"startup", "auth", "auth2", "register"} /\ OnReady
        \/ h = "startup" /\ SendNext("auth")
        \/ h = "auth" /\ SendNext("auth2")
        \/ h = "use" /\ NotifyReady
        \/ StartupFails
    BY DEF StartupResponse
  <2> QED
    BY <2>1, <2>2, <2>3, <2>4, <2>5, <2>6, <2>7
<1>17. Callbacks' /\ conn' # "CLOSED"
  BY <1>16, Kinds DEF Callbacks, Open, Closing
<1>18. Types'
  BY <1>1, <1>2, <1>6, <1>7, <1>16 DEF Inv, Types, ConnStates
<1> QED
  BY <1>7, <1>16, <1>17, <1>18 DEF Inv

-----------------------------------------------------------------------------
(* Timeouts and closing *)

\* The timer of a handler fires: the stream stays taken until the response comes.
LEMMA OnTimeoutInv ==
  ASSUME NEW h \in Handlers, Inv, OnTimeout(h)
  PROVE  Inv'
<1> DEFINE next == IF state[h] = "WRITING" THEN "TIMEOUT_WRITE_OUTSTANDING" ELSE "TIMEOUT"
<1>1. /\ callback = NoCallback /\ conn # "CLOSED" /\ timer[h]
      /\ timer' = [timer EXCEPT ![h] = FALSE]
      /\ UNCHANGED <<callback, queued, writes, pending_writes_size, pending_reads, pending,
                     stream, retries, idle>>
  BY DEF OnTimeout, Quiet, lists
<1>2. Fits(h) /\ References(h)
  BY <1>1 DEF Inv, HandlersFit
<1>3. state[h] \in {"WRITING", "READING"}
  BY <1>1, <1>2 DEF Fits, Live
<1>4. state' = [state EXCEPT ![h] = next]
  BY <1>3, HandlerSteps DEF OnTimeout
<1>5. /\ state' \in [Handlers -> HandlerStates] /\ state'[h] = next
      /\ \A x \in Handlers \ {h} : state'[x] = state[x]
  BY <1>4 DEF Inv, Types, HandlerStates
<1>6. /\ timer' \in [Handlers -> BOOLEAN] /\ timer'[h] = FALSE
      /\ \A x \in Handlers \ {h} : timer'[x] = timer[x]
  <2>1. timer \in [Handlers -> BOOLEAN] /\ FALSE \in BOOLEAN
    BY DEF Inv, Types
  <2> QED
    BY <1>1, <2>1
<1>7. h \in Requests => finished[h] = 0 /\ refs[h] = 2
  BY <1>2, <1>3 DEF Fits, FinishedFits, Placed, References
<1>8. \/ /\ h \in Requests /\ finished' = [finished EXCEPT ![h] = @ + 1]
         /\ refs' = [refs EXCEPT ![h] = @ - 1]
         /\ UNCHANGED <<conn, connect_timer, wire, heartbeat_outstanding>>
      \/ /\ h \in Heartbeats /\ heartbeat_outstanding' = FALSE
         /\ UNCHANGED <<conn, connect_timer, wire, finished, refs>>
      \/ /\ h \in Startup /\ Defunct /\ wire' = {}
         /\ UNCHANGED <<finished, refs, heartbeat_outstanding>>
  BY DEF OnTimeout
<1>9. Requests \cap Heartbeats = {} /\ (Requests \cup Heartbeats) \cap Startup = {}
  BY ConnectionAssumption
<1>10. /\ finished' \in [Requests -> {0, 1}] /\ refs' \in [Handlers -> Nat]
       /\ \A x \in Handlers \ {h} : refs'[x] = refs[x]
       /\ \A x \in Requests \ {h} : finished'[x] = finished[x]
       /\ h \in Requests => finished'[h] = 1 /\ refs'[h] = 1
       /\ h \notin Requests => refs'[h] = refs[h]
  <2>1. finished \in [Requests -> {0, 1}] /\ refs \in [Handlers -> Nat]
    BY DEF Inv, Types
  <2>2. CASE h \in Requests
    BY <1>7, <1>8, <1>9, <2>1, <2>2
  <2>3. CASE h \notin Requests
    BY <1>8, <2>1, <2>3
  <2> QED
    BY <2>2, <2>3
<1>11. Fits(h)' /\ References(h)'
  <2>1. References(h)'
    BY <1>1, <1>2, <1>7, <1>10 DEF References
  <2>2. Placed(h)'
    BY <1>1, <1>2, <1>3, <1>5 DEF Fits, Placed
  <2>3. Registered(h)'
    BY <1>1, <1>2, <1>3 DEF Fits, Registered, Unanswered
  <2>4. (timer[h] <=> Live(h))'
    BY <1>5, <1>6 DEF Live
  <2>5. h \in Requests => FinishedFits(h)'
    BY <1>5, <1>10 DEF FinishedFits
  <2> QED
    BY <2>1, <2>2, <2>3, <2>4, <2>5 DEF Fits
<1>12. \A x \in Handlers \ {h} : SameHandler(x) /\ SameList(x)
  BY <1>1, <1>5, <1>6, <1>10 DEF SameHandler, SameList
<1>13. HandlersFit' /\ \A x \in Handlers : References(x)'
  <2>1. \A x \in Handlers \ {h} : state[x] \in Unanswered
          => stream[x] \in DOMAIN pending' /\ pending'[stream[x]] = x
    BY <1>1 DEF Inv, HandlersFit, Fits, Registered
  <2> QED
    BY <1>1, <1>11, <1>12, <2>1, OthersFit
<1>14. wire' \subseteq wire
  BY <1>8
<1>15. StreamsFit'
  <2>1. \A x \in Handlers : state[x] \in Unanswered => state'[x] \in Unanswered
    BY <1>5 DEF Unanswered
  <2> QED
    BY <1>1, <1>14, <2>1 DEF Inv, Types, StreamsFit
<1>16. Disjoint(queued, writes)' /\ SizesExact'
  BY <1>1, SMTT(30) DEF Inv, Disjoint, SizesExact, AddUp
<1>17. conn \in Open \cup Closing
  BY <1>1, <1>3 DEF Inv, Callbacks, Types, ConnStates
<1>18. /\ Exchange' /\ ReadyAfterStartup' /\ conn' \in Open \cup Closing
       /\ connect_timer' \in BOOLEAN
  <2>1. CASE h \in Startup
    <3>1. conn' \in Closing /\ connect_timer' = FALSE
      BY <1>8, <1>9, <1>17, <2>1, DefunctCloses
    <3> QED
      BY <1>1, <3>1, Kinds, ExchangeIsOver
  <2>2. CASE h \notin Startup
    <3>1. conn' = conn /\ connect_timer' = connect_timer
      BY <1>8, <2>2
    <3>2. \A g \in Startup : Advances(g)
      BY <1>5, <2>2 DEF Advances, Answered, Live, Handlers
    <3>3. conn \notin {"READY", "OVERWHELMED", "CLOSED"} \cup Closing =>
            pending_writes_size' = 0 /\ \A x \in Handlers \ Startup : state'[x] = "NEW"
      BY <1>1, <1>3, <2>2 DEF Inv, Exchange
    <3>4. connect_timer \in BOOLEAN
      BY DEF Inv, Types
    <3> QED
      BY <1>1, <1>17, <3>1, <3>2, <3>3, <3>4, ExchangeGoesOn DEF Inv
  <2> QED
    BY <2>1, <2>2
<1>19. Callbacks' /\ conn' # "CLOSED"
  BY <1>1, <1>18, Kinds DEF Callbacks, Open, Closing
<1>20. heartbeat_outstanding' \in BOOLEAN
  <2>1. heartbeat_outstanding' = heartbeat_outstanding \/ heartbeat_outstanding' = FALSE
    BY <1>8
  <2>2. heartbeat_outstanding \in BOOLEAN
    BY DEF Inv, Types
  <2> QED
    BY <2>1, <2>2, Zenon
<1>21. Types'
  BY <1>1, <1>5, <1>6, <1>10, <1>14, <1>18, <1>20 DEF Inv, Types, ConnStates
<1> QED
  BY <1>13, <1>15, <1>16, <1>18, <1>19, <1>21 DEF Inv

\* What Listed means for a handler.
LEMMA ListedIn ==
  \A h : h \in Listed <=> h \in queued.handlers \/ h \in pending_reads \/ In(writes, h)
BY DEF Listed, In

\* Every handler that is still in a list is given up.
LEMMA OnCloseInv == Inv /\ OnClose => Inv'
<1> SUFFICES ASSUME Inv, OnClose PROVE Inv'
  OBVIOUS
<1> DEFINE given_up == {h \in Listed : Live(h)}
<1>1. /\ callback = NoCallback /\ conn \in Closing /\ writes = <<>> /\ conn # "CLOSED"
      /\ finished' = [h \in Requests |-> finished[h] + (IF h \in given_up THEN 1 ELSE 0)]
      /\ refs' = [h \in Handlers |-> refs[h] - (IF h \in Listed THEN 1 ELSE 0)
                                      - (IF h \in given_up \cap Requests THEN 1 ELSE 0)]
      /\ conn' = "CLOSED" /\ queued' = NoWrite /\ pending_reads' = {}
      /\ UNCHANGED <<connect_timer, callback, writes, pending_writes_size, pending, wire, state,
                     stream, retries, idle>>
  BY DEF OnClose, Quiet, Closing, streams
<1>2. /\ timer' = [h \in Handlers |-> timer[h] /\ h \notin given_up]
      /\ heartbeat_outstanding' = (heartbeat_outstanding /\ given_up \cap Heartbeats = {})
  BY DEF OnClose
<1>3. timer' \in [Handlers -> BOOLEAN] /\ heartbeat_outstanding' \in BOOLEAN
  <2> HIDE DEF given_up
  <2> QED
    BY <1>2, Zenon
<1>4. ASSUME NEW h \in Requests
      PROVE  finished[h] \in {0, 1} /\ (h \in given_up => finished[h] = 0)
  <2>1. h \in Handlers
    BY DEF Handlers
  <2>2. Fits(h)
    BY <1>1, <2>1 DEF Inv, HandlersFit
  <2> QED
    BY <2>2 DEF Fits, FinishedFits, Live, Inv, Types
<1>5. finished' \in [Requests -> {0, 1}]
  BY <1>1, <1>4
<1>6. NoWrite \in Batches /\ NoWrite.handlers = {}
  BY DEF NoWrite, Batches
<1>7. Disjoint(queued, writes)' /\ \A h : h \notin queued'.handlers /\ ~In(writes', h)
  BY <1>1, <1>6 DEF Disjoint, In
<1>8. ASSUME NEW h \in Handlers
      PROVE  refs'[h] = (IF h \in Requests THEN 1 - finished'[h] ELSE 0) /\ refs'[h] \in Nat
  <2>1. refs[h] = (IF h \in Requests THEN 1 - finished[h] ELSE 0) + (IF h \in Listed THEN 1 ELSE 0)
    BY ListedIn DEF Inv, References
  <2>2. refs'[h] = refs[h] - (IF h \in Listed THEN 1 ELSE 0)
                     - (IF h \in given_up \cap Requests THEN 1 ELSE 0)
    BY <1>1
  <2>3. CASE h \in Requests
    <3>1. finished'[h] = finished[h] + (IF h \in given_up THEN 1 ELSE 0)
      BY <1>1, <2>3
    <3>2. finished[h] \in {0, 1} /\ (h \in given_up => finished[h] = 0)
      BY <1>4, <2>3
    <3> HIDE DEF given_up
    <3> QED
      BY <2>1, <2>2, <2>3, <3>1, <3>2
  <2>4. CASE h \notin Requests
    <3> HIDE DEF given_up
    <3> QED
      BY <2>1, <2>2, <2>4
  <2> QED
    BY <2>3, <2>4
<1>9. \A h \in Handlers : References(h)'
  BY <1>1, <1>7, <1>8 DEF References
<1>10. refs' \in [Handlers -> Nat]
  <2>1. DOMAIN refs' = Handlers /\ refs' = [h \in DOMAIN refs' |-> refs'[h]]
    BY <1>1
  <2> QED
    BY <1>8, <2>1
<1>11. Exchange' /\ ReadyAfterStartup'
  BY <1>1 DEF Exchange, ReadyAfterStartup, Closing
<1>12. Callbacks'
  BY <1>1, Kinds DEF Callbacks
<1>13. Types'
  BY <1>1, <1>3, <1>5, <1>6, <1>10 DEF Inv, Types, ConnStates
<1> QED
  BY <1>1, <1>7, <1>9, <1>11, <1>12, <1>13 DEF Inv

-----------------------------------------------------------------------------
\* Every step keeps the invariant.
LEMMA InvNext == Inv /\ [Next]_vars => Inv'
<1> SUFFICES ASSUME Inv, [Next]_vars PROVE Inv'
  OBVIOUS
<1>1. CASE Connect \/ OnConnect \/ ConnectFails
  BY <1>1, ConnectInv, OnConnectInv, FailureInv
<1>2. CASE \E h \in Requests : Write(h) \/ WriteEncodeError(h) \/ FinishElsewhere(h)
  BY <1>2, WriteInv, FinishElsewhereInv
<1>3. CASE FlushQueued \/ WriteStartup
  BY <1>3, FlushQueuedInv, WriteStartupInv
<1>4. CASE OnWriteBegins \/ OnWriteCallback
  BY <1>4, CallbackBeginsInv, OnWriteWrittenInv, OnWriteFailedInv, OnWriteAnsweredInv, OnWriteEndsInv
     DEF OnWriteCallback
<1>5. CASE OnReadBegins \/ InvalidStream \/ OnReadEnds \/ OnReadFails
  BY <1>5, CallbackBeginsInv, InvalidStreamInv, FailureInv
<1>6. CASE Consume
  BY <1>6, PlainResponseInv, FinalResponseInv, StartupResponseInv DEF Consume
<1>7. CASE \E h \in Handlers : OnTimeout(h)
  BY <1>7, OnTimeoutInv
<1>8. CASE (\E h \in Heartbeats : OnHeartbeat(h)) \/ OnHeartbeatWaits \/ OnHeartbeatFails
  BY <1>8, OnHeartbeatInv, CallbackBeginsInv, FailureInv
<1>9. CASE Close \/ OnClose
  BY <1>9, FailureInv, OnCloseInv
<1>10. CASE UNCHANGED vars
  <2> USE <1>10 DEF vars, lists, streams, handlers, heartbeat
  <2>1. Types' /\ Disjoint(queued, writes)' /\ \A h \in Handlers : References(h)'
    BY DEF Inv, Types, Disjoint, References, In
  <2>2. conn # "CLOSED" => SizesExact' /\ HandlersFit' /\ StreamsFit'
    <3>1. SizesExact => SizesExact'
      BY DEF SizesExact, AddUp
    <3>2. HandlersFit => HandlersFit'
      BY DEF HandlersFit, Fits, Placed, In, Registered, Live, FinishedFits
    <3>3. StreamsFit => StreamsFit'
      BY DEF StreamsFit
    <3> QED
      BY <3>1, <3>2, <3>3 DEF Inv
  <2>3. Exchange' /\ ReadyAfterStartup' /\ Callbacks'
    <3>1. \A g \in Startup : Advances(g)
      BY DEF Advances, Answered, Live
    <3>2. Exchange' /\ ReadyAfterStartup'
      BY <3>1, ExchangeGoesOn DEF Inv, Exchange
    <3> QED
      BY <3>2 DEF Inv, Callbacks
  <2> QED
    BY <2>1, <2>2, <2>3 DEF Inv
<1> QED
  BY <1>1, <1>2, <1>3, <1>4, <1>5, <1>6, <1>7, <1>8, <1>9, <1>10 DEF Next, Finished

\* The invariant holds in every reachable state.
LEMMA InvAlways == Spec => []Inv
<1>1. Init => Inv
  BY InvInit
<1>2. Inv /\ [Next]_vars => Inv'
  BY InvNext
<1> QED
  BY <1>1, <1>2, PTL DEF Spec

-----------------------------------------------------------------------------
(* What the invariant says *)

\* What the invariant says of the lists: a handler is in one of them while it is served.
LEMMA InvListed ==
  ASSUME Inv
  PROVE  /\ InOneList
         /\ conn = "CLOSED" => Listed = {}
         /\ conn # "CLOSED" => \A h \in Handlers :
              h \in Listed <=> state[h] \notin {"NEW", "DONE"}
<1>1. conn = "CLOSED" => Listed = {}
  BY DEF Inv, Listed, NoWrite
<1>2. ASSUME conn # "CLOSED", NEW h \in Handlers
      PROVE  h \in Listed <=> state[h] \notin {"NEW", "DONE"}
  BY <1>2, ListedIn DEF Inv, Types, HandlersFit, Fits, Placed, HandlerStates
<1>3. \A i \in DOMAIN writes, j \in DOMAIN writes :
        i # j => writes[i].handlers \cap writes[j].handlers = {}
  BY DEF Inv, Disjoint
<1>4. \A i \in DOMAIN writes : writes[i].handlers \cap (queued.handlers \cup pending_reads) = {}
  <2> SUFFICES ASSUME NEW i \in DOMAIN writes, NEW h \in writes[i].handlers
               PROVE  h \notin queued.handlers /\ h \notin pending_reads
    OBVIOUS
  <2>1. conn # "CLOSED"
    BY DEF Inv
  <2>2. In(writes, h) /\ h \notin queued.handlers
    BY DEF In, Inv, Disjoint
  <2>3. h \in pending_reads => h \in Handlers
    BY DEF Inv, Types
  <2> QED
    BY <2>1, <2>2, <2>3 DEF Inv, HandlersFit, Fits, Placed
<1>5. queued.handlers \cap pending_reads = {}
  <2>1. CASE conn = "CLOSED"
    BY <2>1 DEF Inv
  <2>2. CASE conn # "CLOSED"
    <3>1. pending_reads \subseteq Handlers
      BY DEF Inv, Types
    <3> QED
      BY <2>2, <3>1 DEF Inv, HandlersFit, Fits, Placed
  <2> QED
    BY <2>1, <2>2
<1>6. \A h \in Requests : state[h] = "NEW" => h \notin Listed
  BY <1>1, <1>2 DEF Handlers
<1> QED
  BY <1>1, <1>2, <1>3, <1>4, <1>5, <1>6 DEF InOneList

\* Whatever order the callbacks of writes, reads and timers come in: no assert
\* of the set_state functions fails, the lists of handlers are lists, no stream
\* id of an open connection leaks, and a handler is timed exactly while its
\* response is expected.
THEOREM NoStreamLeaks == Spec => []StreamsAndTimers
<1>1. ASSUME Inv
      PROVE  StreamsAndTimers
  <2>1. TypeOK
    BY <1>1, InvListed DEF Inv, Types, TypeOK
  <2>2. StreamsAccountedFor
    <3> SUFFICES ASSUME conn \in Open PROVE StreamsAccountedFor
      BY DEF StreamsAccountedFor
    <3>1. conn # "CLOSED"
      BY DEF Open
    <3>2. \A h \in Listed : h \in Handlers
      <4>1. queued.handlers \subseteq Handlers /\ pending_reads \subseteq Handlers
        BY <1>1 DEF Inv, Types, Batches
      <4>2. \A i \in DOMAIN writes : writes[i] \in Batches
        BY <1>1 DEF Inv, Types
      <4>3. \A h : In(writes, h) => h \in Handlers
        BY <4>2 DEF In, Batches
      <4> QED
        BY <4>1, <4>3, ListedIn
    <3>3. \A h \in Listed : state[h] \in Unanswered
            => stream[h] \in DOMAIN pending /\ pending[stream[h]] = h
      BY <1>1, <3>1, <3>2 DEF Inv, HandlersFit, Fits, Registered
    <3>4. \A s \in DOMAIN pending : /\ pending[s] \in Listed /\ state[pending[s]] \in Unanswered
                                    /\ stream[pending[s]] = s
      BY <1>1, <3>1, InvListed DEF Inv, Types, StreamsFit, Unanswered
    <3> QED
      BY <3>3, <3>4 DEF StreamsAccountedFor, Unanswered
  <2>3. TimedWhileExpected
    BY <1>1, InvListed DEF Inv, HandlersFit, Fits, Live, TimedWhileExpected
  <2> QED
    BY <2>1, <2>2, <2>3 DEF StreamsAndTimers
<1> QED
  BY <1>1, InvAlways, PTL

\* A response reaches the request it answers: no request gets the answer of
\* another, although stream ids are reused and requests time out.
THEOREM ResponsesMatch == Spec => []ResponseReachesItsRequest
<1>1. ASSUME Inv
      PROVE  ResponseReachesItsRequest
  <2>1. conn \in Open \/ callback.kind \in {"read", "consume"} => conn # "CLOSED"
    BY <1>1, Kinds DEF Inv, Callbacks, Open, Closing
  <2>2. \A e \in wire : e = <<e[1], e[2]>> /\ e[1] \in Streams /\ e[2] \in Handlers
    BY <1>1 DEF Inv, Types
  <2> QED
    BY <1>1, <2>1, <2>2 DEF Inv, StreamsFit, ResponseReachesItsRequest
<1> QED
  BY <1>1, InvAlways, PTL

\* A handler is neither freed while the connection has it in a list or its
\* owner waits for it, nor kept when both are done.
THEOREM ReferencesAreExact == Spec => []RefCountExact
<1>1. ASSUME Inv
      PROVE  RefCountExact
  BY <1>1, ListedIn DEF Inv, References, RefCountExact
<1> QED
  BY <1>1, InvAlways, PTL

\* A connection is ready only when the start-up exchange is complete.
THEOREM ReadyIsStartedUp == Spec => []ReadyAfterStartup
<1>1. Inv => ReadyAfterStartup
  BY DEF Inv
<1> QED
  BY <1>1, InvAlways, PTL
=============================================================================
