------------------------------ MODULE Session ------------------------------
(***************************************************************************)
(* The life of a session (session.cpp, io_worker.cpp): the application's   *)
(* threads connect, execute and close; the session thread distributes the  *)
(* requests; the I/O workers run them.  The threads meet in queues whose   *)
(* entries wake the other side with uv_async_send, and closing is a NULL   *)
(* that follows the requests through the same queues.                      *)
(*                                                                         *)
(* A step is a callback of an event loop, one round of its loop over a     *)
(* queue, or what a call does under state_mutex_.  The pools of a worker   *)
(* appear as far as they hold up connecting and closing; the requests they *)
(* hold finish by a response, an error or a timeout (Connection).  Hosts   *)
(* that come and go later are not part of this module.                     *)
(***************************************************************************)
EXTENDS Integers, Sequences, FiniteSets

CONSTANTS
  Requests,        \* RequestHandlers, one cass_session_execute each
  Workers,         \* io_workers_
  Hosts,           \* hosts_ when the control connection is ready, none ignored
  QueueSize,       \* capacity of the session's request_queue_
  WorkerQueueSize, \* capacity of a worker's request_queue_
  MaxPerFlush,     \* max_requests_per_flush
  MaxReconnects,   \* bound: pools scheduled to reconnect
  NULL             \* the entry that announces the close

\* Stated as an ASSUME where the constants are given their values.
SessionAssumption ==
  /\ IsFiniteSet(Requests) /\ IsFiniteSet(Workers) /\ IsFiniteSet(Hosts)
  /\ Workers # {}
  /\ {QueueSize, WorkerQueueSize, MaxPerFlush} \subseteq Nat \ {0}
  /\ MaxReconnects \in Nat
  /\ NULL \notin Requests \cup Hosts

VARIABLES
  state,            \* state_
  mutex,            \* state_mutex_ is held across steps (close_async)
  connect_future, close_future,
  caller,           \* request -> how far its Session::execute is
  answers,          \* request -> how often its future was set
  in_flight,        \* history: requests accepted while the session was connected
  request_queue, woken,      \* the session's queue, and its async handle is pending
  thread,           \* the session thread: its callback, or whether it runs at all
  events,           \* the session's event queue
  control,          \* the control connection
  pending_pool_count, pending_workers_count,
  worker,           \* worker -> its state_
  worker_queue, worker_woken,
  remaining,        \* worker -> what on_execute may still dequeue, -1 outside of it
  held,             \* worker -> [request -> host whose pool has it]
  worker_events,    \* worker -> the hosts of its ADD_POOL events
  pool,             \* worker -> host -> state of the pool
  initial,          \* worker -> host -> is_initial_connection_
  reconnects        \* how often a pool was scheduled to reconnect

app == <<connect_future, close_future, caller, answers, in_flight>>
session == <<state, mutex, request_queue, woken, thread, events, control,
             pending_pool_count, pending_workers_count>>
workers == <<worker, worker_queue, worker_woken, remaining, held, worker_events, pool,
             initial, reconnects>>
vars == <<app, session, workers>>

NoThread == [kind |-> "none"]
Waiting == [kind |-> "loop"]                      \* in uv_run, between callbacks
OnExecute(closing, request, target) ==
  [kind |-> "on_execute", closing |-> closing, request |-> request, target |-> target]
CloseWorkers(left) == [kind |-> "close_async", left |-> left]
Closed == [kind |-> "closed"]                     \* close_handles was called

Init ==
  /\ state = "CLOSED" /\ mutex = FALSE
  /\ connect_future = "none" /\ close_future = "none"
  /\ caller = [r \in Requests |-> "new"]
  /\ answers = [r \in Requests |-> 0]
  /\ in_flight = {}
  /\ request_queue = <<>> /\ woken = FALSE
  /\ thread = NoThread /\ events = <<>> /\ control = "none"
  /\ pending_pool_count = 0 /\ pending_workers_count = 0
  /\ worker = [w \in Workers |-> "READY"]
  /\ worker_queue = [w \in Workers |-> <<>>]
  /\ worker_woken = [w \in Workers |-> FALSE]
  /\ remaining = [w \in Workers |-> -1]
  /\ held \in [Workers -> [{} -> Hosts]]
  /\ worker_events = [w \in Workers |-> {}]
  /\ pool = [w \in Workers |-> [h \in Hosts |-> "none"]]
  /\ initial = [w \in Workers |-> [h \in Hosts |-> FALSE]]
  /\ reconnects = 0

----------------------------------------------------------------------------
(* Threads of the application *)

\* connect_async on a session that is closed; the thread is started.
ConnectAsync ==
  /\ ~mutex
  /\ state = "CLOSED" /\ connect_future = "none"
  /\ state' = "CONNECTING"
  /\ connect_future' = "unset"
  /\ events' = Append(events, "CONNECT")
  /\ thread' = Waiting
  /\ UNCHANGED <<close_future, caller, answers, in_flight, mutex, request_queue, woken, control,
                 pending_pool_count, pending_workers_count, workers>>

\* close_async, from cass_session_close or, with force, from cass_session_free:
\* while it is connecting, closing waits for that to finish.
CloseAsync(force) ==
  /\ ~mutex
  /\ state = "CONNECTED" \/ (force /\ state = "CONNECTING")
  /\ state' = "CLOSING"
  /\ close_future' = "unset"
  /\ mutex' = (state = "CONNECTED")
  /\ UNCHANGED <<connect_future, caller, answers, in_flight, request_queue, woken, thread, events,
                 control, pending_pool_count, pending_workers_count, workers>>

\* internal_close: keep trying until the queue has room for NULL.
PushNull ==
  /\ Len(request_queue) < QueueSize
  /\ request_queue' = Append(request_queue, NULL)
  /\ woken' = TRUE

CloseAsyncPushes ==
  /\ mutex
  /\ PushNull
  /\ mutex' = FALSE
  /\ UNCHANGED <<app, state, thread, events, control, pending_pool_count, pending_workers_count,
                 workers>>

Answer(r) == answers' = [answers EXCEPT ![r] = @ + 1]

\* Session::execute looks at the state, without the mutex ...
ExecuteChecks(r) ==
  /\ caller[r] = "new"
  /\ \/ /\ state # "CONNECTED"
        /\ caller' = [caller EXCEPT ![r] = "returned"]
        /\ Answer(r)
     \/ /\ state = "CONNECTED"
        /\ caller' = [caller EXCEPT ![r] = "checked"]
        /\ UNCHANGED answers
  /\ UNCHANGED <<connect_future, close_future, in_flight, session, workers>>

\* ... and then enqueues.
ExecuteEnqueues(r) ==
  /\ caller[r] = "checked"
  /\ caller' = [caller EXCEPT ![r] = "returned"]
  /\ \/ /\ Len(request_queue) < QueueSize
        /\ request_queue' = Append(request_queue, r)
        /\ woken' = TRUE
        /\ in_flight' = IF state = "CONNECTED" THEN in_flight \cup {r} ELSE in_flight
        /\ UNCHANGED answers
     \/ /\ Len(request_queue) = QueueSize
        /\ Answer(r)
        /\ UNCHANGED <<request_queue, woken, in_flight>>
  /\ UNCHANGED <<connect_future, close_future, state, mutex, thread, events, control,
                 pending_pool_count, pending_workers_count, workers>>

----------------------------------------------------------------------------
(* The session thread: events *)

\* notify_connect_error: closing starts at once, on the session thread.
NotifyConnectError ==
  /\ ~mutex
  /\ state' = "CLOSING"
  /\ PushNull
  /\ connect_future' = "error"

\* notify_connected: unless a forced close came in between.
NotifyConnected ==
  /\ ~mutex
  /\ \/ /\ state = "CONNECTING"
        /\ state' = "CONNECTED"
        /\ UNCHANGED <<request_queue, woken>>
     \/ /\ state # "CONNECTING"
        /\ PushNull
        /\ UNCHANGED state
  /\ connect_future' = "set"

OnEvent(e) ==
  /\ thread = Waiting
  /\ events # <<>> /\ Head(events) = e
  /\ events' = Tail(events)

\* CONNECT: the contact points are resolved; without any there is no connection.
OnConnect ==
  /\ OnEvent("CONNECT")
  /\ \/ /\ control' = "connecting"
        /\ UNCHANGED <<state, connect_future, request_queue, woken>>
     \/ /\ NotifyConnectError
        /\ UNCHANGED control
  /\ UNCHANGED <<close_future, caller, answers, in_flight, mutex, thread, pending_pool_count,
                 pending_workers_count, workers>>

\* on_control_connection_ready: on_add of every host, a pool on every worker.
OnControlConnectionReady ==
  /\ thread = Waiting
  /\ control = "connecting"
  /\ control' = "ready"
  /\ pending_pool_count' = Cardinality(Hosts) * Cardinality(Workers)
  /\ worker_events' = [w \in Workers |-> Hosts]
  /\ UNCHANGED <<app, state, mutex, request_queue, woken, thread, events, pending_workers_count,
                 worker, worker_queue, worker_woken, remaining, held, pool, initial, reconnects>>

OnControlConnectionError ==
  /\ thread = Waiting
  /\ control = "connecting"
  /\ control' = "error"
  /\ NotifyConnectError
  /\ UNCHANGED <<close_future, caller, answers, in_flight, mutex, thread, events,
                 pending_pool_count, pending_workers_count, workers>>

\* NOTIFY_READY: the last of the first pools makes the session connected.
OnNotifyReady ==
  /\ OnEvent("NOTIFY_READY")
  /\ pending_pool_count' = IF pending_pool_count > 0 THEN pending_pool_count - 1 ELSE 0
  /\ \/ /\ pending_pool_count = 1
        /\ NotifyConnected
     \/ /\ pending_pool_count # 1
        /\ UNCHANGED <<state, connect_future, request_queue, woken>>
  /\ UNCHANGED <<close_future, caller, answers, in_flight, mutex, thread, control,
                 pending_workers_count, workers>>

\* NOTIFY_WORKER_CLOSED: after the last worker the control connection and the
\* handles are closed.
OnNotifyWorkerClosed ==
  /\ OnEvent("NOTIFY_WORKER_CLOSED")
  /\ pending_workers_count' = pending_workers_count - 1
  /\ \/ /\ pending_workers_count' = 0
        /\ thread' = Closed
        /\ control' = "closed"
     \/ /\ pending_workers_count' # 0
        /\ UNCHANGED <<thread, control>>
  /\ UNCHANGED <<app, state, mutex, request_queue, woken, pending_pool_count, workers>>

\* The loop ends; on_after_run joins the workers and calls notify_closed.
OnAfterRun ==
  /\ thread = Closed
  /\ \A w \in Workers : worker[w] = "CLOSED" /\ remaining[w] = -1
  /\ ~mutex
  /\ thread' = NoThread
  /\ state' = "CLOSED"
  /\ close_future' = IF close_future = "unset" THEN "set" ELSE close_future
  /\ UNCHANGED <<connect_future, caller, answers, in_flight, mutex, request_queue, woken, events,
                 control, pending_pool_count, pending_workers_count, workers>>

----------------------------------------------------------------------------
(* The session thread: Session::on_execute *)

OnExecuteBegins ==
  /\ thread = Waiting /\ woken
  /\ woken' = FALSE
  /\ thread' = OnExecute(FALSE, NULL, NULL)
  /\ UNCHANGED <<app, state, mutex, request_queue, events, control, pending_pool_count,
                 pending_workers_count, workers>>

Dispatching == thread.kind = "on_execute" /\ thread.request # NULL
BetweenRequests == thread.kind = "on_execute" /\ thread.request = NULL

OnExecuteDequeues ==
  /\ BetweenRequests /\ request_queue # <<>>
  /\ request_queue' = Tail(request_queue)
  /\ LET entry == Head(request_queue) IN
       thread' = IF entry = NULL THEN OnExecute(TRUE, NULL, NULL)
                 ELSE OnExecute(thread.closing, entry, NULL)
  /\ UNCHANGED <<app, state, mutex, woken, events, control, pending_pool_count,
                 pending_workers_count, workers>>

\* is_host_available: a pool of the worker is ready and takes requests ...
OnExecuteFindsWorker(w) ==
  /\ Dispatching /\ thread.target = NULL
  /\ \E h \in Hosts : pool[w][h] = "READY"
  /\ thread' = OnExecute(thread.closing, thread.request, w)
  /\ UNCHANGED <<app, state, mutex, request_queue, woken, events, control, pending_pool_count,
                 pending_workers_count, workers>>

\* Faulty: the result of IOWorker::execute is not looked at.
OnExecuteDispatchesBlindly ==
  /\ Dispatching /\ thread.target # NULL
  /\ LET w == thread.target IN
       IF Len(worker_queue[w]) < WorkerQueueSize
       THEN /\ worker_queue' = [worker_queue EXCEPT ![w] = Append(@, thread.request)]
            /\ worker_woken' = [worker_woken EXCEPT ![w] = TRUE]
       ELSE UNCHANGED <<worker_queue, worker_woken>>
  /\ thread' = OnExecute(thread.closing, NULL, NULL)
  /\ UNCHANGED <<app, state, mutex, request_queue, woken, events, control, pending_pool_count,
                 pending_workers_count, worker, remaining, held, worker_events, pool, initial,
                 reconnects>>

\* ... and then IOWorker::execute, which fails when the worker's queue is full.
OnExecuteDispatches ==
  /\ Dispatching /\ thread.target # NULL
  /\ LET w == thread.target IN
       \/ /\ Len(worker_queue[w]) < WorkerQueueSize
          /\ worker_queue' = [worker_queue EXCEPT ![w] = Append(@, thread.request)]
          /\ worker_woken' = [worker_woken EXCEPT ![w] = TRUE]
          /\ thread' = OnExecute(thread.closing, NULL, NULL)
       \/ /\ Len(worker_queue[w]) = WorkerQueueSize
          /\ thread' = OnExecute(thread.closing, thread.request, NULL)
          /\ UNCHANGED <<worker_queue, worker_woken>>
  /\ UNCHANGED <<app, state, mutex, request_queue, woken, events, control, pending_pool_count,
                 pending_workers_count, worker, remaining, held, worker_events, pool, initial,
                 reconnects>>

\* The query plan is used up: "All connections on all I/O threads are busy".
OnExecuteGivesUp ==
  /\ Dispatching /\ thread.target = NULL
  /\ Answer(thread.request)
  /\ thread' = OnExecute(thread.closing, NULL, NULL)
  /\ UNCHANGED <<connect_future, close_future, caller, in_flight, state, mutex, request_queue,
                 woken, events, control, pending_pool_count, pending_workers_count, workers>>

OnExecuteEnds ==
  /\ BetweenRequests /\ request_queue = <<>>
  /\ \/ /\ ~thread.closing
        /\ thread' = Waiting
        /\ UNCHANGED pending_workers_count
     \/ /\ thread.closing
        /\ thread' = CloseWorkers(Workers)
        /\ pending_workers_count' = Cardinality(Workers)
  /\ UNCHANGED <<app, state, mutex, request_queue, woken, events, control, pending_pool_count,
                 workers>>

\* If NULL was in the queue: IOWorker::close_async of one worker after the
\* other, which keeps trying until the worker's queue has room.
OnExecuteClosesWorker(w) ==
  /\ thread.kind = "close_async" /\ w \in thread.left
  /\ Len(worker_queue[w]) < WorkerQueueSize
  /\ worker_queue' = [worker_queue EXCEPT ![w] = Append(@, NULL)]
  /\ worker_woken' = [worker_woken EXCEPT ![w] = TRUE]
  /\ thread' = IF thread.left = {w} THEN Waiting ELSE CloseWorkers(thread.left \ {w})
  /\ UNCHANGED <<app, state, mutex, request_queue, woken, events, control, pending_pool_count,
                 pending_workers_count, worker, remaining, held, worker_events, pool, initial,
                 reconnects>>

----------------------------------------------------------------------------
(* An I/O worker *)

NotReadyPools == {"none", "WAITING", "CONNECTING", "CLOSING"}
Drop(f, r) == [x \in DOMAIN f \ {r} |-> f[x]]
Put(f, r, h) == [x \in DOMAIN f \cup {r} |-> IF x = r THEN h ELSE f[x]]
Notify(e, n) == events' = events \o [i \in 1..n |-> e]
Announced(w) == {h \in Hosts : pool[w][h] = "CONNECTING" /\ initial[w][h]}

\* IOWorker::maybe_close, which closes every pool once nothing is pending.  A
\* pool without connections is gone at once, one that was still connecting
\* notifies that it is "ready" first.  The last pool closes the worker.
MaybeClose(w, wstate, pending) ==
  IF wstate = "CLOSING" /\ pending = {}
  THEN LET closing == {h \in Hosts : pool[w][h] \in {"CONNECTING", "READY", "CLOSING"}} IN
       /\ pool' = [pool EXCEPT ![w] = [h \in Hosts |-> IF h \in closing THEN "CLOSING" ELSE "none"]]
       /\ worker' = [worker EXCEPT ![w] = IF closing = {} THEN "CLOSED" ELSE "CLOSING"]
       /\ IF closing = {} THEN Notify("NOTIFY_WORKER_CLOSED", 1)
          ELSE Notify("NOTIFY_READY", Cardinality(Announced(w)))
  ELSE worker' = [worker EXCEPT ![w] = wstate] /\ UNCHANGED <<pool, events>>

\* The worker's handles are closed with it: its callbacks do not run any more.
WorkerIdle(w) == thread # NoThread /\ worker[w] # "CLOSED" /\ remaining[w] = -1

WorkerOnExecuteBegins(w) ==
  /\ WorkerIdle(w) /\ worker_woken[w]
  /\ worker_woken' = [worker_woken EXCEPT ![w] = FALSE]
  /\ remaining' = [remaining EXCEPT ![w] = MaxPerFlush]
  /\ UNCHANGED <<app, session, worker, worker_queue, held, worker_events, pool, initial, reconnects>>

WorkerDequeues(w) ==
  /\ remaining[w] > 0 /\ worker_queue[w] # <<>>
  /\ worker_queue' = [worker_queue EXCEPT ![w] = Tail(@)]
  /\ remaining' = [remaining EXCEPT ![w] = @ - 1]

\* RequestHandler::retry finds a pool that is ready: the request is written,
\* or waits in the pool for a connection.
WorkerTakesRequest(w) ==
  /\ WorkerDequeues(w)
  /\ LET r == Head(worker_queue[w]) IN
       /\ r # NULL
       /\ \E h \in Hosts :
            /\ pool[w][h] = "READY"
            /\ held' = [held EXCEPT ![w] = Put(@, r, h)]
  /\ UNCHANGED <<app, session, worker, worker_woken, worker_events, pool, initial, reconnects>>

\* No host is left, or the request cannot be encoded: on_error, and
\* request_finished before retry returns.
WorkerRefusesRequest(w) ==
  /\ WorkerDequeues(w)
  /\ LET r == Head(worker_queue[w]) IN r # NULL /\ Answer(r)
  /\ worker_woken' = [worker_woken EXCEPT ![w] = TRUE]
  /\ MaybeClose(w, worker[w], DOMAIN held[w])
  /\ UNCHANGED <<connect_future, close_future, caller, in_flight, state, mutex, request_queue,
                 woken, thread, control, pending_pool_count, pending_workers_count, held,
                 worker_events, initial, reconnects>>

\* NULL: the worker is closing.
WorkerTakesNull(w) ==
  /\ WorkerDequeues(w)
  /\ Head(worker_queue[w]) = NULL
  /\ worker' = [worker EXCEPT ![w] = "CLOSING"]
  /\ UNCHANGED <<app, session, worker_woken, held, worker_events, pool, initial, reconnects>>

\* The loop of on_execute is over, by its limit or because the queue is empty.
WorkerOnExecuteEnds(w) ==
  /\ remaining[w] = 0 \/ (remaining[w] > 0 /\ worker_queue[w] = <<>>)
  /\ remaining' = [remaining EXCEPT ![w] = -1]
  /\ MaybeClose(w, worker[w], DOMAIN held[w])
  /\ UNCHANGED <<app, state, mutex, request_queue, woken, thread, control, pending_pool_count,
                 pending_workers_count, worker_queue, worker_woken, held, worker_events, initial,
                 reconnects>>

\* A request gets its result or its last error: request_finished, which also
\* wakes the queue that on_execute may have left half full.
RequestFinished(w, r) ==
  /\ WorkerIdle(w) /\ r \in DOMAIN held[w]
  /\ held' = [held EXCEPT ![w] = Drop(@, r)]
  /\ Answer(r)
  /\ worker_woken' = [worker_woken EXCEPT ![w] = TRUE]
  /\ MaybeClose(w, worker[w], DOMAIN held[w] \ {r})
  /\ UNCHANGED <<connect_future, close_future, caller, in_flight, state, mutex, request_queue,
                 woken, thread, control, pending_pool_count, pending_workers_count, worker_queue,
                 remaining, worker_events, initial, reconnects>>

\* A request is retried on the pool of another host.
RequestRetried(w, r) ==
  /\ WorkerIdle(w) /\ r \in DOMAIN held[w]
  /\ \E h \in Hosts \ {held[w][r]} :
       /\ pool[w][h] = "READY"
       /\ held' = [held EXCEPT ![w][r] = h]
  /\ UNCHANGED <<app, session, worker, worker_queue, worker_woken, remaining, worker_events, pool,
                 initial, reconnects>>

----------------------------------------------------------------------------
(* The pools of a worker *)

SetPool(w, h, new) == pool' = [pool EXCEPT ![w][h] = new]

\* ADD_POOL; a worker that is closing drops the event.
AddPool(w, h) ==
  /\ WorkerIdle(w) /\ h \in worker_events[w]
  /\ worker_events' = [worker_events EXCEPT ![w] = @ \ {h}]
  /\ \/ /\ worker[w] = "READY" /\ pool[w][h] = "none"
        /\ SetPool(w, h, "CONNECTING")
        /\ initial' = [initial EXCEPT ![w][h] = TRUE]
     \/ /\ worker[w] # "READY"
        /\ UNCHANGED <<pool, initial>>
  /\ UNCHANGED <<app, session, worker, worker_queue, worker_woken, remaining, held, reconnects>>

\* Faulty: a pool that cannot connect notifies nobody.
PoolConnectedOrSilent(w, h) ==
  /\ WorkerIdle(w) /\ pool[w][h] = "CONNECTING"
  /\ \/ SetPool(w, h, "READY") /\ Notify("NOTIFY_READY", IF initial[w][h] THEN 1 ELSE 0)
     \/ SetPool(w, h, "CLOSING") /\ UNCHANGED events
  /\ UNCHANGED <<app, state, mutex, request_queue, woken, thread, control, pending_pool_count,
                 pending_workers_count, worker, worker_queue, worker_woken, remaining, held,
                 worker_events, initial, reconnects>>

\* Pool::maybe_notify_ready, or Pool::close before that because of an error.
PoolConnected(w, h) ==
  /\ WorkerIdle(w) /\ pool[w][h] = "CONNECTING"
  /\ SetPool(w, h, "READY") \/ SetPool(w, h, "CLOSING")
  /\ Notify("NOTIFY_READY", IF initial[w][h] THEN 1 ELSE 0)
  /\ UNCHANGED <<app, state, mutex, request_queue, woken, thread, control, pending_pool_count,
                 pending_workers_count, worker, worker_queue, worker_woken, remaining, held,
                 worker_events, initial, reconnects>>

\* Pool::close of a pool that lost a connection.
PoolFails(w, h) ==
  /\ WorkerIdle(w) /\ pool[w][h] = "READY"
  /\ reconnects < MaxReconnects
  /\ SetPool(w, h, "CLOSING")
  /\ UNCHANGED <<app, session, worker, worker_queue, worker_woken, remaining, held, worker_events,
                 initial, reconnects>>

\* The last connection of the pool is closed, its requests were finished or
\* retried: notify_pool_closed closes the worker, or schedules a reconnect.
PoolClosed(w, h) ==
  /\ WorkerIdle(w) /\ pool[w][h] = "CLOSING"
  /\ \A r \in DOMAIN held[w] : held[w][r] # h
  /\ \/ /\ worker[w] = "CLOSING"
        /\ SetPool(w, h, "none")
        /\ LET last == \A g \in Hosts \ {h} : pool[w][g] = "none" IN
             /\ worker' = [worker EXCEPT ![w] = IF last THEN "CLOSED" ELSE "CLOSING"]
             /\ Notify("NOTIFY_WORKER_CLOSED", IF last THEN 1 ELSE 0)
        /\ UNCHANGED <<initial, reconnects>>
     \/ /\ worker[w] = "READY"
        /\ \/ SetPool(w, h, "none") /\ UNCHANGED reconnects     \* a critical failure
           \/ /\ reconnects < MaxReconnects
              /\ SetPool(w, h, "WAITING") /\ reconnects' = reconnects + 1
        /\ initial' = [initial EXCEPT ![w][h] = FALSE]
        /\ UNCHANGED <<worker, events>>
  /\ UNCHANGED <<app, state, mutex, request_queue, woken, thread, control, pending_pool_count,
                 pending_workers_count, worker_queue, worker_woken, remaining, held, worker_events>>

\* The reconnect timer.
PoolReconnects(w, h) ==
  /\ WorkerIdle(w) /\ pool[w][h] = "WAITING"
  /\ SetPool(w, h, "CONNECTING")
  /\ UNCHANGED <<app, session, worker, worker_queue, worker_woken, remaining, held, worker_events,
                 initial, reconnects>>

----------------------------------------------------------------------------
SessionThread ==
  \/ OnConnect \/ OnControlConnectionReady \/ OnControlConnectionError
  \/ OnNotifyReady \/ OnNotifyWorkerClosed \/ OnAfterRun
  \/ OnExecuteBegins \/ OnExecuteDequeues \/ OnExecuteDispatches \/ OnExecuteGivesUp \/ OnExecuteEnds
  \/ \E w \in Workers : OnExecuteFindsWorker(w) \/ OnExecuteClosesWorker(w)

WorkerCallback(w) ==
  \/ WorkerOnExecuteBegins(w) \/ WorkerTakesRequest(w) \/ WorkerRefusesRequest(w)
  \/ WorkerTakesNull(w) \/ WorkerOnExecuteEnds(w)

PoolStep(w) ==
  \E h \in Hosts : AddPool(w, h) \/ PoolConnected(w, h) \/ PoolClosed(w, h)

\* Nobody uses the session any more.
Done ==
  /\ state = "CLOSED" /\ connect_future # "none"
  /\ \A r \in Requests : caller[r] = "returned"
  /\ UNCHANGED vars

Next ==
  \/ ConnectAsync \/ CloseAsyncPushes \/ \E force \in BOOLEAN : CloseAsync(force)
  \/ \E r \in Requests : ExecuteChecks(r) \/ ExecuteEnqueues(r)
  \/ SessionThread
  \/ \E w \in Workers :
       \/ WorkerCallback(w) \/ PoolStep(w)
       \/ \E r \in Requests : RequestFinished(w, r) \/ RequestRetried(w, r)
       \/ \E h \in Hosts : PoolFails(w, h) \/ PoolReconnects(w, h)
  \/ Done

\* The threads run: calls return, callbacks are called and end.  The control
\* connection and the pools connect or fail by their timeouts, and closing
\* them completes; a request is answered by its timeout at the latest.
Fairness ==
  /\ WF_vars(CloseAsyncPushes)
  /\ \A r \in Requests : WF_vars(ExecuteEnqueues(r))
  /\ WF_vars(SessionThread)
  /\ \A w \in Workers :
       /\ WF_vars(WorkerCallback(w))
       /\ WF_vars(PoolStep(w))
       /\ \A r \in Requests : WF_vars(RequestFinished(w, r))

Spec == Init /\ [][Next]_vars /\ Fairness

----------------------------------------------------------------------------
(* Properties *)

\* Types; the future of a request is set once at most, by whichever thread
\* answers it or gives up on it.
TypeOK ==
  /\ state \in {"CLOSED", "CONNECTING", "CONNECTED", "CLOSING"}
  /\ mutex \in BOOLEAN /\ woken \in BOOLEAN
  /\ {connect_future, close_future} \subseteq {"none", "unset", "set", "error"}
  /\ caller \in [Requests -> {"new", "checked", "returned"}]
  /\ answers \in [Requests -> {0, 1}] /\ in_flight \subseteq Requests
  /\ request_queue \in Seq(Requests \cup {NULL}) /\ Len(request_queue) <= QueueSize
  /\ pending_pool_count \in Nat /\ pending_workers_count \in 0..Cardinality(Workers)
  /\ worker \in [Workers -> {"READY", "CLOSING", "CLOSED"}]
  /\ worker_queue \in [Workers -> Seq(Requests \cup {NULL})]
  /\ \A w \in Workers : Len(worker_queue[w]) <= WorkerQueueSize
  /\ remaining \in [Workers -> -1..MaxPerFlush]
  /\ pool \in [Workers -> [Hosts -> NotReadyPools \cup {"READY"}]]

\* cass_session_close lets what is in flight finish: when the close future is
\* set, every request the connected session accepted has been answered.
InFlightFinishes ==
  close_future = "set" => \A r \in in_flight : answers[r] = 1

\* The connect future is set only after every pool of every worker has
\* connected or failed once: no notification is lost or counted twice.
ConnectedAfterAllPools ==
  connect_future = "set" =>
    \A w \in Workers : worker_events[w] = {} /\ Announced(w) = {}

(* What the documentation promises of concurrent use, and the code does not do. *)

\* Every cass_session_execute is answered, whatever another thread does to the
\* session at the same time.
EveryExecuteAnswered == \A r \in Requests : caller[r] = "returned" ~> answers[r] = 1
=============================================================================
