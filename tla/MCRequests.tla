----------------------------- MODULE MCRequests -----------------------------
(***************************************************************************)
(* What becomes of a request, for TLC: one in its worker, with one or two  *)
(* hosts to try and keyspaces that change, and those of a session, in four *)
(* sizes: more requests than a worker dequeues at a time, more than the    *)
(* queue of a worker takes, more workers than one, more hosts than one.    *)
(*                                                                         *)
(* A behaviour is one of one component; the variables of the others keep   *)
(* their initial values.                                                   *)
(***************************************************************************)
EXTENDS Request

CONSTANTS n1, n2, r1, r2, w1, w2, h1, h2, NULL

ASSUME Assumptions == RequestAssumption

MCPlans == {<<n1, n2>>, <<n1>>}

QueueSize == 2
MaxPerFlush == 1

VARIABLES
  component, state, mutex, connect_future, close_future, caller, set, in_flight, request_queue, woken,
  thread, events, control, pending_pool_count, pending_workers_count, worker, worker_queue,
  worker_woken, remaining, held, worker_events, pool, initial, reconnects

S == INSTANCE Session WITH answers <- set, Requests <- {r1, r2}, Workers <- {w1}, Hosts <- {h1},
                           WorkerQueueSize <- 2, MaxReconnects <- 1
F == INSTANCE Session WITH answers <- set, Requests <- {r1, r2}, Workers <- {w1}, Hosts <- {h1},
                           WorkerQueueSize <- 1, MaxReconnects <- 0
W == INSTANCE Session WITH answers <- set, Requests <- {r1}, Workers <- {w1, w2}, Hosts <- {h1},
                           WorkerQueueSize <- 1, MaxReconnects <- 0
H == INSTANCE Session WITH answers <- set, Requests <- {r1}, Workers <- {w1}, Hosts <- {h1, h2},
                           WorkerQueueSize <- 1, MaxReconnects <- 1

ASSUME SessionAssumptions ==
  S!SessionAssumption /\ F!SessionAssumption /\ W!SessionAssumption /\ H!SessionAssumption

sessionVars == <<state, mutex, connect_future, close_future, caller, set, in_flight, request_queue, woken,
                 thread, events, control, pending_pool_count, pending_workers_count, worker, worker_queue,
                 worker_woken, remaining, held, worker_events, pool, initial, reconnects>>

\* What is said of the session, by its size.
Of(r, f, w, h) ==
  \/ component \in {"request", "requests"} /\ r
  \/ component = "full" /\ f
  \/ component = "workers" /\ w
  \/ component = "hosts" /\ h

SessionInit ==
  \/ component \in {"request", "requests"} /\ S!Init
  \/ component = "full" /\ F!Init
  \/ component = "workers" /\ W!Init
  \/ component = "hosts" /\ H!Init

SessionNext ==
  \/ component = "requests" /\ S!Next
  \/ component = "full" /\ F!Next
  \/ component = "workers" /\ W!Next
  \/ component = "hosts" /\ H!Next

\* Of the initial states of Request one is enough beside a session.
Beside ==
  /\ retry_policy = "DEFAULT" /\ left = <<>> /\ ready = {}
  /\ keyspace = "k1" /\ \A n \in Nodes : conn_keyspace[n] = "k1"

AllInit == Init /\ SessionInit /\ (component # "request" => Beside)

\* A request that was answered is done, and one whose handler dropped an answer;
\* nothing else may stop.
Finished == phase \in {"done", "lost"} /\ UNCHANGED vars

AllNext ==
  /\ UNCHANGED component
  /\ \/ component = "request" /\ (Next \/ Finished) /\ UNCHANGED sessionVars
     \/ SessionNext /\ UNCHANGED vars

\* The fairness of the modules.
AllFairness ==
  /\ WF_vars(component = "request" /\ Progress)
  /\ WF_sessionVars(Of(S!CloseAsyncPushes, F!CloseAsyncPushes, W!CloseAsyncPushes, H!CloseAsyncPushes))
  /\ WF_sessionVars(Of(S!ExecuteEnqueues(r1), F!ExecuteEnqueues(r1), W!ExecuteEnqueues(r1), H!ExecuteEnqueues(r1)))
  /\ WF_sessionVars(Of(S!ExecuteEnqueues(r2), F!ExecuteEnqueues(r2), FALSE, FALSE))
  /\ WF_sessionVars(Of(S!SessionThread, F!SessionThread, W!SessionThread, H!SessionThread))
  /\ WF_sessionVars(Of(S!WorkerCallback(w1), F!WorkerCallback(w1), W!WorkerCallback(w1), H!WorkerCallback(w1)))
  /\ WF_sessionVars(Of(FALSE, FALSE, W!WorkerCallback(w2), FALSE))
  /\ WF_sessionVars(Of(S!PoolStep(w1), F!PoolStep(w1), W!PoolStep(w1), H!PoolStep(w1)))
  /\ WF_sessionVars(Of(FALSE, FALSE, W!PoolStep(w2), FALSE))
  /\ WF_sessionVars(Of(S!RequestFinished(w1, r1), F!RequestFinished(w1, r1), W!RequestFinished(w1, r1), H!RequestFinished(w1, r1)))
  /\ WF_sessionVars(Of(S!RequestFinished(w1, r2), F!RequestFinished(w1, r2), W!RequestFinished(w2, r1), FALSE))

AllSpec == AllInit /\ [][AllNext]_<<component, vars, sessionVars>> /\ AllFairness
-----------------------------------------------------------------------------
\* Closing waits for the requests in flight (Session::on_closed): when it is
\* done, every request the connected session accepted is answered.  And the
\* connect future is set only after each pool has connected or failed.
InFlightFinishes ==
  /\ Of(S!InFlightFinishes, F!InFlightFinishes, W!InFlightFinishes, H!InFlightFinishes)
  /\ Of(S!ConnectedAfterAllPools, F!ConnectedAfterAllPools, W!ConnectedAfterAllPools, H!ConnectedAfterAllPools)
  /\ Of(S!TypeOK, F!TypeOK, W!TypeOK, H!TypeOK)

\* IOWorker: every request a worker takes is answered in the end, or a handler was
\* given an answer for it that it drops: an ERROR to an agreement query, another
\* opcode than RESULT and ERROR to its USE or PREPARE.  Nothing else loses it.
RequestAnswered == <>(component = "request" => phase \in {"done", "lost"})

\* Session: connecting ends, closing ends, and every request that the connected
\* session accepted is answered: no queue, mutex or wake-up leaves a thread waiting.
SessionCompletes ==
  /\ connect_future = "unset" ~> connect_future # "unset"
  /\ close_future = "unset" ~> close_future = "set"
  /\ \A r \in {r1, r2} : r \in in_flight ~> (r \in in_flight => set[r] = 1)
=============================================================================
