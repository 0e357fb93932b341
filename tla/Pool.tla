-------------------------------- MODULE Pool --------------------------------
(***************************************************************************)
(* The connections of one I/O worker to one host (pool.cpp): connecting,   *)
(* handing connections to requests, requests that wait for a connection,   *)
(* the host's availability, partial reconnects, and closing.               *)
(*                                                                         *)
(* A pool lives on one event loop: a step is one callback, or one call of  *)
(* the worker.  A connection is modelled by what it tells the pool         *)
(* (Connection has the rest): its state, why it closes, and its streams.   *)
(* Every connection of the pool is in the worker's current keyspace.       *)
(***************************************************************************)
EXTENDS Integers, Sequences, FiniteSets, SequencesExt

CONSTANTS
  Connections,     \* connection objects; one is used again after it was deleted
  Requests,        \* RequestHandlers
  Core,            \* core_connections_per_host
  MaxConnections,  \* max_connections_per_host
  MaxCreation,     \* max_concurrent_creation
  Threshold,       \* max_concurrent_requests_threshold
  Streams,         \* stream ids of a connection
  LowWaterMark, HighWaterMark,  \* pending_requests_*_water_mark
  MaxFailures      \* bound: connections that fail by themselves

ASSUME PoolAssumption ==
  /\ IsFiniteSet(Connections) /\ IsFiniteSet(Requests)
  /\ {Core, MaxConnections, MaxCreation, Threshold, Streams} \subseteq Nat \ {0}
  /\ {LowWaterMark, HighWaterMark, MaxFailures} \subseteq Nat
  /\ Core <= MaxConnections /\ MaxConnections <= Cardinality(Connections)

VARIABLES
  state,                 \* state_
  connections,           \* connections_, in order
  connections_pending,   \* connections_pending_
  conn,                  \* connection -> its state, or "none" when there is no such object
  cause,                 \* connection -> why it closes
  streams,               \* connection -> pending_request_count()
  written,               \* connection -> requests written to it and not finished
  pending_requests,      \* pending_requests_
  available_connection_count,
  is_available,          \* is_available_, and the host's entry in the worker
  timer,                 \* connect_timer: "none", "wait" or "partial"
  is_critical_failure,
  cancel_reconnect,
  notices,               \* what was notified: how often ready, how often closed
  left,                  \* requests that are done with the pool
  failures               \* connections that failed by themselves

pool == <<state, timer, is_critical_failure, cancel_reconnect, notices>>
conns == <<connections, connections_pending, conn, cause, streams, written>>
avail == <<available_connection_count, is_available>>
requests == <<pending_requests, left>>
vars == <<pool, conns, avail, requests, failures>>

Closing == {"CLOSING", "CLOSED"}
Open(list, pending) == Range(list) \cup pending
Unused == {c \in Connections : conn[c] = "none"}
\* New connection objects: which ones does not matter.
Fresh(n) == CHOOSE new \in SUBSET Unused : Cardinality(new) = n
Count(condition) == IF condition THEN 1 ELSE 0
\* The list s once e was found in it and erased.
Without(s, e) == IF e \in Range(s) THEN RemoveAt(s, CHOOSE i \in DOMAIN s : s[i] = e) ELSE s

Init ==
  /\ state = "NEW" /\ timer = "none"
  /\ is_critical_failure = FALSE /\ cancel_reconnect = FALSE
  /\ notices = [ready |-> 0, closed |-> 0]
  /\ connections = <<>> /\ connections_pending = {}
  /\ conn = [c \in Connections |-> "none"]
  /\ cause = [c \in Connections |-> "none"]
  /\ streams = [c \in Connections |-> 0]
  /\ written = [c \in Connections |-> {}]
  /\ available_connection_count = 0 /\ is_available = FALSE
  /\ pending_requests = <<>> /\ left = {}
  /\ failures = 0

----------------------------------------------------------------------------
(* Connecting *)

\* spawn_connection for each of the connections in new.
Spawn(new) ==
  /\ connections_pending' = connections_pending \cup new
  /\ conn' = [c \in Connections |-> IF c \in new THEN "CONNECTING" ELSE conn[c]]

\* connect, from add_pool or from the timer of a delayed connect.
Connect ==
  /\ state \in {"NEW", "WAITING_TO_CONNECT"}
  /\ Spawn(Fresh(Core))
  /\ state' = "CONNECTING"
  /\ timer' = "none"
  /\ UNCHANGED <<is_critical_failure, cancel_reconnect, notices, connections, cause, streams,
                 written, avail, requests, failures>>

DelayedConnect ==
  /\ state = "NEW"
  /\ state' = "WAITING_TO_CONNECT"
  /\ timer' = "wait"
  /\ UNCHANGED <<is_critical_failure, cancel_reconnect, notices, conns, avail, requests, failures>>

\* Faulty: one connection less than is missing.
OnPartialReconnectOneLess ==
  /\ timer = "partial"
  /\ timer' = "none"
  /\ LET current == Len(connections) + Cardinality(connections_pending)
         need == IF current < Core - 1 /\ state \notin Closing THEN Core - 1 - current ELSE 0
     IN Spawn(Fresh(need))
  /\ UNCHANGED <<state, is_critical_failure, cancel_reconnect, notices, connections, cause, streams,
                 written, avail, requests, failures>>

\* Faulty: a pool that is closing opens connections.
OnPartialReconnectAnyway ==
  /\ timer = "partial"
  /\ timer' = "none"
  /\ LET current == Len(connections) + Cardinality(connections_pending)
         need == IF current < Core THEN Core - current ELSE 0
     IN Spawn(Fresh(need))
  /\ UNCHANGED <<state, is_critical_failure, cancel_reconnect, notices, connections, cause, streams,
                 written, avail, requests, failures>>

\* on_partial_reconnect: back to the core connections; a pool that is closing
\* spawns none.
OnPartialReconnect ==
  /\ timer = "partial"
  /\ timer' = "none"
  /\ LET current == Len(connections) + Cardinality(connections_pending)
         need == IF current < Core /\ state \notin Closing THEN Core - current ELSE 0
     IN Spawn(Fresh(need))
  /\ UNCHANGED <<state, is_critical_failure, cancel_reconnect, notices, connections, cause, streams,
                 written, avail, requests, failures>>

\* maybe_notify_ready, given the connections that are still pending.
MaybeNotifyReady(pending) ==
  /\ state' = IF state = "CONNECTING" /\ pending = {} THEN "READY" ELSE state
  /\ notices' = [notices EXCEPT !.ready = @ + Count(state' # state)]

----------------------------------------------------------------------------
(* Requests and availability *)

\* set_is_available(true): only with a connection that is available and few
\* enough requests waiting.
AvailableAgain(count, waiting) ==
  is_available \/ (count > 0 /\ Len(waiting) < LowWaterMark)

\* Connection::write, which may find its buffer over the high water mark: the
\* connection is overwhelmed, and with the last one the host is unavailable.
\* The connections in new were spawned just before.
WriteTo(c, r, count, available, new) ==
  \E overwhelmed \in BOOLEAN :
    /\ streams' = [streams EXCEPT ![c] = @ + 1]
    /\ written' = [written EXCEPT ![c] = @ \cup {r}]
    /\ conn' = [x \in Connections |->
         IF x = c THEN (IF overwhelmed THEN "OVERWHELMED" ELSE "READY")
         ELSE IF x \in new THEN "CONNECTING" ELSE conn[x]]
    /\ available_connection_count' = count - Count(overwhelmed)
    /\ is_available' = (available /\ available_connection_count' > 0)

\* return_connection on a connection that is ready: the request that waited
\* longest is written to it.
ReturnConnection(c, count) ==
  \/ /\ pending_requests = <<>>
     /\ available_connection_count' = count
     /\ is_available' = AvailableAgain(count, pending_requests)
     /\ conn' = [conn EXCEPT ![c] = "READY"]
     /\ UNCHANGED <<streams, written, pending_requests>>
  \/ /\ pending_requests # <<>>
     /\ pending_requests' = Tail(pending_requests)
     /\ WriteTo(c, Head(pending_requests), count, AvailableAgain(count, Tail(pending_requests)), {})

\* A connection is set up: on_availability_change, then on_ready.
OnReady(c) ==
  /\ conn[c] = "CONNECTING"
  /\ connections_pending' = connections_pending \ {c}
  /\ connections' = Append(connections, c)
  /\ ReturnConnection(c, available_connection_count + 1)
  /\ MaybeNotifyReady(connections_pending')
  /\ UNCHANGED <<timer, is_critical_failure, cancel_reconnect, cause, left, failures>>

\* The write buffer of a connection drains: on_availability_change.
OnRelieved(c) ==
  /\ conn[c] = "OVERWHELMED"
  /\ conn' = [conn EXCEPT ![c] = "READY"]
  /\ available_connection_count' = available_connection_count + 1
  /\ is_available' = AvailableAgain(available_connection_count', pending_requests)
  /\ UNCHANGED <<pool, connections, connections_pending, cause, streams, written, requests, failures>>

\* find_least_busy: the first connection with the fewest requests, if it can
\* take one more.
IsLeastBusy(i) ==
  /\ \A j \in DOMAIN connections : streams[connections[i]] <= streams[connections[j]]
  /\ \A j \in DOMAIN connections : j < i => streams[connections[i]] < streams[connections[j]]
CanTake(c) == conn[c] = "READY" /\ streams[c] < Streams

\* maybe_spawn_connection: the connections it spawns, one or none.
MaybeSpawned ==
  IF /\ Cardinality(connections_pending) < MaxCreation
     /\ Len(connections) + Cardinality(connections_pending) < MaxConnections
  THEN Fresh(1) ELSE {}

Elsewhere(r) ==
  r \notin left \cup Range(pending_requests) \cup UNION {written[c] : c \in Connections}

\* IOWorker::retry on a pool that is ready, when borrow_connection gives a
\* connection.  (A pool that is ready has one: ReadyPoolIsConnected.)
Borrow(r) ==
  /\ state = "READY" /\ Elsewhere(r)
  /\ \E i \in DOMAIN connections :
       LET c == connections[i] IN
         /\ IsLeastBusy(i) /\ CanTake(c)
         /\ LET new == IF streams[c] >= Threshold THEN MaybeSpawned ELSE {} IN
              /\ connections_pending' = connections_pending \cup new
              /\ WriteTo(c, r, available_connection_count, is_available, new)
  /\ UNCHANGED <<pool, connections, cause, requests, failures>>

\* IOWorker::retry of a request that failed on another host, its connection
\* closing: on_error then returns "its" connection, by now the one it got here,
\* and the request that waited longest is written to that one as well, or goes
\* to the next host when every stream is in use.
BorrowAndPass(r) ==
  /\ state = "READY" /\ Elsewhere(r)
  /\ pending_requests # <<>>
  /\ pending_requests' = Tail(pending_requests)
  /\ \E i \in DOMAIN connections, overwhelmed \in BOOLEAN :
       LET c == connections[i]
           next == Head(pending_requests)
           new == IF streams[c] >= Threshold THEN MaybeSpawned ELSE {}
           fits == streams[c] + 1 < Streams
       IN /\ IsLeastBusy(i) /\ CanTake(c)
          /\ overwhelmed => fits
          /\ connections_pending' = connections_pending \cup new
          /\ streams' = [streams EXCEPT ![c] = @ + 1 + Count(fits)]
          /\ written' = [written EXCEPT ![c] = @ \cup (IF fits THEN {r, next} ELSE {r})]
          /\ left' = IF fits THEN left ELSE left \cup {next}
          /\ conn' = [x \in Connections |->
               IF x = c THEN (IF overwhelmed THEN "OVERWHELMED" ELSE "READY")
               ELSE IF x \in new THEN "CONNECTING" ELSE conn[x]]
          /\ available_connection_count' = available_connection_count - Count(overwhelmed)
          /\ is_available' = (/\ AvailableAgain(available_connection_count, pending_requests')
                              /\ available_connection_count' > 0)
  /\ UNCHANGED <<pool, connections, cause, failures>>

\* The least busy connection cannot take the request, whatever the others
\* could: wait_for_connection.  Too many waiting make the host unavailable.
WaitForConnection(r) ==
  /\ state = "READY" /\ Elsewhere(r)
  /\ \E i \in DOMAIN connections : IsLeastBusy(i) /\ ~CanTake(connections[i])
  /\ Spawn(MaybeSpawned)
  /\ pending_requests' = Append(pending_requests, r)
  /\ is_available' = (is_available /\ Len(pending_requests') <= HighWaterMark)
  /\ UNCHANGED <<pool, connections, cause, streams, written, available_connection_count, left,
                 failures>>

\* Faulty: stays in pending_requests_.
OnPendingRequestTimeoutKeeps(r) ==
  /\ r \in Range(pending_requests)
  /\ is_available' = AvailableAgain(available_connection_count, pending_requests)
  /\ left' = left \cup {r}
  /\ UNCHANGED <<pool, conns, available_connection_count, pending_requests, failures>>

\* on_pending_request_timeout: the request goes to the next host.
OnPendingRequestTimeout(r) ==
  /\ r \in Range(pending_requests)
  /\ pending_requests' = Without(pending_requests, r)
  /\ is_available' = AvailableAgain(available_connection_count, pending_requests')
  /\ left' = left \cup {r}
  /\ UNCHANGED <<pool, conns, available_connection_count, failures>>

\* The streams in use once a request ends: a timeout leaves its stream in use.
StreamsAfter(c, timed_out) == streams[c] - Count(~timed_out)

\* The connection is returned but not ready, or nobody waits.
Finish(c, r) ==
  /\ conn[c] # "READY" \/ pending_requests = <<>>
  /\ r \in written[c]
  /\ \E timed_out \in BOOLEAN :
       streams' = [streams EXCEPT ![c] = StreamsAfter(c, timed_out)]
  /\ written' = [written EXCEPT ![c] = @ \ {r}]
  /\ left' = left \cup {r}
  /\ UNCHANGED <<pool, connections, connections_pending, conn, cause, avail, pending_requests,
                 failures>>

\* The connection is returned, and the request that waited longest gets it, or
\* goes to the next host when every stream is in use.
FinishAndPass(c, r) ==
  /\ r \in written[c]
  /\ conn[c] = "READY" /\ pending_requests # <<>>
  /\ pending_requests' = Tail(pending_requests)
  /\ LET next == Head(pending_requests)
         count == available_connection_count
         available == AvailableAgain(count, pending_requests')
     IN \E timed_out, overwhelmed \in BOOLEAN :
          \/ /\ StreamsAfter(c, timed_out) < Streams
             /\ streams' = [streams EXCEPT ![c] = StreamsAfter(c, timed_out) + 1]
             /\ written' = [written EXCEPT ![c] = (@ \ {r}) \cup {next}]
             /\ conn' = [conn EXCEPT ![c] = IF overwhelmed THEN "OVERWHELMED" ELSE @]
             /\ available_connection_count' = count - Count(overwhelmed)
             /\ is_available' = (available /\ available_connection_count' > 0)
             /\ left' = left \cup {r}
          \/ /\ StreamsAfter(c, timed_out) = Streams
             /\ written' = [written EXCEPT ![c] = @ \ {r}]
             /\ is_available' = available
             /\ left' = left \cup {r, next}
             /\ UNCHANGED <<streams, conn, available_connection_count>>
  /\ UNCHANGED <<pool, connections, connections_pending, cause, failures>>

\* The retry policy decides to try again: the connection is not returned.
Retry(c, r) ==
  /\ r \in written[c] /\ conn[c] # "CLOSING"
  /\ streams' = [streams EXCEPT ![c] = @ - 1]
  /\ written' = [written EXCEPT ![c] = @ \ {r}]
  /\ UNCHANGED <<pool, connections, connections_pending, conn, cause, avail, requests, failures>>

\* The response to a request that had timed out.
LateResponse(c) ==
  /\ conn[c] \in {"READY", "OVERWHELMED"} /\ streams[c] > Cardinality(written[c])
  /\ streams' = [streams EXCEPT ![c] = @ - 1]
  /\ UNCHANGED <<pool, connections, connections_pending, conn, cause, written, avail, requests,
                 failures>>

----------------------------------------------------------------------------
(* Closing *)

\* Pool::close and maybe_close, given the connections there are.  Only the
\* first call closes them and notifies that a pool that was connecting is
\* "ready".  When none is left the pool is closed and deleted; its destructor
\* sends the requests that wait to the next host.
ClosePool(list, pending, cancel) ==
  LET open == Open(list, pending)
      first == state \notin Closing
      closing == IF first THEN {c \in open : conn[c] # "CLOSING"} ELSE {}
      count == available_connection_count - Cardinality({c \in closing : conn[c] = "READY"})
  IN /\ state' = IF open = {} THEN "CLOSED" ELSE "CLOSING"
     /\ notices' = [ready |-> notices.ready + Count(state = "CONNECTING"),
                    closed |-> notices.closed + Count(open = {})]
     /\ timer' = IF first \/ open = {} THEN "none" ELSE timer
     /\ cancel_reconnect' = IF first THEN cancel ELSE cancel_reconnect
     /\ conn' = [c \in Connections |-> IF c \in closing THEN "CLOSING"
                                       ELSE IF c \in open THEN conn[c] ELSE "none"]
     /\ cause' = [c \in Connections |-> IF c \in closing THEN "close"
                                        ELSE IF c \in open THEN cause[c] ELSE "none"]
     /\ available_connection_count' = count
     /\ is_available' = FALSE
     /\ pending_requests' = IF open = {} THEN <<>> ELSE pending_requests

Dropped(list, pending) == IF Open(list, pending) = {} THEN Range(pending_requests) ELSE {}

\* close, for the worker: REMOVE_POOL, or the worker is closing.
Close(cancel) ==
  /\ state \notin Closing
  /\ ClosePool(connections, connections_pending, cancel)
  /\ left' = left \cup Dropped(connections, connections_pending)
  /\ UNCHANGED <<is_critical_failure, connections, connections_pending, streams, written, failures>>

\* Faulty: a connection that was not available is counted as lost.
ConnectionFailsCounted(c, why) ==
  /\ conn[c] \in {"CONNECTING", "READY", "OVERWHELMED"}
  /\ failures < MaxFailures
  /\ failures' = failures + 1
  /\ conn' = [conn EXCEPT ![c] = "CLOSING"]
  /\ cause' = [cause EXCEPT ![c] = why]
  /\ available_connection_count' = available_connection_count - 1
  /\ is_available' = (is_available /\ available_connection_count' > 0)
  /\ UNCHANGED <<pool, connections, connections_pending, streams, written, requests>>

\* A connection becomes defunct: by a timeout, by an error after which it is
\* useless to try again (critical), or by any other error.
ConnectionFails(c, why) ==
  /\ conn[c] \in {"CONNECTING", "READY", "OVERWHELMED"}
  /\ failures < MaxFailures
  /\ failures' = failures + 1
  /\ conn' = [conn EXCEPT ![c] = "CLOSING"]
  /\ cause' = [cause EXCEPT ![c] = why]
  /\ available_connection_count' = available_connection_count - Count(conn[c] = "READY")
  /\ is_available' = (is_available /\ available_connection_count' > 0)
  /\ UNCHANGED <<pool, connections, connections_pending, streams, written, requests>>

\* A connection that timed out does not close the pool if others are left.
StaysOpen(c) == cause[c] = "timeout" /\ connections' # <<>>

\* on_close of a connection, which has given up its requests: a
\* reconnect is scheduled, or the pool is closed.
OnClose(c) ==
  /\ conn[c] = "CLOSING"
  /\ connections' = Without(connections, c)
  /\ connections_pending' = connections_pending \ {c}
  /\ streams' = [streams EXCEPT ![c] = 0]
  /\ written' = [written EXCEPT ![c] = {}]
  /\ \/ /\ StaysOpen(c)
        /\ timer' = IF timer = "none" THEN "partial" ELSE timer
        /\ MaybeNotifyReady(connections_pending')
        /\ conn' = [conn EXCEPT ![c] = "none"]
        /\ cause' = [cause EXCEPT ![c] = "none"]
        /\ left' = left \cup written[c]
        /\ UNCHANGED <<is_critical_failure, cancel_reconnect, avail, pending_requests>>
     \/ /\ ~StaysOpen(c)
        /\ is_critical_failure' = (is_critical_failure \/ cause[c] = "critical")
        /\ ClosePool(connections', connections_pending', FALSE)
        /\ left' = left \cup written[c] \cup Dropped(connections', connections_pending')
  /\ UNCHANGED failures

----------------------------------------------------------------------------
ConnectionSteps(c) ==
  \/ OnReady(c) \/ OnClose(c)
  \/ \E why \in {"timeout", "critical", "error"} : ConnectionFails(c, why)

\* The pool is deleted.
Done == state = "CLOSED" /\ UNCHANGED vars

Next ==
  \/ Connect \/ DelayedConnect \/ OnPartialReconnect
  \/ \E cancel \in BOOLEAN : Close(cancel)
  \/ \E c \in Connections : ConnectionSteps(c) \/ OnRelieved(c) \/ LateResponse(c)
  \/ \E r \in Requests :
       \/ Borrow(r) \/ BorrowAndPass(r) \/ WaitForConnection(r) \/ OnPendingRequestTimeout(r)
       \/ \E c \in Connections : Finish(c, r) \/ FinishAndPass(c, r) \/ Retry(c, r)
  \/ Done

\* The event loop runs the timers and the callbacks: a connection becomes
\* ready or fails, one that is closing is closed, a delayed connect connects.
Fairness ==
  /\ WF_vars(timer = "wait" /\ Connect)
  /\ \A c \in Connections : WF_vars(ConnectionSteps(c) /\ conn[c] \in {"CONNECTING", "CLOSING"})

Spec == Init /\ [][Next]_vars /\ Fairness

----------------------------------------------------------------------------
(* Properties *)

\* Types; a connection object is in one list of the pool exactly as long as it
\* exists, and the pool has no more of them than configured.
TypeOK ==
  /\ state \in {"NEW", "CONNECTING", "WAITING_TO_CONNECT", "READY"} \cup Closing
  /\ connections \in Seq(Connections) /\ connections_pending \subseteq Connections
  /\ conn \in [Connections -> {"none", "CONNECTING", "READY", "OVERWHELMED", "CLOSING"}]
  /\ \A c \in Connections : conn[c] # "none" <=> c \in Open(connections, connections_pending)
  /\ Range(connections) \cap connections_pending = {}
  /\ Len(connections) = Cardinality(Range(connections))
  /\ Len(connections) + Cardinality(connections_pending) <= MaxConnections
  /\ cause \in [Connections -> {"none", "close", "timeout", "critical", "error"}]
  /\ streams \in [Connections -> 0..Streams]
  /\ written \in [Connections -> SUBSET Requests]
  /\ pending_requests \in Seq(Requests) /\ left \subseteq Requests
  /\ available_connection_count \in Nat /\ is_available \in BOOLEAN
  /\ timer \in {"none", "wait", "partial"}
  /\ {is_critical_failure, cancel_reconnect} \subseteq BOOLEAN
  /\ failures \in 0..MaxFailures

\* The pool counts its available connections right through all the callbacks,
\* and offers the host to the session only while one of them is available.
AvailabilityExact ==
  /\ available_connection_count = Cardinality({c \in Connections : conn[c] = "READY"})
  /\ is_available => available_connection_count > 0 /\ state \notin Closing

\* A pool that is ready has a connection to borrow from: when the last one
\* goes, the pool is closed.
ReadyPoolIsConnected == state = "READY" => connections # <<>>

\* The worker hears once that the pool is ready (or never will be) and once
\* that it is closed: the session's count of pending pools depends on it.
NotifiedOnce ==
  /\ notices.ready <= 1 /\ notices.closed <= 1
  /\ notices.ready = 1 => state \in {"READY"} \cup Closing
  /\ notices.closed = 1 <=> state = "CLOSED"

\* Pool: its counters agree with its connections, a pool that is ready has a
\* connection, and its worker is told of that once.
PoolConsistent == TypeOK /\ AvailabilityExact /\ ReadyPoolIsConnected /\ NotifiedOnce

\* A pool that connects or is ready has its core connections, those on their
\* way up or down among them, or a reconnect is scheduled.
ReconnectScheduled ==
  state \in {"CONNECTING", "READY"} =>
    Len(connections) + Cardinality(connections_pending) >= Core \/ timer = "partial"

\* A request is in one place, and none is left in a pool that is deleted.
RequestInOnePlace ==
  /\ \A r \in Requests :
       Cardinality({c \in Connections : r \in written[c]})
         + Cardinality({i \in DOMAIN pending_requests : pending_requests[i] = r})
         + Count(r \in left) <= 1
  /\ state = "CLOSED" => pending_requests = <<>> /\ \A c \in Connections : written[c] = {}

\* Closing completes.
CloseCompletes == state = "CLOSING" ~> state = "CLOSED"

\* The worker is told of the outcome of connecting, and a pool that waits to
\* connect does so, unless it is closed first.
ConnectCompletes ==
  /\ state = "WAITING_TO_CONNECT" ~> state \in {"CONNECTING", "CLOSED"}
  /\ state = "CONNECTING" ~> notices.ready = 1

=============================================================================
