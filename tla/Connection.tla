----------------------------- MODULE Connection -----------------------------
(***************************************************************************)
(* One connection of the driver (connection.cpp) and the handlers that are *)
(* written to it (handler.cpp): the start-up exchange, the coalesced       *)
(* writes, the responses matched to requests by stream id, the request     *)
(* timers, heartbeats, and closing.                                        *)
(*                                                                         *)
(* A connection lives on one event loop, so its callbacks do not overlap;  *)
(* "callback" is the one that is running, and a callback that works        *)
(* through a list of handlers or of responses takes one step for each.     *)
(* What is hard is the order in which libuv calls back: a response may be  *)
(* read before the callback of the write that sent the request, a timer    *)
(* may fire before either, and closing cancels what is outstanding.        *)
(*                                                                         *)
(* RequestHandlers are modelled up to what they do to their connection:    *)
(* finishing (the client's future is set and the owner's reference is      *)
(* dropped) or retrying, after which the handler is new again and may be   *)
(* written here or finish on some other connection.                        *)
(***************************************************************************)
EXTENDS Integers, Sequences, FiniteSets

CONSTANTS
  Requests,        \* RequestHandlers
  Heartbeats,      \* HeartbeatHandlers (bound on those alive at a time)
  Streams,         \* stream ids
  HighWaterMark,   \* write_bytes_high_water_mark, in requests
  LowWaterMark,    \* write_bytes_low_water_mark, in requests
  MaxRetries,      \* bound: how often the retry policy decides to retry, in all
  EventTypes,      \* listener_->event_types() # 0
  HasKeyspace,     \* keyspace_ is not empty
  HasAuthProvider, \* config_.auth_provider() gives an authenticator
  None             \* no handler is to be written next

Startup == {"options", "startup", "auth", "auth2", "register", "use"}
Handlers == Requests \cup Heartbeats \cup Startup

ASSUME ConnectionAssumption ==
  /\ IsFiniteSet(Handlers)
  /\ Streams \subseteq Nat
  /\ HighWaterMark \in Nat \ {0} /\ LowWaterMark \in Nat
  /\ MaxRetries \in Nat
  /\ {EventTypes, HasKeyspace, HasAuthProvider} \subseteq BOOLEAN
  /\ Requests \cap Heartbeats = {} /\ (Requests \cup Heartbeats) \cap Startup = {}
  /\ None \notin Handlers

VARIABLES
  conn,                   \* state_, or "CLOSED" once deleted, or "INVALID" after a failed assert
  connect_timer,          \* connect_timer_ is running
  callback,               \* the callback that is running, and what it has left to write
  queued,                 \* the last PendingWrite, when it is not flushed yet
  writes,                 \* the flushed PendingWrites, oldest first
  pending_writes_size,    \* pending_writes_size_
  pending_reads,          \* pending_reads_
  pending,                \* stream_manager_: stream id in use -> handler
  wire,                   \* requests on the way to the server or waiting for its answer
  state,                  \* handler -> its state_, or "INVALID" after a failed assert
  stream,                 \* handler -> its stream_
  timer,                  \* handler -> its timer_ is running
  refs,                   \* handler -> its reference count
  finished,               \* request -> how often its future was set
  retries,                \* how often requests were retried
  heartbeat_outstanding,  \* heartbeat_outstanding_
  idle                    \* idle_start_time_ms_ # 0

lists == <<queued, writes, pending_writes_size, pending_reads>>
streams == <<pending, wire>>
handlers == <<state, stream, timer, refs, finished, retries>>
heartbeat == <<heartbeat_outstanding, idle>>
vars == <<conn, connect_timer, callback, lists, streams, handlers, heartbeat>>

----------------------------------------------------------------------------
(* State machines of a handler and of a connection *)

HandlerStates ==
  {"NEW", "WRITING", "READING", "TIMEOUT", "TIMEOUT_WRITE_OUTSTANDING",
   "READ_BEFORE_WRITE", "RETRY_WRITE_OUTSTANDING", "DONE"}

\* Handler::set_state: the state reached, "INVALID" where the code asserts.
HandlerState(old, new) ==
  CASE old = "NEW" /\ new \in {"NEW", "WRITING"} -> new
    [] old = "WRITING" /\ new \in {"READING", "READ_BEFORE_WRITE", "DONE"} -> new
    [] old = "WRITING" /\ new = "TIMEOUT" -> "TIMEOUT_WRITE_OUTSTANDING"
    [] old = "READING" /\ new \in {"DONE", "TIMEOUT"} -> new
    [] old = "TIMEOUT" /\ new = "DONE" -> new
    [] old = "TIMEOUT_WRITE_OUTSTANDING" /\ new \in {"TIMEOUT", "READ_BEFORE_WRITE"} -> new
    [] old = "READ_BEFORE_WRITE" /\ new \in {"DONE", "RETRY_WRITE_OUTSTANDING"} -> new
    [] old = "RETRY_WRITE_OUTSTANDING" /\ new = "NEW" -> new
    [] old = "DONE" /\ new = "NEW" -> new
    [] OTHER -> "INVALID"

\* set_state stops the timer itself on the way out of WRITING and READING.
KeepsTimer(old, new) ==
  ~(old \in {"WRITING", "READING"} /\ new \in {"READ_BEFORE_WRITE", "DONE"})

Closing == {"CLOSE", "CLOSE_DEFUNCT"}
Open == {"CONNECTED", "REGISTERING_EVENTS", "READY", "OVERWHELMED"}
ConnStates == {"NEW", "CONNECTING", "CLOSED"} \cup Open \cup Closing

ConnTransitions ==
  {<<"NEW", "CONNECTING">>}
    \cup ({"CONNECTING"} \X ({"CONNECTED"} \cup Closing))
    \cup ({"CONNECTED"} \X ({"REGISTERING_EVENTS", "READY"} \cup Closing))
    \cup ({"REGISTERING_EVENTS", "OVERWHELMED"} \X ({"READY"} \cup Closing))
    \cup ({"READY"} \X ({"OVERWHELMED"} \cup Closing))

\* Connection::set_state.
ConnState(old, new) ==
  IF old = new \/ <<old, new>> \in ConnTransitions THEN new ELSE "INVALID"

NoCallback == [kind |-> "none"]
Reading == [kind |-> "read"]
Consuming(next) == [kind |-> "consume", write |-> next]
OnWrite(ok) == [kind |-> "on_write", ok |-> ok]
Quiet == callback = NoCallback /\ conn # "CLOSED"

\* internal_close with CONNECTION_STATE_CLOSE_DEFUNCT; a connection that is
\* closing already stays as it is.  Nothing is read from the socket any more.
Defunct ==
  /\ conn' = IF conn \in Closing THEN conn ELSE ConnState(conn, "CLOSE_DEFUNCT")
  /\ connect_timer' = FALSE

NoWrite == [handlers |-> {}, size |-> 0]
Listed == queued.handlers \cup pending_reads
            \cup UNION {writes[i].handlers : i \in DOMAIN writes}

With(f, s, x) == [t \in DOMAIN f \cup {s} |-> IF t = s THEN x ELSE f[t]]
Without(f, s) == [t \in DOMAIN f \ {s} |-> f[t]]

Init ==
  /\ conn = "NEW" /\ connect_timer = FALSE /\ callback = NoCallback
  /\ queued = NoWrite /\ writes = <<>> /\ pending_writes_size = 0 /\ pending_reads = {}
  /\ pending \in [{} -> Handlers] /\ wire = {}
  /\ state = [h \in Handlers |-> "NEW"]
  /\ stream = [h \in Handlers |-> -1]
  /\ timer = [h \in Handlers |-> FALSE]
  /\ refs = [h \in Handlers |-> IF h \in Requests THEN 1 ELSE 0]
  /\ finished = [h \in Requests |-> 0]
  /\ retries = 0
  /\ heartbeat_outstanding = FALSE /\ idle = FALSE

----------------------------------------------------------------------------
(* Writing *)

\* Bytes are counted in client requests: the driver's own requests are tens
\* of bytes, the water marks tens of thousands.
Size(h) == IF h \in Requests THEN 1 ELSE 0

\* PendingWrite::flush hands the last PendingWrite to uv_write.  On a closed
\* socket uv_write fails and its callback never comes: the handlers stay in
\* the list until on_close.
Flush(q, w) ==
  IF q.handlers = {} \/ conn \in Closing
  THEN queued' = q /\ writes' = w /\ UNCHANGED wire
  ELSE /\ queued' = NoWrite
       /\ writes' = Append(w, q)
       /\ wire' = wire \cup {<<stream'[h], h>> : h \in q.handlers}

\* internal_write, once a stream id was acquired and the request encoded.
\* A handler without references is a new object.
InternalWrite(h, flush_immediately) ==
  /\ \E s \in Streams \ DOMAIN pending :
       /\ pending' = With(pending, s, h)
       /\ stream' = [stream EXCEPT ![h] = s]
  /\ refs' = [refs EXCEPT ![h] = @ + 1]
  /\ pending_writes_size' = pending_writes_size + Size(h)
  /\ conn' = IF pending_writes_size' > HighWaterMark
             THEN ConnState(conn, "OVERWHELMED") ELSE conn
  /\ state' = [state EXCEPT ![h] = HandlerState(IF refs[h] = 0 THEN "NEW" ELSE @, "WRITING")]
  /\ timer' = [timer EXCEPT ![h] = TRUE]
  /\ LET q == [handlers |-> queued.handlers \cup {h}, size |-> queued.size + Size(h)] IN
       IF flush_immediately THEN Flush(q, writes)
       ELSE queued' = q /\ UNCHANGED <<writes, wire>>
  /\ UNCHANGED <<pending_reads, finished, retries>>

\* Pool::write puts a request on a connection that is ready and has an id left.
Write(h) ==
  /\ conn = "READY"
  /\ state[h] = "NEW" /\ finished[h] = 0
  /\ InternalWrite(h, FALSE)
  /\ idle' = FALSE
  /\ UNCHANGED <<connect_timer, callback, heartbeat_outstanding>>

\* Faulty: the error path keeps the id.
WriteEncodeErrorLeaks(h) ==
  /\ conn = "READY"
  /\ state[h] = "NEW" /\ finished[h] = 0
  /\ \E s \in Streams \ DOMAIN pending :
       stream' = [stream EXCEPT ![h] = s] /\ pending' = With(pending, s, h)
  /\ finished' = [finished EXCEPT ![h] = @ + 1]
  /\ refs' = [refs EXCEPT ![h] = @ - 1]
  /\ UNCHANGED <<conn, connect_timer, callback, lists, wire, state, timer, retries, heartbeat>>

\* The request cannot be encoded: its id is released and its future set.
WriteEncodeError(h) ==
  /\ conn = "READY"
  /\ state[h] = "NEW" /\ finished[h] = 0
  /\ \E s \in Streams \ DOMAIN pending : stream' = [stream EXCEPT ![h] = s]
  /\ finished' = [finished EXCEPT ![h] = @ + 1]
  /\ refs' = [refs EXCEPT ![h] = @ - 1]
  /\ UNCHANGED <<conn, connect_timer, callback, lists, streams, state, timer, retries, heartbeat>>

\* The request is answered, or given up, without this connection.
FinishElsewhere(h) ==
  /\ state[h] = "NEW" /\ finished[h] = 0
  /\ finished' = [finished EXCEPT ![h] = @ + 1]
  /\ refs' = [refs EXCEPT ![h] = @ - 1]
  /\ UNCHANGED <<conn, connect_timer, callback, lists, streams, state, stream, timer, retries, heartbeat>>

\* Pool::flush, from the prepare callback of the event loop.
FlushQueued ==
  /\ Quiet
  /\ queued # NoWrite /\ conn \notin Closing
  /\ UNCHANGED <<conn, connect_timer, callback, pending_writes_size, pending_reads,
                 pending, handlers, heartbeat>>
  /\ Flush(queued, writes)

\* The start-up request that the running callback still has to send.
WriteStartup ==
  /\ callback.kind = "consume" /\ callback.write # None
  /\ InternalWrite(callback.write, TRUE)
  /\ callback' = Consuming(None)
  /\ idle' = FALSE
  /\ UNCHANGED <<connect_timer, heartbeat_outstanding>>

----------------------------------------------------------------------------
(* Write callbacks *)

\* uv reports the oldest write: done, or failed.  Writes that are outstanding
\* when the socket is closed are cancelled, those that had completed are not.
OnWriteBegins ==
  /\ Quiet
  /\ writes # <<>>
  /\ \E ok \in BOOLEAN : callback' = OnWrite(ok)
  /\ UNCHANGED <<conn, connect_timer, lists, streams, handlers, heartbeat>>

\* The body of the loop in PendingWriteBase::on_write for the handler h.
Outstanding(h) ==
  /\ callback.kind = "on_write"
  /\ h \in Head(writes).handlers
  /\ writes' = [writes EXCEPT ![1].handlers = @ \ {h}]
  /\ UNCHANGED <<callback, queued, pending_writes_size, stream, finished, retries, idle>>

\* The request is on its way: it waits for its response, still timed.
OnWriteWritten(h) ==
  /\ Outstanding(h)
  /\ state[h] = "WRITING" /\ callback.ok
  /\ state' = [state EXCEPT ![h] = HandlerState(@, "READING")]
  /\ pending_reads' = pending_reads \cup {h}
  /\ UNCHANGED <<conn, connect_timer, streams, timer, refs, heartbeat_outstanding>>

\* on_error(CASS_ERROR_LIB_WRITE_ERROR): a request is retried on the next
\* host, the failure of a heartbeat is only noted.
OnWriteFailed(h) ==
  /\ Outstanding(h)
  /\ state[h] = "WRITING" /\ ~callback.ok
  /\ Defunct
  /\ wire' = {}
  /\ pending' = Without(pending, stream[h])
  /\ timer' = [timer EXCEPT ![h] = FALSE]
  /\ state' = [state EXCEPT ![h] =
       IF h \in Requests THEN HandlerState(HandlerState(@, "DONE"), "NEW")
       ELSE HandlerState(@, "DONE")]
  /\ refs' = [refs EXCEPT ![h] = @ - 1]
  /\ heartbeat_outstanding' = (heartbeat_outstanding /\ h \notin Heartbeats)
  /\ UNCHANGED pending_reads

\* The request timed out while it was being written; its response may still come.
OnWriteTimedOut(h) ==
  /\ Outstanding(h)
  /\ state[h] = "TIMEOUT_WRITE_OUTSTANDING"
  /\ state' = [state EXCEPT ![h] = HandlerState(@, "TIMEOUT")]
  /\ pending_reads' = pending_reads \cup {h}
  /\ UNCHANGED <<conn, connect_timer, streams, timer, refs, heartbeat_outstanding>>

\* Faulty: the connection keeps its reference.
OnWriteAnsweredLeaks(h) ==
  /\ Outstanding(h)
  /\ \/ /\ state[h] = "READ_BEFORE_WRITE"
        /\ state' = [state EXCEPT ![h] = HandlerState(@, "DONE")]
     \/ /\ state[h] = "RETRY_WRITE_OUTSTANDING"
        /\ state' = [state EXCEPT ![h] = HandlerState(@, "NEW")]
  /\ timer' = [timer EXCEPT ![h] = FALSE]
  /\ UNCHANGED <<conn, connect_timer, pending_reads, streams, refs, heartbeat_outstanding>>

\* The response was read first: this callback cleans up, and starts the retry
\* that had to wait for it.
OnWriteAnswered(h) ==
  /\ Outstanding(h)
  /\ \/ /\ state[h] = "READ_BEFORE_WRITE"
        /\ state' = [state EXCEPT ![h] = HandlerState(@, "DONE")]
     \/ /\ state[h] = "RETRY_WRITE_OUTSTANDING"
        /\ state' = [state EXCEPT ![h] = HandlerState(@, "NEW")]
  /\ timer' = [timer EXCEPT ![h] = FALSE]
  /\ refs' = [refs EXCEPT ![h] = @ - 1]
  /\ UNCHANGED <<conn, connect_timer, pending_reads, streams, heartbeat_outstanding>>

\* After the loop: the water mark, and the requests queued meanwhile.
OnWriteEnds ==
  /\ callback.kind = "on_write"
  /\ Head(writes).handlers = {}
  /\ pending_writes_size' = pending_writes_size - Head(writes).size
  /\ conn' = IF pending_writes_size' < LowWaterMark /\ conn = "OVERWHELMED"
             THEN ConnState(conn, "READY") ELSE conn
  /\ callback' = NoCallback
  /\ UNCHANGED handlers
  /\ Flush(queued, Tail(writes))
  /\ UNCHANGED <<connect_timer, pending_reads, pending, heartbeat>>

----------------------------------------------------------------------------
(* Reading *)

\* Data arrived that completes at least one response.
OnReadBegins ==
  /\ Quiet
  /\ conn \in Open /\ wire # {}
  /\ callback' = Reading
  /\ UNCHANGED <<conn, connect_timer, lists, streams, handlers, heartbeat>>

\* The socket is not read again once it is closed.
OnReadEnds ==
  /\ callback = Consuming(None)
  /\ callback' = NoCallback
  /\ wire' = IF conn \in Closing THEN {} ELSE wire
  /\ UNCHANGED <<conn, connect_timer, lists, pending, handlers, heartbeat>>

\* on_read with an error or the end of the stream.
OnReadFails ==
  /\ Quiet
  /\ conn \in Open
  /\ Defunct
  /\ wire' = {}
  /\ UNCHANGED <<callback, lists, pending, handlers, heartbeat>>

\* consume: the response on stream s is matched to the handler h waiting on it.
Response(s, h) ==
  /\ callback \in {Reading, Consuming(None)}
  /\ \E sent \in Handlers : <<s, sent>> \in wire /\ wire' = wire \ {<<s, sent>>}
  /\ s \in DOMAIN pending /\ h = pending[s]
  /\ pending' = Without(pending, s)
  /\ UNCHANGED <<queued, writes, pending_writes_size, stream>>

AfterResponse(h) ==
  HandlerState(state[h],
    IF state[h] \in {"READING", "TIMEOUT"} THEN "DONE" ELSE "READ_BEFORE_WRITE")
ConnectionRef(h) == IF state[h] \in {"READING", "TIMEOUT"} THEN 1 ELSE 0
Live(h) == state[h] \in {"READING", "WRITING"}

\* A handler that was being read is done with the connection; one whose write
\* is outstanding stays in its list until on_write.
Received(h, next) ==
  /\ state' = [state EXCEPT ![h] = next]
  /\ timer' = [timer EXCEPT ![h] = @ /\ KeepsTimer(state[h], AfterResponse(h))]
  /\ pending_reads' = pending_reads \ {h}

\* A response to a request that timed out: only cleaned up.
LateResponse(s, h) ==
  /\ Response(s, h)
  /\ ~Live(h)
  /\ Received(h, AfterResponse(h))
  /\ refs' = [refs EXCEPT ![h] = @ - ConnectionRef(h)]
  /\ callback' = Consuming(None)
  /\ UNCHANGED <<conn, connect_timer, finished, retries, heartbeat>>

\* RequestHandler::on_set with a result, a final error, or an opcode that is
\* neither (which closes the connection): the future is set.  A schema change
\* and an error UNPREPARED are left out: the request then waits for handlers of
\* its own, whose answers set the future (Request models them).
FinalResponse(s, h) ==
  /\ Response(s, h)
  /\ h \in Requests /\ Live(h)
  /\ Received(h, AfterResponse(h))
  /\ finished' = [finished EXCEPT ![h] = @ + 1]
  /\ refs' = [refs EXCEPT ![h] = @ - 1 - ConnectionRef(h)]
  /\ Defunct \/ UNCHANGED <<conn, connect_timer>>
  /\ callback' = Consuming(None)
  /\ UNCHANGED <<retries, heartbeat>>

\* RequestHandler::handle_retry_decision with RETRY.
RetryResponse(s, h) ==
  /\ Response(s, h)
  /\ h \in Requests /\ Live(h)
  /\ retries < MaxRetries
  /\ retries' = retries + 1
  /\ Received(h,
       IF AfterResponse(h) = "DONE" THEN HandlerState("DONE", "NEW")
       ELSE HandlerState(AfterResponse(h), "RETRY_WRITE_OUTSTANDING"))
  /\ refs' = [refs EXCEPT ![h] = @ - ConnectionRef(h)]
  /\ callback' = Consuming(None)
  /\ UNCHANGED <<conn, connect_timer, finished, heartbeat>>

HeartbeatResponse(s, h) ==
  /\ Response(s, h)
  /\ h \in Heartbeats /\ Live(h)
  /\ Received(h, AfterResponse(h))
  /\ refs' = [refs EXCEPT ![h] = @ - ConnectionRef(h)]
  /\ heartbeat_outstanding' = FALSE /\ idle' = FALSE
  /\ callback' = Consuming(None)
  /\ UNCHANGED <<conn, connect_timer, finished, retries>>

\* notify_ready.
NotifyReady ==
  /\ conn' = ConnState(conn, "READY")
  /\ connect_timer' = FALSE
  /\ callback' = Consuming(None)

SendNext(step) ==
  callback' = Consuming(step) /\ UNCHANGED <<conn, connect_timer>>

\* Faulty: a connection that registered for events forgets its keyspace.
OnReadyRegistered ==
  IF conn = "CONNECTED" /\ EventTypes
  THEN /\ conn' = ConnState(conn, "REGISTERING_EVENTS")
       /\ callback' = Consuming("register")
       /\ UNCHANGED connect_timer
  ELSE NotifyReady

\* on_ready: register for events, then set the keyspace, then ready.
OnReady ==
  IF conn = "CONNECTED" /\ EventTypes
  THEN /\ conn' = ConnState(conn, "REGISTERING_EVENTS")
       /\ callback' = Consuming("register")
       /\ UNCHANGED connect_timer
  ELSE IF HasKeyspace THEN SendNext("use") ELSE NotifyReady

StartupFails == Defunct /\ callback' = Consuming(None)

\* StartupHandler::on_set: the server drives the exchange.  Any other answer,
\* and any error, makes the connection defunct.  The code looks at the opcode
\* alone, never at the request it answers: the server is assumed to answer each
\* request with an opcode the protocol gives for it (an AUTHENTICATE for
\* "register", say, would start the authentication again).
StartupResponse(s, h) ==
  /\ Response(s, h)
  /\ h \in Startup /\ Live(h)
  /\ Received(h, AfterResponse(h))
  /\ refs' = [refs EXCEPT ![h] = @ - ConnectionRef(h)]
  /\ \/ h = "options" /\ SendNext("startup")
     \/ h = "startup" /\ OnReady
     \/ h = "startup" /\ IF HasAuthProvider THEN SendNext("auth") ELSE StartupFails
     \/ h = "auth" /\ SendNext("auth2")
     \/ h \in {"auth", "auth2"} /\ OnReady
     \/ h = "register" /\ OnReady
     \/ h = "use" /\ NotifyReady
     \/ StartupFails
  /\ UNCHANGED <<finished, retries, heartbeat>>

\* "Invalid stream ID": a response nobody waits for.  A server does not send
\* one; it is followed on an established connection only.
InvalidStream ==
  /\ callback \in {Reading, Consuming(None)}
  /\ conn \in {"READY", "OVERWHELMED"}
  /\ Defunct
  /\ callback' = Consuming(None)
  /\ UNCHANGED <<lists, streams, handlers, heartbeat>>

----------------------------------------------------------------------------
(* Connecting, timers and closing *)

Connect ==
  /\ conn = "NEW"
  /\ conn' = ConnState(conn, "CONNECTING")
  /\ connect_timer' = TRUE
  /\ UNCHANGED <<callback, lists, streams, handlers, heartbeat>>

\* on_connect: a connection that timed out meanwhile is left alone.
OnConnect ==
  /\ Quiet
  /\ conn = "CONNECTING" /\ connect_timer
  /\ conn' = ConnState(conn, "CONNECTED")
  /\ callback' = Consuming("options")
  /\ UNCHANGED <<connect_timer, lists, streams, handlers, heartbeat>>

\* on_connect with an error, or on_connect_timeout.
ConnectFails ==
  /\ Quiet
  /\ conn = "CONNECTING" \/ (connect_timer /\ conn \in Open)
  /\ Defunct
  /\ wire' = {}
  /\ UNCHANGED <<callback, lists, pending, handlers, heartbeat>>

\* Faulty: the id is released with the timeout, while the answer may still come.
OnTimeoutReleases(h) ==
  /\ Quiet
  /\ timer[h] /\ h \in Requests
  /\ timer' = [timer EXCEPT ![h] = FALSE]
  /\ state' = [state EXCEPT ![h] = HandlerState(@, "TIMEOUT")]
  /\ finished' = [finished EXCEPT ![h] = @ + 1]
  /\ refs' = [refs EXCEPT ![h] = @ - 1]
  /\ pending' = Without(pending, stream[h])
  /\ UNCHANGED <<conn, connect_timer, callback, lists, wire, stream, retries, heartbeat>>

\* Connection::on_timeout: the request timer of a handler fires.
OnTimeout(h) ==
  /\ Quiet
  /\ timer[h]
  /\ timer' = [timer EXCEPT ![h] = FALSE]
  /\ state' = [state EXCEPT ![h] = HandlerState(@, "TIMEOUT")]
  /\ \/ /\ h \in Requests
        /\ finished' = [finished EXCEPT ![h] = @ + 1]
        /\ refs' = [refs EXCEPT ![h] = @ - 1]
        /\ UNCHANGED <<conn, connect_timer, wire, heartbeat_outstanding>>
     \/ /\ h \in Heartbeats
        /\ heartbeat_outstanding' = FALSE
        /\ UNCHANGED <<conn, connect_timer, wire, finished, refs>>
     \/ /\ h \in Startup
        /\ Defunct
        /\ wire' = {}
        /\ UNCHANGED <<finished, refs, heartbeat_outstanding>>
  /\ UNCHANGED <<callback, lists, pending, stream, retries, idle>>

\* on_heartbeat with a heartbeat to send.  The timer runs while the connection
\* is established: the interval (30 s) is longer than a connect may take (5 s).
OnHeartbeat(h) ==
  /\ Quiet
  /\ conn \in {"READY", "OVERWHELMED"}
  /\ ~heartbeat_outstanding /\ refs[h] = 0
  /\ InternalWrite(h, TRUE)
  /\ heartbeat_outstanding' = TRUE
  /\ idle' = TRUE
  /\ UNCHANGED <<connect_timer, callback>>

\* on_heartbeat while one is outstanding only notes the time.
OnHeartbeatWaits ==
  /\ Quiet
  /\ conn \in {"READY", "OVERWHELMED"}
  /\ heartbeat_outstanding /\ ~idle
  /\ idle' = TRUE
  /\ UNCHANGED <<conn, connect_timer, callback, lists, streams, handlers, heartbeat_outstanding>>

\* on_heartbeat finds that nothing was exchanged for too long, or that the
\* requests that timed out hold every stream id.
OnHeartbeatFails ==
  /\ Quiet
  /\ conn \in {"READY", "OVERWHELMED"}
  /\ idle \/ (~heartbeat_outstanding /\ DOMAIN pending = Streams)
  /\ Defunct
  /\ wire' = {}
  /\ UNCHANGED <<callback, lists, pending, handlers, heartbeat>>

\* Connection::close, called by the pool.
Close ==
  /\ Quiet
  /\ conn \in Open \cup {"CONNECTING"}
  /\ conn' = ConnState(conn, "CLOSE")
  /\ connect_timer' = FALSE
  /\ wire' = {}
  /\ UNCHANGED <<callback, lists, pending, handlers, heartbeat>>

\* Faulty: waits until nothing is queued, though nothing is flushed any more.
OnCloseWaits ==
  /\ Quiet
  /\ conn \in Closing /\ writes = <<>> /\ queued = NoWrite
  /\ refs' = [h \in Handlers |-> refs[h] - (IF h \in Listed THEN 1 ELSE 0)]
  /\ conn' = "CLOSED"
  /\ pending_reads' = {}
  /\ UNCHANGED <<connect_timer, callback, queued, writes, pending_writes_size, streams, state,
                 stream, timer, finished, retries, heartbeat>>

\* on_close, after the callbacks of all flushed writes: cleanup_pending_handlers
\* for every list, then the connection is deleted.
OnClose ==
  /\ Quiet
  /\ conn \in Closing /\ writes = <<>>
  /\ LET given_up == {h \in Listed : Live(h)} IN
       /\ finished' = [h \in Requests |-> finished[h] + (IF h \in given_up THEN 1 ELSE 0)]
       /\ refs' = [h \in Handlers |-> refs[h] - (IF h \in Listed THEN 1 ELSE 0)
                                       - (IF h \in given_up \cap Requests THEN 1 ELSE 0)]
       /\ timer' = [h \in Handlers |-> timer[h] /\ h \notin given_up]
       /\ heartbeat_outstanding' = (heartbeat_outstanding /\ given_up \cap Heartbeats = {})
  /\ conn' = "CLOSED"
  /\ queued' = NoWrite /\ pending_reads' = {}
  /\ UNCHANGED <<connect_timer, callback, writes, pending_writes_size, streams, state, stream,
                 retries, idle>>

----------------------------------------------------------------------------
OnWriteCallback ==
  \/ \E h \in Handlers :
       OnWriteWritten(h) \/ OnWriteFailed(h) \/ OnWriteTimedOut(h) \/ OnWriteAnswered(h)
  \/ OnWriteEnds

Consume ==
  \E s \in Streams, h \in Handlers :
    \/ LateResponse(s, h) \/ FinalResponse(s, h) \/ RetryResponse(s, h)
    \/ HeartbeatResponse(s, h) \/ StartupResponse(s, h)

\* Nothing is left to do: the connection is deleted and every request finished.
Finished ==
  /\ conn = "CLOSED" /\ \A h \in Requests : finished[h] > 0
  /\ UNCHANGED vars

Next ==
  \/ Connect \/ OnConnect \/ ConnectFails
  \/ \E h \in Requests : Write(h) \/ WriteEncodeError(h) \/ FinishElsewhere(h)
  \/ FlushQueued \/ WriteStartup
  \/ OnWriteBegins \/ OnWriteCallback
  \/ OnReadBegins \/ Consume \/ InvalidStream \/ OnReadEnds \/ OnReadFails
  \/ \E h \in Handlers : OnTimeout(h)
  \/ \E h \in Heartbeats : OnHeartbeat(h)
  \/ OnHeartbeatWaits \/ OnHeartbeatFails
  \/ Close \/ OnClose
  \/ Finished

\* A step of the callback that is running.
CallbackStep == OnWriteCallback \/ WriteStartup \/ Consume \/ InvalidStream \/ OnReadEnds

\* The event loop runs: a callback that has begun returns, uv reports every
\* write and every close, and every iteration of the loop comes past the
\* timers, whatever else it reads.  Nothing is assumed of the server or of
\* the pool.
Fairness ==
  /\ WF_vars(CallbackStep)
  /\ WF_vars(OnWriteBegins \/ OnClose)
  /\ \A h \in Requests : SF_vars(OnTimeout(h))

Spec == Init /\ [][Next]_vars /\ Fairness
----------------------------------------------------------------------------
(* Properties *)

Batches == [handlers : SUBSET Handlers, size : Nat]

\* A handler is a node of one intrusive list at a time (the handlers of a
\* PendingWrite, or pending_reads_), and of none when it may be written anew.
InOneList ==
  /\ \A i \in DOMAIN writes :
       /\ writes[i].handlers \cap (queued.handlers \cup pending_reads) = {}
       /\ \A j \in DOMAIN writes : i # j => writes[i].handlers \cap writes[j].handlers = {}
  /\ queued.handlers \cap pending_reads = {}
  /\ \A h \in Requests : state[h] = "NEW" => h \notin Listed

\* Types: no assert of the two set_state functions has failed, the intrusive
\* lists are lists, and the future of a request is set at most once.
TypeOK ==
  /\ conn \in ConnStates
  /\ connect_timer \in BOOLEAN /\ heartbeat_outstanding \in BOOLEAN /\ idle \in BOOLEAN
  /\ callback \in {NoCallback, Reading} \cup {OnWrite(ok) : ok \in BOOLEAN}
                    \cup {Consuming(h) : h \in Startup \cup {None}}
  /\ queued \in Batches /\ writes \in Seq(Batches)
  /\ pending_writes_size \in Nat /\ pending_reads \subseteq Handlers
  /\ DOMAIN pending \subseteq Streams /\ pending \in [DOMAIN pending -> Handlers]
  /\ wire \subseteq Streams \X Handlers
  /\ state \in [Handlers -> HandlerStates]
  /\ stream \in [Handlers -> Streams \cup {-1}]
  /\ timer \in [Handlers -> BOOLEAN]
  /\ refs \in [Handlers -> Nat] /\ InOneList
  /\ finished \in [Requests -> {0, 1}] /\ retries \in 0..MaxRetries

\* A response that can still be read belongs to the handler registered under
\* its stream id: no answer ever reaches another request, although ids are
\* reused and requests time out before their answers come.
ResponseReachesItsRequest ==
  conn \in Open \/ callback.kind \in {"read", "consume"} =>
    \A e \in wire : e[1] \in DOMAIN pending /\ pending[e[1]] = e[2]

\* The reference count of a handler is one for its owner, until the future is
\* set, and one for the connection while it is in a list: it is never freed
\* under the connection, and never leaked.
RefCountExact ==
  \A h \in Handlers :
    refs[h] = (IF h \in Requests THEN 1 - finished[h] ELSE 0) + (IF h \in Listed THEN 1 ELSE 0)

\* The timer runs exactly while a response is expected: no request that is
\* being written or read is without a timeout, and no timer fires for another.
TimedWhileExpected ==
  conn # "CLOSED" => \A h \in Handlers : timer[h] <=> h \in Listed /\ Live(h)

\* No stream id leaks: on an open connection the ids in use are those of the
\* handlers that are still to be answered, whether they timed out or not.
StreamsAccountedFor ==
  conn \in Open =>
    LET unanswered == {h \in Listed : state[h] \in
          {"WRITING", "READING", "TIMEOUT", "TIMEOUT_WRITE_OUTSTANDING"}}
    IN /\ \A h \in unanswered : stream[h] \in DOMAIN pending /\ pending[stream[h]] = h
       /\ \A s \in DOMAIN pending : pending[s] \in unanswered /\ stream[pending[s]] = s

\* Connection: every stream id in use has a request that waits for it or is
\* timed out, and one that waits has its timer.
StreamsAndTimers == TypeOK /\ StreamsAccountedFor /\ TimedWhileExpected

\* A connection is ready only after the whole start-up exchange: registered
\* for the events of its listener and switched to the keyspace, with the
\* connect timer stopped, whatever fails in between.  This is of a server that
\* answers as the protocol says: a SET_KEYSPACE result for "options" would make
\* the connection ready at once.
ReadyAfterStartup ==
  conn \in {"READY", "OVERWHELMED"} =>
    /\ ~connect_timer /\ state["startup"] \in {"DONE", "READ_BEFORE_WRITE"}
    /\ EventTypes => state["register"] \in {"DONE", "READ_BEFORE_WRITE"}
    /\ HasKeyspace => state["use"] \in {"DONE", "READ_BEFORE_WRITE"}

\* A request that was written is finished or handed back for a retry, whatever
\* the server and the network do.
WrittenRequestLeaves ==
  \A h \in Requests : h \in Listed ~> (finished[h] = 1 \/ state[h] = "NEW")

\* Closing completes: every write callback is awaited, and none is missing.
CloseCompletes == conn \in Closing ~> conn = "CLOSED"
=============================================================================
