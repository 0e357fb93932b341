------------------------------ MODULE Request ------------------------------
(***************************************************************************)
(* One request on an I/O worker, from the moment the worker takes it until *)
(* its future is set: RequestHandler with the handlers that act for it, the *)
(* SetKeyspaceHandler before it, the PrepareHandler when a node does not   *)
(* know its statement, the SchemaChangeHandler after it.                   *)
(*                                                                         *)
(* A step is a callback of the worker's loop.  What a connection does with *)
(* a handler is in Connection: here a handler that was written is answered, *)
(* times out or fails with its connection.  The query plan is the hosts it *)
(* still has (QueryPlan); a host has one connection, whose keyspace other  *)
(* requests may change.                                                    *)
(***************************************************************************)
EXTENDS RetryPolicy, Sequences, FiniteSets

CONSTANTS
  Nodes,           \* the hosts of the plan
  Plans,           \* the query plans, sequences of nodes
  Policies,        \* the retry policies the request may have
  Keyspaces,
  Replication,     \* replicas that may answer
  MaxUnprepared,   \* bound: how often a node does not know the statement
  MaxRounds,       \* rounds of agreement queries until MAX_SCHEMA_AGREEMENT_WAIT_MS is over
  MaxOthers,       \* bound: changes of pools, and of keyspaces by other requests
  NoNode

\* Stated as an ASSUME where the constants are given their values.
RequestAssumption ==
  /\ \A p \in Plans : p \in Seq(Nodes)
  /\ Policies \subseteq RetryPolicies
  /\ {Replication, MaxUnprepared, MaxRounds, MaxOthers} \subseteq Nat
  /\ NoNode \notin Nodes

VARIABLES
  retry_policy,
  left,            \* hosts the query plan has not given yet
  node,            \* current_host_, NoNode when is_query_plan_exhausted_
  phase,           \* who acts for the request
  writing,         \* the callback of the request's last write has not run yet
  cl, num_retries,
  ready,           \* nodes whose pool is ready
  conn_keyspace,   \* node -> keyspace_ of its connection
  keyspace,        \* keyspace_ of the worker
  since,           \* history: values of keyspace since the request was last retried
  runs_in,         \* keyspace of the connection when the request, or its USE, was written
  agreement,       \* the SchemaChangeHandler: its queries without answer, those that found
                   \* no stream, and its flag
  rounds, unprepared, changes,
  outcome,         \* what the future was set to
  answers,         \* how often it was set
  resent           \* history: how often a policy had the request sent again

vars == <<retry_policy, left, node, phase, writing, cl, num_retries, ready, conn_keyspace,
          keyspace, since, runs_in, agreement, rounds, unprepared, changes, outcome, answers, resent>>
pools == <<ready, conn_keyspace, keyspace, changes>>
history == <<since, runs_in, resent>>
counts == <<cl, num_retries, rounds, unprepared>>
result == <<outcome, answers>>

NoAgreement == [pending |-> {}, refused |-> {}, failed |-> FALSE]

Init ==
  /\ retry_policy \in Policies
  /\ \E p \in Plans : node = Head(p) /\ left = Tail(p)
  /\ phase = "retry" /\ writing = FALSE
  /\ cl = "QUORUM" /\ num_retries = 0
  /\ ready \in SUBSET Nodes
  /\ conn_keyspace \in [Nodes -> Keyspaces] /\ keyspace \in Keyspaces
  /\ since = {keyspace} /\ runs_in = keyspace
  /\ agreement = NoAgreement /\ rounds = 0 /\ unprepared = 0 /\ changes = 0
  /\ outcome = "none" /\ answers = 0 /\ resent = 0

----------------------------------------------------------------------------
(* What several callbacks do *)

\* set_response or set_error, return_connection_and_finish.
Set(value) ==
  /\ outcome' = value /\ answers' = answers + 1
  /\ phase' = "done"

next_host ==
  /\ node' = IF left = <<>> THEN NoNode ELSE Head(left)
  /\ left' = IF left = <<>> THEN left ELSE Tail(left)

\* RequestHandler::retry: IOWorker::retry takes it from there.
GoRetry == phase' = "retry" /\ since' = {keyspace}

NextHostAndRetry == next_host /\ GoRetry
SameHostAndRetry == GoRetry /\ UNCHANGED <<node, left>>

\* Faulty: the keyspace of the connection is not looked at.
PoolWriteAnyway ==
  /\ phase' = "written" /\ writing' = TRUE
  /\ runs_in' = conn_keyspace[node]

\* Pool::write: the request itself, or USE first when the connection is elsewhere.
PoolWrite ==
  \/ /\ conn_keyspace[node] = keyspace
     /\ phase' = "written" /\ writing' = TRUE
     /\ runs_in' = conn_keyspace[node]
  \/ /\ conn_keyspace[node] # keyspace
     /\ phase' = "use"
     /\ runs_in' = keyspace
     /\ UNCHANGED writing

----------------------------------------------------------------------------
(* IOWorker::retry and Pool *)

NoHostsAvailable ==
  /\ phase = "retry" /\ node = NoNode
  /\ Set("error")
  /\ UNCHANGED <<retry_policy, left, node, writing, pools, history, agreement, counts>>

\* The pool is not ready, or the connection it lends has no stream left.
TryNextHost ==
  /\ phase = "retry" /\ node # NoNode
  /\ next_host
  /\ UNCHANGED <<retry_policy, phase, writing, pools, history, agreement, counts, result>>

BorrowAndWrite ==
  /\ phase = "retry" /\ node \in ready
  /\ PoolWrite
  /\ UNCHANGED <<retry_policy, left, node, pools, since, resent, agreement, counts, result>>

WaitForConnection ==
  /\ phase = "retry" /\ node \in ready
  /\ phase' = "waiting"
  /\ UNCHANGED <<retry_policy, left, node, writing, pools, history, agreement, counts, result>>

\* Pool::return_connection, of another request's connection.
ConnectionReturned ==
  /\ phase = "waiting" /\ node \in ready
  /\ PoolWrite
  /\ UNCHANGED <<retry_policy, left, node, pools, since, resent, agreement, counts, result>>

\* Faulty: a pool that closes forgets the requests that wait for a connection.
WaitEndsOpen ==
  /\ phase = "waiting" /\ node \in ready
  /\ NextHostAndRetry
  /\ UNCHANGED <<retry_policy, writing, pools, runs_in, resent, agreement, counts, result>>

\* on_pending_request_timeout, or the pool closes with the request waiting.
WaitEnds ==
  /\ phase = "waiting"
  /\ NextHostAndRetry
  /\ UNCHANGED <<retry_policy, writing, pools, runs_in, resent, agreement, counts, result>>

----------------------------------------------------------------------------
(* Around the request *)

PoolChanges(n) ==
  /\ phase \notin {"done", "retry"}
  /\ ready' = IF n \in ready THEN ready \ {n} ELSE ready \cup {n}
  /\ changes < MaxOthers /\ changes' = changes + 1
  /\ UNCHANGED <<retry_policy, left, node, phase, writing, conn_keyspace, keyspace, history,
                 agreement, counts, result>>

\* Another request's USE succeeds, on this worker's connection to n or on another worker's.
OtherKeyspace(n, k) ==
  /\ changes < MaxOthers /\ changes' = changes + 1
  /\ keyspace' = k
  /\ since' = since \cup {k}
  /\ conn_keyspace' \in {conn_keyspace, [conn_keyspace EXCEPT ![n] = k]}
  /\ UNCHANGED <<retry_policy, left, node, phase, writing, ready, runs_in, resent, agreement, counts,
                 result>>

----------------------------------------------------------------------------
(* SetKeyspaceHandler *)

\* RESULT of kind SET_KEYSPACE: the connection is in the keyspace the USE named, and
\* the request follows on it: the stream of the USE was released, so there is one.
UseSucceeds ==
  /\ phase = "use"
  /\ conn_keyspace' = [conn_keyspace EXCEPT ![node] = runs_in]
  /\ phase' = "written" /\ writing' = TRUE
  /\ UNCHANGED <<retry_policy, left, node, ready, keyspace, changes, history, agreement, counts,
                 result>>

\* An error or another kind of result, or the write fails: UNABLE_TO_SET_KEYSPACE.
UseFails ==
  /\ phase = "use"
  /\ NextHostAndRetry
  /\ UNCHANGED <<retry_policy, writing, pools, runs_in, resent, agreement, counts, result>>

UseTimesOut ==
  /\ phase = "use"
  /\ Set("error")
  /\ UNCHANGED <<retry_policy, left, node, writing, pools, history, agreement, counts>>

----------------------------------------------------------------------------
(* The request is written *)

\* The callback of the write; for RETRY_WRITE_OUTSTANDING it retries.
OnWrite ==
  /\ writing
  /\ writing' = FALSE
  /\ \/ phase # "retry_write_outstanding" /\ UNCHANGED <<phase, node, left, since>>
     \/ phase = "retry_write_outstanding" /\ SameHostAndRetry
  /\ UNCHANGED <<retry_policy, pools, runs_in, resent, agreement, counts, result>>

\* The write fails: CASS_ERROR_LIB_WRITE_ERROR.
OnWriteError ==
  /\ phase = "written" /\ writing
  /\ writing' = FALSE
  /\ NextHostAndRetry
  /\ UNCHANGED <<retry_policy, pools, runs_in, resent, agreement, counts, result>>

\* The timeout, or the connection closes with the request in its lists.
OnTimeout ==
  /\ phase = "written"
  /\ Set("error")
  /\ UNCHANGED <<retry_policy, left, node, writing, pools, history, agreement, counts>>

\* ROWS, VOID or PREPARED.
OnResult ==
  /\ phase = "written"
  /\ Set("response")
  /\ UNCHANGED <<retry_policy, left, node, writing, pools, history, agreement, counts>>

\* SET_KEYSPACE: the connection has it, then every worker.
OnSetKeyspace(k) ==
  /\ phase = "written"
  /\ conn_keyspace' = [conn_keyspace EXCEPT ![node] = k]
  /\ keyspace' = k
  /\ Set("response")
  /\ UNCHANGED <<retry_policy, left, node, writing, ready, changes, history, agreement, counts>>

\* Another error, an opcode nobody expects, or ROWS without metadata.
OnOtherAnswer ==
  /\ phase = "written"
  /\ Set("error")
  /\ UNCHANGED <<retry_policy, left, node, writing, pools, history, agreement, counts>>

\* Faulty: the request is retried at once, its write callback still due.
DecideAtOnce(decision) ==
  /\ num_retries' = num_retries + 1
  /\ CASE decision.type = "RETURN_ERROR" -> Set("error") /\ UNCHANGED <<cl, left, node, since, resent>>
       [] decision.type = "IGNORE" -> Set("response") /\ UNCHANGED <<cl, left, node, since, resent>>
       [] decision.type = "RETRY" ->
            /\ cl' = decision.cl
            /\ resent' = resent + 1
            /\ IF decision.retry_current_host THEN UNCHANGED <<left, node>> ELSE next_host
            /\ GoRetry
            /\ UNCHANGED <<outcome, answers>>

Decide(decision) ==
  /\ num_retries' = num_retries + 1
  /\ CASE decision.type = "RETURN_ERROR" -> Set("error") /\ UNCHANGED <<cl, left, node, since, resent>>
       [] decision.type = "IGNORE" -> Set("response") /\ UNCHANGED <<cl, left, node, since, resent>>
       [] decision.type = "RETRY" ->
            /\ cl' = decision.cl
            /\ resent' = resent + 1
            /\ IF decision.retry_current_host THEN UNCHANGED <<left, node>> ELSE next_host
            /\ IF writing THEN phase' = "retry_write_outstanding" /\ UNCHANGED since ELSE GoRetry
            /\ UNCHANGED <<outcome, answers>>

DecideFrame == UNCHANGED <<retry_policy, writing, pools, runs_in, agreement, rounds, unprepared>>

OnReadTimeout(received, required, data) ==
  /\ phase = "written"
  /\ Decide(on_read_timeout(retry_policy, cl, received, required, data, num_retries))
  /\ DecideFrame

OnWriteTimeout(received, write_type) ==
  /\ phase = "written"
  /\ Decide(on_write_timeout(retry_policy, cl, received, write_type, num_retries))
  /\ DecideFrame

OnUnavailable(alive) ==
  /\ phase = "written"
  /\ Decide(on_unavailable(retry_policy, cl, alive, num_retries))
  /\ DecideFrame

----------------------------------------------------------------------------
(* PrepareHandler *)

\* The request is an EXECUTE or a BATCH that has the statement: prepare it on this
\* connection.  The stream of the request was released, so there is one.
OnUnprepared ==
  /\ phase = "written" /\ unprepared < MaxUnprepared
  /\ unprepared' = unprepared + 1
  /\ phase' = "prepare"
  /\ UNCHANGED <<retry_policy, left, node, writing, pools, history, agreement, cl, num_retries,
                 rounds, result>>

\* PREPARED: on the same host.  libuv has run the callback of a write before an
\* answer to a later write arrives (external).
PrepareSucceeds ==
  /\ phase = "prepare" /\ ~writing
  /\ SameHostAndRetry
  /\ UNCHANGED <<retry_policy, writing, pools, runs_in, resent, agreement, counts, result>>

\* An error, another result, a timeout.
PrepareFails ==
  /\ phase = "prepare" /\ ~writing
  /\ NextHostAndRetry
  /\ UNCHANGED <<retry_policy, writing, pools, runs_in, resent, agreement, counts, result>>

----------------------------------------------------------------------------
(* SchemaChangeHandler *)

Queries == {"local", "peers"}

\* execute: a query of system.local and one of system.peers.  A query that finds no
\* stream has on_error called at once, which sets the future but not the flag.
Execute(refused) ==
  /\ agreement' = [pending |-> Queries \ refused, refused |-> refused, failed |-> FALSE]
  /\ answers' = answers + Cardinality(refused)
  /\ outcome' = IF refused = {} THEN outcome ELSE "response"
  /\ phase' = IF refused = {} THEN "agreement" ELSE "done"

\* The first query has the stream of the request that was answered.
OnSchemaChange(refused) ==
  /\ phase = "written" /\ "local" \notin refused
  /\ Execute(refused)
  /\ UNCHANGED <<retry_policy, left, node, writing, pools, history, counts>>

\* The RESULT of the last query: the versions agree, or it has taken too long, or
\* another round is scheduled.
AgreementAnswered(q) ==
  /\ q \in agreement.pending
  /\ agreement' = [agreement EXCEPT !.pending = @ \ {q}]
  /\ \/ /\ agreement.pending # {q} \/ agreement.failed \/ phase = "done"
        /\ UNCHANGED <<phase, outcome, answers, rounds>>
     \/ /\ agreement.pending = {q} /\ ~agreement.failed /\ phase = "agreement"
        /\ \/ Set("response") /\ UNCHANGED rounds
           \/ /\ rounds < MaxRounds
              /\ rounds' = rounds + 1
              /\ phase' = "agreement_wait"
              /\ UNCHANGED <<outcome, answers>>
  /\ UNCHANGED <<retry_policy, left, node, writing, pools, history, cl, num_retries, unprepared>>

\* Faulty: has_error_or_timeout_ is not looked at.
AgreementFailsEach(q) ==
  /\ q \in agreement.pending
  /\ agreement' = [agreement EXCEPT !.pending = @ \ {q}, !.failed = TRUE]
  /\ Set("response")
  /\ UNCHANGED <<retry_policy, left, node, writing, pools, history, counts>>

\* A query times out, or fails with the connection.
AgreementFails(q) ==
  /\ q \in agreement.pending
  /\ agreement' = [agreement EXCEPT !.pending = @ \ {q}, !.failed = TRUE]
  /\ IF agreement.failed THEN UNCHANGED <<phase, outcome, answers>> ELSE Set("response")
  /\ UNCHANGED <<retry_policy, left, node, writing, pools, history, counts>>

\* on_pending_schema_agreement, or on_closing when the connection closes before.
AgreementWaitEnds(refused) ==
  /\ phase = "agreement_wait"
  /\ \/ Execute(refused)
     \/ Set("response") /\ UNCHANGED agreement
  /\ UNCHANGED <<retry_policy, left, node, writing, pools, history, counts>>

----------------------------------------------------------------------------
\* Answers that a handler drops: another opcode for USE and PREPARE, an ERROR among
\* the two answers about the schema.  No timer runs any more.
Dropped ==
  /\ phase \in {"use", "prepare", "agreement"}
  /\ phase = "agreement" => Cardinality(agreement.pending) = 1
  /\ phase' = "lost"
  /\ agreement' = NoAgreement
  /\ UNCHANGED <<retry_policy, left, node, writing, pools, history, counts, result>>

Answers ==
  \/ UseSucceeds \/ UseFails \/ OnResult \/ OnOtherAnswer \/ OnUnprepared \/ PrepareSucceeds
  \/ \E k \in Keyspaces : OnSetKeyspace(k)
  \/ \E received, required \in 0..Replication, data \in BOOLEAN :
       OnReadTimeout(received, required, data)
  \/ \E received \in 0..Replication, t \in WriteTypes : OnWriteTimeout(received, t)
  \/ \E alive \in 0..Replication : OnUnavailable(alive)
  \/ \E refused \in SUBSET Queries : OnSchemaChange(refused)
  \/ \E q \in Queries : AgreementAnswered(q)

\* What the worker and its timers do by themselves.
Progress ==
  \/ NoHostsAvailable \/ TryNextHost \/ WaitEnds \/ OnWrite
  \/ UseTimesOut \/ OnTimeout \/ PrepareFails
  \/ \E refused \in SUBSET Queries : AgreementWaitEnds(refused)
  \/ \E q \in Queries : AgreementFails(q)

Next ==
  \/ Progress \/ Answers \/ Dropped
  \/ BorrowAndWrite \/ WaitForConnection \/ ConnectionReturned \/ OnWriteError
  \/ \E n \in Nodes : PoolChanges(n)
  \/ \E n \in Nodes, k \in Keyspaces : OtherKeyspace(n, k)

Spec == Init /\ [][Next]_vars /\ WF_vars(Progress)

----------------------------------------------------------------------------
(***************************************************************************)
(* The future of a request is set when the handler is done and not before, *)
(* and not again by an agreement query, a late answer or a second handler. *)
(* The exception is what MultipleRequestHandler leaves open: an agreement  *)
(* query that finds no stream sets the future without setting the flag, so *)
(* that the other query may set it once more, and never a third time.      *)
(***************************************************************************)
AnsweredOnce ==
  /\ (phase = "done") <=> (answers > 0)
  /\ answers <= 1 + (IF agreement.refused = {} THEN 0 ELSE 1)

(***************************************************************************)
(* A request runs in a keyspace that was the session's while the worker    *)
(* had it, however the keyspaces of the session and of its connections     *)
(* change meanwhile.                                                       *)
(***************************************************************************)
RanInCurrentKeyspace == phase = "written" => runs_in \in since

(***************************************************************************)
(* Retries are safe.  None starts while the callback of the previous write *)
(* is due, which would find the handler in the list of another write       *)
(* (Handler::set_state asserts that a handler read before its write is not *)
(* made NEW); and a retry policy has a request sent again at most once,    *)
(* whatever errors the nodes answer.                                       *)
(***************************************************************************)
RetriesSafe ==
  /\ phase = "retry" => ~writing
  /\ resent <= 1 /\ resent <= num_retries
=============================================================================
