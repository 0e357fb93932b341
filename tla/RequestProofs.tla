--------------------------- MODULE RequestProofs ---------------------------
(***************************************************************************)
(* Proofs about Request, for any nodes, plans, keyspaces, policies of the  *)
(* driver and bounds.                                                      *)
(***************************************************************************)
EXTENDS Request, FiniteSetTheorems, TLAPS

Phases ==
  {"retry", "waiting", "use", "written", "retry_write_outstanding", "prepare", "agreement",
   "agreement_wait", "done", "lost"}

\* Types, as far as the proofs need them.
Types ==
  /\ retry_policy \in RetryPolicies
  /\ phase \in Phases /\ writing \in BOOLEAN
  /\ num_retries \in Nat /\ resent \in Nat /\ answers \in Nat
  /\ agreement \in [pending : SUBSET Queries, refused : SUBSET Queries, failed : BOOLEAN]

\* The callback of a write is due only while the handler that was written is
\* waiting for an answer, or for that callback, or is past its answer.
WriteCallbackDue == writing => phase \notin {"retry", "waiting", "use"}

\* A policy has the request sent again only when it never decided before.
ResentOnce == resent <= 1 /\ resent <= num_retries

\* While the worker has the request, its keyspace is one of those since it
\* took it, and so is the one that a USE named.
KeyspaceKnown ==
  /\ phase # "done" => keyspace \in since
  /\ phase \in {"use", "written"} => runs_in \in since

\* Agreement queries without an answer belong to a request that waits for
\* them, or one of them failed and the future was set for that, or the other
\* found no stream and the future was set for that, once so far.
QueriesOwned ==
  agreement.pending # {} =>
    \/ phase = "agreement"
    \/ phase = "done" /\ agreement.failed
    \/ phase = "done" /\ agreement.refused # {} /\ answers = 1

\* The inductive invariant.
Inv == Types /\ WriteCallbackDue /\ ResentOnce /\ KeyspaceKnown /\ QueriesOwned /\ AnsweredOnce

-----------------------------------------------------------------------------
(* Decisions of the policies *)

Decisions == {"RETURN_ERROR", "IGNORE", "RETRY"}

\* Every policy decides, and only for a request that it has not decided on
\* before that it is sent again.
LEMMA PolicyDecides ==
  ASSUME NEW policy \in RetryPolicies, NEW level, NEW n \in Nat
  PROVE  /\ \A received, required \in Nat, d \in BOOLEAN :
              LET decision == on_read_timeout(policy, level, received, required, d, n)
              IN  decision.type \in Decisions /\ (n # 0 => decision.type # "RETRY")
         /\ \A received \in Nat, t \in WriteTypes :
              LET decision == on_write_timeout(policy, level, received, t, n)
              IN  decision.type \in Decisions /\ (n # 0 => decision.type # "RETRY")
         /\ \A alive \in Nat :
              LET decision == on_unavailable(policy, level, alive, n)
              IN  decision.type \in Decisions /\ (n # 0 => decision.type # "RETRY")
<1> USE DEF Decisions, RetryPolicies, RetryDecision, return_error, retry, retry_next_host, ignore
<1>1. \A k \in Nat : max_likely_to_work(k).type \in Decisions
  BY DEF max_likely_to_work
<1>2. ASSUME NEW received \in Nat, NEW required \in Nat, NEW d \in BOOLEAN
      PROVE  LET decision == on_read_timeout(policy, level, received, required, d, n)
             IN  decision.type \in Decisions /\ (n # 0 => decision.type # "RETRY")
  <2>1. DefaultReadTimeout(level, received, required, d).type \in Decisions
    BY DEF DefaultReadTimeout
  <2>2. DowngradingReadTimeout(level, received, required, d).type \in Decisions
    BY <1>1 DEF DowngradingReadTimeout
  <2> QED
    BY <2>1, <2>2 DEF on_read_timeout
<1>3. ASSUME NEW received \in Nat, NEW t \in WriteTypes
      PROVE  LET decision == on_write_timeout(policy, level, received, t, n)
             IN  decision.type \in Decisions /\ (n # 0 => decision.type # "RETRY")
  <2>1. DowngradingWriteTimeout(level, received, t).type \in Decisions
    BY <1>1 DEF DowngradingWriteTimeout, WriteTypes
  <2> QED
    BY <2>1 DEF on_write_timeout
<1>4. ASSUME NEW alive \in Nat
      PROVE  LET decision == on_unavailable(policy, level, alive, n)
             IN  decision.type \in Decisions /\ (n # 0 => decision.type # "RETRY")
  BY <1>1 DEF on_unavailable
<1> QED
  BY <1>2, <1>3, <1>4

\* What becomes of a request whose error a policy decided on.
LEMMA DecidePreserves ==
  ASSUME Inv, phase = "written", DecideFrame,
         NEW decision, decision.type \in Decisions, num_retries # 0 => decision.type # "RETRY",
         Decide(decision)
  PROVE  Inv'
<1> USE DEF Inv, Decisions, DecideFrame, pools
<1>1. CASE decision.type # "RETRY"
  <2>1. /\ phase' = "done" /\ answers' = answers + 1
        /\ num_retries' = num_retries + 1
        /\ UNCHANGED <<retry_policy, writing, resent, agreement, since, runs_in, keyspace>>
    BY <1>1 DEF Decide, Set
  <2> QED
    BY <2>1 DEF Types, Phases, WriteCallbackDue, ResentOnce, KeyspaceKnown, QueriesOwned, AnsweredOnce
<1>2. CASE decision.type = "RETRY"
  <2>1. /\ num_retries = 0 /\ num_retries' = 1 /\ resent' = resent + 1
        /\ \/ phase' = "retry_write_outstanding" /\ UNCHANGED since
           \/ phase' = "retry" /\ since' = {keyspace} /\ ~writing
        /\ UNCHANGED <<retry_policy, writing, answers, agreement, runs_in, keyspace>>
    BY <1>2 DEF Decide, GoRetry, Types
  <2> QED
    BY <2>1 DEF Types, Phases, WriteCallbackDue, ResentOnce, KeyspaceKnown, QueriesOwned, AnsweredOnce
<1> QED
  BY <1>1, <1>2

\* A new request satisfies the invariant.
LEMMA InvInit ==
  ASSUME RequestAssumption, Init
  PROVE  Inv
<1>1. Types
  BY DEF RequestAssumption, Init, Types, Phases, NoAgreement
<1> QED
  BY <1>1 DEF Init, Inv, WriteCallbackDue, ResentOnce, KeyspaceKnown, QueriesOwned, AnsweredOnce,
              NoAgreement

\* The parts that a step cannot disturb that leaves the counts and the
\* agreement alone and goes from one phase to another without an answer.
LEMMA PhaseChanges ==
  ASSUME Inv, phase' \in Phases \ {"done", "agreement"}, phase \notin {"done", "agreement"},
         UNCHANGED <<retry_policy, num_retries, resent, answers, agreement>>,
         writing' \in BOOLEAN, WriteCallbackDue', KeyspaceKnown'
  PROVE  Inv'
  BY DEF Inv, Types, Phases, ResentOnce, QueriesOwned, AnsweredOnce

\* The same for a step that answers.
LEMMA Answering ==
  ASSUME Inv, phase \notin {"done", "agreement"}, phase' = "done", answers' = answers + 1,
         UNCHANGED <<retry_policy, writing, num_retries, resent, agreement, since>>
  PROVE  Inv'
  BY DEF Inv, Types, Phases, WriteCallbackDue, ResentOnce, KeyspaceKnown, QueriesOwned, AnsweredOnce

\* The worker and the pool: a host is chosen, a connection is borrowed or
\* waited for.
LEMMA WorkerPreserves ==
  ASSUME Inv,
         NoHostsAvailable \/ TryNextHost \/ BorrowAndWrite \/ WaitForConnection \/ ConnectionReturned
           \/ WaitEnds
  PROVE  Inv'
<1> USE DEF pools, history, counts, result
<1>1. CASE NoHostsAvailable
  BY <1>1, Answering DEF NoHostsAvailable, Set
<1>2. CASE TryNextHost
  BY <1>2, PhaseChanges DEF TryNextHost, Inv, Types, WriteCallbackDue, KeyspaceKnown
<1>3. CASE BorrowAndWrite \/ ConnectionReturned
  <2>1. /\ phase \in {"retry", "waiting"} /\ keyspace \in since /\ writing = FALSE
        /\ runs_in' = keyspace
        /\ \/ phase' = "written" /\ writing' = TRUE
           \/ phase' = "use" /\ UNCHANGED writing
        /\ UNCHANGED <<retry_policy, num_retries, resent, answers, agreement, since, keyspace>>
    BY <1>3 DEF BorrowAndWrite, ConnectionReturned, PoolWrite, Inv, Types, WriteCallbackDue, KeyspaceKnown
  <2>2. writing' \in BOOLEAN /\ WriteCallbackDue'
    BY <2>1 DEF WriteCallbackDue
  <2>3. KeyspaceKnown'
    BY <2>1 DEF KeyspaceKnown
  <2> QED
    BY <2>1, <2>2, <2>3, PhaseChanges DEF Phases
<1>4. CASE WaitForConnection
  BY <1>4, PhaseChanges DEF WaitForConnection, Inv, Types, Phases, WriteCallbackDue, KeyspaceKnown
<1>5. CASE WaitEnds
  BY <1>5, PhaseChanges DEF WaitEnds, NextHostAndRetry, GoRetry, Inv, Types, Phases, WriteCallbackDue,
                            KeyspaceKnown
<1> QED
  BY <1>1, <1>2, <1>3, <1>4, <1>5

\* The keyspace handler.
LEMMA UsePreserves ==
  ASSUME Inv, UseSucceeds \/ UseFails \/ UseTimesOut
  PROVE  Inv'
<1> USE DEF pools, history, counts, result
<1>1. CASE UseSucceeds
  BY <1>1, PhaseChanges DEF UseSucceeds, Inv, Types, Phases, WriteCallbackDue, KeyspaceKnown
<1>2. CASE UseFails
  BY <1>2, PhaseChanges DEF UseFails, NextHostAndRetry, GoRetry, Inv, Types, Phases, WriteCallbackDue,
                            KeyspaceKnown
<1>3. CASE UseTimesOut
  BY <1>3, Answering DEF UseTimesOut, Set
<1> QED
  BY <1>1, <1>2, <1>3

\* The callback of a write, in time or after the answer.
LEMMA WritePreserves ==
  ASSUME Inv, OnWrite \/ OnWriteError
  PROVE  Inv'
<1> USE DEF pools, history, counts, result
<1>1. CASE OnWrite /\ phase = "retry_write_outstanding"
  BY <1>1, PhaseChanges DEF OnWrite, SameHostAndRetry, GoRetry, Inv, Types, Phases, WriteCallbackDue,
                            KeyspaceKnown
<1>2. CASE OnWrite /\ phase # "retry_write_outstanding"
  BY <1>2 DEF OnWrite, Inv, Types, WriteCallbackDue, ResentOnce, KeyspaceKnown, QueriesOwned,
              AnsweredOnce
<1>3. CASE OnWriteError
  BY <1>3, PhaseChanges DEF OnWriteError, NextHostAndRetry, GoRetry, Inv, Types, Phases, WriteCallbackDue,
                            KeyspaceKnown
<1> QED
  BY <1>1, <1>2, <1>3

\* Answers that finish the request.
LEMMA FinalAnswerPreserves ==
  ASSUME Inv, OnTimeout \/ OnResult \/ OnOtherAnswer \/ \E k \in Keyspaces : OnSetKeyspace(k)
  PROVE  Inv'
  BY Answering DEF OnTimeout, OnResult, OnOtherAnswer, OnSetKeyspace, Set, pools, history, counts

\* Errors that a policy decides on.
LEMMA PolicyPreserves ==
  ASSUME RequestAssumption, Inv,
         \/ \E received, required \in 0..Replication, data \in BOOLEAN :
              OnReadTimeout(received, required, data)
         \/ \E received \in 0..Replication, t \in WriteTypes : OnWriteTimeout(received, t)
         \/ \E alive \in 0..Replication : OnUnavailable(alive)
  PROVE  Inv'
<1>1. /\ retry_policy \in RetryPolicies /\ num_retries \in Nat
      /\ 0..Replication \subseteq Nat
  BY DEF RequestAssumption, Inv, Types
<1>2. ASSUME NEW received \in 0..Replication, NEW required \in 0..Replication, NEW data \in BOOLEAN,
             OnReadTimeout(received, required, data)
      PROVE  Inv'
  <2>1. LET decision == on_read_timeout(retry_policy, cl, received, required, data, num_retries)
        IN  decision.type \in Decisions /\ (num_retries # 0 => decision.type # "RETRY")
    BY <1>1, PolicyDecides
  <2> QED
    BY <1>2, <2>1, DecidePreserves DEF OnReadTimeout
<1>3. ASSUME NEW received \in 0..Replication, NEW t \in WriteTypes, OnWriteTimeout(received, t)
      PROVE  Inv'
  <2>1. LET decision == on_write_timeout(retry_policy, cl, received, t, num_retries)
        IN  decision.type \in Decisions /\ (num_retries # 0 => decision.type # "RETRY")
    BY <1>1, PolicyDecides
  <2> QED
    BY <1>3, <2>1, DecidePreserves DEF OnWriteTimeout
<1>4. ASSUME NEW alive \in 0..Replication, OnUnavailable(alive)
      PROVE  Inv'
  <2>1. LET decision == on_unavailable(retry_policy, cl, alive, num_retries)
        IN  decision.type \in Decisions /\ (num_retries # 0 => decision.type # "RETRY")
    BY <1>1, PolicyDecides
  <2> QED
    BY <1>4, <2>1, DecidePreserves DEF OnUnavailable
<1> QED
  BY <1>2, <1>3, <1>4

\* The prepare handler.
LEMMA PreparePreserves ==
  ASSUME Inv, OnUnprepared \/ PrepareSucceeds \/ PrepareFails
  PROVE  Inv'
<1> USE DEF pools, history, counts, result
<1>1. CASE OnUnprepared
  BY <1>1, PhaseChanges DEF OnUnprepared, Inv, Types, Phases, WriteCallbackDue, KeyspaceKnown
<1>2. CASE PrepareSucceeds \/ PrepareFails
  BY <1>2, PhaseChanges DEF PrepareSucceeds, PrepareFails, SameHostAndRetry, NextHostAndRetry, GoRetry, Inv,
                            Types, Phases, WriteCallbackDue, KeyspaceKnown
<1> QED
  BY <1>1, <1>2

\* A round of agreement queries begins.
LEMMA ExecutePreserves ==
  ASSUME Inv, NEW refused \in SUBSET Queries, Execute(refused), phase \in {"written", "agreement_wait"},
         UNCHANGED <<retry_policy, writing, pools, history, num_retries>>
  PROVE  Inv'
<1>1. \/ refused = {} /\ Cardinality(refused) = 0
      \/ refused # {} /\ refused # Queries /\ Cardinality(refused) = 1
      \/ refused = Queries /\ Cardinality(refused) = 2
  <2>1. /\ Cardinality({}) = 0
        /\ Cardinality({"local"}) = 1 /\ Cardinality({"peers"}) = 1 /\ IsFiniteSet({"local"})
    BY FS_EmptySet, FS_Singleton, Zenon
  <2>2. Cardinality(Queries) = 2
    <3>1. "peers" \notin {"local"} /\ {"local"} \cup {"peers"} = Queries
      BY DEF Queries
    <3>2. Cardinality({"local"} \cup {"peers"}) = 1 + 1
      BY <2>1, <3>1, FS_AddElement
    <3> QED
      BY <3>1, <3>2
  <2>3. \/ refused = {} \/ refused = {"local"} \/ refused = {"peers"} \/ refused = Queries
    BY DEF Queries
  <2>4. {"local"} # Queries /\ {"peers"} # Queries
    BY DEF Queries
  <2> QED
    BY <2>1, <2>2, <2>3, <2>4
<1>2. Cardinality(refused) \in 0..2
  BY <1>1
<1>3. Types'
  <2>1. agreement' \in [pending : SUBSET Queries, refused : SUBSET Queries, failed : BOOLEAN]
    BY DEF Execute
  <2>2. answers' \in Nat /\ phase' \in Phases
    BY <1>2 DEF Execute, Inv, Types, Phases
  <2> QED
    BY <2>1, <2>2 DEF Inv, Types, history
<1>4. WriteCallbackDue' /\ ResentOnce' /\ KeyspaceKnown'
  BY DEF Execute, Inv, Types, WriteCallbackDue, ResentOnce, KeyspaceKnown, pools, history
<1>5. QueriesOwned' /\ AnsweredOnce'
  <2>1. /\ answers = 0 /\ answers' = Cardinality(refused)
        /\ agreement'.refused = refused /\ agreement'.pending = Queries \ refused
        /\ phase' = IF refused = {} THEN "agreement" ELSE "done"
    BY <1>2 DEF Execute, Inv, Types, AnsweredOnce
  <2>2. CASE refused = {}
    BY <1>1, <2>1, <2>2 DEF QueriesOwned, AnsweredOnce, Queries
  <2>3. CASE refused # {} /\ refused # Queries
    BY <1>1, <2>1, <2>3 DEF QueriesOwned, AnsweredOnce
  <2>4. CASE refused = Queries
    BY <1>1, <2>1, <2>4 DEF QueriesOwned, AnsweredOnce, Queries
  <2> QED
    BY <2>2, <2>3, <2>4
<1> QED
  BY <1>3, <1>4, <1>5 DEF Inv

\* The agreement handler.
LEMMA AgreementPreserves ==
  ASSUME Inv,
         \/ \E refused \in SUBSET Queries : OnSchemaChange(refused) \/ AgreementWaitEnds(refused)
         \/ \E q \in Queries : AgreementAnswered(q) \/ AgreementFails(q)
  PROVE  Inv'
<1> USE DEF pools, history, counts, result
<1>1. ASSUME NEW refused \in SUBSET Queries, OnSchemaChange(refused) PROVE Inv'
  BY <1>1, ExecutePreserves DEF OnSchemaChange
<1>2. ASSUME NEW refused \in SUBSET Queries, AgreementWaitEnds(refused) PROVE Inv'
  BY <1>2, ExecutePreserves, Answering DEF AgreementWaitEnds, Set
<1>3. ASSUME NEW q \in Queries, AgreementAnswered(q) PROVE Inv'
  BY <1>3 DEF AgreementAnswered, Set, Inv, Types, Phases, WriteCallbackDue, ResentOnce, KeyspaceKnown,
              QueriesOwned, AnsweredOnce
<1>4. ASSUME NEW q \in Queries, AgreementFails(q) PROVE Inv'
  <2>1. /\ agreement' \in [pending : SUBSET Queries, refused : SUBSET Queries, failed : BOOLEAN]
        /\ agreement'.failed /\ agreement'.refused = agreement.refused
        /\ agreement.pending # {}
        /\ UNCHANGED <<retry_policy, writing, num_retries, resent, since, keyspace, runs_in>>
    BY <1>4 DEF AgreementFails, Inv, Types
  <2>2. CASE agreement.failed
    <3>1. phase \in {"agreement", "done"} /\ UNCHANGED <<phase, answers>>
      BY <1>4, <2>1, <2>2 DEF AgreementFails, Inv, QueriesOwned
    <3> QED
      BY <2>1, <2>2, <3>1 DEF Inv, Types, WriteCallbackDue, ResentOnce, KeyspaceKnown, QueriesOwned, AnsweredOnce
  <2>3. CASE ~agreement.failed
    <3>1. phase' = "done" /\ answers' = answers + 1
      BY <1>4, <2>3 DEF AgreementFails, Set
    <3>2. answers = 0 \/ (answers = 1 /\ agreement.refused # {})
      BY <2>1, <2>3 DEF Inv, Types, QueriesOwned, AnsweredOnce
    <3> QED
      BY <2>1, <3>1, <3>2 DEF Inv, Types, Phases, WriteCallbackDue, ResentOnce, KeyspaceKnown, QueriesOwned,
                              AnsweredOnce
  <2> QED
    BY <2>2, <2>3
<1> QED
  BY <1>1, <1>2, <1>3, <1>4

\* What goes on around the request, and answers that a handler drops.
LEMMA SurroundingsPreserve ==
  ASSUME RequestAssumption, Inv,
         \/ Dropped
         \/ \E n \in Nodes : PoolChanges(n)
         \/ \E n \in Nodes, k \in Keyspaces : OtherKeyspace(n, k)
  PROVE  Inv'
<1> USE DEF pools, history, counts, result, Inv, Types, WriteCallbackDue, ResentOnce, KeyspaceKnown,
            QueriesOwned, AnsweredOnce
<1>1. CASE Dropped
  <2>1. /\ phase \in {"use", "prepare", "agreement"}
        /\ phase' = "lost" /\ agreement' = [pending |-> {}, refused |-> {}, failed |-> FALSE]
        /\ UNCHANGED <<retry_policy, writing, num_retries, resent, answers, since, keyspace>>
    BY <1>1 DEF Dropped, NoAgreement, RequestAssumption
  <2>2. /\ agreement' \in [pending : SUBSET Queries, refused : SUBSET Queries, failed : BOOLEAN]
        /\ agreement'.pending = {} /\ answers = 0
    BY <2>1
  <2> QED
    BY <2>1, <2>2 DEF Phases
<1>2. ASSUME NEW n \in Nodes, PoolChanges(n) PROVE Inv'
  BY <1>2 DEF PoolChanges
<1>3. ASSUME NEW n \in Nodes, NEW k \in Keyspaces, OtherKeyspace(n, k) PROVE Inv'
  BY <1>3 DEF OtherKeyspace
<1> QED
  BY <1>1, <1>2, <1>3

\* Every step preserves the invariant.
LEMMA InvNext ==
  ASSUME RequestAssumption, Inv, [Next]_vars
  PROVE  Inv'
<1>1. CASE Progress
  BY <1>1, WorkerPreserves, UsePreserves, WritePreserves, FinalAnswerPreserves, PreparePreserves,
     AgreementPreserves DEF Progress
<1>2. CASE Answers
  BY <1>2, UsePreserves, FinalAnswerPreserves, PolicyPreserves, PreparePreserves, AgreementPreserves DEF Answers
<1>3. CASE BorrowAndWrite \/ WaitForConnection \/ ConnectionReturned \/ OnWriteError
  BY <1>3, WorkerPreserves, WritePreserves
<1>4. CASE \/ Dropped
           \/ \E n \in Nodes : PoolChanges(n)
           \/ \E n \in Nodes, k \in Keyspaces : OtherKeyspace(n, k)
  BY <1>4, SurroundingsPreserve
<1>5. CASE UNCHANGED vars
  BY <1>5 DEF vars, Inv, Types, WriteCallbackDue, ResentOnce, KeyspaceKnown, QueriesOwned, AnsweredOnce
<1> QED
  BY <1>1, <1>2, <1>3, <1>4, <1>5 DEF Next

\* The invariant holds in every reachable state.
LEMMA InvAlways ==
  ASSUME RequestAssumption
  PROVE  Spec => []Inv
<1>1. Init => Inv
  BY InvInit
<1>2. Inv /\ [Next]_vars => Inv'
  BY InvNext
<1> QED
  BY <1>1, <1>2, PTL DEF Spec

-----------------------------------------------------------------------------
(***************************************************************************)
(* RequestHandler sets the future of a request when it is done, once,      *)
(* whatever the nodes answer; when an agreement query found no stream it   *)
(* may do so twice, and no more.                                           *)
(***************************************************************************)
THEOREM FutureSetOnce ==
  ASSUME RequestAssumption
  PROVE  Spec => []AnsweredOnce
<1>1. Inv => AnsweredOnce
  BY DEF Inv
<1> QED
  BY <1>1, InvAlways, PTL

(***************************************************************************)
(* A request runs in a keyspace that was the session's while the worker    *)
(* had it, however keyspaces change meanwhile.                             *)
(***************************************************************************)
THEOREM KeyspaceIsCurrent ==
  ASSUME RequestAssumption
  PROVE  Spec => []RanInCurrentKeyspace
<1>1. Inv => RanInCurrentKeyspace
  BY DEF Inv, KeyspaceKnown, RanInCurrentKeyspace
<1> QED
  BY <1>1, InvAlways, PTL

(***************************************************************************)
(* No retry starts while the callback of the previous write is due, and    *)
(* the policies have a request sent again at most once.                    *)
(***************************************************************************)
THEOREM RetriesAreSafe ==
  ASSUME RequestAssumption
  PROVE  Spec => []RetriesSafe
<1>1. Inv => RetriesSafe
  BY DEF Inv, WriteCallbackDue, ResentOnce, RetriesSafe
<1> QED
  BY <1>1, InvAlways, PTL
=============================================================================
