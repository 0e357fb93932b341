------------------------------ MODULE MCDriver ------------------------------
(***************************************************************************)
(* Parts of the driver that must come to an end, for TLC: a future, the    *)
(* control connection, and a snapshot of the metrics.                      *)
(*                                                                         *)
(* A behaviour is one of one component.  The variables of Future are its   *)
(* own and keep their initial values in the behaviours of the others; the  *)
(* variables of the others stand in v1, v2, ....                           *)
(***************************************************************************)
EXTENDS Future, Sequences

CONSTANTS NoHost, w1, w2, r1, Unused

VARIABLES component,
  v1, v2, v3, v4, v5, v6, v7, v8, v9, v10, v11, v12

controlVars == <<v1, v2, v3, v4, v5, v6, v7, v8, v9, v10, v11, v12>>
metricsVars == <<v1, v2, v3, v4, v5, v6, v7, v8, v9, v10, v11>>
allVars == <<component, vars, controlVars>>

UnusedByMetrics == v12 = Unused
UnusedAll ==
  /\ v1 = Unused /\ v2 = Unused /\ v3 = Unused /\ v4 = Unused /\ v5 = Unused /\ v6 = Unused
  /\ v7 = Unused /\ v8 = Unused /\ v9 = Unused /\ v10 = Unused /\ v11 = Unused
  /\ UnusedByMetrics
-----------------------------------------------------------------------------
LB == INSTANCE LoadBalancing

\* Three nodes in two data centers, two of which the application named; the
\* rows of system.peers are one of two sets, with a row without an address (0) and one with
\* 0.0.0.0 (-1).  Plans have no remote host, or one.
Of(use_schema, used, events) ==
  [use_schema |-> use_schema, settings |-> LB!Settings("DCAware", LB!NoDC, used, FALSE, {}), max_events |-> events]

MCPeerTables ==
  {{[peer |-> 2, rpc |-> 2], [peer |-> 1, rpc |-> 2], [peer |-> 3, rpc |-> 0]},
   {[peer |-> 2, rpc |-> -1], [peer |-> 3, rpc |-> 3], [peer |-> 1, rpc |-> 1]}}

C == INSTANCE ControlConnection WITH
  Addresses <- {1, 2, 3}, ContactPoints <- {1, 2}, Configurations <- {Of(TRUE, 0, 2), Of(FALSE, 1, 1)},
  PeerTables <- MCPeerTables, DC <- <<1, 1, 2>>, Supported <- <<1, 2, 2>>, HighestVersion <- 2, MaxLosses <- 1,
  state <- v1, config <- v2, conn <- v3, version <- v4, plan <- v5, timer <- v6,
  cluster <- v7, refreshes <- v8, outcome <- v9, excused <- v10, events <- v11, losses <- v12

\* Snapshots of one thread, enough to meet each phase again; and of two threads.
M == INSTANCE Metrics WITH
  Writers <- {w1}, Readers <- {r1}, MaxRecords <- 3, MaxSnapshots <- 3,
  histograms <- v1, epochs <- v2, writer <- v3, reader <- v4, mutex <- v5, total <- v6,
  before <- v7, uncounted <- v8, counted <- v9, records <- v10, snapshots <- v11

N == INSTANCE Metrics WITH
  Writers <- {w1, w2}, Readers <- {r1}, MaxRecords <- 2, MaxSnapshots <- 1,
  histograms <- v1, epochs <- v2, writer <- v3, reader <- v4, mutex <- v5, total <- v6,
  before <- v7, uncounted <- v8, counted <- v9, records <- v10, snapshots <- v11

ASSUME MetricsAssumption == M!MetricsAssumption /\ N!MetricsAssumption
-----------------------------------------------------------------------------
AllInit ==
  /\ Init
  /\ \/ component = "future" /\ UnusedAll
     \/ component = "control" /\ C!Init
     \/ component = "metrics" /\ M!Init /\ UnusedByMetrics
     \/ component = "metrics of two" /\ N!Init /\ UnusedByMetrics

AllNext ==
  /\ UNCHANGED component
  /\ \/ component = "future" /\ Next /\ UNCHANGED controlVars
     \/ component = "control" /\ C!Next /\ UNCHANGED vars
     \/ component = "metrics" /\ M!Next /\ UNCHANGED <<vars, v12>>
     \/ component = "metrics of two" /\ N!Next /\ UNCHANGED <<vars, v12>>

\* The fairness of the modules.
AllFairness ==
  /\ \A t \in Waiting : WF_vars(component = "future" /\ WaitStep(t))
  /\ WF_vars(component = "future" /\ SetStep) /\ WF_vars(component = "future" /\ WorkStep)
  /\ \A c \in Callers : WF_vars(component = "future" /\ CallStep(c))
  /\ WF_controlVars(component = "control" /\ C!Progress)
  /\ WF_metricsVars(IF component = "metrics" THEN M!Write(w1) ELSE component = "metrics of two" /\ N!Write(w1))
  /\ WF_metricsVars(component = "metrics of two" /\ N!Write(w2))
  /\ WF_metricsVars(IF component = "metrics" THEN M!Read(r1) ELSE component = "metrics of two" /\ N!Read(r1))

AllSpec == AllInit /\ [][AllNext]_allVars /\ AllFairness
-----------------------------------------------------------------------------
(* Properties *)

\* Future: an accepted callback runs, a waiting thread returns.
FutureCompletes == AcceptedCallbackRuns /\ WaitersReturn

\* ControlConnection: a host that is up in the local data center is in the
\* list plans are made from, whatever the order of events and answers.
LocalHostsListed == component = "control" => C!LocalHostsListed

\* ControlConnection::on_query_hosts: each new connection catches up with the
\* events that were missed.
CatchesUp == [][component = "control" => C!CatchingUp]_allVars

\* ControlConnection: connecting ends, unless an event of an unknown node ended
\* the process; and when a connection is lost another one is tried, as long as a
\* local host is up.
ControlRecovers ==
  /\ <>(component = "control" => v9 # "none" \/ v1 = "CRASHED")
  /\ component = "control" /\ C!Lost ~> ~(component = "control" /\ C!Lost)

\* Metrics: while a snapshot adds a histogram no thread records into it, and
\* the snapshot has every latency recorded before it began.
SnapshotComplete ==
  /\ component = "metrics" => M!AddedAlone /\ M!SnapshotComplete
  /\ component = "metrics of two" => N!AddedAlone /\ N!SnapshotComplete

\* Metrics: cass_session_get_metrics returns, however the threads record.
Taken == component \in {"metrics", "metrics of two"} /\ v5 = r1
SnapshotEnds == Taken ~> ~Taken
=============================================================================
