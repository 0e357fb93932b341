----------------------------- MODULE QueryPlan -----------------------------
(***************************************************************************)
(* The walk over a query plan.  The session thread makes the plan, an I/O  *)
(* worker asks it for one host after the other, and meanwhile the session  *)
(* thread is told of hosts that go down and come up, other workers measure *)
(* latencies, and a thread of the pool computes their minimum.             *)
(*                                                                         *)
(* A step of the walk is one round of a loop of a compute_next: it loads   *)
(* the state of one host, which another thread may change before the next  *)
(* round.  The lists of hosts are copied on write: a plan walks the list   *)
(* as it was when the plan took it.                                        *)
(***************************************************************************)
EXTENDS LoadBalancing

CONSTANTS
  Hosts,          \* the addresses in hosts_
  DC,             \* host -> its data center
  Configs,        \* the compositions of policies: [settings, token, latency], and two
                  \* bounds: the hosts that go down, and the latencies measured
  Replicas,       \* what get_replicas may return for a routing key
  Latencies,      \* what a request may take
  MinMeasured,    \* settings_.min_measured
  Exclusion       \* settings_.exclusion_threshold

QueryPlanAssumption ==
  /\ Hosts \subseteq Nat /\ IsFiniteSet(Hosts)
  /\ DC \in [Hosts -> Nat]
  /\ \A r \in Replicas : r \in Seq(Hosts)
  /\ \A c \in Configs : c.settings \in [kind : {"RoundRobin", "DCAware"}, local_dc : Nat, used : Nat,
                                       skip : BOOLEAN, whitelist : SUBSET Nat]
  /\ Latencies \subseteq Nat /\ {MinMeasured, Exclusion} \subseteq Nat

VARIABLES
  config, policy,
  up,             \* the hosts whose state_ is UP
  latency,        \* host -> TimestampedAverage, with expired for its timestamp
  measured, min_average,  \* hosts_ and min_average_ of the LatencyAwarePolicy
  plan,
  given,          \* what compute_next has returned so far
  stable,         \* history: hosts up, and in the policy's list, since the plan was made
  downs, updates

vars == <<config, policy, up, latency, measured, min_average, plan, given, stable, downs, updates>>

NoPlan == [state |-> "none"]
NoDCs == {-1}                   \* remote_dcs_ was not copied yet
NoAverage == [average |-> -1, num_measured |-> 0, expired |-> FALSE]

Init ==
  /\ config \in Configs
  /\ \E connected \in Hosts, i \in 0..(Cardinality(Hosts) - 1) :
       policy = [PolicyInit(NewPolicy(config.settings), DC[connected], Hosts, DC) EXCEPT !.index = i]
  /\ up = Hosts
  /\ latency = [h \in Hosts |-> NoAverage]
  /\ measured = Hosts /\ min_average = -1
  /\ plan = NoPlan /\ given = <<>> /\ stable = {}
  /\ downs = 0 /\ updates = 0

----------------------------------------------------------------------------
(* The session thread *)

OnDown(h) ==
  /\ h \in up /\ downs < config.max_downs
  /\ up' = up \ {h}
  /\ policy' = PolicyOnRemove(policy, h, DC[h])
  /\ measured' = measured \ {h}
  /\ stable' = stable \ {h}
  /\ downs' = downs + 1
  /\ UNCHANGED <<config, latency, min_average, plan, given, updates>>

OnUp(h) ==
  /\ h \notin up
  /\ up' = up \cup {h}
  /\ policy' = SessionOnUp(policy, h, DC[h])
  /\ measured' = IF Distance(policy, h, DC[h]) = "IGNORE" THEN measured ELSE measured \cup {h}
  /\ UNCHANGED <<config, latency, min_average, plan, given, stable, downs, updates>>

\* new_query_plan of the chain: routed says that the request is one with a routing
\* key and a keyspace; start is the index_ of the TokenAwarePolicy; local_cl says that
\* the consistency is local to a data center, which only a DCAwarePolicy reads.
NewQueryPlan(routed, replicas, start, local_cl) ==
  /\ plan = NoPlan
  /\ LET token == config.token /\ routed /\ replicas # <<>> IN
     plan' = [state |-> "idle", min |-> -1, local_cl |-> local_cl /\ policy.settings.kind = "DCAware",
              hosts |-> policy.hosts, index |-> policy.index,
              local |-> Len(policy.hosts), remote |-> 0, dcs |-> NoDCs,
              replicas |-> IF token THEN replicas ELSE <<>>,
              replica_index |-> IF token THEN start ELSE 0,
              replicas_left |-> IF token THEN Len(replicas) ELSE 0,
              skipped |-> <<>>, skipped_index |-> 0]
  /\ policy' = [policy EXCEPT !.index = @ + 1]
  /\ stable' = up \cap ToSet(policy.hosts)
  /\ UNCHANGED <<config, up, latency, measured, min_average, given, downs, updates>>

----------------------------------------------------------------------------
(* Latencies *)

\* LatencyTracker::update: an average is kept once enough was measured; the new one
\* lies between the latency and the old one, nearer to the old the sooner it is.
NewAverages(old, l) ==
  IF old.num_measured < (30 * MinMeasured) \div 100 THEN {-1}
  ELSE IF old.average < 0 THEN {l}
  ELSE {a \in 0..100 : (a >= l /\ a <= old.average) \/ (a <= l /\ a >= old.average)}

UpdateLatency(h, l) ==
  /\ config.latency /\ updates < config.max_updates
  /\ \E a \in NewAverages(latency[h], l) :
       latency' = [latency EXCEPT ![h] =
                     [average |-> a, num_measured |-> @.num_measured + 1, expired |-> FALSE]]
  /\ updates' = updates + 1
  /\ UNCHANGED <<config, policy, up, measured, min_average, plan, given, stable, downs>>

\* A measurement becomes older than retry_period_ns.
Expire(h) ==
  /\ latency[h].num_measured > 0 /\ ~latency[h].expired
  /\ latency' = [latency EXCEPT ![h].expired = TRUE]
  /\ UNCHANGED <<config, policy, up, measured, min_average, plan, given, stable, downs, updates>>

Counts(t) == t.average >= 0 /\ t.num_measured >= MinMeasured /\ ~t.expired

\* LatencyAwarePolicy::on_work, on a thread of the pool.
OnWork ==
  LET averages == {latency[h].average : h \in {x \in measured : Counts(latency[x])}} IN
  /\ config.latency /\ averages # {}
  /\ min_average' = Min(averages)
  /\ UNCHANGED <<config, policy, up, latency, measured, plan, given, stable, downs, updates>>

TooSlow(h) ==
  /\ config.latency /\ plan.min >= 0
  /\ Counts(latency[h]) /\ latency[h].average > Exclusion * plan.min

----------------------------------------------------------------------------
(* The I/O worker that walks the plan *)

WalkFrame ==
  UNCHANGED <<config, policy, up, latency, measured, min_average, stable, downs, updates>>

\* compute_next is called: the request needs its first host, or the next one.
ComputeNext ==
  /\ plan.state = "idle"
  /\ plan' = [plan EXCEPT !.state = "walking", !.min = min_average]
  /\ UNCHANGED given /\ WalkFrame

Give(p, h) == plan' = [p EXCEPT !.state = "idle"] /\ given' = Append(given, h)

\* LatencyAwareQueryPlan: a host that is too slow is kept for the end.
ThroughLatency(p, h) ==
  \/ ~TooSlow(h) /\ Give(p, h)
  \/ TooSlow(h) /\ plan' = [p EXCEPT !.skipped = Append(@, h)] /\ UNCHANGED given

\* TokenAwareQueryPlan: the replicas first, if they are up and local ...
WalkReplicas ==
  LET h == plan.replicas[(plan.replica_index % Len(plan.replicas)) + 1]
      p == [plan EXCEPT !.replicas_left = @ - 1, !.replica_index = @ + 1] IN
  /\ plan.state = "walking" /\ plan.replicas_left > 0
  /\ IF h \in up /\ Distance(policy, h, DC[h]) = "LOCAL" THEN ThroughLatency(p, h)
     ELSE plan' = p /\ UNCHANGED given
  /\ WalkFrame

\* Faulty: replicas are not recognised when the plan below names them again.
ThroughTokenAgain(p, h) == ThroughLatency(p, h)

\* ... then what the plan below has, without those.
ThroughToken(p, h) ==
  LET seen == Contains(p.replicas, h) /\ Distance(policy, h, DC[h]) = "LOCAL" IN
  \/ ~seen /\ ThroughLatency(p, h)
  \/ seen /\ plan' = p /\ UNCHANGED given

HostAt(p) == p.hosts[(p.index % Len(p.hosts)) + 1]

\* A round of the first loop of RoundRobinQueryPlan and DCAwareQueryPlan.
WalkLocal ==
  LET p == [plan EXCEPT !.local = @ - 1, !.index = @ + 1] IN
  /\ plan.state = "walking" /\ plan.replicas_left = 0 /\ plan.local > 0
  /\ \/ HostAt(plan) \in up /\ ThroughToken(p, HostAt(plan))
     \/ HostAt(plan) \notin up /\ plan' = p /\ UNCHANGED given
  /\ WalkFrame

LocalDone == plan.state = "walking" /\ plan.replicas_left = 0 /\ plan.local = 0

UsesRemote == policy.settings.kind = "DCAware" /\ ~(policy.settings.skip /\ plan.local_cl)

CopyDCs ==
  /\ LocalDone /\ UsesRemote /\ plan.dcs = NoDCs
  /\ plan' = [plan EXCEPT !.dcs = DOMAIN policy.remote]
  /\ UNCHANGED given /\ WalkFrame

\* The next remote data center: its list as it is now.
NextDC ==
  LET d == Min(plan.dcs)
      hosts == get_hosts(policy, d) IN
  /\ LocalDone /\ UsesRemote /\ plan.remote = 0 /\ plan.dcs \notin {NoDCs, {}}
  /\ plan' = [plan EXCEPT !.hosts = hosts, !.dcs = @ \ {d},
                          !.remote = IF Len(hosts) < policy.settings.used THEN Len(hosts)
                                     ELSE policy.settings.used]
  /\ UNCHANGED given /\ WalkFrame

WalkRemote ==
  LET p == [plan EXCEPT !.remote = @ - 1, !.index = @ + 1] IN
  /\ LocalDone /\ plan.remote > 0
  /\ \/ HostAt(plan) \in up /\ ThroughToken(p, HostAt(plan))
     \/ HostAt(plan) \notin up /\ plan' = p /\ UNCHANGED given
  /\ WalkFrame

Exhausted == LocalDone /\ plan.remote = 0 /\ (UsesRemote => plan.dcs = {})

\* What was skipped, then nothing more.
Finish ==
  /\ Exhausted
  /\ \/ /\ plan.skipped_index < Len(plan.skipped)
        /\ Give([plan EXCEPT !.skipped_index = @ + 1], plan.skipped[plan.skipped_index + 1])
     \/ /\ plan.skipped_index = Len(plan.skipped)
        /\ plan' = [plan EXCEPT !.state = "ended"]
        /\ UNCHANGED given
  /\ WalkFrame

Next ==
  \/ \E h \in Hosts : OnDown(h) \/ OnUp(h) \/ Expire(h)
  \/ \E h \in Hosts, l \in Latencies : UpdateLatency(h, l)
  \/ OnWork
  \/ \E routed, local_cl \in BOOLEAN, r \in Replicas :
       \E start \in 0..Len(r) : NewQueryPlan(routed, r, start, local_cl)
  \/ ComputeNext \/ WalkReplicas \/ WalkLocal \/ CopyDCs \/ NextDC \/ WalkRemote \/ Finish

Spec == Init /\ [][Next]_vars

----------------------------------------------------------------------------
IsLocal(h) == Distance(policy, h, DC[h]) = "LOCAL"

\* The replication strategies collect the hosts of the tokens that follow one, so a
\* host with several tokens may be among the replicas of a key more than once.
Repeated(q) == {h \in ToSet(q) : \E i, j \in DOMAIN q : i # j /\ q[i] = h /\ q[j] = h}

(***************************************************************************)
(* However hosts go down, come up and slow down while the plan is walked,  *)
(* it names no host twice (a retry never returns to the host that failed), *)
(* unless the token map has the host twice among the replicas of the key;  *)
(* and once it has ended every local host that was up all the time was     *)
(* named.                                                                  *)
(***************************************************************************)
EachHostOnce ==
  /\ \A i, j \in DOMAIN given : given[i] = given[j] => i = j \/ given[i] \in Repeated(plan.replicas)
  /\ plan.state = "ended" => stable \subseteq ToSet(given)

(***************************************************************************)
(* A host that is known to be of a remote data center is named only after  *)
(* every local host that was up all the time, those left aside as slow     *)
(* excepted.  (A DCAwarePolicy that is told of a host before any data      *)
(* center is known keeps it in the local list, from where it is named.)    *)
(***************************************************************************)
LocalBeforeRemote ==
  \A i \in DOMAIN given :
    ~IsLocal(given[i]) /\ DC[given[i]] # NoDC
      => stable \subseteq ToSet(SubSeq(given, 1, i)) \cup ToSet(plan.skipped)

(***************************************************************************)
(* A query plan serves a request well: both of the above.                  *)
(***************************************************************************)
PlanSound == EachHostOnce /\ LocalBeforeRemote
=============================================================================
