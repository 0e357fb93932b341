---------------------------- MODULE Replication ----------------------------
(***************************************************************************)
(* The replication strategies of replication_strategy.cpp: from the ring   *)
(* (token -> host) and the strategy of a keyspace, the hosts that hold     *)
(* each token range, in the order the token-aware policy tries them.       *)
(***************************************************************************)
EXTENDS Integers, Sequences, FiniteSets, FiniteSetsExt, SequencesExt

CONSTANTS
    DC,         \* Host -> data centre, NoName when the host has none
    Rack,       \* Host -> rack, NoName when the host has none
    NoName      \* the empty string

\* A strategy object.  rf maps data centres to positive counts
\* (NetworkTopologyStrategy) or is a number (SimpleStrategy).
NetworkTopologyStrategy(rf) == [class |-> "NetworkTopologyStrategy", rf |-> rf]
SimpleStrategy(n) == [class |-> "SimpleStrategy", rf |-> n]
NonReplicatedStrategy == [class |-> "LocalStrategy", rf |-> 0]

\* build_dc_replicas: the options of the keyspace, without "class"; a data
\* centre whose factor is 0 (or no number) is left out.
build_dc_replicas(options) ==
    LET dcs == {dc \in DOMAIN options : options[dc] > 0}
    IN  [dc \in dcs |-> options[dc]]

get_replication_factor(options) ==
    IF "replication_factor" \in DOMAIN options THEN options["replication_factor"] ELSE 0

\* from_keyspace_meta: the strategy a keyspace's class and options ask for.
from_keyspace_meta(ks) ==
    CASE ks.class = "NetworkTopologyStrategy" ->
            NetworkTopologyStrategy(build_dc_replicas(ks.options))
      [] ks.class = "SimpleStrategy" -> SimpleStrategy(get_replication_factor(ks.options))
      [] OTHER -> NonReplicatedStrategy

\* equal(): whether a keyspace still asks for this strategy.
equal(strategy, ks) == from_keyspace_meta(ks) = strategy

\* The tokens of a ring in the order of the std::map that holds them, from
\* token t on and once around.
From(ring, t) ==
    LET sorted == SetToSortSeq(DOMAIN ring, <)
        i == CHOOSE j \in 1..Len(sorted) : sorted[j] = t
    IN  SubSeq(sorted, i, Len(sorted)) \o SubSeq(sorted, 1, i - 1)

racks_in_dcs(ring, dc) ==
    {Rack[h] : h \in {g \in Range(ring) : DC[g] = dc /\ DC[g] # NoName}} \ {NoName}

\* What the inner loop of NetworkTopologyStrategy keeps for one token.  An
\* entry of counts appears when its data centre is first met: the comparison
\* with the replication factors is between maps.
Walk == [replicas |-> <<>>, counts |-> <<>>, observed |-> {}, skipped |-> <<>>]

Count(w, dc) == IF dc \in DOMAIN w.counts THEN w.counts[dc] ELSE 0
WithCount(w, dc, n) ==
    [d \in DOMAIN w.counts \cup {dc} |-> IF d = dc THEN n ELSE w.counts[d]]

Push(w, dc, hosts) ==
    [w EXCEPT !.replicas = @ \o hosts, !.counts = WithCount(w, dc, Count(w, dc) + Len(hosts))]

\* One step of the inner loop: the host of the next token around the ring.
\* Hosts of a rack that was met before wait until every rack of their data
\* centre was met; then as many of them as are needed follow.
VisitHost(ring, rfs, w, host) ==
    LET dc == DC[host]
        rack == Rack[host]
        all == racks_in_dcs(ring, dc)
        Observed(v) == {r \in all : <<dc, r>> \in v.observed}
        isdc(h) == DC[h] = dc
        seen == [w EXCEPT !.counts = WithCount(w, dc, Count(w, dc))]
        first == [Push(w, dc, <<host>>) EXCEPT !.observed = @ \cup {<<dc, rack>>}]
        waiting == SelectSeq(first.skipped, isdc)
        n == Min({Len(waiting), rfs[dc] - Count(first, dc)})
    IN  IF w.counts = rfs \/ dc = NoName \/ dc \notin DOMAIN rfs THEN w
        ELSE IF Count(w, dc) >= rfs[dc] THEN seen
        ELSE IF rack = NoName \/ Observed(w) = all THEN Push(w, dc, <<host>>)
        ELSE IF <<dc, rack>> \in w.observed THEN [seen EXCEPT !.skipped = Append(@, host)]
        ELSE IF Observed(first) # all THEN first
        ELSE Push(first, dc, SubSeq(waiting, 1, n))

NetworkTopologyReplicas(ring, rfs, t) ==
    LET Visit(w, token) == VisitHost(ring, rfs, w, ring[token])
    IN  FoldLeft(Visit, Walk, From(ring, t)).replicas

\* SimpleStrategy: the hosts of the next tokens, counted by token.  The loop
\* runs at least once, also for a factor of 0.
SimpleReplicas(ring, rf, t) ==
    LET target == Min({rf, Cardinality(DOMAIN ring)})
        tokens == SubSeq(From(ring, t), 1, Max({1, target}))
    IN  [i \in 1..Len(tokens) |-> ring[tokens[i]]]

tokens_to_replicas(strategy, ring) ==
    [t \in DOMAIN ring |->
        CASE strategy.class = "NetworkTopologyStrategy" ->
                NetworkTopologyReplicas(ring, strategy.rf, t)
          [] strategy.class = "SimpleStrategy" -> SimpleReplicas(ring, strategy.rf, t)
          [] OTHER -> <<ring[t]>>]

-----------------------------------------------------------------------------
\* The replicas a data centre should have: the reference definition.
InDC(hosts, dc) == SelectSeq(hosts, LAMBDA h : DC[h] = dc)
HostsOf(ring, dc) == {h \in Range(ring) : DC[h] = dc}
RacksOf(hosts) == {Rack[h] : h \in hosts} \ {NoName}

\* In a ring where every host has one token, NetworkTopologyStrategy gives
\* every range, in every data centre of the keyspace, as many distinct hosts
\* as the factor asks for or the data centre has, spread over as many racks
\* as there are, and the owner of the range first among its data centre.
PlacedPerDC(ring, rfs) ==
    \A t \in DOMAIN ring :
        LET replicas == NetworkTopologyReplicas(ring, rfs, t)
        IN  \A dc \in DOMAIN rfs :
                LET mine == InDC(replicas, dc)
                    n == Min({rfs[dc], Cardinality(HostsOf(ring, dc))})
                    racked == \A h \in HostsOf(ring, dc) : Rack[h] # NoName
                IN  /\ Len(mine) = n
                    /\ Cardinality(Range(mine)) = n
                    /\ racked => Cardinality(RacksOf(Range(mine)))
                                   = Min({n, Cardinality(racks_in_dcs(ring, dc))})
                    /\ DC[ring[t]] = dc /\ rfs[dc] > 0 => mine[1] = ring[t]
=============================================================================
