--------------------------- MODULE LoadBalancing ---------------------------
(***************************************************************************)
(* The load balancing policies as operators on the record of what a policy *)
(* keeps: RoundRobinPolicy or DCAwarePolicy, behind an optional whitelist. *)
(* All of these run on the session thread (LatencyAware and TokenAware only *)
(* forward them).  Plans, which other threads walk, are in QueryPlan.      *)
(*                                                                         *)
(* A host is its address, a number: the hosts_ map of the session is       *)
(* ordered by it.  A data center is a number too, NoDC the empty name.     *)
(***************************************************************************)
EXTENDS Integers, Sequences, FiniteSets, SequencesExt

NoDC == 0

\* What Config::load_balancing_policy composes.
Settings(kind, local_dc, used, skip, whitelist) ==
  [kind |-> kind,                \* "RoundRobin" or "DCAware"
   local_dc |-> local_dc,        \* as configured, NoDC when it is to be discovered
   used |-> used,                \* used_hosts_per_remote_dc_
   skip |-> skip,                \* skip_remote_dcs_for_local_cl_
   whitelist |-> whitelist]      \* contact points of the WhitelistPolicy, {} for none

NewPolicy(settings) ==
  [settings |-> settings,
   local_dc |-> settings.local_dc,
   hosts |-> <<>>,               \* hosts_ or local_dc_live_hosts_
   remote |-> <<>>,              \* per_remote_dc_live_hosts_: data center -> hosts
   index |-> 0]

\* Addresses in their order, as in a map of hosts.
InOrder(S) == [i \in 1..Cardinality(S) |-> CHOOSE h \in S : Cardinality({g \in S : g < h}) = i - 1]

copy_hosts(from, to) == to \o InOrder(from)

add_host(hosts, h) == IF Contains(hosts, h) THEN hosts ELSE Append(hosts, h)

remove_host(hosts, h) == IF Contains(hosts, h) THEN RemoveFirst(hosts, h) ELSE hosts

get_hosts(p, d) == IF d \in DOMAIN p.remote THEN p.remote[d] ELSE <<>>

WithRemote(p, d, hosts) ==
  [p EXCEPT !.remote = [x \in DOMAIN p.remote \cup {d} |-> IF x = d THEN hosts ELSE p.remote[x]]]

is_valid_host(p, h) == p.settings.whitelist = {} \/ h \in p.settings.whitelist

\* The first host with a data center settles which one is local.
Discover(p, d) ==
  IF p.settings.kind = "DCAware" /\ p.local_dc = NoDC THEN [p EXCEPT !.local_dc = d] ELSE p

OnAddDCAware(p, h, d) ==
  LET q == Discover(p, d) IN
  IF d = q.local_dc THEN [q EXCEPT !.hosts = Append(@, h)]
  ELSE WithRemote(q, d, add_host(get_hosts(q, d), h))

OnAddValid(p, h, d) ==
  IF p.settings.kind = "RoundRobin" THEN [p EXCEPT !.hosts = add_host(@, h)]
  ELSE OnAddDCAware(p, h, d)

\* on_add, and on_up, which is the same in every policy.
PolicyOnAdd(p, h, d) == IF is_valid_host(p, h) THEN OnAddValid(p, h, d) ELSE p

\* on_remove, and on_down, which is the same in every policy.
PolicyOnRemove(p, h, d) ==
  IF ~is_valid_host(p, h) THEN p
  ELSE IF p.settings.kind = "RoundRobin" \/ d = p.local_dc THEN [p EXCEPT !.hosts = remove_host(@, h)]
  ELSE IF d \in DOMAIN p.remote THEN WithRemote(p, d, remove_host(p.remote[d], h)) ELSE p

\* init: the data center of the connected host first (NoDC when it has left the map),
\* then on_add for every host.  As long as no data center is known, hosts without one
\* count as local.
PolicyInit(p, connected_dc, hosts, dc) ==
  LET valid == {h \in hosts : is_valid_host(p, h)}
      known == {h \in valid : dc[h] # NoDC}
      discovered == Discover(p, connected_dc).local_dc
      local == IF discovered = NoDC /\ known # {} THEN dc[Min(known)] ELSE discovered
      early == {h \in valid : dc[h] = discovered /\ \A g \in known : h < g}
      home == {h \in valid : dc[h] = local} \cup early
      away(d) == {h \in valid \ home : dc[h] = d /\ ~Contains(get_hosts(p, d), h)} IN
  IF p.settings.kind = "RoundRobin" THEN [p EXCEPT !.hosts = copy_hosts(valid, @)]
  ELSE [p EXCEPT !.local_dc = local,
                 !.hosts = copy_hosts(home, @),
                 !.remote = [d \in DOMAIN @ \cup {dc[h] : h \in valid \ home} |->
                               copy_hosts(away(d), get_hosts(p, d))]]

\* distance of a host in data center d.
Distance(p, h, d) ==
  LET hosts == get_hosts(p, d)
      used == IF Len(hosts) < p.settings.used THEN Len(hosts) ELSE p.settings.used IN
  IF ~is_valid_host(p, h) THEN "IGNORE"
  ELSE IF p.settings.kind = "RoundRobin" \/ p.local_dc = NoDC \/ d = p.local_dc THEN "LOCAL"
  ELSE IF Contains(SubSeq(hosts, 1, used), h) THEN "REMOTE" ELSE "IGNORE"

\* Session::on_up, and Session::on_add once the session is connected: the policy
\* is asked for the distance before it is told of the host.
SessionOnUp(p, h, d) == IF Distance(p, h, d) = "IGNORE" THEN p ELSE PolicyOnAdd(p, h, d)
=============================================================================
