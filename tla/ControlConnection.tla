------------------------- MODULE ControlConnection -------------------------
(***************************************************************************)
(* The control connection and what it keeps for the session: the map of    *)
(* hosts, the load balancing policy's lists, the pools the workers were    *)
(* told to have.  Everything runs on the session thread; a step is one     *)
(* callback: an event of the server, the answer to a query, the end of a   *)
(* connection, the timer, a worker's NOTIFY_UP or NOTIFY_DOWN.  Answers    *)
(* come in any order, and events between a query and its answer.           *)
(*                                                                         *)
(* Schema events and their queries are in Metadata.                        *)
(***************************************************************************)
EXTENDS LoadBalancing, Functions, TLC

CONSTANTS
  Addresses,       \* the nodes of the cluster
  ContactPoints,   \* those the application named
  Configurations,  \* records [use_schema, settings, max_events]: the last is a bound
  PeerTables,      \* what system.peers may hold: sets of rows [peer, rpc]
  DC,              \* address -> data center its row names
  Supported,       \* address -> highest protocol version of the node
  HighestVersion,  \* the version the client starts with
  MaxLosses,       \* bound: connections lost once the session is connected
  NoHost

NoRpc == 0         \* rpc_address is null
BindAny == -1      \* 0.0.0.0 or ::

ControlAssumption ==
  /\ Addresses \subseteq Nat \ {0} /\ ContactPoints \subseteq Addresses /\ ContactPoints # {}
  /\ \A t \in PeerTables : t \subseteq [peer : Addresses, rpc : Addresses \cup {NoRpc, BindAny}]
  /\ {HighestVersion, MaxLosses} \subseteq Nat

VARIABLES
  state,           \* state_: "NEW", "READY", "CLOSED"; "CRASHED" when the process ended
  config,
  conn,            \* connection_: its host, and what it is doing
  version,         \* protocol_version_
  plan,            \* query_plan_: hosts it has not given
  timer,           \* reconnect_timer_ is running
  cluster,         \* the session's hosts_, current_host_mark_, policy and pools
  refreshes,       \* queries about one node without answer
  outcome,         \* what became of connecting the session
  excused,         \* history: hosts marked by a refresh that was given up
  events, losses

vars == <<state, config, conn, version, plan, timer, cluster, refreshes, outcome, excused,
          events, losses>>

NoConnection == [host |-> NoHost, phase |-> "none"]
Connecting(h) == [host |-> h, phase |-> "connecting"]

\* Host::Host.
NewHost(mark) == [state |-> "ADDED", dc |-> NoDC, mark |-> mark]

Init ==
  /\ state = "NEW" /\ config \in Configurations
  /\ cluster = [hosts |-> [h \in ContactPoints |-> NewHost(TRUE)], mark |-> FALSE,
             policy |-> NewPolicy(config.settings), pooled |-> {}]
  /\ conn = Connecting(Min(ContactPoints))
  /\ plan = [startup |-> TRUE, hosts |-> ContactPoints \ {Min(ContactPoints)}]
  /\ version = HighestVersion /\ timer = FALSE
  /\ refreshes = {} /\ outcome = "none" /\ excused = {}
  /\ events = 0 /\ losses = 0

----------------------------------------------------------------------------
(* The session's operations, on the record c of what it keeps.  A Host object *)
(* may live on in a query after its address left the map, so those that work *)
(* on one take it, and return it with the record.                          *)

With(c, object) == [c |-> c, object |-> object]

AddHost(c, h) == [c EXCEPT !.hosts = (h :> NewHost(~c.mark)) @@ @]

EraseHosts(c, gone) == [c EXCEPT !.hosts = Restrict(@, DOMAIN @ \ gone)]

\* on_add with is_initial_connection FALSE, and on_up.
OnAdd(c, h, object) ==
  LET up == [object EXCEPT !.state = "UP"] IN
  IF Distance(c.policy, h, object.dc) = "IGNORE" THEN With(c, up)
  ELSE With([c EXCEPT !.policy = PolicyOnAdd(@, h, object.dc), !.pooled = @ \cup {h}], up)

OnRemove(c, h) ==
  EraseHosts([c EXCEPT !.policy = PolicyOnRemove(@, h, c.hosts[h].dc), !.pooled = @ \ {h}], {h})

\* on_down: without cancel_reconnect the pool stays, closed, and tries to reconnect.
OnDownHost(c, h) ==
  LET p == PolicyOnRemove(c.policy, h, c.hosts[h].dc) IN
  [c EXCEPT !.hosts[h].state = "DOWN", !.policy = p,
            !.pooled = IF Distance(p, h, c.hosts[h].dc) = "IGNORE" THEN @ \ {h} ELSE @]

\* Faulty: the policy is not told that the data center of a host changed.
UpdateNodeInfoQuietly(c, h, object, dc) ==
  With(c, IF dc # NoDC /\ dc # object.dc THEN [object EXCEPT !.dc = dc] ELSE object)

update_node_info(c, h, object, dc) ==
  LET moved == dc # NoDC /\ dc # object.dc
      told == [c EXCEPT !.policy = PolicyOnAdd(PolicyOnRemove(@, h, object.dc), h, dc)] IN
  With(IF moved /\ object.state # "ADDED" THEN told ELSE c,
       IF moved THEN [object EXCEPT !.dc = dc] ELSE object)

\* An operation on the object that is in the map.
Keep(h, r) == [r.c EXCEPT !.hosts[h] = r.object]

\* Faulty: current_host_mark_ stays.
PurgeHostsOnce(c, initial) ==
  LET gone == {h \in DOMAIN c.hosts : c.hosts[h].mark # c.mark} IN
  IF initial THEN EraseHosts(c, gone) ELSE FoldLeft(OnRemove, c, SetToSortSeq(gone, <))

purge_hosts(c, initial) ==
  LET gone == {h \in DOMAIN c.hosts : c.hosts[h].mark # c.mark}
      left == IF initial THEN EraseHosts(c, gone)
              ELSE FoldLeft(OnRemove, c, SetToSortSeq(gone, <)) IN
  [left EXCEPT !.mark = ~@]

\* on_control_connection_ready: the policy is initialized, then every host is added.
OnControlConnectionReady(c) ==
  LET dc == [h \in DOMAIN c.hosts |-> c.hosts[h].dc]
      connected_dc == IF conn.host \in DOMAIN dc THEN dc[conn.host] ELSE NoDC
      p == PolicyInit(c.policy, connected_dc, DOMAIN dc, dc) IN
  [c EXCEPT !.policy = p,
            !.hosts = [h \in DOMAIN @ |-> [@[h] EXCEPT !.state = "UP"]],
            !.pooled = @ \cup {h \in DOMAIN c.hosts : Distance(p, h, c.hosts[h].dc) # "IGNORE"}]

\* determine_address_for_peer_host, NoRpc for a row that is ignored.
determine_address_for_peer_host(connected, row) ==
  IF row.rpc = NoRpc \/ connected \in {row.rpc, row.peer} THEN NoRpc
  ELSE IF row.rpc = BindAny THEN row.peer ELSE row.rpc

PeerHosts(connected, table) ==
  {determine_address_for_peer_host(connected, row) : row \in table} \ {NoRpc}

----------------------------------------------------------------------------
(* The connection and the query plan *)

\* What a plan may take of a remote data center: used_hosts_per_remote_dc_ of its
\* hosts, from wherever the index stands.
RemoteShares(hosts, used) ==
  {{hosts[((i + k) % Len(hosts)) + 1] : k \in 1..Min({used, Len(hosts)})} : i \in 1..Len(hosts) + 1}

\* new_query_plan without a request, that is at LOCAL_ONE: the local list, and a share
\* of each remote one unless those are skipped (QueryPlan has their order).
PolicyPlans(p) ==
  LET remote == IF p.settings.skip THEN {} ELSE DOMAIN p.remote
      shares == UNION {RemoteShares(p.remote[d], p.settings.used) : d \in remote} IN
  {[startup |-> FALSE, hosts |-> ToSet(p.hosts) \cup UNION Range(taken)] :
      taken \in {f \in [remote -> shares] : \A d \in remote : f[d] \in RemoteShares(p.remote[d], p.settings.used)}}

\* What compute_next may return: contact points in order, later the hosts that are up
\* (an object that left the map stays as it was, up).
Candidates(c) ==
  IF plan.startup THEN {h \in plan.hosts : h = Min(plan.hosts)}
  ELSE {h \in plan.hosts : h \in DOMAIN c.hosts => c.hosts[h].state = "UP"}

\* Faulty: the end of the plan is the end, the timer is not started.
ReconnectNextOrNever(c) ==
  \/ \E h \in Candidates(c) :
       /\ conn' = Connecting(h)
       /\ plan' = [plan EXCEPT !.hosts = @ \ {h}]
       /\ UNCHANGED <<timer, outcome>>
  \/ /\ Candidates(c) = {}
     /\ conn' = NoConnection
     /\ plan' = [plan EXCEPT !.hosts = {}]
     /\ outcome' = IF state = "READY" THEN outcome ELSE "error"
     /\ UNCHANGED timer

\* reconnect, without a connection.  At the end of the plan a session that is not
\* connected yet fails, another one waits.
ReconnectNext(c) ==
  \/ \E h \in Candidates(c) :
       /\ conn' = Connecting(h)
       /\ plan' = [plan EXCEPT !.hosts = @ \ {h}]
       /\ UNCHANGED <<timer, outcome>>
  \/ /\ Candidates(c) = {}
     /\ conn' = NoConnection
     /\ plan' = [plan EXCEPT !.hosts = {}]
     /\ timer' = (state = "READY")
     /\ outcome' = IF state = "READY" THEN outcome ELSE "error"

Quiet == UNCHANGED <<config, events, losses>>

OnReady ==
  /\ conn.phase = "connecting" /\ version <= Supported[conn.host] /\ state # "CLOSED"
  /\ conn' = [conn EXCEPT !.phase = "hosts"]
  /\ UNCHANGED <<state, version, plan, timer, cluster, refreshes, outcome, excused>> /\ Quiet

\* on_close of a connection that did not come to be, or was closed.
OnCloseInvalidProtocol ==
  /\ conn.phase = "connecting" /\ version > Supported[conn.host] /\ state = "NEW"
  /\ \/ /\ version <= 1
        /\ conn' = NoConnection /\ outcome' = "error"
        /\ UNCHANGED version
     \/ /\ version > 1
        /\ version' = version - 1
        /\ UNCHANGED <<conn, outcome>>
  /\ UNCHANGED <<state, plan, timer, cluster, refreshes, excused>> /\ Quiet

OnCloseAuthOrSsl ==
  /\ conn.phase = "connecting" /\ state = "NEW"
  /\ conn' = NoConnection /\ outcome' = "error"
  /\ UNCHANGED <<state, version, plan, timer, cluster, refreshes, excused>> /\ Quiet

OnClose ==
  /\ conn.phase \in {"connecting", "closing"}
  /\ refreshes' = {}
  /\ \/ state # "CLOSED" /\ ReconnectNext(cluster)
     \/ state = "CLOSED" /\ conn' = NoConnection /\ UNCHANGED <<plan, timer, outcome>>
  /\ UNCHANGED <<state, version, cluster, excused>> /\ Quiet

Loss ==
  \/ state = "READY" /\ losses < MaxLosses /\ losses' = losses + 1
  \/ state # "READY" /\ UNCHANGED losses

\* handle_query_failure, handle_query_timeout, handle_query_invalid_response: a query
\* fails, its answer is an error, or the connection itself is lost.
Defunct ==
  /\ conn.phase \in {"hosts", "schema", "ready"}
  /\ Loss
  /\ conn' = [conn EXCEPT !.phase = "closing"]
  /\ UNCHANGED <<state, config, version, plan, timer, cluster, refreshes, outcome, excused, events>>

OnReconnect ==
  /\ timer
  /\ \E p \in PolicyPlans(cluster.policy) :
       LET up == {h \in p.hosts : h \in DOMAIN cluster.hosts => cluster.hosts[h].state = "UP"} IN
       \/ \E h \in up :
            /\ conn' = Connecting(h) /\ timer' = FALSE
            /\ plan' = [p EXCEPT !.hosts = @ \ {h}]
       \/ /\ up = {}
          /\ plan' = [p EXCEPT !.hosts = {}]
          /\ UNCHANGED <<conn, timer>>
  /\ UNCHANGED <<state, version, cluster, refreshes, outcome, excused>> /\ Quiet

\* The session was closed.
Close ==
  /\ outcome # "none" /\ state \notin {"CLOSED", "CRASHED"}
  /\ state' = "CLOSED" /\ timer' = FALSE
  /\ conn' = IF conn = NoConnection THEN conn ELSE [conn EXCEPT !.phase = "closing"]
  /\ UNCHANGED <<version, plan, cluster, refreshes, outcome, excused>> /\ Quiet

----------------------------------------------------------------------------
(* The queries after a connection is ready *)

\* The refreshes keep the objects of the hosts that leave the map.
Detach(gone) ==
  {IF r.host \in gone /\ ~r.detached
   THEN [r EXCEPT !.detached = TRUE, !.object = cluster.hosts[r.host]] ELSE r : r \in refreshes}

\* Ready for use: the first time the session is told, and the plan made anew.
BecomeReady(c) ==
  LET done == OnControlConnectionReady(c) IN
  /\ state' = "READY" /\ outcome' = "connected"
  /\ cluster' = done
  /\ plan' \in PolicyPlans(done.policy)

\* The connected host is not in the map, or its system.local is empty.
OnQueryHostsRejected ==
  /\ conn.phase = "hosts"
  /\ \/ conn.host \notin DOMAIN cluster.hosts /\ UNCHANGED <<cluster, excused>>
     \/ /\ conn.host \in DOMAIN cluster.hosts
        /\ cluster' = [cluster EXCEPT !.hosts[conn.host].mark = cluster.mark]
        /\ excused' = excused \cup {conn.host}
  /\ conn' = [conn EXCEPT !.phase = "closing"]
  /\ Loss
  /\ UNCHANGED <<state, config, version, plan, timer, refreshes, outcome, events>>

\* One row of system.peers, at address h.
PeerRow(c, h, dc) ==
  LET known == h \in DOMAIN c.hosts
      had == IF known THEN c ELSE AddHost(c, h)
      updated == update_node_info(had, h, [had.hosts[h] EXCEPT !.mark = c.mark], dc) IN
  Keep(h, IF known \/ state = "NEW" THEN updated ELSE OnAdd(updated.c, h, updated.object))

HostsAnswered(table) ==
  LET local == update_node_info(cluster, conn.host,
                                [cluster.hosts[conn.host] EXCEPT !.mark = cluster.mark], DC[conn.host])
      peers == FoldLeft(LAMBDA c, h : PeerRow(c, h, DC[h]), Keep(conn.host, local),
                        SetToSortSeq(PeerHosts(conn.host, table), <)) IN
  purge_hosts(peers, state = "NEW")

OnQueryHosts(table) ==
  LET c == HostsAnswered(table) IN
  /\ conn.phase = "hosts" /\ conn.host \in DOMAIN cluster.hosts
  /\ refreshes' = Detach(DOMAIN cluster.hosts \ DOMAIN c.hosts)
  /\ excused' = {}
  /\ \/ /\ config.use_schema
        /\ conn' = [conn EXCEPT !.phase = "schema"]
        /\ cluster' = c
        /\ UNCHANGED <<state, plan, outcome>>
     \/ /\ ~config.use_schema
        /\ conn' = [conn EXCEPT !.phase = "ready"]
        /\ BecomeReady(c)
  /\ UNCHANGED <<version, timer>> /\ Quiet

OnQueryMetaSchema ==
  /\ conn.phase = "schema"
  /\ conn' = [conn EXCEPT !.phase = "ready"]
  /\ \/ state = "NEW" /\ BecomeReady(cluster)
     \/ state # "NEW" /\ UNCHANGED <<state, outcome, cluster, plan>>
  /\ UNCHANGED <<version, timer, refreshes, excused>> /\ Quiet

----------------------------------------------------------------------------
(* Events of the server, and calls of the workers *)

Registered == conn.phase \in {"hosts", "schema", "ready"}

Event ==
  /\ events < config.max_events /\ events' = events + 1
  /\ state # "CLOSED"
  /\ UNCHANGED <<state, config, conn, version, plan, timer, outcome, losses>>

\* refresh_node_info: no query without a connection.
RefreshNodeInfo(h, is_new) ==
  IF conn.phase \notin {"hosts", "schema", "ready"} THEN {}
  ELSE {[id |-> events, host |-> h, is_new |-> is_new, detached |-> FALSE, object |-> NewHost(FALSE)]}

\* A node announces neither its own coming nor its own going (external).
NewNode(h) ==
  /\ Registered /\ h # conn.host /\ h \notin DOMAIN cluster.hosts
  /\ cluster' = AddHost(cluster, h)
  /\ refreshes' = refreshes \cup RefreshNodeInfo(h, TRUE)
  /\ Event /\ UNCHANGED excused

RemovedNode(h) ==
  /\ Registered /\ h # conn.host /\ h \in DOMAIN cluster.hosts
  /\ cluster' = OnRemove(cluster, h)
  /\ refreshes' = Detach({h})
  /\ excused' = excused \ {h}
  /\ Event

MovedNode(h) ==
  /\ Registered /\ h \in DOMAIN cluster.hosts
  /\ refreshes' = refreshes \cup RefreshNodeInfo(h, FALSE)
  /\ Event /\ UNCHANGED <<cluster, excused>>

\* A node moved that is not in the map: remove_host is given no host.  Once there is a
\* partitioner, TokenMap::remove_host reads the address of it (undefined: the process ends).
MovedUnknownNode(h) ==
  /\ Registered /\ h \notin DOMAIN cluster.hosts
  /\ state # "CLOSED" /\ events < config.max_events /\ events' = events + 1
  /\ \/ UNCHANGED <<state, conn, timer, refreshes>>
     \/ /\ state' = "CRASHED" /\ conn' = NoConnection /\ timer' = FALSE /\ refreshes' = {}
  /\ UNCHANGED <<config, version, plan, cluster, outcome, excused, losses>>

\* on_up: a status event, or a worker's NOTIFY_UP, which needs no connection.
OnUp(h) ==
  /\ Registered \/ state = "READY"
  /\ \/ /\ h \in DOMAIN cluster.hosts /\ cluster.hosts[h].state # "UP"
        /\ cluster' = Keep(h, OnAdd(cluster, h, cluster.hosts[h]))
        /\ refreshes' = refreshes \cup RefreshNodeInfo(h, FALSE)
     \/ /\ h \notin DOMAIN cluster.hosts
        /\ cluster' = AddHost(cluster, h)
        /\ refreshes' = refreshes \cup RefreshNodeInfo(h, TRUE)
  /\ Event /\ UNCHANGED excused

OnDown(h) ==
  /\ Registered \/ state = "READY"
  /\ h \in DOMAIN cluster.hosts /\ cluster.hosts[h].state # "DOWN"
  /\ cluster' = OnDownHost(cluster, h)
  /\ Event /\ UNCHANGED <<refreshes, excused>>

\* on_refresh_node_info and on_refresh_node_info_all: a row for the host, or none.
RefreshAnswered(r) ==
  LET object == IF r.detached THEN r.object ELSE cluster.hosts[r.host]
      updated == update_node_info(cluster, r.host, object, DC[r.host])
      told == IF r.is_new THEN OnAdd(updated.c, r.host, updated.object) ELSE updated IN
  /\ conn.phase \in {"hosts", "schema", "ready"} /\ r \in refreshes
  /\ refreshes' = refreshes \ {r}
  /\ cluster' = IF r.detached THEN told.c ELSE Keep(r.host, told)
  /\ UNCHANGED <<state, conn, version, plan, timer, outcome, excused>> /\ Quiet

RefreshWithoutRow(r) ==
  /\ conn.phase \in {"hosts", "schema", "ready"} /\ r \in refreshes
  /\ refreshes' = refreshes \ {r}
  /\ UNCHANGED <<state, conn, version, plan, timer, cluster, outcome, excused>> /\ Quiet

\* What the loop and its timers do by themselves: a query is answered or it times out.
Progress ==
  \/ OnReady \/ OnCloseInvalidProtocol \/ OnClose \/ OnReconnect
  \/ (conn.phase # "ready" /\ Defunct) \/ OnQueryMetaSchema

Next ==
  \/ \E t \in PeerTables : OnQueryHosts(t)
  \/ Progress \/ OnCloseAuthOrSsl \/ Defunct \/ Close \/ OnQueryHostsRejected
  \/ \E h \in Addresses : NewNode(h) \/ RemovedNode(h) \/ MovedNode(h) \/ MovedUnknownNode(h) \/ OnUp(h) \/ OnDown(h)
  \/ \E r \in refreshes : RefreshWithoutRow(r) \/ RefreshAnswered(r)

Spec == Init /\ [][Next]_vars /\ WF_vars(Progress)

----------------------------------------------------------------------------
UpAndLocal(h) ==
  cluster.hosts[h].state = "UP" /\ Distance(cluster.policy, h, cluster.hosts[h].dc) = "LOCAL"

(***************************************************************************)
(* No node is lost: a host that is up in the local data center is in the   *)
(* list plans are made from, whatever the order of events and answers,     *)
(* and however its data center became known.                               *)
(***************************************************************************)
LocalHostsListed ==
  state = "READY" =>
    \A h \in DOMAIN cluster.hosts : UpAndLocal(h) => Contains(cluster.policy.hosts, h)

(***************************************************************************)
(* Each new connection catches up with the events that were missed: once   *)
(* its queries are answered the session has the hosts of system.local and  *)
(* system.peers and no other, except one whose refresh was given up        *)
(* because its system.local was empty.                                     *)
(***************************************************************************)
CatchingUp ==
  \A t \in PeerTables : OnQueryHosts(t) =>
      LET reported == PeerHosts(conn.host, t) \cup {conn.host} IN
      /\ reported \subseteq DOMAIN cluster'.hosts
      /\ DOMAIN cluster'.hosts \subseteq reported \cup excused

CatchesUp == [][CatchingUp]_vars

(***************************************************************************)
(* Connecting ends: the control connection is ready or the application is  *)
(* told of an error, unless an event ended the process (MovedUnknownNode). *)
(* And one that is lost is made again, that is a connection to a host of   *)
(* the plan is under way, unless no local host is up or the session closes.*)
(***************************************************************************)
Lost ==
  /\ state = "READY" /\ conn = NoConnection
  /\ \E h \in DOMAIN cluster.hosts : UpAndLocal(h)

ControlRecovers ==
  /\ <>(outcome # "none" \/ state = "CRASHED")
  /\ Lost ~> ~Lost
=============================================================================
