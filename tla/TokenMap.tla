------------------------------ MODULE TokenMap ------------------------------
(***************************************************************************)
(* The token map of token_map.cpp and the calls of the control connection  *)
(* that feed it: the rows of system.local and system.peers when the        *)
(* connection is (re)established, the schema that is read afterwards, and  *)
(* the refreshes that follow topology and schema events.                   *)
(***************************************************************************)
EXTENDS Replication, Functions

CONSTANTS
    Hosts, Keyspaces,
    Width,          \* bits of a Murmur3 token (64 in the code)
    Ownerships,     \* what the server may say: Host -> set of tokens
    Definitions,    \* keyspace definitions the server may hold
    Reads,          \* bound: how often the control connection is established
    Changes         \* bound: changes of the cluster

VARIABLES
    cluster,    \* what the server says: tokens of hosts, keyspace definitions
    phase,      \* of the control connection: "new", "hosts", "ready"
    token_map, mapped_addresses, strategy_map, replica_map, \* TokenMap's fields
    keyspaces,  \* KeyspaceMetadata of the front buffer: class and options
    reads, changes

tokens == <<token_map, mapped_addresses, strategy_map, replica_map>>
vars == <<cluster, phase, tokens, keyspaces, reads, changes>>

Signed == -(2 ^ (Width - 1))..(2 ^ (Width - 1) - 1)

\* Murmur3Partitioner::token_from_string_ref: the signed value moved by
\* UINT64_MAX / 2 so that unsigned bytes order the tokens.
token_from_string_ref(value) == (value + 2 ^ (Width - 1) - 1) % 2 ^ Width

\* Murmur3Partitioner::hash: the smallest value is no token of a key.
hash(value) ==
    token_from_string_ref(IF value = -(2 ^ (Width - 1)) THEN 2 ^ (Width - 1) - 1 ELSE value)

-----------------------------------------------------------------------------
\* The four maps of a TokenMap as one value, for the operations below.
Map(ring, mapped, strategies, replicas) ==
    [ring |-> ring, mapped |-> mapped, strategies |-> strategies, replicas |-> replicas]
Fields == Map(token_map, mapped_addresses, strategy_map, replica_map)
Store(m) ==
    /\ token_map' = m.ring
    /\ mapped_addresses' = m.mapped
    /\ strategy_map' = m.strategies
    /\ replica_map' = m.replicas

Put(f, k, v) == [x \in DOMAIN f \cup {k} |-> IF x = k THEN v ELSE f[x]]

\* clear(): everything but the partitioner.
clear(m) == Map(<<>>, {}, <<>>, <<>>)

\* map_keyspace_replicas: nothing before the first build.
map_keyspace_replicas(m, k, strategy, force) ==
    IF m.replicas = <<>> /\ ~force THEN m
    ELSE [m EXCEPT !.replicas = Put(@, k, tokens_to_replicas(strategy, m.ring))]

map_replicas(m, force) ==
    LET Remap(n, k) == map_keyspace_replicas(n, k, m.strategies[k], force)
    IN  FoldLeft(Remap, m, SetToSeq(DOMAIN m.strategies))

purge_address(m, h) ==
    IF h \notin m.mapped THEN m
    ELSE [m EXCEPT !.ring = Restrict(@, {t \in DOMAIN @ : @[t] # h}), !.mapped = @ \ {h}]

update_host(m, h, values) ==
    LET purged == purge_address(m, h)
        mine == {token_from_string_ref(v) : v \in values}
        ring == [t \in DOMAIN purged.ring \cup mine |->
                    IF t \in mine THEN h ELSE purged.ring[t]]
    IN  map_replicas([purged EXCEPT !.ring = ring, !.mapped = @ \cup {h}], FALSE)

\* Faulty: the replicas are not computed again.
RemoveHostOnly(m, h) == IF h \in m.mapped THEN purge_address(m, h) ELSE m

remove_host(m, h) ==
    IF h \in m.mapped THEN map_replicas(purge_address(m, h), FALSE) ELSE m

update_keyspace(m, k, ks) ==
    LET strategy == from_keyspace_meta(ks)
        mapped == map_keyspace_replicas(m, k, strategy, FALSE)
    IN  IF k \in DOMAIN m.strategies /\ equal(m.strategies[k], ks) THEN m
        ELSE [mapped EXCEPT !.strategies = Put(@, k, strategy)]

build(m) == map_replicas(m, TRUE)

\* KeyspaceMetadata::update: the class is replaced, the options of the row are
\* put over the ones that are there.
update(ks, row) ==
    [class |-> row.class,
     options |-> [o \in DOMAIN ks.options \cup DOMAIN row.options |->
                    IF o \in DOMAIN row.options THEN row.options[o] ELSE ks.options[o]]]

\* get_replicas: of the first token after the key's, or of the first token.
get_replicas(m, k, key) ==
    IF k \notin DOMAIN m.replicas \/ m.replicas[k] = <<>> THEN <<>>
    ELSE LET ring == DOMAIN m.replicas[k]
             after == {t \in ring : t > hash(key)}
         IN  m.replicas[k][Min(IF after # {} THEN after ELSE ring)]

-----------------------------------------------------------------------------
Init ==
    /\ cluster \in [owned : Ownerships, keyspaces : [Keyspaces -> Definitions]]
    /\ phase = "new"
    /\ token_map = <<>> /\ mapped_addresses = {}
    /\ strategy_map = <<>> /\ replica_map = <<>> /\ keyspaces = <<>>
    /\ reads = 0 /\ changes = 0

\* update_node_info: a row without tokens changes nothing.
UpdateNode(m, h) == IF cluster.owned[h] = {} THEN m ELSE update_host(m, h, cluster.owned[h])

\* on_query_hosts: the partitioner is set by the first row, every row with
\* tokens updates its host.  Hosts that are no longer listed are purged
\* (session.on_remove does not touch the token map).
OnQueryHosts ==
    /\ reads < Reads
    /\ Store(FoldLeft(UpdateNode, Fields, SetToSeq(Hosts)))
    /\ phase' = "hosts"
    /\ reads' = reads + 1
    /\ UNCHANGED <<cluster, keyspaces, changes>>

\* on_query_meta_schema: clear_and_update_back clears the token map, the
\* keyspaces of the answer update it, and it is built.
OnQueryMetaSchema ==
    LET Update(m, k) == update_keyspace(m, k, cluster.keyspaces[k])
        read == FoldLeft(Update, clear(Fields), SetToSeq(Keyspaces))
    IN  /\ phase = "hosts"
        /\ Store(build(read))
        /\ keyspaces' = cluster.keyspaces
        /\ phase' = "ready"
        /\ UNCHANGED <<cluster, reads, changes>>

\* on_refresh_node_info after NEW_NODE or MOVED_NODE, and REMOVED_NODE.
RefreshNodeInfo(h) ==
    /\ phase = "ready"
    /\ Store(UpdateNode(Fields, h))
    /\ UNCHANGED <<cluster, phase, keyspaces, reads, changes>>

RemovedNode(h) ==
    /\ phase = "ready"
    /\ cluster.owned[h] = {}
    /\ Store(remove_host(Fields, h))
    /\ UNCHANGED <<cluster, phase, keyspaces, reads, changes>>

\* on_refresh_keyspace after a schema change event.
RefreshKeyspace(k) ==
    /\ phase = "ready"
    /\ keyspaces' = [keyspaces EXCEPT ![k] = update(@, cluster.keyspaces[k])]
    /\ Store(update_keyspace(Fields, k, keyspaces'[k]))
    /\ UNCHANGED <<cluster, phase, reads, changes>>

\* The cluster: a host takes other tokens (joins, moves or leaves), a
\* keyspace is altered.
Change ==
    /\ changes < Changes
    /\ changes' = changes + 1
    /\ cluster' \in [owned : Ownerships, keyspaces : [Keyspaces -> Definitions]]
    /\ cluster' # cluster
    /\ UNCHANGED <<phase, tokens, keyspaces, reads>>

Next ==
    \/ OnQueryHosts \/ OnQueryMetaSchema \/ Change
    \/ \E h \in Hosts : RefreshNodeInfo(h) \/ RemovedNode(h)
    \/ \E k \in Keyspaces : RefreshKeyspace(k)

Spec == Init /\ [][Next]_vars
-----------------------------------------------------------------------------
\* The replica map is a cache: whatever the order of host and keyspace
\* updates, the replicas of every keyspace are the ones its current strategy
\* gives for the current ring, and once the map is built no keyspace is
\* missing (update_host, remove_host and update_keyspace remap).
ReplicasFollowRing ==
    /\ \A k \in DOMAIN replica_map : replica_map[k] = tokens_to_replicas(strategy_map[k], token_map)
    /\ phase = "ready" => DOMAIN replica_map = DOMAIN strategy_map

\* topics/configuration/README.md: token-aware routing sends a request to the
\* nodes where its data is located.  Once the control connection has read
\* hosts and schema, a key of a keyspace has replicas.
RoutedToReplicas ==
    phase = "ready" /\ (\E h \in Hosts : cluster.owned[h] # {}) =>
        \A k \in Keyspaces, key \in Signed : get_replicas(Fields, k, key) # <<>>
=============================================================================
