------------------------------- MODULE MCParts -------------------------------
(***************************************************************************)
(* Parts of the driver whose properties are about safety, for TLC: the     *)
(* stream ids, the queues, what is sent and what is read, SSL, query       *)
(* plans, the schema, the token map, and the generators of timestamps and  *)
(* UUIDs.                                                                  *)
(*                                                                         *)
(* A behaviour is one of one component.  The variables of StreamManager    *)
(* are its own and keep their initial values in the behaviours of the      *)
(* others; the variables of the others stand in v1, v2, ....               *)
(***************************************************************************)
EXTENDS StreamManager, Sequences, SequencesExt, TLC

CONSTANTS
  p1, p2, c1, c2,   \* threads that enqueue, that dequeue
  a, b,             \* what they enqueue
  t1, t2,           \* threads that ask for timestamps and UUIDs
  k1, k2,           \* keyspaces
  Unused

VARIABLES component, v1, v2, v3, v4, v5, v6, v7, v8, v9, v10, v11, v12, v13, v14

allVars == <<component, vars, v1, v2, v3, v4, v5, v6, v7, v8, v9, v10, v11, v12, v13, v14>>

Symmetry == Permutations({p1, p2}) \cup Permutations({c1, c2}) \cup Permutations({a, b}) \cup Permutations({k1, k2})

\* The registers after the first n: initially, and in a step.
Blank(n) ==
  /\ n < 2 => v2 = Unused /\ v3 = Unused /\ v4 = Unused /\ v5 = Unused /\ v6 = Unused
  /\ n < 7 => v7 = Unused
  /\ n < 8 => v8 = Unused
  /\ n < 9 => v9 = Unused
  /\ n < 10 => v10 = Unused
  /\ n < 11 => v11 = Unused
  /\ n < 12 => v12 = Unused
  /\ n < 14 => v13 = Unused /\ v14 = Unused

Keep(n) ==
  /\ n < 7 => UNCHANGED v7
  /\ n < 8 => UNCHANGED v8
  /\ n < 9 => UNCHANGED v9
  /\ n < 10 => UNCHANGED v10
  /\ n < 11 => UNCHANGED v11
  /\ n < 12 => UNCHANGED v12
  /\ n < 14 => UNCHANGED <<v13, v14>>
-----------------------------------------------------------------------------
(* Queues: rings that are gone round more than once. *)

Multi == INSTANCE MPMCQueue WITH
  Producers <- {p1, p2}, Consumers <- {c1, c2}, Size <- 2, Items <- {a, b}, MaxEntries <- 3,
  tail <- v1, head <- v2, seq <- v3, data <- v4, pc <- v5, pos <- v6, value <- v7,
  entered <- v8, left <- v9

Single == INSTANCE SPSCQueue WITH
  Size <- 4, Items <- {a, b}, MaxEntries <- 6,
  tail <- v1, head <- v2, buffer <- v3, enqueueing <- v4, dequeueing <- v5, input <- v6,
  output <- v7, seen_head <- v8, seen_tail <- v9, entered <- v10, left <- v11

ASSUME QueueAssumptions == Multi!QueueAssumption /\ Single!QueueAssumption
-----------------------------------------------------------------------------
(* Types and values: every type of depth two, and values of them whose     *)
(* sizes reach the next digit.                                             *)

CqlNames == [int |-> "int", text |-> "text"]
ClassNames == [Int32Type |-> "int", UTF8Type |-> "text"]
Hex == [a |-> "61", b |-> "62", u |-> "75"]

Val == INSTANCE Values WITH Base <- 8, Int32 <- 3, UInt16 <- 1, Highest <- 4

TInt == Val!Native("int")
TText == Val!Native("text")
TUser == Val!UserType("ks", "u", <<[name |-> "a", type |-> TInt]>>)
List(t) == Val!CollectionType("list", <<t>>)
Map(k, t) == Val!CollectionType("map", <<k, t>>)
Wrapped(kind, t) == [kind |-> kind, types |-> <<t>>]

TypesOf(S) ==
  {List(t) : t \in S} \cup {Map(t, u) : t, u \in S} \cup {Val!TupleType(<<t, u>>) : t, u \in S}
  \cup {Wrapped("frozen", t) : t \in S}
ShallowTypes == {TInt, TText, TUser} \cup TypesOf({TInt, TText, TUser})
SomeTypes == ShallowTypes \cup TypesOf(ShallowTypes) \cup {Wrapped("reversed", t) : t \in ShallowTypes}
UserTypes == [u |-> TUser]

AnInt(n) == Val!Leaf("int", Val!encode_int32(n))
AText(bytes) == Val!Leaf("text", bytes)
Ints == {AnInt(0), AnInt(-1), AnInt(7)}
Texts == {AText(<<>>), AText(<<1>>), AText(<<7, 0>>), AText([i \in 1..8 |-> 1])}

Typed(t, v) == [type |-> t, v |-> v]
Lists == {Typed(List(TText), Val!Node("list", s)) : s \in UNION {[1..n -> Texts] : n \in 0..2}}
         \cup {Typed(Val!CollectionType("set", <<TInt>>), Val!Node("set", [i \in 1..8 |-> AnInt(0)]))}
Maps == {Typed(Map(TInt, TText), Val!Node("map", <<x, y>>)) : x \in Ints, y \in Texts}
Structs(kind) ==
  {Typed([kind |-> kind, types |-> <<TInt, TText>>], Val!Node(kind, <<x, y>>)) :
      x \in Ints \cup {Val!Null, Val!Unset}, y \in Texts \cup {Val!Null, Val!Unset}}
FlatValues == Lists \cup Maps \cup Structs("tuple") \cup Structs("udt")
SmallValues == {x \in FlatValues : Len(x.v.items) < 4 /\ Len(Val!Wire(3, x.v)) < 12}
NestedValues ==
  {Typed(List(x.type), Val!Node("list", <<x.v, x.v>>)) : x \in SmallValues}
  \cup {Typed(Map(TInt, x.type), Val!Node("map", <<AnInt(0), x.v>>)) : x \in SmallValues}
  \cup {Typed(Val!TupleType(<<x.type, TText>>), Val!Node("tuple", <<x.v, AText(<<3>>)>>)) : x \in SmallValues}
  \cup {Typed([kind |-> "udt", types |-> <<TInt, x.type>>], Val!Node("udt", <<Val!Unset, x.v>>)) : x \in SmallValues}
SomeValues == (FlatValues \cup NestedValues) \X (1..4)
-----------------------------------------------------------------------------
(* Requests: a statement of two parameters, for any of which a collection  *)
(* may be bound; nothing is bound to begin with, or a value to each of the *)
(* two, so that the two calls left can make a key of both columns, a batch *)
(* of two statements, or one with options, at every version.               *)

BoundColumns == <<[name |-> "a", type |-> "int"], [name |-> "b", type |-> "list"]>>
AnInput == Val!Leaf("int", <<0, 0, 1>>)
ACollection == [kind |-> "collection"]
BoundInputs == {AnInput, Val!Null}
AnItem == Val!Leaf("int", <<0, 0, 2>>)
BoundItems == {AnItem}
BoundCollections == {[type |-> "list", items |-> <<AnItem>>], [type |-> "map", items |-> <<AnInput, AnItem>>]}

Stm == INSTANCE Statement WITH
  Base <- 8, Int32 <- 3, UInt16 <- 2, Highest <- 4, Versions <- 1..4, Parameters <- 2,
  PartitionKeys <- {<<"a">>, <<"b", "a">>}, Started <- {<<>>, <<AnInput, ACollection>>},
  Columns <- BoundColumns, Inputs <- BoundInputs, Items <- BoundItems,
  Collections <- BoundCollections, MaxItems <- [list |-> 1, map |-> 3], MaxSets <- 2, MaxSends <- 2,
  version <- v1, statement <- v2, batch <- v3, collection <- v4, handler <- v5, sent <- v6,
  collections <- v7, bound <- v8, failed <- v9, sets <- v10, sends <- v11
-----------------------------------------------------------------------------
(* Responses, and the frames that bring them: one or two, in pieces of any *)
(* size, with one whose opcode is unknown and one that no decoder takes.   *)

ResponseTypes ==
  {TInt, Val!CustomType("C"), List(TText), Map(TInt, Val!CollectionType("set", <<TText>>)),
   Val!TupleType(<<TInt, TText>>), [kind |-> "udt", name |-> "u", types |-> <<TText, TInt>>]}

Rsp == INSTANCE Responses WITH
  Versions <- 1..4, ColumnTypes <- ResponseTypes, MaxGets <- 1, MaxIterators <- 2,
  version <- v1, sent <- v2, response <- v3, result <- v4, iterators <- v5, read <- v6, gets <- v7

SomeFrames ==
  [version : {2, 3}, flags : {0}, stream : {-1, 1}, opcode : {2}, body : {<<>>, <<5, 6>>}]
  \cup {[version |-> 3, flags |-> 0, stream |-> 1, opcode |-> 2, body |-> <<7>>],
        [version |-> 3, flags |-> 1, stream |-> 9, opcode |-> 7, body |-> <<1>>]}
FrameSequences == {<<f>> : f \in SomeFrames} \cup {<<f, g>> : f, g \in SomeFrames}

Frm == INSTANCE Frames WITH
  Base <- 8, Int32 <- 2, UInt16 <- 1, Highest <- 4,
  FrameLists <- FrameSequences, Known <- {2}, Malformed <- {<<7>>},
  frames <- v1, unread <- v2, buffer <- v3, message <- v4, delivered <- v5, closing <- v6
-----------------------------------------------------------------------------
(* The index of names: two tables that grow past what they hold, names     *)
(* that differ in case, are quoted, or fall into one bucket.               *)

SomeNames == {"a", "A", "b", "c", "qA"}
LowerCase == [a |-> "a", A |-> "a", b |-> "b", c |-> "c", qA |-> "qa"]
InQuotes == [qA |-> "A"]
HashOf == [a |-> 3, b |-> 3, c |-> 0, qa |-> 1]

Idx == INSTANCE HashTable WITH
  Names <- SomeNames, Fold <- LowerCase, Inner <- InQuotes, Hash <- HashOf, Tables <- {1, 2},
  Fixed <- 2, MaxEntries <- 4,
  storages <- v1, freed <- v2, tables <- v3, moved <- v4, touched <- v5, hung <- v6
-----------------------------------------------------------------------------
(* SSL: ring buffers of two bytes a block, a handshake of three flights    *)
(* and records longer than a block; certificates of each kind.             *)

Handshake == <<[needs |-> 0, sends |-> 2], [needs |-> 3, sends |-> 1], [needs |-> 1, sends |-> 0]>>
Name(v) == <<[type |-> "O", value |-> "peer"], [type |-> "CN", value |-> v]>>
Cert(valid, sans, subject) == [present |-> TRUE, valid |-> valid, sans |-> sans, subject |-> subject]
NoSAN == <<"no SAN">>
Certs ==
  {[present |-> FALSE], Cert(FALSE, <<"peer">>, Name("peer")), Cert(TRUE, NoSAN, Name("peer")),
   Cert(TRUE, NoSAN, Name("other")), Cert(TRUE, NoSAN, SubSeq(Name("peer"), 2, 2)),
   Cert(TRUE, <<"other", "peer">>, Name("other")), Cert(TRUE, <<"malformed", "peer">>, Name("peer"))}

Tls == INSTANCE Ssl WITH
  BufferLength <- 2, Flights <- Handshake, MaxBuffer <- 2, WriteSize <- 2, Overhead <- 1, Sizes <- {1, 3},
  ReadSizes <- {1, 3}, MaxIn <- 6, MaxOut <- 11, MaxQueued <- 2, Prompt <- TRUE,
  Certificates <- Certs, VerifyFlags <- {{"PEER_CERT"}, {"PEER_CERT", "PEER_IDENTITY"}}, AddressOfPeer <- "peer",
  incoming <- v1, outgoing <- v2, flight <- v3, needed <- v4, arrived <- v5, plain <- v6, produced <- v7,
  wire <- v8, queue <- v9, status <- v10, cert <- v11, flags <- v12
-----------------------------------------------------------------------------
(* Query plans: three hosts in two data centers, under four compositions   *)
(* of the policies.                                                        *)

LB == INSTANCE LoadBalancing
Composed(settings, token, latency) ==
  [settings |-> settings, token |-> token, latency |-> latency,
   max_downs |-> IF latency THEN 0 ELSE 2, max_updates |-> IF latency THEN 2 ELSE 0]
Policies ==
  {Composed(LB!Settings("RoundRobin", LB!NoDC, 0, FALSE, {}), TRUE, TRUE),
   Composed(LB!Settings("DCAware", LB!NoDC, 1, TRUE, {}), TRUE, FALSE),
   Composed(LB!Settings("DCAware", 1, 2, FALSE, {}), FALSE, FALSE),
   Composed(LB!Settings("RoundRobin", LB!NoDC, 0, FALSE, {1, 3}), TRUE, FALSE)}

Pln == INSTANCE QueryPlan WITH
  Hosts <- 1..3, DC <- <<1, 1, 2>>, Configs <- Policies, Replicas <- {<<>>, <<2, 3, 2>>},
  Latencies <- {1, 3}, MinMeasured <- 1, Exclusion <- 2,
  config <- v1, policy <- v2, up <- v3, latency <- v4, measured <- v5, min_average <- v6, plan <- v7,
  given <- v8, stable <- v9, downs <- v10, updates <- v11

ASSUME QueryPlanAssumption == Pln!QueryPlanAssumption
-----------------------------------------------------------------------------
(* The schema: its copies and snapshots, the columns of tables of each     *)
(* shape, and functions and aggregates of the same names.                  *)

Met == INSTANCE Metadata WITH
  Keyspaces <- {"k"}, MaxChanges <- 1, MaxSnapshots <- 1, MaxConnections <- 2,
  server <- v1, connected <- v2, stream <- v3, asked <- v4, front <- v5, back <- v6, heap <- v7, todo <- v8,
  version <- v9, snapshots <- v10, whole <- v11, torn <- v12, changes <- v13, connections <- v14

ASSUME MetadataAssumption == Met!MetadataAssumption

Shape(partition, clustering, others, compact, collections) ==
  [partition |-> partition, clustering |-> clustering, others |-> others, compact |-> compact,
   collections |-> collections]
TableShapes ==
  {Shape(<<2>>, <<>>, (1 :> "regular") @@ (3 :> "regular"), FALSE, FALSE),
   Shape(<<3, 1>>, <<4, 2>>, (5 :> "static") @@ (6 :> "regular"), FALSE, FALSE),
   Shape(<<1>>, <<3, 2>>, (4 :> "regular"), FALSE, TRUE),
   Shape(<<2>>, <<3, 1>>, (4 :> "compact_value"), TRUE, FALSE),
   Shape(<<1>>, <<>>, (2 :> "regular"), TRUE, FALSE)}

Tab == INSTANCE TableColumns WITH
  Cassandra <- {1, 2, 3}, Keyspaces <- <<"k", "l">>, TableNames <- <<"t", "u">>, Shapes <- TableShapes,
  MaxAlters <- 1,
  cassandra <- v1, schema <- v2, tables <- v3, stale <- v4, loaded <- v5, alters <- v6

TypeName(n) == [name |-> n, sub |-> <<>>]
ListOfInt == [name |-> "list", sub |-> <<"int">>]
MapOfInt == [name |-> "map", sub |-> <<"int", "text">>]
FunctionOf(arguments, types, body) == [name |-> "s", arguments |-> arguments, types |-> types, body |-> body]
AggregateOf(state) ==
  [name |-> "s", types |-> <<TypeName("int")>>, state |-> state, sfunc |-> "s", ffunc |-> "s", initcond |-> "0"]
SomeFunctions ==
  {FunctionOf(<<"a", "b">>, <<ListOfInt, TypeName("int")>>, "1"), FunctionOf(<<"a", "b">>, <<ListOfInt, TypeName("int")>>, "2"),
   FunctionOf(<<"b">>, <<ListOfInt>>, "3"), FunctionOf(<<"a", "b">>, <<MapOfInt, TypeName("int")>>, "4"),
   FunctionOf(<<"a">>, <<MapOfInt>>, "5")}
SomeAggregates == {AggregateOf(ListOfInt), AggregateOf(MapOfInt)}

Fun == INSTANCE UserFunctions WITH
  Cassandra <- {2, 3}, Declarable <- SomeFunctions, Aggregates <- SomeAggregates, MaxChanges <- 4,
  cassandra <- v1, declared <- v2, functions <- v3, aggregates <- v4, events <- v5, refreshing <- v6,
  whole <- v7, changes <- v8
-----------------------------------------------------------------------------
(* The token map: three hosts whose tokens change, tokens of two bits; and *)
(* where the replicas of rings of five hosts are placed.                   *)

MapDCs == <<"dc1", "dc1", "dc2">>
MapRacks == <<"r1", "r2", "r1">>
KeyspaceDefinitions ==
  {[class |-> "SimpleStrategy", options |-> [replication_factor |-> 2]],
   [class |-> "NetworkTopologyStrategy", options |-> [dc1 |-> 2, dc2 |-> 1]],
   [class |-> "LocalStrategy", options |-> <<>>]}
TokensOfHosts == {<<{-2}, s, t>> : s \in {{}, {1}, {0, -1}}, t \in {{}, {-1}}}

Tok == INSTANCE TokenMap WITH
  Hosts <- 1..3, Keyspaces <- {k1, k2}, NoName <- "", Width <- 2, DC <- MapDCs, Rack <- MapRacks,
  Ownerships <- TokensOfHosts, Definitions <- KeyspaceDefinitions, Reads <- 2, Changes <- 1,
  cluster <- v1, phase <- v2, token_map <- v3, mapped_addresses <- v4, strategy_map <- v5, replica_map <- v6,
  keyspaces <- v7, reads <- v8, changes <- v9

RingDCs == <<"dc1", "dc1", "dc1", "dc2", "dc2", "dc2">>
RingRacks == <<"r1", "r1", "r2", "r1", "r2", "">>
Rep == INSTANCE Replication WITH DC <- RingDCs, Rack <- RingRacks, NoName <- ""

Rings == {r \in [1..5 -> 1..6] : IsInjective(r)} \X {[dc1 |-> 2], [dc1 |-> 3, dc2 |-> 1], [dc1 |-> 1, dc2 |-> 2]}
-----------------------------------------------------------------------------
(* Timestamps and UUIDs: a clock that is set back once. *)

Clk == INSTANCE Clocks WITH
  Threads <- {t1, t2}, PerMs <- 2, MaxClock <- 3, MaxCalls <- 3, MaxBack <- 1,
  clock <- v1, last <- v2, last_timestamp <- v3, call <- v4, stamps <- v5, uuids <- v6, latest <- v7,
  calls <- v8, backs <- v9

ASSUME ClockAssumption == Clk!ClockAssumption
-----------------------------------------------------------------------------
Inputs ==
  \/ component = "types" /\ v1 \in SomeTypes
  \/ component = "values" /\ v1 \in SomeValues
  \/ component = "rings" /\ v1 \in Rings
  \/ component = "streams" /\ v1 = Unused

AllInit ==
  /\ Init
  /\ \/ Inputs /\ Blank(1)
     \/ component = "mpmc" /\ Multi!Init /\ Blank(9)
     \/ component = "spsc" /\ Single!Init /\ Blank(11)
     \/ component = "statement" /\ Stm!Init /\ Blank(11)
     \/ component = "responses" /\ Rsp!Init /\ Blank(7)
     \/ component = "frames" /\ Frm!Init /\ Blank(6)
     \/ component = "names" /\ Idx!Init /\ Blank(6)
     \/ component = "ssl" /\ Tls!Init /\ Blank(12)
     \/ component = "plans" /\ Pln!Init /\ Blank(11)
     \/ component = "metadata" /\ Met!Init
     \/ component = "tables" /\ Tab!Init /\ Blank(6)
     \/ component = "functions" /\ Fun!Init /\ Blank(8)
     \/ component = "token map" /\ Tok!Init /\ Blank(9)
     \/ component = "clocks" /\ Clk!Init /\ Blank(9)

OthersNext ==
  \/ component = "mpmc" /\ Multi!Next /\ Keep(9)
  \/ component = "spsc" /\ Single!Next /\ Keep(11)
  \/ component = "statement" /\ Stm!Next /\ Keep(11)
  \/ component = "responses" /\ Rsp!Next /\ Keep(7)
  \/ component = "frames" /\ Frm!Next /\ Keep(6)
  \/ component = "names" /\ Idx!Next /\ Keep(6)
  \/ component = "ssl" /\ Tls!Next /\ Keep(12)
  \/ component = "plans" /\ Pln!Next /\ Keep(11)
  \/ component = "metadata" /\ Met!Next
  \/ component = "tables" /\ Tab!Next /\ Keep(6)
  \/ component = "functions" /\ Fun!Next /\ Keep(8)
  \/ component = "token map" /\ Tok!Next /\ Keep(9)
  \/ component = "clocks" /\ Clk!Next /\ Keep(9)

AllNext ==
  /\ UNCHANGED component
  /\ \/ component = "streams" /\ Next /\ UNCHANGED <<v1, v2, v3, v4, v5, v6>> /\ Keep(6)
     \/ OthersNext /\ UNCHANGED vars

AllSpec == AllInit /\ [][AllNext]_allVars
-----------------------------------------------------------------------------
(* Properties *)

\* The rings of MPMCQueue and SPSCQueue implement the bounded first-in
\* first-out queue: no entry is lost, read twice, read before it is stored, or
\* refused while there is room; and no two threads touch one place at a time.
QueuesBounded ==
  /\ component = "mpmc" => Multi!Abstract!Init
  /\ component = "spsc" => Single!Abstract!Init
  /\ [](component = "mpmc" => Multi!ExclusiveNodes)
  /\ [](component = "spsc" => Single!TypeOK /\ Single!ExclusivePlaces)
  /\ [][/\ component = "mpmc" => [Multi!Abstract!Next]_(Multi!Abstract!vars) /\ Multi!TrueRefusals
        /\ component = "spsc" => [Single!Abstract!Next]_(Single!Abstract!vars)]_allVars

\* The names of types are read as the server wrote them, in either notation;
\* a value has the encoding of the protocol, and is read back as it was.
ConversionsFaithful ==
  /\ component = "types" => Val!TypesAsWritten(v1, UserTypes)
  /\ component = "values" => Val!ValuesSurvive(v1[2], v1[1].type, v1[1].v)

\* What the server reads of a statement or a batch is what the application
\* bound, appended and set, a collection as it is when the request is written;
\* what it hashes is what the request was routed by.
StatementAsSent == component = "statement" => Stm!StatementAsBound /\ Stm!BatchAsBuilt

\* A response is understood as the server means it, and each iterator gives
\* the rows of a result in their order; the getters of an error's keyspace,
\* table, function and argument types refuse what was understood.
ResponsesRead == component = "responses" => Rsp!ResponsesUnderstood /\ Rsp!RowsInOrder

\* However the bytes of frames are split over reads, each frame reaches its
\* handler once, whole and in order, until one of them cannot be decoded.
FramesReassembled == component = "frames" => Frm!FramesReassembled

\* A name finds exactly its entries in HashTable, in whatever order entries
\* were added and tables grew, and no pointer into a freed table is followed, up
\* to where a table that holds two names equal but for their case grows or is
\* copied: from there on the code follows such a pointer, and nothing is said.
LookupsExact == component = "names" => Idx!LookupsExact

\* What OpenSSL puts out is sent once and in order, and what arrives reaches it
\* so, across the ends of the ring buffers (rb::RingBuffer).
EncryptedIntact == component = "ssl" => Tls!EncryptedIntact

\* SslSession::verify: a request is sent only to a peer that was verified as
\* the flags ask.
SecuredBeforeUse == component = "ssl" => Tls!SecuredBeforeUse

\* A query plan gives every usable host, local ones before remote ones, and none
\* more than once that the replicas of the key do not repeat, while hosts go up
\* and down and latencies change.
PlanSound == component = "plans" => Pln!PlanSound

\* A snapshot of the schema is whole, and after the last answer the metadata
\* is the server's.
SchemaSound == component = "metadata" => Met!WholeSnapshots /\ Met!SchemaConverges

\* Tables have the columns and keys they were declared with, found by name but
\* for the keys of Cassandra 1.2, and functions and aggregates are found under
\* their full names; tables of one name that meet in an answer are left aside.
SchemaAsDeclared ==
  /\ component = "tables" => Tab!TablesAsDeclared
  /\ component = "functions" => Fun!FunctionsFound /\ Fun!AggregatesResolved

\* The replicas of a keyspace are those its strategy gives for the ring,
\* whatever the order of changes; NetworkTopologyStrategy places them in each
\* data center on distinct hosts and racks.
ReplicasPlaced ==
  /\ component = "token map" => Tok!ReplicasFollowRing
  /\ component = "rings" => Rep!PlacedPerDC(v1[1], v1[2])

\* A thread's timestamps increase and no two calls get the same one, although
\* the clock goes back; a UUID's timestamp is given at most twice.
StampsIncrease == component = "clocks" => Clk!StampsIncrease /\ Clk!UuidsAtMostTwice
=============================================================================
