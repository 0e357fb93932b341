------------------------------ MODULE Metadata ------------------------------
(***************************************************************************)
(* The schema metadata: what the control connection does about schema      *)
(* events, and the front and back buffers of Metadata, which application   *)
(* threads read through snapshots.                                         *)
(*                                                                         *)
(* An item is a keyspace, or the table, type, function or aggregate of one *)
(* (one of each is enough); its content is a number, another one after     *)
(* every change.  A column of the table has the type, and the aggregate    *)
(* the function.  The maps are copied on write, so they are values here.   *)
(* The UserType objects are not: columns and maps point to them, so they   *)
(* are in a heap.                                                          *)
(*                                                                         *)
(* The server pushes an event after each change.  Its answers to the       *)
(* queries of one callback are made one after the other, and reach the     *)
(* client in order with the events.                                        *)
(***************************************************************************)
EXTENDS Integers, Sequences, FiniteSets, SequencesExt, Functions, TLC

CONSTANTS
  Keyspaces,
  MaxChanges,      \* bound: changes of the server's schema
  MaxSnapshots,    \* bound: snapshots taken
  MaxConnections   \* bound: how often the control connection is made

MetadataAssumption == {MaxChanges, MaxSnapshots, MaxConnections} \subseteq Nat

VARIABLES
  server,          \* the schema: item -> content
  connected,       \* the control connection is there
  stream,          \* what the server sent: events and answers, in order
  asked,           \* queries of callbacks that wait for answers
  front, back,     \* front_ and back_: item -> entry
  heap,            \* the UserType objects: their fields, 0 for none yet
  todo,            \* what is left of the callback that runs on the session thread
  version,         \* schema_snapshot_version_
  snapshots,       \* what applications hold
  whole,           \* history: what front_ showed after the last callback
  torn,            \* history: a change fell between two answers to one callback
  changes, connections

vars == <<server, connected, stream, asked, front, back, heap, todo, version, snapshots, whole,
          torn, changes, connections>>
buffers == <<front, back, heap, todo, version, whole>>

Empty == [i \in {} |-> 0]
Item(kind, k) == <<kind, k>>
Kinds == <<"keyspace", "table", "columns", "type", "function", "aggregate">>
SchemaItems == (ToSet(Kinds) \ {"columns"}) \X Keyspaces

\* query_meta_schema, and the queries after an event: those of a table are two.
AskSchema == [id |-> 0, item |-> <<>>, kinds |-> Kinds, rows |-> Empty]
ItemKinds(item) == IF item[1] = "table" THEN <<"table", "columns">> ELSE <<item[1]>>
AskItem(item) ==
  [id |-> changes + 1, item |-> item, kinds |-> ItemKinds(item), rows |-> Empty]

Init ==
  /\ server = [i \in SchemaItems |-> 1]
  /\ connected = TRUE /\ stream = <<>> /\ asked = {AskSchema}
  /\ front = Empty /\ back = Empty /\ heap = <<>>
  /\ todo = <<>> /\ version = 0
  /\ snapshots = {} /\ whole = Empty /\ torn = FALSE
  /\ changes = 0 /\ connections = 1

----------------------------------------------------------------------------
(* The server (external) *)

Dropped(item) ==
  IF item[1] = "keyspace" THEN {i \in DOMAIN server : i[2] = item[2]} ELSE {item}

PartlyAnswered(a) == a.kinds # (IF a.item = <<>> THEN Kinds ELSE ItemKinds(a.item))

\* A schema change; a type is not dropped under a table that uses it.
Change(item, op) ==
  /\ changes < MaxChanges /\ changes' = changes + 1
  /\ \/ /\ op = "CREATED" /\ item \notin DOMAIN server
        /\ item[1] # "keyspace" => Item("keyspace", item[2]) \in DOMAIN server
        /\ item[1] = "table" => Item("type", item[2]) \in DOMAIN server
        /\ server' = (item :> changes + 2) @@ server
     \/ /\ op = "UPDATED" /\ item \in DOMAIN server
        /\ server' = [server EXCEPT ![item] = changes + 2]
     \/ /\ op = "DROPPED" /\ item \in DOMAIN server
        /\ item[1] = "type" => Item("table", item[2]) \notin DOMAIN server
        /\ server' = Restrict(server, DOMAIN server \ Dropped(item))
  /\ stream' = IF connected THEN Append(stream, [type |-> op, item |-> item, rows |-> Empty]) ELSE stream
  /\ torn' = (torn \/ \E a \in asked : PartlyAnswered(a))
  /\ UNCHANGED <<connected, asked, buffers, snapshots, connections>>

\* The next answer for a callback; the last one sets the callback off.
Answer(a) ==
  LET kind == Head(a.kinds)
      now == [i \in {x \in DOMAIN server : x[1] = kind /\ (a.item # <<>> => x = a.item)} |-> server[i]]
      rows == now @@ a.rows IN
  /\ a \in asked
  /\ \/ /\ Len(a.kinds) > 1
        /\ asked' = (asked \ {a}) \cup {[a EXCEPT !.kinds = Tail(@), !.rows = rows]}
        /\ UNCHANGED stream
     \/ /\ Len(a.kinds) = 1
        /\ asked' = asked \ {a}
        /\ stream' = Append(stream, [type |-> "ANSWER", item |-> a.item, rows |-> rows])
  /\ UNCHANGED <<server, connected, buffers, snapshots, torn, changes, connections>>

----------------------------------------------------------------------------
(* InternalData, on the record d of a buffer and the heap *)

Entry(content, ref) == [content |-> content, ref |-> ref]

Put(d, item, entry) == [d EXCEPT !.data = (item :> entry) @@ @]

get_or_create_keyspace(d, k) ==
  IF Item("keyspace", k) \in DOMAIN d.data THEN d ELSE Put(d, Item("keyspace", k), Entry(0, 0))

\* A new UserType has no fields until update_user_types sets them.
get_or_create_user_type(d, k) ==
  IF Item("type", k) \in DOMAIN d.data THEN d
  ELSE Put([d EXCEPT !.heap = Append(@, 0)], Item("type", k), Entry(0, Len(d.heap) + 1))

TypeRef(d, k) == d.data[Item("type", k)].ref

UpdateKeyspace(d, k, content) == Put(d, Item("keyspace", k), Entry(content, 0))

\* A new TableMetadata; parsing the type of its column looks the UserType up.
UpdateTable(d, k, content) ==
  LET typed == get_or_create_user_type(get_or_create_keyspace(d, k), k) IN
  Put(typed, Item("table", k), Entry(content, TypeRef(typed, k)))

\* Faulty: a new object for the type, which the columns do not point to.
UpdateUserTypeAnew(d, k, content) ==
  LET made == get_or_create_keyspace(d, k) IN
  Put([made EXCEPT !.heap = Append(@, content)], Item("type", k), Entry(0, Len(made.heap) + 1))

\* set_fields on the object that is there.
UpdateUserType(d, k, content) ==
  LET typed == get_or_create_user_type(get_or_create_keyspace(d, k), k) IN
  [typed EXCEPT !.heap[TypeRef(typed, k)] = content]

UpdateFunction(d, k, content) ==
  Put(get_or_create_keyspace(d, k), Item("function", k), Entry(content, 0))

\* The constructor looks the function up: 0 when it is not known.
UpdateAggregate(d, k, content) ==
  Put(get_or_create_keyspace(d, k), Item("aggregate", k),
      Entry(content, IF Item("function", k) \in DOMAIN d.data
                     THEN d.data[Item("function", k)].content ELSE 0))

UpdateRow(d, item, content) ==
  CASE item[1] = "keyspace" -> UpdateKeyspace(d, item[2], content)
    [] item[1] = "table" -> UpdateTable(d, item[2], content)
    [] item[1] = "type" -> UpdateUserType(d, item[2], content)
    [] item[1] = "function" -> UpdateFunction(d, item[2], content)
    [] item[1] = "aggregate" -> UpdateAggregate(d, item[2], content)

Update(d, rows) ==
  FoldLeft(LAMBDA e, i : UpdateRow(e, i, rows[i]), d, SetToSeq(DOMAIN rows))

DropItem(data, item) ==
  IF item[1] = "keyspace" THEN Restrict(data, {i \in DOMAIN data : i[2] # item[2]})
  ELSE Restrict(data, DOMAIN data \ {item})

\* What the getters and iterators show of a map: a type's fields, those of a column's
\* type, the function of an aggregate.
View(data, h) ==
  [i \in DOMAIN data |->
     CASE i[1] = "type" -> <<h[data[i].ref], 0>>
       [] i[1] = "table" -> <<data[i].content, h[data[i].ref]>>
       [] OTHER -> <<data[i].content, data[i].ref>>]

----------------------------------------------------------------------------
(* The session thread *)

Step(op, item, rows) == [op |-> op, item |-> item, rows |-> rows]

OfKind(rows, kind) == Restrict(rows, {i \in DOMAIN rows : i[1] = kind})

\* on_query_meta_schema: everything into the back buffer, then swapped.
RefreshSteps(rows) ==
  <<Step("clear", <<>>, Empty)>>
    \o [n \in 1..Len(Kinds) |-> Step("back", <<>>, OfKind(rows, Kinds[n]))]
    \o <<Step("swap", <<>>, Empty)>>

\* An event, or the answers of one callback.  The version is counted before the lock
\* is taken for the update.
Receive ==
  LET m == Head(stream)
      steps == CASE m.type = "DROPPED" -> <<Step("count", <<>>, Empty), Step("drop", m.item, Empty)>>
                 [] m.type = "ANSWER" /\ m.item = <<>> -> RefreshSteps(m.rows)
                 [] m.type = "ANSWER" /\ m.item # <<>> /\ m.rows # Empty ->
                      <<Step("count", <<>>, Empty), Step("front", m.item, m.rows)>>
                 [] OTHER -> <<>> IN
  /\ stream # <<>> /\ todo = <<>>
  /\ stream' = Tail(stream)
  /\ todo' = steps
  /\ asked' = IF m.type \in {"CREATED", "UPDATED"} THEN asked \cup {AskItem(m.item)} ELSE asked
  /\ UNCHANGED <<server, connected, front, back, heap, version, whole, snapshots, torn,
                 changes, connections>>

Doing(op) == todo # <<>> /\ Head(todo).op = op /\ todo' = Tail(todo)

Others == UNCHANGED <<server, connected, stream, asked, snapshots, torn, changes, connections>>

Count ==
  /\ Doing("count")
  /\ version' = version + 1
  /\ UNCHANGED <<front, back, heap, whole>> /\ Others

UpdateFront ==
  LET d == Update([data |-> front, heap |-> heap], Head(todo).rows) IN
  /\ Doing("front")
  /\ front' = d.data /\ heap' = d.heap
  /\ whole' = View(d.data, d.heap)
  /\ UNCHANGED <<back, version>> /\ Others

DropFront ==
  /\ Doing("drop")
  /\ front' = DropItem(front, Head(todo).item)
  /\ whole' = View(DropItem(front, Head(todo).item), heap)
  /\ UNCHANGED <<back, heap, version>> /\ Others

clear_and_update_back ==
  /\ Doing("clear")
  /\ back' = Empty
  /\ UNCHANGED <<front, heap, version, whole>> /\ Others

UpdateBack ==
  LET d == Update([data |-> back, heap |-> heap], Head(todo).rows) IN
  /\ Doing("back")
  /\ back' = d.data /\ heap' = d.heap
  /\ version' = version + 1
  /\ UNCHANGED <<front, whole>> /\ Others

swap_to_back_and_update_front ==
  /\ Doing("swap")
  /\ front' = back /\ back' = Empty
  /\ version' = version + 1
  /\ whole' = View(back, heap)
  /\ UNCHANGED heap /\ Others

\* The connection is lost with what was in flight; a new one queries everything.
Lose ==
  /\ connected /\ todo = <<>>
  /\ connected' = FALSE /\ stream' = <<>> /\ asked' = {}
  /\ UNCHANGED <<server, buffers, snapshots, torn, changes, connections>>

Reconnect ==
  /\ ~connected /\ connections < MaxConnections
  /\ connected' = TRUE /\ connections' = connections + 1
  /\ asked' = {AskSchema} /\ torn' = FALSE
  /\ UNCHANGED <<server, stream, buffers, snapshots, changes>>

----------------------------------------------------------------------------
(* Application threads *)

schema_snapshot ==
  /\ Cardinality(snapshots) < MaxSnapshots
  /\ snapshots' = snapshots \cup {[version |-> version, data |-> front, seen |-> View(front, heap),
                                 whole |-> whole]}
  /\ UNCHANGED <<server, connected, stream, asked, buffers, torn, changes, connections>>

Next ==
  \/ \E item \in SchemaItems, op \in {"CREATED", "UPDATED", "DROPPED"} : Change(item, op)
  \/ \E a \in asked : Answer(a)
  \/ Receive \/ Count \/ UpdateFront \/ DropFront
  \/ clear_and_update_back \/ UpdateBack \/ swap_to_back_and_update_front
  \/ Lose \/ Reconnect \/ schema_snapshot

Spec == Init /\ [][Next]_vars

----------------------------------------------------------------------------
(***************************************************************************)
(* An application never sees half of a refresh: what it sees when it takes *)
(* a snapshot is what front_ was between two callbacks, though the session *)
(* thread may be in the middle of one.                                     *)
(***************************************************************************)
WholeSnapshots == \A s \in snapshots : s.seen = s.whole

Quiescent == connected /\ stream = <<>> /\ asked = {} /\ todo = <<>>

(***************************************************************************)
(* When every event and answer has been worked off, the metadata is the    *)
(* server's schema, every type has its fields, and so has the type of      *)
(* every column, whatever events came while the schema was queried, unless *)
(* the schema changed between two answers to the same callback.            *)
(***************************************************************************)
SchemaConverges ==
  Quiescent /\ ~torn =>
    /\ DOMAIN front = DOMAIN server
    /\ \A i \in DOMAIN front :
         View(front, heap)[i][1] = server[i]
         /\ (i[1] = "table" => View(front, heap)[i][2] = server[Item("type", i[2])])

(***************************************************************************)
(* A snapshot that an application holds does not change.                   *)
(***************************************************************************)
SnapshotNotUpdated == \A s \in snapshots : View(s.data, heap) = s.seen
=============================================================================
