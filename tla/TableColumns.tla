---------------------------- MODULE TableColumns ----------------------------
(***************************************************************************)
(* The columns and keys of tables, as the driver makes them from the rows  *)
(* of the system tables (update_columns and build_keys_and_sort in         *)
(* metadata.cpp) and gives them to applications (cass_table_meta_column ...).  *)
(*                                                                         *)
(* Names of columns are numbers: a node sends the columns of a table in    *)
(* the order of their names, the tables of a keyspace one after another,   *)
(* and the keyspaces in the order of their tokens.  Cassandra 1.2 sends    *)
(* the regular columns only and describes the keys in the row of a table.  *)
(***************************************************************************)
EXTENDS Integers, Sequences, FiniteSets, FiniteSetsExt, SequencesExt, TLC

CONSTANTS
    Cassandra,      \* major versions
    Keyspaces,      \* in the order of their tokens
    TableNames,     \* in their order
    Shapes,         \* what a table may be: see KeysOf
    MaxAlters       \* bound: changes of tables

VARIABLES
    cassandra,      \* version of the cluster
    schema,         \* tables of the cluster: <<keyspace, table>> to a shape
    tables,         \* those of the driver
    stale,          \* tables that were changed since
    loaded, alters

vars == <<cassandra, schema, tables, stale, loaded, alters>>

NoPosition == -100
NULL == [name |-> 0, type |-> "NULL", position |-> 0]   \* no column
-----------------------------------------------------------------------------
(* What a node sends (external) *)

Row(k, t, column, kind, position) ==
    [keyspace |-> k, table |-> t, column |-> column, kind |-> kind, position |-> position]

IndexIn(s, c) == CHOOSE i \in DOMAIN s : s[i] = c

ColumnRow(v, k, t, s, c) ==
    IF c \in ToSet(s.partition)
    THEN Row(k, t, c, "partition_key", IF v = 2 /\ Len(s.partition) = 1 THEN NoPosition ELSE IndexIn(s.partition, c) - 1)
    ELSE IF c \in ToSet(s.clustering)
    THEN Row(k, t, c, IF v >= 3 THEN "clustering" ELSE "clustering_key", IndexIn(s.clustering, c) - 1)
    ELSE Row(k, t, c, s.others[c], IF v >= 3 THEN -1 ELSE IF s.compact THEN NoPosition ELSE Len(s.clustering))

TableRows(v, k, t, s) ==
    LET sent == DOMAIN s.others \cup IF v >= 2 THEN ToSet(s.partition) \cup ToSet(s.clustering) ELSE {}
        names == SetToSortSeq(sent, <)
    IN  [i \in DOMAIN names |-> ColumnRow(v, k, t, s, names[i])]

\* Rows of the tables that were asked for.
AllRows(v, asked) ==
    FlattenSeq(FlattenSeq([i \in DOMAIN Keyspaces |-> [j \in DOMAIN TableNames |->
        LET id == <<Keyspaces[i], TableNames[j]>>
        IN  IF id \in asked THEN TableRows(v, id[1], id[2], schema[id]) ELSE <<>>]]))

\* The fields of a 1.2 table, and what their types parse to (DataTypes): a
\* CQL table has a composite comparator that ends with the column names, unless
\* its storage is compact.
KeyFields(s) ==
    LET dense == s.compact /\ s.clustering # <<>>
        types == [i \in DOMAIN s.clustering |-> "int"] \o (IF dense THEN <<>> ELSE <<"text">>)
    IN  [key_aliases |-> s.partition, key_validator |-> [i \in DOMAIN s.partition |-> "int"],
         column_aliases |-> s.clustering,
         comparator |-> [composite |-> IF s.compact THEN Len(types) > 1 ELSE TRUE,
                         types |-> types, collections |-> s.collections]]
-----------------------------------------------------------------------------
(* The driver *)

\* ColumnMetadata, from a row.
ColumnMetadata(v, row) ==
    LET clustering == IF v >= 3 THEN "clustering" ELSE "clustering_key"
        type == CASE row.kind = "partition_key" -> "PARTITION_KEY"
                  [] row.kind = clustering -> "CLUSTERING_KEY"
                  [] row.kind = "static" -> "STATIC"
                  [] row.kind = "compact_value" /\ v < 3 -> "COMPACT_VALUE"
                  [] OTHER -> "REGULAR"
        position == IF row.position = NoPosition THEN 0
                    ELSE IF v >= 3 /\ row.position < 0 THEN 0 ELSE row.position
    IN  [name |-> row.column, type |-> type, position |-> position]

KeyColumn(name, position, type) == [name |-> name, type |-> type, position |-> position]

\* Faulty: the positions within a key are not compared.
ColumnCompareTypes(a, b) ==
    a.type # b.type /\ (a.type = "PARTITION_KEY" \/ (a.type = "CLUSTERING_KEY" /\ b.type # "PARTITION_KEY"))

ColumnCompare(a, b) ==
    IF a.type = b.type THEN a.type \in {"PARTITION_KEY", "CLUSTERING_KEY"} /\ a.position < b.position
    ELSE a.type = "PARTITION_KEY" \/ (a.type = "CLUSTERING_KEY" /\ b.type # "PARTITION_KEY")

\* std::stable_sort.
StableSort(s) ==
    FoldLeft(LAMBDA sorted, c :
                LET after == {i \in DOMAIN sorted : ColumnCompare(c, sorted[i])}
                    at == IF after = {} THEN Len(sorted) + 1 ELSE Min(after)
                IN  SubSeq(sorted, 1, at - 1) \o <<c>> \o SubSeq(sorted, at, Len(sorted)),
             <<>>, s)

\* The key columns of a type, each at its position; there may be holes.
KeyOf(columns, type) ==
    LET key == SelectSeq(columns, LAMBDA c : c.type = type)
    IN  [p \in DOMAIN key |->
            LET at == {i \in DOMAIN key : key[i].position = p - 1}
            IN  IF at = {} THEN NULL ELSE key[Max(at)]]

\* The names that the driver makes up for the keys of 1.2 tables, as negative
\* numbers: "key" and "column", then with their number written over their beginning.
Alias(aliases, i, name) == IF i \in DOMAIN aliases THEN aliases[i] ELSE IF i = 1 THEN name ELSE name - i

Partition12(fields) ==
    [i \in DOMAIN fields.key_validator |-> KeyColumn(Alias(fields.key_aliases, i, -10), i - 1, "PARTITION_KEY")]

ClusteringSize12(fields, columns) ==
    LET c == fields.comparator
        size == Len(c.types)
    IN  IF c.composite
        THEN IF c.collections \/ (Len(fields.column_aliases) = size - 1 /\ Last(c.types) = "text") THEN size - 1 ELSE size
        ELSE IF fields.column_aliases # <<>> \/ columns = <<>> THEN size ELSE 0

Clustering12(fields, columns) ==
    [i \in 1..ClusteringSize12(fields, columns) |->
        KeyColumn(Alias(fields.column_aliases, i, -20), i - 1, "CLUSTERING_KEY")]

build_keys_and_sort(v, table) ==
    IF v >= 2
    THEN [table EXCEPT !.partition = KeyOf(table.columns, "PARTITION_KEY"),
                       !.clustering = KeyOf(table.columns, "CLUSTERING_KEY"),
                       !.columns = StableSort(table.columns)]
    ELSE LET partition == table.partition \o Partition12(table.fields)
             clustering == table.clustering \o Clustering12(table.fields, table.columns)
         IN  [table EXCEPT !.partition = partition, !.clustering = clustering,
                           !.columns = partition \o clustering \o @]

\* TableMetadata, from its row.
NewTable(v, s) ==
    [columns |-> <<>>, by_name |-> <<>>, partition |-> <<>>, clustering |-> <<>>,
     fields |-> IF v >= 2 THEN <<>> ELSE KeyFields(s)]

clear_columns(table) == [table EXCEPT !.columns = <<>>, !.by_name = <<>>, !.partition = <<>>, !.clustering = <<>>]

add_column(table, column) ==
    [table EXCEPT !.columns = Append(@, column), !.by_name = (column.name :> column) @@ @]

\* update_columns, one row: the table is looked up when the name of the table
\* changes, and only then.
UpdateColumn(v, s, row) ==
    LET new_table == row.table # s.table
        built == IF new_table /\ s.id # <<>> THEN [s.tables EXCEPT ![s.id] = build_keys_and_sort(v, @)] ELSE s.tables
        id == IF new_table THEN <<row.keyspace, row.table>> ELSE s.id
        known == IF id \in DOMAIN built THEN built ELSE (id :> NewTable(2, <<>>)) @@ built
        cleared == IF new_table THEN [known EXCEPT ![id] = clear_columns(@)] ELSE known
    IN  [tables |-> [cleared EXCEPT ![id] = add_column(@, ColumnMetadata(v, row))], id |-> id, table |-> row.table]

update_columns(v, ts, rows) ==
    LET s == FoldLeft(LAMBDA acc, row : UpdateColumn(v, acc, row), [tables |-> ts, id |-> <<>>, table |-> ""], rows)
    IN  IF s.id = <<>> THEN s.tables ELSE [s.tables EXCEPT ![s.id] = build_keys_and_sort(v, @)]

\* update_tables: a new object for each table.
update_tables(v, ts, asked) == [id \in asked |-> NewTable(v, schema[id])] @@ ts
-----------------------------------------------------------------------------
Ids == ToSet(Keyspaces) \X ToSet(TableNames)

Init ==
    /\ cassandra \in Cassandra
    /\ schema \in UNION {[ids -> Shapes] : ids \in {{}} \cup {{<<Keyspaces[1], TableNames[1]>>}, Ids}}
    /\ tables = <<>> /\ stale = {} /\ loaded = FALSE /\ alters = 0

\* The whole schema: into the back buffer, that was cleared.
Load ==
    /\ ~loaded
    /\ tables' = update_columns(cassandra, update_tables(cassandra, <<>>, DOMAIN schema), AllRows(cassandra, DOMAIN schema))
    /\ loaded' = TRUE /\ stale' = {}
    /\ UNCHANGED <<cassandra, schema, alters>>

\* A table is created or altered (external).
Alter(id, shape) ==
    /\ loaded /\ alters < MaxAlters
    /\ schema' = (id :> shape) @@ schema
    /\ stale' = stale \cup {id} /\ alters' = alters + 1
    /\ UNCHANGED <<cassandra, tables, loaded>>

\* refresh_table, after the event.
Refresh(id) ==
    /\ id \in stale
    /\ tables' = update_columns(cassandra, update_tables(cassandra, tables, {id}), AllRows(cassandra, {id}))
    /\ stale' = stale \ {id}
    /\ UNCHANGED <<cassandra, schema, loaded, alters>>

Next ==
    \/ Load
    \/ \E id \in Ids, shape \in Shapes : Alter(id, shape)
    \/ \E id \in Ids : Refresh(id)

Spec == Init /\ [][Next]_vars
-----------------------------------------------------------------------------
(* cass_table_meta_column and the like *)

TableGetter(t, what, i) ==
    LET list == CASE what = "column" -> t.columns [] what = "partition_key" -> t.partition
                  [] what = "clustering_key" -> t.clustering
    IN  IF i >= Len(list) THEN NULL ELSE list[i + 1]

get_column(t, name) == IF name \in DOMAIN t.by_name THEN t.by_name[name] ELSE NULL
-----------------------------------------------------------------------------
(* Properties *)

Listed(t, what, n) == [i \in 1..n |-> TableGetter(t, what, i - 1).name]

\* The table that the driver has is the one of the cluster: its keys in their
\* order, then the other columns, and each column by its name; but for the key
\* columns of Cassandra 1.2, which are in the table and not found by name.
AsDeclared(id) ==
    LET s == schema[id]
        t == tables[id]
        all == s.partition \o s.clustering \o SetToSortSeq(DOMAIN s.others, <)
    IN  /\ Listed(t, "partition_key", Len(s.partition) + 1) = Append(s.partition, NULL.name)
        /\ Listed(t, "clustering_key", Len(s.clustering) + 1) = Append(s.clustering, NULL.name)
        /\ Listed(t, "column", Len(all) + 1) = Append(all, NULL.name)
        /\ \A c \in ToSet(all) :
              get_column(t, c).name = IF cassandra >= 2 \/ c \in DOMAIN s.others THEN c ELSE NULL.name

\* A table that follows one of the same name in another keyspace.
Follows(id) ==
    \E i \in 2..Len(Keyspaces), j \in DOMAIN TableNames :
        /\ id \in {<<Keyspaces[i], TableNames[j]>>, <<Keyspaces[i - 1], TableNames[j]>>}
        /\ Len(TableNames) = 1

\* Once the driver has followed the changes, every table is as it was declared,
\* whatever the version of the cluster, the order of names and positions and
\* the sequence of changes; unless tables of one name meet in the answer.  At
\* Cassandra 1.2 no key column is found by its name: columns_by_name_ has the
\* other columns only.
TablesAsDeclared ==
    \A id \in (DOMAIN schema \cap DOMAIN tables) \ stale : loaded /\ ~Follows(id) => AsDeclared(id)
=============================================================================
