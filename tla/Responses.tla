----------------------------- MODULE Responses -----------------------------
(***************************************************************************)
(* What the driver makes of a response: the bodies of messages             *)
(* (error_response.cpp, event_response.cpp, result_response.cpp and the    *)
(* smaller ones), the rows an application reads of a result (row.cpp,      *)
(* result_iterator.hpp) and the getters of cassandra.h.                    *)
(*                                                                         *)
(* A body is a sequence of the protocol's fields; a decoder that takes a   *)
(* field for one of another type, or reads past the end, gets Garbage.     *)
(***************************************************************************)
EXTENDS DataTypes, FiniteSets

CONSTANTS
    Versions,
    ColumnTypes,    \* types that the first column of a result may have
    MaxGets, MaxIterators   \* bounds: calls of cass_future_get_result, iterators on the result

VARIABLES
    version,
    sent,           \* the response, as the server means it
    response,       \* the Response object, once the body is decoded
    result,         \* rows_, as the number of rows before it, and first_row_
    iterators,      \* index_ and position_ of each ResultIterator
    read,           \* history: the rows each iterator has given
    gets

vars == <<version, sent, response, result, iterators, read, gets>>

Garbage == [type |-> "garbage", v |-> "garbage"]
NoRow == <<"no row">>
F(type, v) == [type |-> type, v |-> v]
-----------------------------------------------------------------------------
(* Decoding *)

\* decode_int32, decode_uint16, decode_string, decode_bytes, decode_inet ...
At(type, f, pos) == IF pos \in DOMAIN f /\ f[pos].type = type THEN f[pos].v ELSE Garbage.v
Count(f, pos) == IF pos \in DOMAIN f /\ f[pos].type \in {"short", "int"} THEN f[pos].v ELSE 0

decode_stringlist(f, pos) == [i \in 1..Count(f, pos) |-> At("string", f, pos + i)]

decode_custom_payload(f, pos) ==
    [items |-> {<<At("string", f, pos + 2 * i - 1), At("bytes", f, pos + 2 * i)>> : i \in 1..Count(f, pos)},
     pos |-> pos + 1 + 2 * Count(f, pos)]
decode_warnings(f, pos) == pos + 1 + Count(f, pos)

\* The multimap of SUPPORTED: what it has for a key.
decode_string_multimap(f, key) ==
    LET at == {i \in DOMAIN f : f[i].type = "string" /\ f[i].v = key}
    IN  IF at = {} THEN <<>> ELSE decode_stringlist(f, Min(at) + 1)

Undecodable == [kind |-> "undecodable"]

TopologyChanges == {"NEW_NODE", "REMOVED_NODE", "MOVED_NODE"}
StatusChanges == {"UP", "DOWN"}
SchemaChanges == {"CREATED", "UPDATED", "DROPPED"}
Targets == {"KEYSPACE", "TABLE", "TYPE", "FUNCTION", "AGGREGATE"}

NodeEvent(f) ==
    [kind |-> At("string", f, 1), change |-> At("string", f, 2), node |-> At("inet", f, 3)]

SchemaEvent(v, f) ==
    LET change == At("string", f, 2)
        target == IF v <= 2 THEN IF At("string", f, 4) = "" THEN "KEYSPACE" ELSE "TABLE"
                  ELSE At("string", f, 3)
        event(pos) == [kind |-> "SCHEMA_CHANGE", change |-> change, target |-> target,
                       keyspace |-> At("string", f, pos),
                       name |-> IF target = "KEYSPACE" THEN "" ELSE At("string", f, pos + 1),
                       args |-> IF target \in {"FUNCTION", "AGGREGATE"}
                                THEN decode_stringlist(f, pos + 2) ELSE <<>>]
    IN  IF change \notin SchemaChanges \/ target \notin Targets THEN Undecodable
        ELSE event(IF v <= 2 THEN 3 ELSE 4)

EventDecode(v, f) ==
    CASE At("string", f, 1) = "TOPOLOGY_CHANGE" ->
            IF At("string", f, 2) \in TopologyChanges THEN NodeEvent(f) ELSE Undecodable
      [] At("string", f, 1) = "STATUS_CHANGE" ->
            IF At("string", f, 2) \in StatusChanges THEN NodeEvent(f) ELSE Undecodable
      [] At("string", f, 1) = "SCHEMA_CHANGE" -> SchemaEvent(v, f)
      [] OTHER -> Undecodable

WriteTypes == {"SIMPLE", "BATCH", "UNLOGGED_BATCH", "COUNTER", "BATCH_LOG"}
decode_write_type(f, pos) ==
    IF At("string", f, pos) \in WriteTypes THEN At("string", f, pos) ELSE "UNKNOWN"

NewError ==
    [kind |-> "ERROR", code |-> "none", message |-> "", cl |-> "UNKNOWN", received |-> -1, required |-> -1,
     failures |-> -1, data_present |-> 0, write_type |-> "UNKNOWN", prepared_id |-> "",
     keyspace |-> "", table |-> "", function |-> "", args |-> <<>>]

ErrorDecode(f) ==
    LET code == At("int", f, 1)
        error == [NewError EXCEPT !.code = code, !.message = At("string", f, 2)]
        replicas == [error EXCEPT !.cl = At("short", f, 3), !.received = At("int", f, 4),
                                  !.required = At("int", f, 5)]
    IN  CASE code = "UNAVAILABLE" ->
                [error EXCEPT !.cl = At("short", f, 3), !.required = At("int", f, 4), !.received = At("int", f, 5)]
          [] code = "READ_TIMEOUT" -> [replicas EXCEPT !.data_present = At("byte", f, 6)]
          [] code = "WRITE_TIMEOUT" -> [replicas EXCEPT !.write_type = decode_write_type(f, 6)]
          [] code = "READ_FAILURE" ->
                [replicas EXCEPT !.failures = At("int", f, 6), !.data_present = At("byte", f, 7)]
          [] code = "WRITE_FAILURE" ->
                [replicas EXCEPT !.failures = At("int", f, 6), !.write_type = decode_write_type(f, 7)]
          [] code = "FUNCTION_FAILURE" ->
                [error EXCEPT !.keyspace = At("string", f, 3), !.function = At("string", f, 4),
                              !.args = decode_stringlist(f, 5)]
          [] code = "UNPREPARED" -> [error EXCEPT !.prepared_id = At("string", f, 3)]
          [] code = "ALREADY_EXISTS" ->
                [error EXCEPT !.keyspace = At("string", f, 3), !.table = At("string", f, 4)]
          [] OTHER -> error

\* DataTypeDecoder::decode: the type at a position, and the position after it.
RECURSIVE DecodeType(_, _), DecodeTypes(_, _, _, _)
DecodeTypes(f, pos, left, named) ==
    IF left = 0 THEN [types |-> <<>>, pos |-> pos]
    ELSE LET one == DecodeType(f, pos + (IF named THEN 1 ELSE 0))
             rest == DecodeTypes(f, one.pos, left - 1, named)
         IN  [types |-> <<one.type>> \o rest.types, pos |-> rest.pos]

DecodeType(f, pos) ==
    LET kind == At("option", f, pos)
        subs(start, n, named) == DecodeTypes(f, start, n, named)
        collection == subs(pos + 1, IF kind = "map" THEN 2 ELSE 1, FALSE)
        tuple == subs(pos + 2, Count(f, pos + 1), FALSE)
        udt == subs(pos + 4, Count(f, pos + 3), TRUE)
    IN  CASE kind = "custom" -> [type |-> CustomType(At("string", f, pos + 1)), pos |-> pos + 2]
          [] kind \in {"list", "set", "map"} ->
                [type |-> CollectionType(kind, collection.types), pos |-> collection.pos]
          [] kind = "tuple" -> [type |-> TupleType(tuple.types), pos |-> tuple.pos]
          [] kind = "udt" -> [type |-> [kind |-> "udt", name |-> At("string", f, pos + 2), types |-> udt.types],
                              pos |-> udt.pos]
          [] kind = Garbage.v -> [type |-> NIL, pos |-> pos + 1]
          [] OTHER -> [type |-> Native(kind), pos |-> pos + 1]

\* One column of the metadata: its table unless the table is given for all.
RECURSIVE DecodeColumns(_, _, _, _)
DecodeColumns(f, pos, left, global) ==
    IF left = 0 THEN [columns |-> <<>>, pos |-> pos]
    ELSE LET start == IF global THEN pos ELSE pos + 2
             type == DecodeType(f, start + 1)
             rest == DecodeColumns(f, type.pos, left - 1, global)
         IN  [columns |-> <<[name |-> At("string", f, start), type |-> type.type]>> \o rest.columns,
              pos |-> rest.pos]

NoMetadata == [columns |-> <<>>, none |-> TRUE]

\* decode_metadata.
DecodeMetadata(f, pos, has_pk_indices) ==
    LET flags == IF pos \in DOMAIN f THEN f[pos].v ELSE {}
        count == Count(f, pos + 1)
        pks == IF has_pk_indices THEN Count(f, pos + 2) ELSE 0
        after_pk == pos + 2 + (IF has_pk_indices THEN 1 + pks ELSE 0)
        paged == "HAS_MORE_PAGES" \in flags
        after_paging == after_pk + (IF paged THEN 1 ELSE 0)
        global == "GLOBAL_TABLESPEC" \in flags
        columns == DecodeColumns(f, after_paging + (IF global THEN 2 ELSE 0), count, global)
        no_metadata == "NO_METADATA" \in flags
    IN  [pk |-> [i \in 1..pks |-> At("short", f, pos + 2 + i)],
         has_more_pages |-> paged, paging_state |-> IF paged THEN At("bytes", f, after_pk) ELSE "",
         keyspace |-> IF global /\ ~no_metadata THEN At("string", f, after_paging) ELSE "",
         metadata |-> IF no_metadata THEN NoMetadata ELSE [columns |-> columns.columns, none |-> FALSE],
         pos |-> IF no_metadata THEN after_paging ELSE columns.pos]

ResultDecode(v, f) ==
    LET kind == At("int", f, 1)
        rows == DecodeMetadata(f, 2, FALSE)
        parameters == DecodeMetadata(f, 3, v >= 4)
    IN  CASE kind = "VOID" -> [kind |-> "VOID"]
          [] kind = "ROWS" ->
                [kind |-> "ROWS", metadata |-> rows.metadata, has_more_pages |-> rows.has_more_pages,
                 paging_state |-> rows.paging_state,
                 count |-> Count(f, rows.pos), cells |-> SubSeq(f, rows.pos + 1, Len(f))]
          [] kind = "SET_KEYSPACE" -> [kind |-> "SET_KEYSPACE", keyspace |-> At("string", f, 2)]
          [] kind = "PREPARED" ->
                [kind |-> "PREPARED", id |-> At("string", f, 2), metadata |-> parameters.metadata,
                 keyspace |-> parameters.keyspace, pk |-> parameters.pk,
                 result_metadata |-> IF v > 1 THEN DecodeMetadata(f, parameters.pos, FALSE).metadata
                                     ELSE NoMetadata]
          [] kind = "SCHEMA_CHANGE" -> [kind |-> "SCHEMA_CHANGED"]
          [] OTHER -> Undecodable

AuthDecode(v, opcode, f) ==
    IF opcode = "AUTHENTICATE" THEN [kind |-> opcode, token |-> At("string", f, 1)]
    ELSE IF v < 2 THEN Undecodable ELSE [kind |-> opcode, token |-> At("bytes", f, 1)]

SupportedDecode(f) ==
    [kind |-> "SUPPORTED", compression |-> decode_string_multimap(f, "COMPRESSION"),
     versions |-> decode_string_multimap(f, "CASS_VERSION")]

\* ResponseMessage::decode, of a complete body: the warnings and the payload
\* that the flags announce come first.
Body(v, opcode, f) ==
    CASE opcode = "ERROR" -> ErrorDecode(f)
      [] opcode = "EVENT" -> EventDecode(v, f)
      [] opcode = "RESULT" -> ResultDecode(v, f)
      [] opcode = "SUPPORTED" -> SupportedDecode(f)
      [] opcode = "READY" -> [kind |-> "READY"]
      [] opcode \in {"AUTHENTICATE", "AUTH_CHALLENGE", "AUTH_SUCCESS"} -> AuthDecode(v, opcode, f)
      [] OTHER -> Undecodable

Decode(v, m) ==
    LET after_warnings == IF "WARNING" \in m.flags THEN decode_warnings(m.fields, 1) ELSE 1
        payload == IF "CUSTOM_PAYLOAD" \in m.flags THEN decode_custom_payload(m.fields, after_warnings)
                   ELSE [items |-> {}, pos |-> after_warnings]
    IN  [body |-> Body(v, m.opcode, SubSeq(m.fields, payload.pos, Len(m.fields))), payload |-> payload.items]

\* decode_row: as many cells as the metadata has columns; null is a value
\* without a type.
decode_row(cells, columns, row) ==
    [c \in DOMAIN columns |->
        LET at == row * Len(columns) + c
        IN  IF at \in DOMAIN cells THEN cells[at].v ELSE Garbage.v]

\* get_by_name: the first column with the name (HashTable).
get_by_name(columns, row, name) ==
    LET at == {c \in DOMAIN columns : columns[c].name = name}
    IN  IF at = {} THEN "NULL" ELSE row[Min(at)]
-----------------------------------------------------------------------------
(* What a server writes (external) *)

WriteStrings(s) == <<F("short", Len(s))>> \o [i \in DOMAIN s |-> F("string", s[i])]

RECURSIVE WriteType(_)
WriteType(t) ==
    CASE t.kind = "custom" -> <<F("option", "custom"), F("string", t.class)>>
      [] t.kind \in {"list", "set", "map"} ->
            <<F("option", t.kind)>> \o FlattenSeq([i \in DOMAIN t.types |-> WriteType(t.types[i])])
      [] t.kind = "tuple" -> <<F("option", "tuple"), F("short", Len(t.types))>>
                               \o FlattenSeq([i \in DOMAIN t.types |-> WriteType(t.types[i])])
      [] t.kind = "udt" -> <<F("option", "udt"), F("string", "ks"), F("string", t.name), F("short", Len(t.types))>>
                             \o FlattenSeq([i \in DOMAIN t.types |-> <<F("string", "field")>> \o WriteType(t.types[i])])
      [] OTHER -> <<F("option", t.kind)>>

WriteMetadata(m, flags, paging, pk, v4) ==
    <<F("int", flags), F("int", Len(m.columns))>>
      \o (IF v4 THEN <<F("int", Len(pk))>> \o [i \in DOMAIN pk |-> F("short", pk[i])] ELSE <<>>)
      \o (IF "HAS_MORE_PAGES" \in flags THEN <<F("bytes", paging)>> ELSE <<>>)
      \o (IF "NO_METADATA" \in flags THEN <<>>
          ELSE (IF "GLOBAL_TABLESPEC" \in flags THEN <<F("string", "ks"), F("string", "t")>> ELSE <<>>)
            \o FlattenSeq([c \in DOMAIN m.columns |->
                  (IF "GLOBAL_TABLESPEC" \in flags THEN <<>> ELSE <<F("string", "ks"), F("string", "t")>>)
                    \o <<F("string", m.columns[c].name)>> \o WriteType(m.columns[c].type)]))

WriteError(e) ==
    LET replicas == <<F("short", e.cl), F("int", e.received), F("int", e.required)>>
    IN  <<F("int", e.code), F("string", e.message)>> \o
        CASE e.code = "UNAVAILABLE" -> <<F("short", e.cl), F("int", e.required), F("int", e.received)>>
          [] e.code = "READ_TIMEOUT" -> replicas \o <<F("byte", e.data_present)>>
          [] e.code = "WRITE_TIMEOUT" -> replicas \o <<F("string", e.write_type)>>
          [] e.code = "READ_FAILURE" -> replicas \o <<F("int", e.failures), F("byte", e.data_present)>>
          [] e.code = "WRITE_FAILURE" -> replicas \o <<F("int", e.failures), F("string", e.write_type)>>
          [] e.code = "FUNCTION_FAILURE" ->
                <<F("string", e.keyspace), F("string", e.function)>> \o WriteStrings(e.args)
          [] e.code = "UNPREPARED" -> <<F("string", e.prepared_id)>>
          [] e.code = "ALREADY_EXISTS" -> <<F("string", e.keyspace), F("string", e.table)>>
          [] OTHER -> <<>>

WriteEvent(v, e) ==
    IF e.kind # "SCHEMA_CHANGE" THEN <<F("string", e.kind), F("string", e.change), F("inet", e.node)>>
    ELSE <<F("string", e.kind), F("string", e.change)>>
           \o (IF v <= 2 THEN <<F("string", e.keyspace), F("string", e.name)>>
               ELSE <<F("string", e.target), F("string", e.keyspace)>>
                      \o (IF e.target = "KEYSPACE" THEN <<>> ELSE <<F("string", e.name)>>)
                      \o (IF e.target \in {"FUNCTION", "AGGREGATE"} THEN WriteStrings(e.args) ELSE <<>>))

WriteResult(v, r, flags) ==
    <<F("int", r.kind)>> \o
    CASE r.kind = "ROWS" ->
            WriteMetadata(r.metadata, flags, r.paging_state, <<>>, FALSE)
              \o <<F("int", r.count)>> \o r.cells
      [] r.kind = "SET_KEYSPACE" -> <<F("string", r.keyspace)>>
      [] r.kind = "PREPARED" ->
            <<F("string", r.id)>> \o WriteMetadata(r.metadata, {"GLOBAL_TABLESPEC"}, "", r.pk, v >= 4)
              \o (IF v > 1 THEN WriteMetadata(r.result_metadata,
                                     IF r.result_metadata.none THEN {"NO_METADATA"} ELSE {}, "", <<>>, FALSE)
                  ELSE <<>>)
      [] OTHER -> <<>>

\* s has the body, the opcode, the flags of the message and those of its metadata.
WriteBody(v, s) ==
    CASE s.opcode = "ERROR" -> WriteError(s.body)
      [] s.opcode = "EVENT" -> WriteEvent(v, s.body)
      [] s.opcode = "RESULT" -> WriteResult(v, s.body, s.metadata_flags)
      [] s.opcode = "SUPPORTED" -> <<F("short", 2), F("string", "COMPRESSION")>> \o WriteStrings(s.body.compression)
                                     \o <<F("string", "CASS_VERSION")>> \o WriteStrings(s.body.versions)
      [] s.opcode = "READY" -> <<>>
      [] s.opcode = "AUTHENTICATE" -> <<F("string", s.body.token)>>
      [] OTHER -> <<F("bytes", s.body.token)>>

ServerWrites(v, s) ==
    [opcode |-> s.opcode, flags |-> s.flags,
     fields |-> (IF "WARNING" \in s.flags THEN WriteStrings(<<"w">>) ELSE <<>>)
                  \o (IF "CUSTOM_PAYLOAD" \in s.flags
                      THEN <<F("short", 1), F("string", "p"), F("bytes", "v")>> ELSE <<>>)
                  \o WriteBody(v, s)]

\* What a version of the protocol has.
Sendable(v, s) ==
    /\ s.flags # {} => v >= 4
    /\ s.opcode \in {"AUTH_CHALLENGE", "AUTH_SUCCESS"} => v >= 2
    /\ s.body.kind = "SCHEMA_CHANGE" => (v >= 3 \/ s.body.target \in {"KEYSPACE", "TABLE"})
    /\ s.body.kind = "PREPARED" => (v >= 4 \/ s.body.pk = <<>>) /\ (v > 1 \/ s.body.result_metadata.none)
    /\ s.metadata_flags # {} => v >= 2

\* The responses a server sends (external): every kind of error, event and
\* result, with each combination of flags.
ErrorOf(code) == [NewError EXCEPT !.code = code, !.message = "m"]
Counts(e) == [e EXCEPT !.cl = "ONE", !.required = 2, !.received = 1]
Errors ==
    {ErrorOf("SYNTAX"), Counts(ErrorOf("UNAVAILABLE")),
     [Counts(ErrorOf("READ_TIMEOUT")) EXCEPT !.data_present = 1],
     [Counts(ErrorOf("WRITE_TIMEOUT")) EXCEPT !.write_type = "BATCH_LOG"],
     [Counts(ErrorOf("READ_FAILURE")) EXCEPT !.failures = 3, !.data_present = 1],
     [Counts(ErrorOf("WRITE_FAILURE")) EXCEPT !.failures = 3, !.write_type = "SIMPLE"],
     [ErrorOf("FUNCTION_FAILURE") EXCEPT !.keyspace = "k", !.function = "f", !.args = <<"int", "text">>],
     [ErrorOf("UNPREPARED") EXCEPT !.prepared_id = "id"],
     [ErrorOf("ALREADY_EXISTS") EXCEPT !.keyspace = "k", !.table = "t"]}

Events ==
    [kind : {"TOPOLOGY_CHANGE"}, change : TopologyChanges, node : {"n"}]
    \cup [kind : {"STATUS_CHANGE"}, change : StatusChanges, node : {"n"}]
    \cup {e \in [kind : {"SCHEMA_CHANGE"}, change : SchemaChanges, target : Targets, keyspace : {"k"},
                 name : {"", "x"}, args : {<<>>, <<"int", "text">>}] :
              /\ e.target = "KEYSPACE" <=> e.name = ""
              /\ e.args # <<>> => e.target \in {"FUNCTION", "AGGREGATE"}}

Metadatas ==
    {[none |-> FALSE, columns |-> <<[name |-> "a", type |-> t], [name |-> "b", type |-> Native("int")]>>] :
        t \in ColumnTypes}
RowResults ==
    {[kind |-> "ROWS", metadata |-> m, has_more_pages |-> p # "", paging_state |-> p, count |-> n,
      cells |-> [i \in 1..2 * n |-> F("value", ToString(i))]] : m \in Metadatas, p \in {"", "p"}, n \in {0, 3}}
PreparedResults ==
    [kind : {"PREPARED"}, id : {"id"}, metadata : Metadatas, keyspace : {"ks"}, pk : {<<>>, <<1>>, <<1, 0>>},
     result_metadata : Metadatas \cup {NoMetadata}]

Message(opcode, body, flags, metadata_flags) ==
    [opcode |-> opcode, body |-> body, flags |-> flags, metadata_flags |-> metadata_flags,
     prepared_columns |-> IF "metadata" \in DOMAIN body THEN body.metadata.columns ELSE <<>>]

Responses ==
    {Message("ERROR", e, f, {}) : e \in Errors, f \in SUBSET {"WARNING", "CUSTOM_PAYLOAD"}}
    \cup {Message("EVENT", e, {}, {}) : e \in Events}
    \cup {Message("RESULT", r, {}, {}) :
            r \in {[kind |-> "VOID"], [kind |-> "SET_KEYSPACE", keyspace |-> "k"]} \cup PreparedResults}
    \cup {Message("RESULT", r, f, m \cup IF r.has_more_pages THEN {"HAS_MORE_PAGES"} ELSE {}) :
            r \in RowResults, f \in {{}, {"WARNING"}, {"CUSTOM_PAYLOAD"}},
            m \in SUBSET {"NO_METADATA", "GLOBAL_TABLESPEC"}}
    \cup {Message("SUPPORTED", [kind |-> "SUPPORTED", compression |-> c, versions |-> <<"3">>], {}, {}) :
            c \in {<<>>, <<"lz4", "snappy">>}}
    \cup {Message(k, [kind |-> k, token |-> "t"], {}, {}) : k \in {"AUTHENTICATE", "AUTH_CHALLENGE", "AUTH_SUCCESS"}}
    \cup {Message("READY", [kind |-> "READY"], {}, {})}
-----------------------------------------------------------------------------
(* A response and the application that reads its result *)

NoResult == [body |-> Undecodable, payload |-> {}]

Init ==
    /\ version \in Versions
    /\ sent \in {s \in Responses : Sendable(version, s)}
    /\ response = NoResult /\ result = [rows |-> 0, first_row |-> NoRow]
    /\ iterators = <<>> /\ read = <<>> /\ gets = 0

Receive ==
    /\ response = NoResult
    /\ response' = Decode(version, ServerWrites(version, sent))
    /\ UNCHANGED <<version, sent, result, iterators, read, gets>>

IsRows == response.body.kind = "ROWS"

\* RequestHandler::on_result_response: rows without metadata have the
\* metadata of the prepared statement.
Columns == IF response.body.metadata.none THEN sent.prepared_columns ELSE response.body.metadata.columns

\* cass_future_get_result decodes the first row, each time it is called.
GetResult ==
    /\ IsRows /\ gets < MaxGets
    /\ gets' = gets + 1
    /\ result' = IF response.body.count > 0
                 THEN [rows |-> result.rows + 1,
                       first_row |-> decode_row(response.body.cells, Columns, result.rows)]
                 ELSE result
    /\ UNCHANGED <<version, sent, response, iterators, read>>

NewIterator ==
    /\ gets > 0 /\ Len(iterators) < MaxIterators
    /\ iterators' = Append(iterators, [index |-> -1, position |-> result.rows])
    /\ read' = Append(read, <<>>)
    /\ UNCHANGED <<version, sent, response, result, gets>>

\* Faulty: the position moves on with the first row as well.
IteratorNextTwice(i) ==
    LET it == iterators[i]
    IN  /\ it.index + 1 < response.body.count
        /\ iterators' = [iterators EXCEPT ![i].index = @ + 1, ![i].position = @ + 1]
        /\ read' = [read EXCEPT ![i] = Append(@,
                        IF it.index >= 0 THEN decode_row(response.body.cells, Columns, it.position)
                        ELSE result.first_row)]
        /\ UNCHANGED <<version, sent, response, result, gets>>

\* next, and row: the first row is the result's, the others are the iterator's.
IteratorNext(i) ==
    LET it == iterators[i]
    IN  /\ it.index + 1 < response.body.count
        /\ iterators' = [iterators EXCEPT ![i].index = @ + 1,
                                          ![i].position = IF it.index >= 0 THEN @ + 1 ELSE @]
        /\ read' = [read EXCEPT ![i] = Append(@,
                        IF it.index >= 0 THEN decode_row(response.body.cells, Columns, it.position)
                        ELSE result.first_row)]
        /\ UNCHANGED <<version, sent, response, result, gets>>

Next ==
    \/ Receive
    \/ GetResult
    \/ NewIterator
    \/ \E i \in DOMAIN iterators : IteratorNext(i)

Spec == Init /\ [][Next]_vars
-----------------------------------------------------------------------------
(* The getters of cassandra.h *)

\* cass_result_*: of rows only; the others are 0, NULL or an error.
ResultGetter(name, index) ==
    LET columns == IF "metadata" \in DOMAIN response.body THEN Columns ELSE <<>>
    IN  CASE name = "row_count" -> IF IsRows THEN response.body.count ELSE 0
          [] name = "column_count" -> IF IsRows THEN Len(columns) ELSE 0
          [] name = "column_name" -> IF index > Len(columns) THEN "INDEX_OUT_OF_BOUNDS"
                                     ELSE IF ~IsRows THEN "BAD_PARAMS" ELSE columns[index].name
          [] name = "column_type" -> IF IsRows /\ index <= Len(columns) THEN columns[index].type.kind ELSE "UNKNOWN"
          [] name = "paging_state" -> IF IsRows /\ response.body.has_more_pages
                                      THEN response.body.paging_state ELSE "NO_PAGING_STATE"

\* code() is the number on the wire, and the getters compare it with that of
\* cassandra.h, which has the source of the error in its highest byte.
ErrorNumber == [ALREADY_EXISTS |-> 9216, FUNCTION_FAILURE |-> 5120]
CASS_ERROR(number) == 2 * 2 ^ 24 + number
HasCode(e, code) == e.code \in DOMAIN ErrorNumber /\ ErrorNumber[e.code] = CASS_ERROR(ErrorNumber[code])

\* cass_error_result_*.  The keyspace asks for both codes at once.
Refused == "INVALID_ERROR_RESULT_TYPE"
ErrorGetter(name, e) ==
    CASE name = "keyspace" -> IF HasCode(e, "ALREADY_EXISTS") /\ HasCode(e, "FUNCTION_FAILURE")
                              THEN e.keyspace ELSE Refused
      [] name = "table" -> IF HasCode(e, "ALREADY_EXISTS") THEN e.table ELSE Refused
      [] name = "function" -> IF HasCode(e, "FUNCTION_FAILURE") THEN e.function ELSE Refused
      [] name = "arg_type" -> IF HasCode(e, "FUNCTION_FAILURE") THEN e.args[1] ELSE Refused
      [] name = "num_arg_types" -> Len(e.args)
      [] name = "actual" -> e.received
      [] name = "required" -> e.required
-----------------------------------------------------------------------------
(* Properties *)

\* What the getters give is what was sent, but for those of an error's keyspace,
\* table, function and argument types: whatever was sent, they refuse it.
GettersAgree ==
    /\ IsRows => /\ ResultGetter("row_count", 0) = sent.body.count
                 /\ ResultGetter("column_count", 0) = Len(sent.prepared_columns)
                 /\ \A c \in DOMAIN sent.prepared_columns :
                       /\ ResultGetter("column_name", c) = sent.prepared_columns[c].name
                       /\ ResultGetter("column_type", c) = sent.prepared_columns[c].type.kind
                 /\ sent.body.has_more_pages => ResultGetter("paging_state", 0) = sent.body.paging_state
    /\ sent.opcode = "ERROR" =>
          /\ ErrorGetter("actual", response.body) = sent.body.received
          /\ ErrorGetter("required", response.body) = sent.body.required
          /\ ErrorGetter("num_arg_types", response.body) = Len(sent.body.args)
          /\ \A name \in {"keyspace", "table", "function", "arg_type"} :
                ErrorGetter(name, response.body) = Refused

\* Whatever a server may send at a version, the driver understands as it is
\* meant: every field of every error, event and result, at the place the
\* version and the flags give it.  An application reads it through the getters,
\* which give it all but what is named above.
ResponsesUnderstood ==
    response # NoResult =>
        /\ response.body = (IF sent.body.kind = "ROWS" /\ "NO_METADATA" \in sent.metadata_flags
                            THEN [sent.body EXCEPT !.metadata = NoMetadata] ELSE sent.body)
        /\ response.payload = IF "CUSTOM_PAYLOAD" \in sent.flags THEN {<<"p", "v">>} ELSE {}
        /\ GettersAgree

Row(n) == [c \in DOMAIN sent.prepared_columns |-> sent.body.cells[(n - 1) * Len(sent.prepared_columns) + c].v]

\* However many iterators an application has on a result, and in whatever
\* order it advances them, each gives the rows in their order, and a row gives
\* the value of the column with a name.
RowsInOrder ==
    \A i \in DOMAIN read :
        /\ read[i] = [n \in 1..Len(read[i]) |-> Row(n)]
        /\ \A n \in DOMAIN read[i], c \in DOMAIN sent.prepared_columns :
              get_by_name(Columns, read[i][n], sent.prepared_columns[c].name) = Row(n)[c]
=============================================================================
