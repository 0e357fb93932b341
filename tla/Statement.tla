----------------------------- MODULE Statement -----------------------------
(***************************************************************************)
(* A statement or a batch: the application binds values and sets options,  *)
(* executes it, and an I/O worker encodes it for the version its           *)
(* connections speak, once more for every retry (statement.cpp,            *)
(* query_request.cpp, execute_request.cpp, batch_request.cpp, handler.cpp).*)
(*                                                                         *)
(* A message is a sequence of the protocol's fields, each with its width;  *)
(* a value is the bytes of Values.  There is one collection, which a       *)
(* statement refers to from the moment it is bound and to which items may  *)
(* be appended at any time, between two writes of a request too; and one   *)
(* statement, which is executed by itself or added to a batch.             *)
(***************************************************************************)
EXTENDS Values, FiniteSets

CONSTANTS
    Versions,       \* protocol versions of the session
    Parameters,     \* how many parameters the statement has
    Columns,        \* of a prepared statement: the name and type of each parameter
    PartitionKeys,  \* names of the columns of its table's partition key
    Started,        \* values that are bound already, in the order of the indices
    Inputs,         \* what may be bound besides the collection
    Items,          \* what may be appended to the collection
    Collections,    \* what the collection may be to begin with
    MaxItems, MaxSets, MaxSends     \* bounds; that of the items for each type

VARIABLES
    version, statement, batch, collection, handler,
    sent,           \* the last message, or the error the request ended with
    collections,    \* history: the collection when the request was executed and last written
    bound,          \* history: what was bound to each index and to each name
    failed,         \* history: a call that binds by name has returned an error
    sets, sends     \* bounded by MaxSets and MaxSends

vars == <<version, statement, batch, collection, handler, sent, collections, bound, failed, sets, sends>>

Error(e) == [error |-> e, fields |-> <<>>]
Kinds == {"QUERY", "EXECUTE"}
NoTimestamp == "INT64_MIN"
Collection == [kind |-> "collection"]
Options == [cl |-> "LOCAL_ONE", serial |-> "ANY", timestamp |-> NoTimestamp]
NewHandler == [state |-> "new", cl |-> "UNKNOWN", timestamp |-> NoTimestamp, cache |-> <<>>, key |-> <<>>]

\* Prepared: the server's indices, or before version 4 the first parameter
\* named like each column of the key, if there is one for all of them.
ParametersNamed(name) == {i \in 1..Parameters : Columns[i].name = name}
PreparedKeys(key) ==
    IF \A k \in DOMAIN key : ParametersNamed(key[k]) # {}
    THEN [k \in DOMAIN key |-> Min(ParametersNamed(key[k]))]
    ELSE <<>>

NewStatement(kind, key) ==
    [kind |-> kind, elements |-> [i \in 1..Parameters |-> Unset], names |-> <<>>, has_names |-> FALSE,
     key_indices |-> IF kind = "EXECUTE" THEN PreparedKeys(key) ELSE <<>>, payload |-> {},
     skip_metadata |-> kind = "EXECUTE", page_size |-> -1, paging_state |-> "", options |-> Options]
NewBatch == [statements |-> 0, prepared |-> {}, options |-> Options]

\* AbstractData::check and set.  The collection is kept by reference.
set(s, i, v) ==
    LET is_collection_value == v = Collection
        kind == IF is_collection_value THEN collection.type ELSE v.kind
    IN  IF i > Parameters THEN [rc |-> "INDEX_OUT_OF_BOUNDS", s |-> s]
        ELSE IF s.kind = "EXECUTE" /\ kind \notin {"null", Columns[i].type}
        THEN [rc |-> "INVALID_VALUE_TYPE", s |-> s]
        ELSE IF is_collection_value /\ kind = "map" /\ Len(collection.items) % 2 # 0
        THEN [rc |-> "INVALID_ITEM_COUNT", s |-> s]
        ELSE [rc |-> "OK", s |-> [s EXCEPT !.elements[i] = IF is_collection_value THEN v
                                                           ELSE [kind |-> "buffer", bytes |-> Stored(v)]]]

Init ==
    /\ version \in Versions
    /\ collection \in Collections
    /\ \E kind \in Kinds, key \in PartitionKeys, values \in Started :
          LET start == FoldLeft(LAMBDA r, i : IF r.rc = "OK" THEN set(r.s, i, values[i]) ELSE r,
                                [rc |-> "OK", s |-> NewStatement(kind, key)], [i \in DOMAIN values |-> i])
          IN  /\ start.rc = "OK"
              /\ statement = start.s
              /\ bound = [index |-> values, name |-> <<>>]
    /\ batch = NewBatch /\ handler = NewHandler
    /\ sent = Error("nothing") /\ collections = [executed |-> collection, written |-> collection]
    /\ failed = FALSE /\ sets = 0 /\ sends = 0
-----------------------------------------------------------------------------
(* The application *)

\* get_indices: the columns of a prepared statement with that name; the place
\* of the name among those a query has been given so far, or the next one.
\* One name more than there are parameters is accepted.
get_indices(s, name) ==
    IF s.kind = "EXECUTE" THEN [s |-> s, indices |-> ParametersNamed(name)]
    ELSE LET known == {i \in DOMAIN s.names : s.names[i] = name}
             full == Len(s.names) > Parameters
         IN  [s |-> [s EXCEPT !.has_names = TRUE,
                              !.names = IF known = {} /\ ~full THEN Append(@, name) ELSE @],
              indices |-> IF known # {} THEN known
                          ELSE IF full THEN {} ELSE {Len(s.names) + 1}]

Building == handler.state = "new" /\ sets < MaxSets /\ sets' = sets + 1

BindAt(i, v) ==
    LET r == set(statement, i, v)
    IN  /\ Building
        /\ statement' = r.s
        /\ bound' = IF r.rc = "OK" THEN [bound EXCEPT !.index = (i :> v) @@ @] ELSE bound
        /\ UNCHANGED <<version, batch, collection, handler, sent, collections, failed, sends>>

\* set(StringRef, value): every index of the name, up to the first error.
BindByName(name, v) ==
    LET found == get_indices(statement, name)
        done == FoldLeft(LAMBDA r, i : IF r.rc = "OK" THEN set(r.s, i, v) ELSE r,
                         [rc |-> IF found.indices = {} THEN "NAME_DOES_NOT_EXIST" ELSE "OK", s |-> found.s],
                         SetToSortSeq(found.indices, <))
    IN  /\ Building
        /\ statement' = done.s
        /\ failed' = (failed \/ done.rc # "OK")
        /\ bound' = [bound EXCEPT !.name = (name :> v) @@ @]
        /\ UNCHANGED <<version, batch, collection, handler, sent, collections, sends>>

\* The statement and the requests made of it see the same collection.
AppendToCollection(item) ==
    /\ Len(collection.items) < MaxItems[collection.type]
    /\ collection' = [collection EXCEPT !.items = Append(@, item)]
    /\ UNCHANGED <<version, statement, batch, handler, sent, collections, bound, failed, sets, sends>>

AddKeyIndex(i) ==
    /\ Building
    /\ statement' = IF statement.kind = "QUERY" /\ i <= Parameters
                    THEN [statement EXCEPT !.key_indices = Append(@, i)] ELSE statement
    /\ UNCHANGED <<version, batch, collection, handler, sent, collections, bound, failed, sends>>

SetPaging(size, state) ==
    /\ Building
    /\ statement' = [statement EXCEPT !.page_size = size, !.paging_state = state]
    /\ UNCHANGED <<version, batch, collection, handler, sent, collections, bound, failed, sends>>

SetCustomPayload(items) ==
    /\ Building
    /\ statement' = [statement EXCEPT !.payload = items]
    /\ UNCHANGED <<version, batch, collection, handler, sent, collections, bound, failed, sends>>

SetOptions(cl, serial, timestamp) ==
    /\ Building
    /\ statement' = [statement EXCEPT !.options = [cl |-> cl, serial |-> serial, timestamp |-> timestamp]]
    /\ UNCHANGED <<version, batch, collection, handler, sent, collections, bound, failed, sends>>

SetBatchOptions(cl, serial, timestamp) ==
    /\ Building
    /\ batch' = [batch EXCEPT !.options = [cl |-> cl, serial |-> serial, timestamp |-> timestamp]]
    /\ UNCHANGED <<version, statement, collection, handler, sent, collections, bound, failed, sends>>

AddStatement ==
    /\ Building
    /\ batch' = [batch EXCEPT !.statements = @ + 1,
                              !.prepared = IF statement.kind = "EXECUTE" THEN {"id"} ELSE @]
    /\ UNCHANGED <<version, statement, collection, handler, sent, collections, bound, failed, sends>>
-----------------------------------------------------------------------------
(* Elements *)

\* What a collection is, encoded for a version.
EncodedAs(c, v) == Parameter(v, [kind |-> c.type, items |-> c.items])
Encoded(v) == EncodedAs(collection, v)

\* A collection in the cache has the encoding it was cached with; an element
\* that is unset has an empty buffer (an assertion, when they are compiled in).
get_buffer_cached(v, element, cache) ==
    IF element = Unset THEN <<>>
    ELSE IF element # Collection THEN element.bytes
    ELSE IF cache # <<>> THEN cache ELSE Encoded(v)

is_null(element) == element.kind = "buffer" /\ element.bytes = encode_int32(-1)

\* get_routing_key fails on a key that is unset or null; the collections it
\* has encoded by then are in the cache only if there is one key, or none fails.
RoutingElements(s) == {s.elements[s.key_indices[k]] : k \in DOMAIN s.key_indices}
HasRoutingKey(s) == s.key_indices # <<>> /\ \A e \in RoutingElements(s) : e # Unset /\ ~is_null(e)
RoutingKeyCache(s) ==
    IF HasRoutingKey(s) /\ Collection \in RoutingElements(s) THEN Encoded(Highest) ELSE <<>>

get_routing_key(s) ==
    LET part(k) == LET buf == get_buffer_cached(Highest, s.elements[s.key_indices[k]], RoutingKeyCache(s))
                   IN  SubSeq(buf, Int32 + 1, Len(buf))
    IN  IF Len(s.key_indices) = 1 THEN part(1)
        ELSE FlattenSeq([k \in DOMAIN s.key_indices |-> encode_uint16(Len(part(k))) \o part(k) \o <<0>>])

-----------------------------------------------------------------------------
(* Messages *)

\* The fields of the protocol.
Byte(v) == [type |-> "byte", width |-> 1, v |-> v]
Short(v) == [type |-> "short", width |-> 2, v |-> v]
Int32Field(v) == [type |-> "int", width |-> 4, v |-> v]
Long(v) == [type |-> "long", width |-> 8, v |-> v]
String(v) == [type |-> "string", width |-> 2 + 1, v |-> v]
LongString(v) == [type |-> "long string", width |-> 4 + 1, v |-> v]
Bytes(v) == [type |-> "bytes", width |-> 4 + 1, v |-> v]
RawValue(bytes) == [type |-> "value", width |-> Len(bytes), v |-> bytes]

Width(fields) == FoldLeft(LAMBDA n, f : n + f.width, 0, fields)

\* An error of encode, the fields of the buffers, or a Buffer that was overrun.
Fields(f) == [error |-> "none", fields |-> f]
Overran == Error("overrun")
Filled(size, fields) == IF Width(fields) = size THEN Fields(fields) ELSE Overran
Then(a, b) == IF a.error # "none" THEN a ELSE IF b.error # "none" THEN b ELSE Fields(a.fields \o b.fields)

\* Statement::copy_buffers: what is unset has a form of its own from version 4 on.
copy_buffers(v, s, h) ==
    IF v < 4 /\ \E i \in DOMAIN s.elements : s.elements[i] = Unset THEN Error("PARAMETER_UNSET")
    ELSE Fields([i \in DOMAIN s.elements |->
            RawValue(IF s.elements[i] = Unset THEN encode_int32(-2)
                     ELSE get_buffer_cached(v, s.elements[i], h.cache))])

copy_buffers_with_names(v, s, h) ==
    Fields(FlattenSeq([i \in DOMAIN s.names |->
        <<String(s.names[i]),
          RawValue(IF i > Parameters THEN Overrun ELSE get_buffer_cached(v, s.elements[i], h.cache))>>]))

\* The flags a request is sent with, and the fields they announce.
Flags(s, v, h, paged) ==
    {f \in {"VALUES", "SKIP_METADATA", "PAGE_SIZE", "PAGING_STATE", "SERIAL", "TIMESTAMP", "NAMES"} :
        CASE f = "VALUES" -> Parameters > 0
          [] f = "SKIP_METADATA" -> s.skip_metadata
          [] f = "PAGE_SIZE" -> paged
          [] f = "PAGING_STATE" -> s.paging_state # ""
          [] f = "SERIAL" -> s.options.serial # "ANY"
          [] f = "TIMESTAMP" -> v >= 3 /\ h.timestamp # NoTimestamp
          [] f = "NAMES" -> s.has_names}

PagingSize(flags) ==
    (IF "PAGE_SIZE" \in flags THEN 4 ELSE 0) + (IF "PAGING_STATE" \in flags THEN 4 + 1 ELSE 0)
      + (IF "SERIAL" \in flags THEN 2 ELSE 0) + (IF "TIMESTAMP" \in flags THEN 8 ELSE 0)

\* Faulty: writes the timestamp before the serial consistency.
PagingFieldsSwapped(s, v, h) ==
    (IF s.page_size >= 0 THEN <<Int32Field(s.page_size)>> ELSE <<>>)
      \o (IF s.paging_state # "" THEN <<Bytes(s.paging_state)>> ELSE <<>>)
      \o (IF v >= 3 /\ h.timestamp # NoTimestamp THEN <<Long(h.timestamp)>> ELSE <<>>)
      \o (IF s.options.serial # "ANY" THEN <<Short(s.options.serial)>> ELSE <<>>)

\* The page size is written unless it is negative, whatever the flags say.
PagingFields(s, v, h) ==
    (IF s.page_size >= 0 THEN <<Int32Field(s.page_size)>> ELSE <<>>)
      \o (IF s.paging_state # "" THEN <<Bytes(s.paging_state)>> ELSE <<>>)
      \o (IF s.options.serial # "ANY" THEN <<Short(s.options.serial)>> ELSE <<>>)
      \o (IF v >= 3 /\ h.timestamp # NoTimestamp THEN <<Long(h.timestamp)>> ELSE <<>>)

Paging(s, v, h, flags) ==
    IF PagingSize(flags) = 0 THEN Fields(<<>>) ELSE Filled(PagingSize(flags), PagingFields(s, v, h))

consistency(h, options) == IF h.cl # "UNKNOWN" THEN h.cl ELSE options.cl

\* The number of values and the values.
QueryValues(s, v, h) ==
    IF s.has_names
    THEN IF v < 3 THEN Error("UNSUPPORTED_PROTOCOL")
         ELSE Then(Fields(<<Short(Len(s.names))>>), copy_buffers_with_names(v, s, h))
    ELSE Then(Fields(<<Short(Parameters)>>), copy_buffers(v, s, h))

QueryEncodeV1(s, h) ==
    Filled(4 + 1 + 2, <<LongString("query"), Short(consistency(h, s.options))>>)

QueryEncode(s, v, h) ==
    LET flags == Flags(s, v, h, s.page_size > 0)
        head == Filled(4 + 1 + 2 + 1,
                       <<LongString("query"), Short(consistency(h, s.options)), Byte(flags)>>)
        values == IF Parameters > 0 \/ s.has_names THEN QueryValues(s, v, h) ELSE Fields(<<>>)
    IN  Then(Then(head, values), Paging(s, v, h, flags))

ExecuteEncodeV1(s, h) ==
    Then(Then(Filled(2 + 1 + 2, <<String("id"), Short(Parameters)>>), copy_buffers(1, s, h)),
         Filled(2, <<Short(consistency(h, s.options))>>))

ExecuteEncode(s, v, h) ==
    LET flags == Flags(s, v, h, s.page_size >= 0)
        head == Filled(2 + 1 + 2 + 1, <<String("id"), Short(consistency(h, s.options)), Byte(flags)>>)
        values == IF Parameters > 0 THEN Then(Fields(<<Short(Parameters)>>), copy_buffers(v, s, h))
                  ELSE Fields(<<>>)
    IN  Then(Then(head, values), Paging(s, v, h, flags))

QueryEncodeBatch(s, v, h) ==
    Then(Filled(1 + 4 + 1, <<Byte("QUERY"), LongString("query")>>), QueryValues(s, v, h))
ExecuteEncodeBatch(s, v, h) ==
    Then(Filled(1 + 2 + 1 + 2, <<Byte("PREPARED"), String("id"), Short(Parameters)>>), copy_buffers(v, s, h))

\* The consistency of a batch is its own, not the one a retry policy gave.
BatchChild(s, v, h) ==
    IF s.has_names THEN Error("BATCH_WITH_NAMED_VALUES")
    ELSE IF s.kind = "QUERY" THEN QueryEncodeBatch(s, v, h) ELSE ExecuteEncodeBatch(s, v, h)

BatchFlags(b, h) ==
    (IF b.options.serial # "ANY" THEN {"SERIAL"} ELSE {})
      \cup (IF h.timestamp # NoTimestamp THEN {"TIMESTAMP"} ELSE {})

BatchOptions(b, v, h, flags) ==
    IF v < 3 THEN Filled(2, <<Short(b.options.cl)>>)
    ELSE Filled(2 + 1 + PagingSize(flags),
                <<Short(b.options.cl), Byte(flags)>>
                  \o (IF "SERIAL" \in flags THEN <<Short(b.options.serial)>> ELSE <<>>)
                  \o (IF "TIMESTAMP" \in flags THEN <<Long(h.timestamp)>> ELSE <<>>))

BatchEncode(b, s, v, h) ==
    IF v = 1 THEN Error("UNSUPPORTED_PROTOCOL")
    ELSE Then(FoldLeft(Then, Filled(1 + 2, <<Byte("LOGGED"), Short(b.statements)>>),
                       [n \in 1..b.statements |-> BatchChild(s, v, h)]),
              BatchOptions(b, v, h, BatchFlags(b, h)))

\* CustomPayload::encode.
PayloadEncode(items) ==
    Fields(<<Short(Cardinality(items))>>
             \o FlattenSeq([i \in 1..Cardinality(items) |-> <<String(SetToSeq(items)[i]), Bytes("v")>>]))

\* Handler::encode: the header has the length of all that follows it.
RequestEncode(v, h) ==
    IF handler.state = "batch" THEN BatchEncode(batch, statement, v, h)
    ELSE IF statement.kind = "QUERY"
    THEN IF v = 1 THEN QueryEncodeV1(statement, h) ELSE QueryEncode(statement, v, h)
    ELSE IF v = 1 THEN ExecuteEncodeV1(statement, h) ELSE ExecuteEncode(statement, v, h)

Framed(v, flags, body) ==
    IF body.error # "none" THEN body
    ELSE [error |-> "none", version |-> v, flags |-> flags,
          opcode |-> IF handler.state = "batch" THEN "BATCH" ELSE statement.kind,
          length |-> Width(body.fields), fields |-> body.fields]

Encode(v, h) ==
    LET payload == v >= 4 /\ handler.state = "single" /\ statement.payload # {}
    IN  Framed(v, IF payload THEN {"CUSTOM_PAYLOAD"} ELSE {},
               Then(IF payload THEN PayloadEncode(statement.payload) ELSE Fields(<<>>), RequestEncode(v, h)))
-----------------------------------------------------------------------------
(* Executing *)

\* Session::execute and on_execute: the query plan asks for the routing key,
\* and a request without a timestamp gets the generator's.
Execute(as, generated) ==
    /\ handler.state = "new"
    /\ as = "batch" => batch.statements > 0
    /\ LET timestamp == IF as = "batch" THEN batch.options.timestamp ELSE statement.options.timestamp
       IN  handler' = [state |-> as, cl |-> "UNKNOWN", cache |-> RoutingKeyCache(statement),
                       key |-> IF HasRoutingKey(statement) THEN get_routing_key(statement) ELSE <<>>,
                       timestamp |-> IF timestamp = NoTimestamp THEN generated ELSE timestamp]
    /\ collections' = [collections EXCEPT !.executed = collection]
    /\ UNCHANGED <<version, statement, batch, collection, sent, bound, failed, sets, sends>>

\* Connection::internal_write: an error of encode is the request's result,
\* and nothing is written again after it.
Write ==
    /\ handler.state \in {"single", "batch"} /\ sends < MaxSends
    /\ sent.error \in {"nothing", "none"}
    /\ sent' = Encode(version, handler)
    /\ sends' = sends + 1
    /\ collections' = [collections EXCEPT !.written = collection]
    /\ UNCHANGED <<version, statement, batch, collection, handler, bound, failed, sets>>

\* A retry policy's decision to write again at another consistency.
Downgrade ==
    /\ sends > 0 /\ sends < MaxSends /\ sent.error = "none"
    /\ handler.cl = "UNKNOWN"
    /\ handler' = [handler EXCEPT !.cl = "ONE"]
    /\ UNCHANGED <<version, statement, batch, collection, sent, collections, bound, failed, sets, sends>>

Next ==
    \/ \E i \in 1..Parameters + 1, v \in Inputs \cup {Collection} : BindAt(i, v)
    \/ \E name \in {"a", "b", "c"}, v \in Inputs \cup {Collection} : BindByName(name, v)
    \/ \E item \in Items : AppendToCollection(item)
    \/ \E i \in 1..Parameters + 1 : AddKeyIndex(i)
    \/ \E page \in {<<0, "p">>, <<1, "">>, <<1, "p">>} : SetPaging(page[1], page[2])
    \/ SetCustomPayload({"p1", "p2"})
    \/ \E o \in {<<"SERIAL", NoTimestamp>>, <<"ANY", "t1">>, <<"SERIAL", "t1">>} :
          SetOptions("QUORUM", o[1], o[2]) \/ SetBatchOptions("QUORUM", o[1], o[2])
    \/ AddStatement
    \/ \E as \in {"single", "batch"}, generated \in {NoTimestamp, "t2"} : Execute(as, generated)
    \/ Write
    \/ Downgrade

Spec == Init /\ [][Next]_vars
-----------------------------------------------------------------------------
(* What the server reads (external) *)

\* The fields that flags announce, in the protocol's order.
Announced(flags) ==
    LET order == <<[flag |-> "PAGE_SIZE", type |-> "int"], [flag |-> "PAGING_STATE", type |-> "bytes"],
                   [flag |-> "SERIAL", type |-> "short"], [flag |-> "TIMESTAMP", type |-> "long"]>>
    IN  SelectSeq(order, LAMBDA f : f.flag \in flags)

\* An option's value, or nothing; Malformed if the tail is not what flags announce.
Malformed == <<"malformed", "request">>
Option(flags, tail, flag) ==
    LET fields == Announced(flags)
        at == {i \in DOMAIN fields : fields[i].flag = flag}
    IN  IF [i \in DOMAIN tail |-> tail[i].type] # [i \in DOMAIN fields |-> fields[i].type] THEN Malformed
        ELSE IF at = {} THEN <<>> ELSE <<tail[CHOOSE i \in at : TRUE].v>>

\* The values that start at a position, with their names if there are any.
ReadValues(fields, pos, named) ==
    LET n == fields[pos].v
        width == IF named THEN 2 ELSE 1
        value(i) == fields[pos + width * i]
    IN  [values |-> IF named THEN [name \in {fields[pos + 2 * i - 1].v : i \in 1..n} |->
                                     (CHOOSE i \in 1..n : fields[pos + 2 * i - 1].v = name)]
                    ELSE [i \in 1..n |-> value(i).v],
         bytes |-> [i \in 1..n |-> value(i).v],
         next |-> pos + width * n + 1]

\* The message after the payload that the flags of its header announce.
AfterPayload(m) ==
    IF "CUSTOM_PAYLOAD" \in m.flags
    THEN [m EXCEPT !.fields = SubSeq(@, 2 + 2 * m.fields[1].v, Len(@))] ELSE m

ReadRequest(m) ==
    LET flags == m.fields[3].v
        plain == m.version = 1
        values == IF m.opcode = "EXECUTE" /\ plain THEN ReadValues(m.fields, 2, FALSE)
                  ELSE IF plain \/ "VALUES" \notin flags THEN [bytes |-> <<>>, values |-> <<>>, next |-> 4]
                  ELSE ReadValues(m.fields, 4, "NAMES" \in flags)
        tail == SubSeq(m.fields, values.next, Len(m.fields))
    IN  [values |-> values.bytes, names |-> IF plain \/ "NAMES" \notin flags THEN <<>> ELSE values.values,
         cl |-> IF m.opcode = "EXECUTE" /\ plain THEN m.fields[values.next].v ELSE m.fields[2].v,
         page_size |-> IF plain THEN <<>> ELSE Option(flags, tail, "PAGE_SIZE"),
         paging_state |-> IF plain THEN <<>> ELSE Option(flags, tail, "PAGING_STATE"),
         serial |-> IF plain THEN <<>> ELSE Option(flags, tail, "SERIAL"),
         timestamp |-> IF plain THEN <<>> ELSE Option(flags, tail, "TIMESTAMP")]
-----------------------------------------------------------------------------
(* Properties *)

\* A collection is sent as it is when the request is written, that is with
\* what was appended after the request was executed or since its first write;
\* one that the request is routed by is sent as it was when it was executed.
CollectionSent ==
    IF HasRoutingKey(statement) /\ Collection \in RoutingElements(statement) THEN collections.executed
    ELSE collections.written

\* What a value that was bound is on the wire.
OnWire(v) == IF v = Collection THEN EncodedAs(CollectionSent, version) ELSE Stored(v)
Given(i) == IF i \in DOMAIN bound.index THEN OnWire(bound.index[i]) ELSE encode_int32(-2)
GivenByName(name) == OnWire(bound.name[name])
ColumnGiven(i) == IF Columns[i].name \in DOMAIN bound.name THEN GivenByName(Columns[i].name) ELSE Given(i)

Mixed == DOMAIN bound.index # {} /\ DOMAIN bound.name # {}
OptionOr(v, none) == IF v = none THEN <<>> ELSE <<v>>

\* Requests the properties below leave aside, each for a reason in the code:
\* a page size of 0 overruns the buffer of a query (> 0 against >= 0), version
\* 1 cannot carry the values of a query, and up to version 2 a collection that
\* is part of the routing key is sent as it was cached, in another version's format.
Sendable ==
    /\ ~failed /\ ~Mixed
    /\ statement.kind = "QUERY" => statement.page_size # 0 /\ version >= 2
    /\ version >= 3 \/ Collection \notin RoutingElements(statement)

\* The partition key as the server hashes it, of the values it has read (external).
ServerKey(values) ==
    LET part(k) == LET v == values[statement.key_indices[k]] IN SubSeq(v, Int32 + 1, Len(v))
    IN  IF Len(statement.key_indices) = 1 THEN part(1)
        ELSE FlattenSeq([k \in DOMAIN statement.key_indices |->
                            Digits(Len(part(k)), UInt16) \o part(k) \o <<0>>])

RoutedBy(values) == HasRoutingKey(statement) => handler.key = ServerKey(values)

\* What the server reads of a statement is what the application bound and set,
\* at any version and for each of the writes: every value at its index or
\* under its name, the collection as CollectionSent says, each option at the
\* place the flags announce, the consistency the policy chose last, and a length
\* that covers the message.  The request was routed, before it was written, by
\* the key the server hashes, whatever has been appended to the collection since.
StatementAsBound ==
    sends > 0 /\ Sendable /\ handler.state = "single" /\ sent.error # "PARAMETER_UNSET"
      /\ ~(version < 3 /\ statement.has_names) =>
        LET read == ReadRequest(AfterPayload(sent))
            s == statement
        IN  /\ sent.error = "none" /\ sent.length = Width(sent.fields)
            /\ IF s.kind = "QUERY" /\ s.has_names
               THEN /\ DOMAIN read.names = DOMAIN bound.name
                    /\ \A name \in DOMAIN read.names : read.values[read.names[name]] = GivenByName(name)
               ELSE read.values = [i \in 1..Parameters |->
                                      IF s.kind = "EXECUTE" THEN ColumnGiven(i) ELSE Given(i)]
            /\ ~s.has_names => RoutedBy(read.values)
            /\ read.cl \in {s.options.cl, "ONE"} /\ (handler.cl = "UNKNOWN" => read.cl = s.options.cl)
            /\ version >= 2 =>
                  /\ read.page_size = OptionOr(s.page_size, -1)
                  /\ read.paging_state = OptionOr(s.paging_state, "")
                  /\ read.serial = OptionOr(s.options.serial, "ANY")
                  /\ read.timestamp = IF version < 3 THEN <<>>
                                      ELSE OptionOr(handler.timestamp, NoTimestamp)

\* A batch carries each statement as often as it was added, with its values,
\* and every field the flags at its end announce; it was routed by the key of
\* the statements in it.
BatchAsBuilt ==
    sends > 0 /\ Sendable /\ handler.state = "batch" /\ sent.error \in {"none", "overrun"} =>
        LET fields == sent.fields
            values == [i \in 1..Parameters |->
                          IF statement.kind = "EXECUTE" THEN ColumnGiven(i) ELSE Given(i)]
            size == 3 + Parameters       \* kind, text or id, count
            last == 2 + size * batch.statements
            tail == SubSeq(fields, last + 3, Len(fields))
        IN  /\ sent.error = "none" /\ fields[2].v = batch.statements
            /\ \A n \in 0..batch.statements - 1 : \A i \in 1..Parameters :
                  fields[2 + n * size + 3 + i].v = values[i]
            /\ fields[last + 1].v = batch.options.cl
            /\ RoutedBy(values)
            /\ version >= 3 =>
                  /\ Option(fields[last + 2].v, tail, "SERIAL") = OptionOr(batch.options.serial, "ANY")
                  /\ Option(fields[last + 2].v, tail, "TIMESTAMP") = OptionOr(handler.timestamp, NoTimestamp)
=============================================================================
