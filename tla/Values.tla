------------------------------- MODULE Values -------------------------------
(***************************************************************************)
(* Values on the wire: what the driver writes for the collections, tuples  *)
(* and user types an application builds (collection.cpp, tuple.cpp,        *)
(* abstract_data.cpp) and what it reads with Value and the iterators.      *)
(*                                                                         *)
(* Bytes are digits of base Base, and the widths of integers are numbers   *)
(* of digits, so that a small instance has integers that overflow.  A      *)
(* value is a tree: a leaf of bytes, null, a field that was never set, or  *)
(* a collection, tuple or user type with its items (keys and values of a   *)
(* map alternate).  The type of a leaf is "int" (one int32) or "text".     *)
(***************************************************************************)
EXTENDS DataTypes

CONSTANTS
    Base,       \* 256
    Int32,      \* sizeof(int32_t)
    UInt16,     \* sizeof(uint16_t)
    Highest     \* CASS_HIGHEST_SUPPORTED_PROTOCOL_VERSION

Null == [kind |-> "null"]
Unset == [kind |-> "unset"]
Leaf(type, bytes) == [kind |-> type, bytes |-> bytes]
Node(kind, items) == [kind |-> kind, items |-> items]
-----------------------------------------------------------------------------
\* Integers, the most significant byte first.
Digits(n, width) == [i \in 1..width |-> (n \div Base ^ (width - i)) % Base]
encode_uint16(n) == Digits(n, UInt16)
encode_int32(n) == Digits(n % (Base ^ Int32), Int32)

Number(buf, pos, width) == FoldLeft(LAMBDA n, d : n * Base + d, 0, SubSeq(buf, pos, pos + width - 1))
decode_uint16(buf, pos) == Number(buf, pos, UInt16)
decode_int32(buf, pos) ==
    LET n == Number(buf, pos, Int32)
    IN  IF n >= Base ^ Int32 \div 2 THEN n - Base ^ Int32 ELSE n

\* The width of the sizes in a collection.
SizeWidth(version) == IF version >= 3 THEN Int32 ELSE UInt16
decode_size(version, buf, pos) ==
    IF version >= 3 THEN decode_int32(buf, pos) ELSE decode_uint16(buf, pos)

\* A Buffer of the given size, once bytes are written to it.  A size that was
\* computed wrong overruns it or leaves bytes that nobody wrote.
Overrun == <<-1>>
Buffer(size, bytes) == IF Len(bytes) = size THEN bytes ELSE Overrun
SizedBuffer(size, bytes) == Buffer(Int32 + size, encode_int32(size) \o bytes)

\* encode and encode_with_length of a leaf.
encode(bytes) == Buffer(Len(bytes), bytes)
encode_with_length(bytes) == SizedBuffer(Len(bytes), bytes)
-----------------------------------------------------------------------------
\* Collection: the items are buffers.
get_count(kind, items) == IF kind = "map" THEN Len(items) \div 2 ELSE Len(items)

\* Faulty: counts four bytes for each size, at every version.
ItemsSizeInt32(items, width) == FoldLeft(LAMBDA n, i : n + Int32 + Len(i), 0, items)

get_items_size(items, width) == FoldLeft(LAMBDA n, i : n + width + Len(i), 0, items)

encode_items(version, items) ==
    FlattenSeq([i \in DOMAIN items |->
        (IF version >= 3 THEN encode_int32(Len(items[i])) ELSE encode_uint16(Len(items[i]))) \o items[i]])

\* encode(): inner types have the sizes of version 3 whatever the connection's is.
CollectionEncode(kind, items) ==
    Buffer(Int32 + get_items_size(items, Int32),
           encode_int32(get_count(kind, items)) \o encode_items(3, items))

CollectionEncodeWithLength(version, kind, items) ==
    SizedBuffer(SizeWidth(version) + get_items_size(items, SizeWidth(version)),
                (IF version >= 3 THEN encode_int32(get_count(kind, items))
                 ELSE encode_uint16(get_count(kind, items))) \o encode_items(version, items))

\* Tuple and AbstractData: an item that was not set is written as null.
get_buffers_size(items) ==
    FoldLeft(LAMBDA n, i : n + (IF i = <<>> THEN Int32 ELSE Len(i)), 0, items)

encode_buffers(items) ==
    FlattenSeq([i \in DOMAIN items |-> IF items[i] = <<>> THEN encode_int32(-1) ELSE items[i]])

FieldsEncode(items) == Buffer(get_buffers_size(items), encode_buffers(items))
FieldsEncodeWithLength(items) ==
    SizedBuffer(get_buffers_size(items), encode_buffers(items))

\* What append pushes and what set stores for a value.
RECURSIVE Appended(_), Stored(_)
Appended(v) ==
    CASE v.kind \in {"null", "unset"} -> <<>>
      [] v.kind \in {"list", "set", "map"} ->
            CollectionEncode(v.kind, [i \in DOMAIN v.items |-> Appended(v.items[i])])
      [] v.kind \in {"tuple", "udt"} -> FieldsEncode([i \in DOMAIN v.items |-> Stored(v.items[i])])
      [] OTHER -> encode(v.bytes)

Stored(v) ==
    CASE v.kind = "null" -> encode_int32(-1)
      [] v.kind = "unset" -> <<>>
      [] v.kind \in {"list", "set", "map"} ->
            CollectionEncodeWithLength(Highest, v.kind, [i \in DOMAIN v.items |-> Appended(v.items[i])])
      [] v.kind \in {"tuple", "udt"} ->
            FieldsEncodeWithLength([i \in DOMAIN v.items |-> Stored(v.items[i])])
      [] OTHER -> encode_with_length(v.bytes)

\* A statement's parameter: a collection is encoded for the version of the
\* connection, anything else when it is set.
Parameter(version, v) ==
    IF v.kind \in {"list", "set", "map"}
    THEN CollectionEncodeWithLength(version, v.kind, [i \in DOMAIN v.items |-> Appended(v.items[i])])
    ELSE Stored(v)

\* IsValidDataType, of a C value: a leaf of the type, a value whose own type
\* equals it, null for any.  An untyped collection or tuple takes anything.
RECURSIVE Typed(_, _)
Typed(type, v) ==
    CASE v.kind \in {"null", "unset"} -> TRUE
      [] v.kind \in {"list", "set", "map", "tuple", "udt"} ->
            v.kind = type.kind /\ \A i \in DOMAIN v.items :
                type.types # <<>> =>
                    Typed(type.types[IF v.kind = "map" THEN ((i - 1) % 2) + 1
                                     ELSE IF v.kind \in {"list", "set"} THEN 1 ELSE i], v.items[i])
      [] OTHER -> v.kind = type.kind

\* Collection::append and Tuple::set with their checks.  The check of a tuple
\* lets the index one past the last item through.
CollectionCheck(type, items, v) ==
    LET i == IF type.kind = "map" THEN (Len(items) % 2) + 1 ELSE 1
    IN  IF type.types # <<>> /\ ~Typed(type.types[i], v) THEN "INVALID_VALUE_TYPE" ELSE "OK"

append(type, items, v) ==
    LET rc == CollectionCheck(type, items, v)
    IN  [rc |-> rc, items |-> IF rc = "OK" THEN Append(items, v) ELSE items]

TupleCheck(type, items, index, v) ==
    IF index > Len(items) + 1 THEN "INDEX_OUT_OF_BOUNDS"
    ELSE IF index <= Len(type.types) /\ ~Typed(type.types[index], v) THEN "INVALID_VALUE_TYPE"
    ELSE "OK"

\* The item one past the last is outside of the vector.
TupleSet(type, items, index, v) ==
    LET rc == TupleCheck(type, items, index, v)
    IN  [rc |-> IF rc = "OK" /\ index > Len(items) THEN "overrun" ELSE rc,
         items |-> [i \in DOMAIN items |-> IF i = index /\ rc = "OK" THEN v ELSE items[i]]]

\* An application builds a collection or a tuple item by item.
BuildCollection(type, items) ==
    FoldLeft(LAMBDA built, v : append(type, built, v).items, <<>>, items)
BuildTuple(type, items) ==
    FoldLeft(LAMBDA built, i : TupleSet(type, built, i, items[i]).items,
             [i \in DOMAIN items |-> Unset], [i \in DOMAIN items |-> i])
-----------------------------------------------------------------------------
\* Value and its iterators: the value of the given size at position pos, as
\* an application sees it that goes through all its items.
\* CollectionIterator and MapIterator step over an item by its size.
RECURSIVE Read(_, _, _, _, _), ReadItems(_, _, _, _, _), ReadFields(_, _, _, _)
Read(version, type, buf, pos, size) ==
    LET count == decode_size(version, buf, pos)
        items == IF type.kind = "map" THEN 2 * count ELSE count
    IN  CASE size < 0 -> Null
          [] size >= 0 /\ is_collection(type) ->
                Node(type.kind, IF size = 0 THEN <<>>
                                ELSE ReadItems(version, type, buf, pos + SizeWidth(version), items))
          [] size >= 0 /\ type.kind \in {"tuple", "udt"} -> Node(type.kind, ReadFields(version, type.types, buf, pos))
          [] OTHER -> Leaf(type.kind, SubSeq(buf, pos, pos + size - 1))

ReadItems(version, type, buf, pos, left) ==
    LET size == decode_size(version, buf, pos)
        start == pos + SizeWidth(version)
        sub == type.types[IF type.kind = "map" /\ left % 2 = 1 THEN 2 ELSE 1]
    IN  IF left <= 0 \/ start > Len(buf) + 1 THEN <<>>
        ELSE <<Read(version, sub, buf, start, size)>>
                \o ReadItems(version, type, buf, start + size, left - 1)

\* TupleIterator and UserTypeFieldIterator: as many fields as the type has,
\* however many the value has.
ReadFields(version, types, buf, pos) ==
    LET size == decode_int32(buf, pos)
        next == pos + Int32 + (IF size > 0 THEN size ELSE 0)
    IN  IF types = <<>> THEN <<>>
        ELSE IF pos + Int32 > Len(buf) + 1 THEN <<[kind |-> "overrun"]>>
        ELSE <<Read(version, Head(types), buf, pos + Int32, size)>>
                \o ReadFields(version, Tail(types), buf, next)

\* The getters of cassandra.h: nothing is decoded of a null or of a value of
\* another type (strings and bytes are given for any).
GetValue(want, v) ==
    IF v = Null THEN "NULL_VALUE"
    ELSE IF want \notin {"text", v.kind} THEN "INVALID_VALUE_TYPE" ELSE "OK"
-----------------------------------------------------------------------------
\* The format of the native protocol (external): Inner is what stands between
\* sizes.  Nested values always have the sizes of version 3.
RECURSIVE Wire(_, _)
Sized(version, bytes) ==
    (IF version >= 3 THEN encode_int32(Len(bytes)) ELSE encode_uint16(Len(bytes))) \o bytes
Wire(version, v) ==
    CASE v.kind \in {"list", "set", "map"} ->
            (IF version >= 3 THEN encode_int32(get_count(v.kind, v.items))
             ELSE encode_uint16(get_count(v.kind, v.items)))
              \o FlattenSeq([i \in DOMAIN v.items |-> Sized(version, Wire(3, v.items[i]))])
      [] v.kind \in {"tuple", "udt"} ->
            FlattenSeq([i \in DOMAIN v.items |->
                IF v.items[i].kind \in {"null", "unset"} THEN encode_int32(-1)
                ELSE Sized(3, Wire(3, v.items[i]))])
      [] v.kind \in {"null", "unset"} -> <<>>
      [] OTHER -> v.bytes

\* What is read of a value: null for a field that was not set.
RECURSIVE Meant(_)
Meant(v) ==
    CASE v.kind \in {"null", "unset"} -> Null
      [] "items" \in DOMAIN v -> [v EXCEPT !.items = [i \in DOMAIN v.items |-> Meant(v.items[i])]]
      [] OTHER -> v

Nested(v) == "items" \in DOMAIN v /\ \E i \in DOMAIN v.items : "items" \in DOMAIN v.items[i]

\* Sizes up to version 2 have 16 bits, and are cut off.
Fits(version, v) ==
    version >= 3 \/ ("items" \in DOMAIN v =>
        /\ get_count(v.kind, v.items) < Base ^ UInt16
        /\ \A i \in DOMAIN v.items : Len(Wire(3, v.items[i])) < Base ^ UInt16)

\* Whatever an application builds, the server reads as it was built: each
\* buffer has the size that was computed for it, and the format is the
\* protocol's at any depth.  And what the driver wrote or the server sends,
\* the iterators give back; up to version 2 for values that are not nested
\* (Collection::encode and CollectionIterator::decode_value disagree about
\* nested ones).
ValuesSurvive(version, type, v) ==
    Fits(version, v) =>
        /\ is_collection(type) => BuildCollection(type, v.items) = v.items
        /\ type.kind = "tuple" => BuildTuple(type, v.items) = v.items
        /\ Parameter(version, v) =
              (IF v = Null THEN encode_int32(-1) ELSE Sized(3, Wire(version, v)))
        /\ version >= 3 \/ ~Nested(v) =>
              LET sent == Parameter(version, v)
              IN  Read(version, type, sent, 1 + Int32, decode_int32(sent, 1)) = Meant(v)
=============================================================================
