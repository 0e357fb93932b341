------------------------------ MODULE DataTypes ------------------------------
(***************************************************************************)
(* The data types of data_type.hpp and the two parsers that build them     *)
(* from the type strings of the schema tables (data_type_parser.cpp).      *)
(*                                                                         *)
(* A type string is a sequence of tokens: identifiers and the characters   *)
(* that separate them.  Blanks are no tokens.                              *)
(***************************************************************************)
EXTENDS Integers, Sequences, SequencesExt

CONSTANTS
    CqlNames,   \* native type -> its CQL name
    ClassNames, \* class name -> native type
    Hex         \* name -> identifier that spells it in hexadecimal

\* DataType and its subclasses.  Types without parameters have no sub-types;
\* a user type has named fields.
NIL == [kind |-> "nil"]
Native(t) == [kind |-> t, types |-> <<>>]
CustomType(class) == [kind |-> "custom", types |-> <<>>, class |-> class]
CollectionType(kind, types) == [kind |-> kind, types |-> types]
TupleType(types) == [kind |-> "tuple", types |-> types]
UserType(keyspace, name, fields) ==
    [kind |-> "udt", types |-> [i \in DOMAIN fields |-> fields[i].type],
     keyspace |-> keyspace, name |-> name, names |-> [i \in DOMAIN fields |-> fields[i].name]]

is_collection(t) == t.kind \in {"list", "set", "map"}
equals_both_not_empty(a, b) == a = "" \/ b = "" \/ a = b

\* equals(): "text" is an alias of "varchar"; the sub-types of collections and
\* tuples are compared only when both have some; names only when both are set.
RECURSIVE equals(_, _)
equals(a, b) ==
    LET sub == /\ Len(a.types) = Len(b.types)
               /\ \A i \in DOMAIN a.types : equals(a.types[i], b.types[i])
    IN  CASE a.kind \in {"text", "varchar"} -> b.kind \in {"text", "varchar"}
          [] a.kind = "custom" -> b.kind = "custom" /\ equals_both_not_empty(a.class, b.class)
          [] is_collection(a) \/ a.kind = "tuple" ->
                a.kind = b.kind /\ (a.types = <<>> \/ b.types = <<>> \/ sub)
          [] a.kind = "udt" ->
                /\ b.kind = "udt"
                /\ equals_both_not_empty(a.keyspace, b.keyspace)
                /\ equals_both_not_empty(a.name, b.name)
                /\ sub /\ a.names = b.names
          [] OTHER -> a.kind = b.kind

\* cass_data_type_add_sub_type: a list or a set takes one sub-type, a map two,
\* a tuple any number.
add_sub_type(t, sub) ==
    LET room == CASE t.kind \in {"list", "set"} -> Len(t.types) < 1
                  [] t.kind = "map" -> Len(t.types) < 2
                  [] OTHER -> TRUE
    IN  IF ~is_collection(t) /\ t.kind # "tuple" THEN [rc |-> "INVALID_VALUE_TYPE", type |-> t]
        ELSE IF ~room THEN [rc |-> "BAD_PARAMS", type |-> t]
        ELSE [rc |-> "OK", type |-> [t EXCEPT !.types = Append(@, sub)]]

\* IsValidDataType: the value types a setter for C type c is allowed for.
IsValidDataType(c) ==
    CASE c = "int8" -> {"tinyint"}
      [] c = "int16" -> {"smallint"}
      [] c = "int32" -> {"int"}
      [] c = "uint32" -> {"date"}
      [] c = "int64" -> {"bigint", "counter", "timestamp", "time"}
      [] c = "float" -> {"float"}
      [] c = "double" -> {"double"}
      [] c = "bool" -> {"boolean"}
      [] c = "string" -> {"ascii", "text", "varchar"}
      [] c = "bytes" -> {"blob", "varint", "custom"}
      [] c = "uuid" -> {"timeuuid", "uuid"}
      [] c = "inet" -> {"inet"}
      [] c = "decimal" -> {"decimal"}

by_class_name(name) == IF name \in DOMAIN ClassNames THEN Native(ClassNames[name]) ELSE NIL
by_cql_name(name) ==
    IF \E t \in DOMAIN CqlNames : CqlNames[t] = name
    THEN Native(CHOOSE t \in DOMAIN CqlNames : CqlNames[t] = name) ELSE NIL
-----------------------------------------------------------------------------
\* ParserBase: a parser is a token sequence and a position in it.
is_eos(s, i) == i > Len(s)
is_identifier(token) == token \notin {"(", ")", "<", ">", ",", ":"}

\* skip_blank_and_comma: at most one comma.
skip_blank_and_comma(s, i) == IF ~is_eos(s, i) /\ s[i] = "," THEN i + 1 ELSE i

read_next_identifier(s, i) ==
    IF ~is_eos(s, i) /\ is_identifier(s[i]) THEN [name |-> s[i], index |-> i + 1]
    ELSE [name |-> "", index |-> i]

\* The position of the bracket that closes the one at i, 0 when there is none.
Closing(s, i, open, close) ==
    LET Depth(j) == Len(SelectSeq(SubSeq(s, i, j), LAMBDA t : t = open))
                      - Len(SelectSeq(SubSeq(s, i, j), LAMBDA t : t = close))
        ends == {j \in i..Len(s) : Depth(j) = 0}
    IN  IF ends = {} THEN 0 ELSE CHOOSE j \in ends : \A k \in ends : j <= k

Failed == [ok |-> FALSE]

\* read_raw_arguments of the class name parser.  The substring is taken with
\* the position after the closing bracket as its LENGTH: it runs on past the
\* bracket, by as many tokens as stand before the arguments.
read_raw_arguments(s, i) ==
    LET close == Closing(s, i, "(", ")")
    IN  IF is_eos(s, i) \/ s[i] \in {")", ","} THEN [ok |-> TRUE, text |-> <<>>, index |-> i]
        ELSE IF s[i] # "(" \/ close = 0 THEN Failed
        ELSE [ok |-> TRUE, index |-> close + 1,
              text |-> SubSeq(s, i, IF i + close - 1 < Len(s) THEN i + close - 1 ELSE Len(s))]

\* read_one: a name and its arguments.
read_one(s, i) ==
    LET name == read_next_identifier(s, i)
        args == read_raw_arguments(s, name.index)
    IN  IF ~args.ok THEN Failed
        ELSE [ok |-> TRUE, index |-> args.index,
              text |-> (IF name.name = "" THEN <<>> ELSE <<name.name>>) \o args.text]

\* The loop of get_type_params from position i on.
RECURSIVE TypeParams(_, _, _)
TypeParams(s, i, params) ==
    LET at == skip_blank_and_comma(s, i)
        one == read_one(s, at)
    IN  IF is_eos(s, at) THEN Failed
        ELSE IF s[at] = ")" THEN [ok |-> TRUE, params |-> params, index |-> at + 1]
        ELSE IF ~one.ok THEN Failed
        ELSE TypeParams(s, one.index, Append(params, one.text))

get_type_params(s, i) ==
    IF is_eos(s, i) THEN [ok |-> TRUE, params |-> <<>>, index |-> i]
    ELSE IF s[i] # "(" THEN Failed
    ELSE TypeParams(s, i + 1, <<>>)

from_hex(token) ==
    IF \E n \in DOMAIN Hex : Hex[n] = token THEN CHOOSE n \in DOMAIN Hex : Hex[n] = token ELSE ""

\* get_name_and_type_params: "hex name : type" up to the closing bracket.
RECURSIVE NameAndTypeParams(_, _, _)
NameAndTypeParams(s, i, params) ==
    LET at == skip_blank_and_comma(s, i)
        hex == read_next_identifier(s, at)
        one == read_one(s, hex.index + 1)
    IN  IF is_eos(s, at) THEN Failed
        ELSE IF s[at] = ")" THEN [ok |-> TRUE, params |-> params]
        ELSE IF from_hex(hex.name) = "" \/ is_eos(s, hex.index) THEN Failed
        ELSE IF s[hex.index] # ":" \/ ~one.ok THEN Failed
        ELSE NameAndTypeParams(s, one.index,
                               Append(params, [name |-> from_hex(hex.name), text |-> one.text]))

get_collection_params(s, i) ==
    IF is_eos(s, i) THEN [ok |-> TRUE, params |-> <<>>]
    ELSE IF s[i] # "(" THEN Failed
    ELSE NameAndTypeParams(s, i + 1, <<>>)

starts_with(s, name) == s # <<>> /\ s[1] = name

\* get_nested_class_name: the one parameter of a reversed or frozen type.
get_nested_class_name(s) ==
    LET params == get_type_params(s, read_next_identifier(s, 1).index)
    IN  IF params.ok /\ Len(params.params) = 1 THEN [ok |-> TRUE, text |-> params.params[1]]
        ELSE Failed

RECURSIVE parse_one(_)
ParseAll(texts) == [i \in DOMAIN texts |-> parse_one(texts[i])]
HasNil(types) == \E i \in DOMAIN types : types[i] = NIL
OrNil(types, type) == IF HasNil(types) THEN NIL ELSE type

ParseCollection(kind, params, types) ==
    IF ~params.ok THEN NIL
    ELSE IF Len(params.params) < (IF kind = "map" THEN 2 ELSE 1) THEN NIL
    ELSE OrNil(types, CollectionType(kind, types))

ParseTuple(params, types) ==
    IF ~params.ok THEN NIL ELSE OrNil(types, TupleType(types))

\* A user type: its keyspace, its name in hexadecimal, its fields.
UserTypeOf(keyspace, name, names, types) ==
    OrNil(types, UserType(keyspace, name, [i \in DOMAIN types |-> [name |-> names[i], type |-> types[i]]]))
ParseFields(keyspace, name, fields) ==
    IF from_hex(name) = "" \/ ~fields.ok THEN NIL
    ELSE UserTypeOf(keyspace, from_hex(name), [i \in DOMAIN fields.params |-> fields.params[i].name],
                    ParseAll([i \in DOMAIN fields.params |-> fields.params[i].text]))
ParseName(class, keyspace, name) ==
    IF ~name.ok \/ name.text = <<>> THEN NIL
    ELSE ParseFields(keyspace, name.text[1],
                     NameAndTypeParams(class, skip_blank_and_comma(class, name.index), <<>>))
ParseUserType(class, keyspace) ==
    IF ~keyspace.ok \/ keyspace.text = <<>> THEN NIL
    ELSE ParseName(class, keyspace.text[1], read_one(class, skip_blank_and_comma(class, keyspace.index)))

\* The collection classes, and how many parameters are read.
CollectionClass == [ListType |-> "list", SetType |-> "set", MapType |-> "map"]
Used(kind, params) == SubSeq(params, 1, IF kind = "map" THEN 2 ELSE 1)

ParseParams(name, params) ==
    IF name \in DOMAIN CollectionClass
    THEN ParseCollection(CollectionClass[name], params, ParseAll(Used(CollectionClass[name], params.params)))
    ELSE ParseTuple(params, ParseAll(params.params))

\* A class in s, which is s itself or what is wrapped in it.
ParseClass(s, class, next) ==
    IF next.name = "UserType" THEN ParseUserType(class, read_one(class, next.index + 1))
    ELSE IF next.name \in DOMAIN CollectionClass \/ starts_with(s, "TupleType") \* s, not the class in it
    THEN ParseParams(next.name, get_type_params(class, next.index))
    ELSE IF by_class_name(next.name) # NIL THEN by_class_name(next.name)
    ELSE CustomType(next.name)

ParseNested(s, nested) ==
    IF nested.ok THEN ParseClass(s, nested.text, read_next_identifier(nested.text, 1)) ELSE NIL

\* DataTypeClassNameParser::parse_one.
parse_one(s) ==
    IF starts_with(s, "ReversedType") \/ starts_with(s, "FrozenType")
    THEN ParseNested(s, get_nested_class_name(s))
    ELSE ParseClass(s, s, read_next_identifier(s, 1))

Plain(name, type) ==
    IF type = NIL THEN Failed
    ELSE [ok |-> TRUE, composite |-> FALSE, types |-> <<type>>, reversed |-> <<name = "ReversedType">>,
          collections |-> {}]
Composite(params, types, collections, collection_types) ==
    IF HasNil(types) \/ HasNil(collection_types) THEN Failed
    ELSE [ok |-> TRUE, composite |-> TRUE, types |-> types,
          reversed |-> [i \in DOMAIN types |-> starts_with(params[i], "ReversedType")],
          collections |-> {[name |-> collections[i].name, type |-> collection_types[i]] : i \in DOMAIN collections}]
ParseCollections(params, collections) ==
    IF ~collections.ok THEN Failed
    ELSE Composite(params, ParseAll(params), collections.params,
                   ParseAll([i \in DOMAIN collections.params |-> collections.params[i].text]))
ParseComposite(params) ==
    IF ~params.ok THEN Failed
    ELSE IF params.params = <<>> THEN Failed
    ELSE IF starts_with(Last(params.params), "ColumnToCollectionType")
    THEN ParseCollections(Front(params.params), get_collection_params(Last(params.params), 2))
    ELSE ParseCollections(params.params, [ok |-> TRUE, params |-> <<>>])

\* parse_with_composite: the key types of a table and their order.
parse_with_composite(s) ==
    LET next == read_next_identifier(s, 1)
    IN  IF next.name = "CompositeType" THEN ParseComposite(get_type_params(s, next.index))
        ELSE Plain(next.name, parse_one(s))
-----------------------------------------------------------------------------
\* The parameters between angle brackets: parse_type_parameters and
\* read_raw_type_parameters of the CQL name parser.
RECURSIVE CqlParams(_, _, _)
CqlParams(s, i, params) ==
    LET at == skip_blank_and_comma(s, i)
        name == read_next_identifier(s, at)
        close == Closing(s, name.index, "<", ">")
        bare == is_eos(s, name.index) \/ s[name.index] \in {">", ","}
    IN  IF is_eos(s, at) \/ s[at] = ">" THEN params
        ELSE IF bare THEN CqlParams(s, name.index, Append(params, <<name.name>>))
        ELSE IF s[name.index] # "<" \/ close = 0 THEN params
        ELSE CqlParams(s, close + 1, Append(params, SubSeq(s, at, close)))

parse_type_parameters(s, i) ==
    IF is_eos(s, i) \/ s[i] # "<" THEN <<>> ELSE CqlParams(s, i + 1, <<>>)

\* DataTypeCqlNameParser::parse.  An unknown name is a user type of the
\* keyspace, created when it is not known yet.
RECURSIVE parse(_, _)
parse(s, keyspace) ==
    LET name == read_next_identifier(s, 1)
        params == parse_type_parameters(s, name.index)
        Sub == [i \in DOMAIN params |-> parse(params[i], keyspace)]
    IN  IF by_cql_name(name.name) # NIL THEN by_cql_name(name.name)
        ELSE IF name.name \in {"list", "set"}
        THEN IF Len(params) # 1 THEN NIL ELSE CollectionType(name.name, Sub)
        ELSE IF name.name = "map"
        THEN IF Len(params) # 2 THEN NIL ELSE CollectionType("map", Sub)
        ELSE IF name.name = "tuple"
        THEN IF params = <<>> THEN NIL ELSE TupleType(Sub)
        ELSE IF name.name = "frozen"
        THEN IF Len(params) # 1 THEN NIL ELSE Sub[1]
        ELSE IF name.name = "empty" THEN CustomType(name.name)
        ELSE IF name.name = "" THEN NIL
        ELSE keyspace[name.name]
-----------------------------------------------------------------------------
\* What the server writes (external): the class name and the CQL name of a
\* type, with each collection and reversed or frozen type in brackets.
Comma(seqs) ==
    LET Join(acc, s) == IF acc = <<>> THEN s ELSE acc \o <<",">> \o s
    IN  FoldLeft(Join, <<>>, seqs)

RECURSIVE ClassName(_)
ClassName(t) ==
    LET subs == [i \in DOMAIN t.types |-> ClassName(t.types[i])]
        named == [i \in DOMAIN t.types |-> <<Hex[t.names[i]], ":">> \o subs[i]]
        Class(name, args) == <<name, "(">> \o Comma(args) \o <<")">>
    IN  CASE t.kind = "list" -> Class("ListType", subs)
          [] t.kind = "set" -> Class("SetType", subs)
          [] t.kind = "map" -> Class("MapType", subs)
          [] t.kind = "tuple" -> Class("TupleType", subs)
          [] t.kind = "frozen" -> Class("FrozenType", subs)
          [] t.kind = "reversed" -> Class("ReversedType", subs)
          [] t.kind = "udt" -> Class("UserType", <<<<t.keyspace>>, <<Hex[t.name]>>>> \o named)
          [] OTHER -> <<CHOOSE c \in DOMAIN ClassNames : ClassNames[c] = t.kind>>

RECURSIVE CqlName(_)
CqlName(t) ==
    LET subs == [i \in DOMAIN t.types |-> CqlName(t.types[i])]
    IN  CASE t.kind \in {"list", "set", "map", "tuple", "frozen"} ->
                <<t.kind, "<">> \o Comma(subs) \o <<">">>
          [] t.kind = "udt" -> <<t.name>>
          [] OTHER -> <<CqlNames[t.kind]>>

\* The type a written type stands for.
RECURSIVE Meaning(_)
Meaning(t) ==
    IF t.kind \in {"frozen", "reversed"} THEN Meaning(t.types[1])
    ELSE [t EXCEPT !.types = [i \in DOMAIN t.types |-> Meaning(t.types[i])]]

\* A wrapped tuple or a wrapper in a wrapper, at any depth.  parse_one takes
\* off one wrapper, and looks for the tuple in the string it took it from: it
\* makes custom types of these two.
RECURSIVE MisreadClass(_)
MisreadClass(t) ==
    \/ /\ t.kind \in {"frozen", "reversed"}
       /\ t.types[1].kind \in {"tuple", "frozen", "reversed"}
    \/ \E i \in DOMAIN t.types : MisreadClass(t.types[i])

\* A table's column has the type that the server wrote, in either notation:
\* the arguments that run past their bracket (read_raw_arguments) change
\* nothing, at any depth of nesting.
TypesAsWritten(t, keyspace) ==
    /\ ~MisreadClass(t) => parse_one(ClassName(t)) = Meaning(t)
    /\ t.kind # "reversed" => parse(CqlName(t), keyspace) = Meaning(t)
    /\ ~MisreadClass(t) => \A collections \in {{}, {[name |-> "a", type |-> Meaning(t)]}} :
          parse_with_composite(
              <<"CompositeType", "(">> \o ClassName(t) \o <<",">> \o ClassName(t)
                \o (IF collections = {} THEN <<>>
                    ELSE <<",", "ColumnToCollectionType", "(", Hex["a"], ":">> \o ClassName(t) \o <<")">>)
                \o <<")">>)
            = [ok |-> TRUE, composite |-> TRUE, types |-> <<Meaning(t), Meaning(t)>>,
               reversed |-> <<t.kind = "reversed", t.kind = "reversed">>, collections |-> collections]
=============================================================================
