---------------------------- MODULE UserFunctions ----------------------------
(***************************************************************************)
(* The user-defined functions and aggregates of a keyspace in the driver's *)
(* metadata (FunctionMetadata, AggregateMetadata and the calls that look   *)
(* them up, in metadata.cpp).                                              *)
(*                                                                         *)
(* A function is kept under its full name, put together from its name and  *)
(* the types of its arguments.  It is put together at four places: from    *)
(* the row, from an event that drops it, from what an application asks for *)
(* and from an aggregate that uses it.  Text is a sequence of tokens.      *)
(***************************************************************************)
EXTENDS Integers, Sequences, FiniteSets, SequencesExt, TLC

CONSTANTS
    Cassandra,          \* major versions
    Declarable,         \* what may be declared: name, arguments, types, body
    Aggregates,         \* name, types, state, sfunc, ffunc, initcond
    MaxChanges          \* bound: statements that change the schema

VARIABLES
    cassandra,
    declared,           \* functions and aggregates of the cluster
    functions, aggregates,  \* those of KeyspaceMetadata, by their full names
    events,             \* that the control connection has not handled yet
    refreshing,         \* queries that were not answered yet
    whole,              \* nothing was changed since the whole schema was read
    changes

vars == <<cassandra, declared, functions, aggregates, events, refreshing, whole, changes>>

NULL == [name |-> "NULL"]
-----------------------------------------------------------------------------
(* Text *)

Joined(args) == FlattenSeq([i \in DOMAIN args |-> IF i = 1 THEN args[i] ELSE <<",">> \o args[i]])
Call(name, args) == <<name, "(">> \o Joined(SelectSeq(args, LAMBDA a : a # <<>>)) \o <<")">>
WithoutSpace(tokens) == SelectSeq(tokens, LAMBDA t : t # " ")

\* A type as a node writes it: map<int, text>.
Written(t) ==
    IF t.sub = <<>> THEN <<t.name>>
    ELSE <<t.name, "<">>
         \o FlattenSeq([i \in DOMAIN t.sub |-> IF i = 1 THEN <<t.sub[i]>> ELSE <<",", " ", t.sub[i]>>])
         \o <<">">>

\* DataType::to_string; nothing is put between the types within a type.
to_string(t) == IF t.sub = <<>> THEN <<t.name>> ELSE <<t.name, "<">> \o t.sub \o <<">">>

full_function_name(name, signature) == Call(name, [i \in DOMAIN signature |-> WithoutSpace(signature[i])])

\* append_arguments: what the application wrote, split at every comma.
append_arguments(name, tokens) ==
    LET Split(pieces, t) == IF t = "," THEN Append(pieces, <<>>) ELSE [pieces EXCEPT ![Len(pieces)] = Append(@, t)]
    IN  Call(name, FoldLeft(Split, <<<<>>>>, WithoutSpace(tokens)))
-----------------------------------------------------------------------------
(* The driver *)

Signature(row) == [i \in DOMAIN row.types |-> Written(row.types[i])]
FullName(row) == full_function_name(row.name, Signature(row))

\* FunctionMetadata, from a row.  Types are parsed as in DataTypes.
FunctionMetadata(row) ==
    [name |-> FullName(row), simple_name |-> row.name,
     args |-> [i \in DOMAIN row.arguments |-> <<row.arguments[i], row.types[i]>>],
     body |-> row.body]

\* args_by_name_: of arguments of one name, the last one.
get_arg_type(f, name) ==
    LET at == {i \in DOMAIN f.args : f.args[i][1] = name}
    IN  IF at = {} THEN NULL ELSE f.args[Max(at)][2]

Find(map, name) == IF name \in DOMAIN map THEN map[name] ELSE NULL

\* AggregateMetadata: its functions are the ones that are known by now.
AggregateMetadata(v, fs, row) ==
    LET state == to_string(row.state)
    IN  [name |-> FullName(row), simple_name |-> row.name, arg_types |-> row.types, state_type |-> row.state,
         final_func |-> Find(fs, full_function_name(row.ffunc, <<state>>)),
         state_func |-> Find(fs, full_function_name(row.sfunc, <<state>> \o Signature(row))),
         init_cond |-> IF v >= 3 THEN <<"varchar", row.initcond>> ELSE <<row.state.name, row.initcond>>]

\* update_functions, update_aggregates
UpdateFunctions(fs, rows) == FoldLeft(LAMBDA acc, row : (FullName(row) :> FunctionMetadata(row)) @@ acc, fs, rows)
UpdateAggregates(v, fs, as, rows) ==
    FoldLeft(LAMBDA acc, row : (FullName(row) :> AggregateMetadata(v, fs, row)) @@ acc, as, rows)

Drop(map, name) == [n \in DOMAIN map \ {name} |-> map[n]]

\* cass_keyspace_meta_function_by_name and cass_keyspace_meta_aggregate_by_name
FunctionByName(name, tokens) == Find(functions, append_arguments(name, tokens))
AggregateByName(name, tokens) == Find(aggregates, append_arguments(name, tokens))
-----------------------------------------------------------------------------
Same(a, b) == a.name = b.name /\ a.types = b.types

\* Whether a function is one of an aggregate's.
UsedBy(f, a) ==
    \/ f.name = a.sfunc /\ f.types = <<a.state>> \o a.types
    \/ f.name = a.ffunc /\ f.types = <<a.state>>

Init ==
    /\ cassandra \in Cassandra
    /\ declared = [functions |-> {}, aggregates |-> {}]
    /\ functions = <<>> /\ aggregates = <<>>
    /\ events = <<>> /\ refreshing = {} /\ whole = TRUE /\ changes = 0

\* Statements of some application (external): the node changes its schema and
\* sends an event.
Changed(kind, change, row) ==
    /\ changes < MaxChanges
    /\ changes' = changes + 1 /\ whole' = FALSE
    /\ events' = Append(events, [kind |-> kind, change |-> change, name |-> row.name, types |-> row.types])
    /\ UNCHANGED <<cassandra, functions, aggregates, refreshing>>

CreateFunction(f) ==
    /\ declared' = [declared EXCEPT !.functions = {g \in @ : ~Same(f, g)} \cup {f}]
    /\ Changed("function", "CREATED", f)

DropFunction(f) ==
    /\ f \in declared.functions
    /\ \A a \in declared.aggregates : ~UsedBy(f, a)
    /\ declared' = [declared EXCEPT !.functions = @ \ {f}]
    /\ Changed("function", "DROPPED", f)

CreateAggregate(a) ==
    /\ \E s, f \in declared.functions :
            /\ s.name = a.sfunc /\ s.types = <<a.state>> \o a.types
            /\ f.name = a.ffunc /\ f.types = <<a.state>>
    /\ declared' = [declared EXCEPT !.aggregates = {b \in @ : ~Same(a, b)} \cup {a}]
    /\ Changed("aggregate", "CREATED", a)

DropAggregate(a) ==
    /\ a \in declared.aggregates
    /\ declared' = [declared EXCEPT !.aggregates = @ \ {a}]
    /\ Changed("aggregate", "DROPPED", a)

\* The control connection is established (again) and reads the whole schema.
OnQueryMetaSchema ==
    /\ functions' = UpdateFunctions(<<>>, SetToSeq(declared.functions))
    /\ aggregates' = UpdateAggregates(cassandra, functions', <<>>, SetToSeq(declared.aggregates))
    /\ events' = <<>> /\ refreshing' = {} /\ whole' = TRUE
    /\ UNCHANGED <<cassandra, declared, changes>>

\* on_event, with CREATED or UPDATED: refresh_function asks for the row.
RefreshFunction ==
    /\ events # <<>> /\ events[1].change = "CREATED"
    /\ refreshing' = refreshing \cup {events[1]}
    /\ events' = Tail(events)
    /\ UNCHANGED <<cassandra, declared, functions, aggregates, whole, changes>>

\* on_event, with DROPPED: the full name is made from the event's types.
OnDropped ==
    /\ events # <<>> /\ events[1].change = "DROPPED"
    /\ LET name == FullName(events[1])
       IN  IF events[1].kind = "function"
           THEN functions' = Drop(functions, name) /\ UNCHANGED aggregates
           ELSE aggregates' = Drop(aggregates, name) /\ UNCHANGED functions
    /\ events' = Tail(events)
    /\ UNCHANGED <<cassandra, declared, refreshing, whole, changes>>

\* on_refresh_function; without a row nothing is changed.  Answers come in any
\* order.  An answer is the row as it is then: it comes on the connection that
\* the event comes on.
OnRefreshFunction(r) ==
    /\ r \in refreshing
    /\ refreshing' = refreshing \ {r}
    /\ LET Rows(set) == SetToSeq({row \in set : Same(row, r)})
       IN  IF r.kind = "function"
           THEN functions' = UpdateFunctions(functions, Rows(declared.functions)) /\ UNCHANGED aggregates
           ELSE /\ aggregates' = UpdateAggregates(cassandra, functions, aggregates, Rows(declared.aggregates))
                /\ UNCHANGED functions
    /\ UNCHANGED <<cassandra, declared, events, whole, changes>>

Next ==
    \/ OnQueryMetaSchema \/ RefreshFunction \/ OnDropped
    \/ \E r \in refreshing : OnRefreshFunction(r)
    \/ \E f \in Declarable : CreateFunction(f) \/ DropFunction(f)
    \/ \E a \in Aggregates : CreateAggregate(a) \/ DropAggregate(a)

Spec == Init /\ [][Next]_vars
-----------------------------------------------------------------------------
(* Properties *)

\* What an application may write for a list of types: with spaces or without.
Spellings(types) ==
    LET all == FlattenSeq([i \in DOMAIN types |-> IF i = 1 THEN Written(types[i]) ELSE <<",", " ">> \o Written(types[i])])
    IN  {all, WithoutSpace(all), <<" ">> \o all}

\* cass_keyspace_meta_function_by_name, cass_keyspace_meta_aggregate_by_name
\* and cass_function_meta_argument_type_by_name: once the events are handled an
\* application finds exactly what is declared, overloads told apart, however
\* it writes the types; full names made at four places agree.
FunctionsFound ==
    events = <<>> /\ refreshing = {} =>
        /\ \A f \in Declarable, types \in {g.types : g \in Declarable} :
            \A tokens \in Spellings(types) :
                LET found == FunctionByName(f.name, tokens)
                    now == {g \in declared.functions : g.name = f.name /\ g.types = types}
                IN  IF now = {} THEN found = NULL
                    ELSE \E g \in now :
                            /\ found # NULL /\ found.simple_name = g.name /\ found.body = g.body
                            /\ \A i \in DOMAIN g.types : get_arg_type(found, g.arguments[i]) = g.types[i]
        /\ \A a \in Aggregates : \A tokens \in Spellings(a.types) :
                LET found == AggregateByName(a.name, tokens)
                    now == {b \in declared.aggregates : Same(a, b)}
                IN  IF now = {} THEN found = NULL
                    ELSE \E b \in now : found # NULL /\ found.state_type = b.state /\ found.arg_types = b.types

\* cass_aggregate_meta_state_func and _final_func: after the whole schema was
\* read, an aggregate whose state is of a type that holds at most one other
\* type has its two functions, as they are declared.
AggregatesResolved ==
    whole => \A a \in declared.aggregates : Len(a.state.sub) <= 1 =>
        LET found == aggregates[FullName(a)]
            Current(func, types) ==
                \E f \in declared.functions : f.name = func.simple_name /\ f.types = types /\ f.body = func.body
        IN  /\ found.state_func # NULL /\ Current(found.state_func, <<a.state>> \o a.types)
            /\ found.final_func # NULL /\ Current(found.final_func, <<a.state>>)
=============================================================================
