----------------------------- MODULE HashTable -----------------------------
(***************************************************************************)
(* CaseInsensitiveHashTable (hash_table.hpp): the names of the columns of  *)
(* a result, of the fields of a user type and of the values bound by name, *)
(* each with its index.  Entries whose names are equal but for their case  *)
(* are chained with pointers into the vector that holds them.              *)
(*                                                                         *)
(* A storage is the memory of such a vector; a pointer is a storage and a  *)
(* position in it.  Growing copies the entries, pointers included, to      *)
(* another storage, and set_entries copies those of another table.         *)
(***************************************************************************)
EXTENDS Integers, Sequences, FiniteSets, FiniteSetsExt, SequencesExt

CONSTANTS
    Names,
    Fold,           \* a name in lower case
    Inner,          \* what is between the quotes, of a quoted name
    Hash,           \* fnv1a_hash_lower of a name in lower case
    Tables,
    Fixed,          \* what a FixedVector holds without the heap (16)
    MaxEntries      \* bound: entries of the tables, copies aside

NULL == <<0, 0>>

VARIABLES
    storages,       \* the entries in each storage
    freed,          \* storages that were given back
    tables,         \* of each table: its storage, the capacity of entries_, and index_
    moved,          \* history: tables whose entries were copied, by growing or from another table
    touched,        \* history: a pointer into a freed storage was followed
    hung            \* a chain of pointers has no end

vars == <<storages, freed, tables, moved, touched, hung>>

\* next_pow_2 of capacity / CASS_LOAD_FACTOR + 1.
IndexCapacity(capacity) ==
    LET num == (4 * capacity) \div 3 + 1
    IN  IF num <= 2 THEN 2 ELSE CHOOSE p \in {2 ^ i : i \in 1..num} : num <= p /\ p < 2 * num

EmptyIndex(capacity) == [h \in 0..IndexCapacity(capacity) - 1 |-> NULL]

\* reset of a new table: the capacity is that of a FixedVector at least.
NewTable(storage, capacity) ==
    LET c == IF capacity < Fixed THEN Fixed ELSE capacity
    IN  [storage |-> storage, capacity |-> c, index |-> EmptyIndex(c)]

\* A memory: what the operations work on.
Memory == [storages |-> storages, freed |-> freed, touched |-> touched, hung |-> hung]
At(m, p) == m.storages[p[1]][p[2]]

\* The entries that a pointer leads to, the first one included, and whether
\* there is an end.
RECURSIVE Chain(_, _, _)
Chain(m, p, seen) ==
    IF p = NULL THEN [entries |-> <<>>, ends |-> TRUE]
    ELSE IF p \in seen THEN [entries |-> <<>>, ends |-> FALSE]
    ELSE LET rest == Chain(m, At(m, p).next, seen \cup {p})
         IN  [entries |-> <<p>> \o rest.entries, ends |-> rest.ends]

\* Faulty: the hash is compared, not the name.
BucketByHash(m, index, name) ==
    LET n == Cardinality(DOMAIN index)
        found(k) == LET p == index[(Hash[Fold[name]] + k) % n]
                    IN  p = NULL \/ Hash[Fold[At(m, p).name]] = Hash[Fold[name]]
        ks == {k \in 0..n - 1 : found(k)}
    IN  IF ks = {} THEN -1 ELSE (Hash[Fold[name]] + Min(ks)) % n

\* Linear probing: the bucket of a name, or an empty one; -1 if there is none.
Bucket(m, index, name) ==
    LET n == Cardinality(DOMAIN index)
        found(k) == LET p == index[(Hash[Fold[name]] + k) % n]
                    IN  p = NULL \/ Fold[At(m, p).name] = Fold[name]
        ks == {k \in 0..n - 1 : found(k)}
    IN  IF ks = {} THEN -1 ELSE (Hash[Fold[name]] + Min(ks)) % n

\* add_index: in an empty bucket, or at the end of the chain of its bucket.
add_index(m, table, p) ==
    LET h == Bucket(m, table.index, At(m, p).name)
        chain == Chain(m, table.index[h], {})
        last == Last(chain.entries)
    IN  IF h = -1 THEN [m |-> m, table |-> table]
        ELSE IF table.index[h] = NULL
        THEN [m |-> m, table |-> [table EXCEPT !.index[h] = p]]
        ELSE IF ~chain.ends THEN [m |-> [m EXCEPT !.hung = TRUE], table |-> table]
        ELSE [m |-> [m EXCEPT !.storages[last[1]][last[2]].next = p,
                              !.touched = @ \/ \E q \in ToSet(chain.entries) : q[1] \in m.freed],
              table |-> table]

\* resize: the entries are copied to a larger storage, then indexed again.
resize(m, table) ==
    LET storage == Len(m.storages) + 1
        old == m.storages[table.storage]
        moved_to == [m EXCEPT !.storages = Append(@, [i \in DOMAIN old |-> [old[i] EXCEPT !.index = i]]),
                              !.freed = @ \cup {table.storage}]
        larger == [storage |-> storage, capacity |-> 2 * table.capacity, index |-> EmptyIndex(2 * table.capacity)]
    IN  FoldLeft(LAMBDA s, i : add_index(s.m, s.table, <<storage, i>>),
                 [m |-> moved_to, table |-> larger], [i \in DOMAIN old |-> i])

\* add: the capacity is looked at before the entry is.
add(m, table, entry) ==
    LET full == Len(m.storages[table.storage]) >= table.capacity
        room == IF full THEN resize(m, table) ELSE [m |-> m, table |-> table]
        storage == room.table.storage
        i == Len(room.m.storages[storage]) + 1
        added == [room.m EXCEPT !.storages[storage] = Append(@, [entry EXCEPT !.index = i])]
    IN  add_index(added, room.table, <<storage, i>>)

Entry(name) == [name |-> name, index |-> 0, next |-> NULL]

\* set_entries of a new table with the entries of another one.
set_entries(m, storage, from) ==
    LET new == [m EXCEPT !.storages[storage] = <<>>]
    IN  FoldLeft(LAMBDA s, e : add(s.m, s.table, e),
                 [m |-> new, table |-> NewTable(storage, Len(m.storages[from.storage]))],
                 m.storages[from.storage])

Apply(t, result, copied) ==
    /\ storages' = result.m.storages /\ freed' = result.m.freed
    /\ touched' = result.m.touched /\ hung' = result.m.hung
    /\ tables' = [tables EXCEPT ![t] = result.table]
    /\ moved' = IF copied THEN moved \cup {t} ELSE moved
-----------------------------------------------------------------------------
Ids == [t \in Tables |-> CHOOSE n \in 1..Cardinality(Tables) :
            n = Cardinality({u \in Tables : u <= t})]

Init ==
    /\ storages = [n \in 1..Cardinality(Tables) |-> <<>>]
    /\ freed = {} /\ moved = {} /\ touched = FALSE /\ hung = FALSE
    /\ \E capacities \in [Tables -> {0, Fixed + 1}] :
          tables = [t \in Tables |-> NewTable(Ids[t], capacities[t])]

Entries(t) == storages[tables[t].storage]

\* ResultMetadata::add, UserType::add_field, QueryRequest::get_indices.
Add(t, name) ==
    /\ ~hung /\ MapThenSumSet(LAMBDA u : Len(Entries(u)), Tables) < MaxEntries
    /\ Apply(t, add(Memory, tables[t], Entry(name)), Len(Entries(t)) >= tables[t].capacity)

\* UserType::copy.
Copy(t, u) ==
    /\ ~hung /\ Entries(t) = <<>> /\ Entries(u) # <<>>
    /\ Apply(t, set_entries(Memory, tables[t].storage, tables[u]), TRUE)

Next ==
    \/ \E t \in Tables, name \in Names : Add(t, name)
    \/ \E t, u \in Tables : Copy(t, u)

Spec == Init /\ [][Next]_vars
-----------------------------------------------------------------------------
\* get_indices: a quoted name is looked up with its case.
get_indices(t, name) ==
    LET quoted == name \in DOMAIN Inner
        key == IF quoted THEN Inner[name] ELSE name
        h == Bucket(Memory, tables[t].index, key)
        chain == IF h = -1 THEN <<>> ELSE Chain(Memory, tables[t].index[h], {}).entries
        found == SelectSeq(chain, LAMBDA p : quoted => At(Memory, p).name = key)
    IN  [i \in DOMAIN found |-> At(Memory, found[i]).index]

Repeats(t) == \E i, j \in DOMAIN Entries(t) : i < j /\ Fold[Entries(t)[i].name] = Fold[Entries(t)[j].name]

\* The entries that a name stands for, in their order.
Named(t, name) ==
    LET quoted == name \in DOMAIN Inner
        fits(n) == IF quoted THEN n = Inner[name] ELSE Fold[n] = Fold[name]
        at == {i \in DOMAIN Entries(t) : fits(Entries(t)[i].name)}
    IN  SetToSortSeq(at, <)

\* A name finds all the entries it stands for, each once and in their order,
\* however names collide and however often a table grew, as long as no table
\* with two names that differ in their case only has been copied or has grown;
\* until then no freed memory is read and every chain has an end.  A table with
\* two such names that grows or is copied keeps the old pointer between them,
\* and add_index follows it: past that step the property says nothing.
LookupsExact ==
    (\A t \in moved : ~Repeats(t)) =>
        /\ ~touched /\ ~hung
        /\ \A t \in Tables, name \in Names : get_indices(t, name) = Named(t, name)
=============================================================================
