------------------------------- MODULE Clocks -------------------------------
(***************************************************************************)
(* The two generators that threads share without a lock: client-side       *)
(* timestamps (MonotonicTimestampGenerator) and the times of version 1     *)
(* UUIDs (UuidGen::monotonic_timestamp).  Both compare and exchange the    *)
(* last value; the clock of the machine may be set back.                   *)
(*                                                                         *)
(* A value is a number of parts of a millisecond since an epoch, PerMs to  *)
(* a millisecond: 1000 for timestamps and 10000 for UUIDs.  The offset     *)
(* between the epochs is a whole number of milliseconds and is left out.   *)
(***************************************************************************)
EXTENDS Naturals, FiniteSets, Bags

CONSTANTS
    Threads,
    PerMs,
    MaxClock,       \* bound: milliseconds
    MaxCalls,       \* bound: calls
    MaxBack         \* bound: how often the clock is set back

ClockAssumption == PerMs \in Nat \ {0}

VARIABLES
    clock,
    last,           \* last_ of the timestamp generator
    last_timestamp, \* last_timestamp_ of the UUID generator
    call,           \* of each thread: where it is and its local variables
    stamps, uuids,  \* values that were returned
    latest,         \* of each thread: the largest timestamp before its call, and what it returned
    calls, backs

vars == <<clock, last, last_timestamp, call, stamps, uuids, latest, calls, backs>>

Idle == [at |-> "idle", last |-> 0, value |-> 0]
Call(at, l, v) == [at |-> at, last |-> l, value |-> v]
Top(bag) == IF bag = EmptyBag THEN 0 ELSE CHOOSE v \in BagToSet(bag) : \A w \in BagToSet(bag) : w <= v
With(bag, v) == bag (+) SetToBag({v})

to_milliseconds(timestamp) == timestamp \div PerMs
from_unix_timestamp(ms) == ms * PerMs

Init ==
    /\ clock = 1
    /\ last = 0 /\ last_timestamp = 0
    /\ call = [t \in Threads |-> Idle]
    /\ stamps = EmptyBag /\ uuids = EmptyBag
    /\ latest = [t \in Threads |-> <<0, 1>>]
    /\ calls = 0 /\ backs = 0

\* The clock (external)
Tick ==
    /\ clock < MaxClock
    /\ clock' = clock + 1
    /\ UNCHANGED <<last, last_timestamp, call, stamps, uuids, latest, calls, backs>>

SetBack ==
    /\ backs < MaxBack /\ clock > 1
    /\ clock' \in 1..(clock - 1)
    /\ backs' = backs + 1
    /\ UNCHANGED <<last, last_timestamp, call, stamps, uuids, latest, calls>>

Begin(t, at) ==
    /\ call[t] = Idle /\ calls < MaxCalls
    /\ call' = [call EXCEPT ![t] = Call(at, 0, 0)]
    /\ latest' = [latest EXCEPT ![t] = <<Top(stamps), Top(stamps) + 1>>]
    /\ calls' = calls + 1
    /\ UNCHANGED <<clock, last, last_timestamp, stamps, uuids, backs>>
-----------------------------------------------------------------------------
(* MonotonicTimestampGenerator::next *)

StampLoad(t) ==
    /\ call[t].at = "stamp"
    /\ call' = [call EXCEPT ![t] = Call("compute", last, 0)]
    /\ UNCHANGED <<clock, last, last_timestamp, stamps, uuids, latest, calls, backs>>

compute_next(l, now) ==
    LET millis == to_milliseconds(l)
        counter == l % PerMs
    IN  IF millis >= now
        THEN from_unix_timestamp(millis) + (IF counter = PerMs - 1 THEN counter ELSE counter + 1)
        ELSE from_unix_timestamp(now)

StampCompute(t) ==
    /\ call[t].at = "compute"
    /\ call' = [call EXCEPT ![t] = Call("exchange", @.last, compute_next(@.last, clock))]
    /\ UNCHANGED <<clock, last, last_timestamp, stamps, uuids, latest, calls, backs>>

\* Faulty: stores the value without a comparison.
StampStore(t) ==
    /\ call[t].at = "exchange"
    /\ last' = call[t].value
    /\ call' = [call EXCEPT ![t] = Idle]
    /\ stamps' = With(stamps, call[t].value)
    /\ latest' = [latest EXCEPT ![t] = <<@[1], call[t].value>>]
    /\ UNCHANGED <<clock, last_timestamp, uuids, calls, backs>>

StampExchange(t) ==
    /\ call[t].at = "exchange"
    /\ IF last = call[t].last
       THEN /\ last' = call[t].value
            /\ call' = [call EXCEPT ![t] = Idle]
            /\ stamps' = With(stamps, call[t].value)
            /\ latest' = [latest EXCEPT ![t] = <<@[1], call[t].value>>]
       ELSE /\ call' = [call EXCEPT ![t] = Call("stamp", 0, 0)]
            /\ UNCHANGED <<last, stamps, latest>>
    /\ UNCHANGED <<clock, last_timestamp, uuids, calls, backs>>
-----------------------------------------------------------------------------
(* UuidGen::monotonic_timestamp *)

UuidClock(t) ==
    /\ call[t].at = "uuid"
    /\ call' = [call EXCEPT ![t] = Call("load", 0, from_unix_timestamp(clock))]
    /\ UNCHANGED <<clock, last, last_timestamp, stamps, uuids, latest, calls, backs>>

\* The last value, and the branch that it leads to.
UuidLoad(t) ==
    LET now == call[t].value
        candidate == last_timestamp + 1
    IN  /\ call[t].at = "load"
        /\ call' = [call EXCEPT ![t] =
                CASE now > last_timestamp -> Call("uuid_exchange", last_timestamp, now)
                  [] now <= last_timestamp /\ to_milliseconds(now) < to_milliseconds(last_timestamp) -> Call("add", 0, 0)
                  [] now <= last_timestamp /\ to_milliseconds(now) = to_milliseconds(last_timestamp) ->
                        IF to_milliseconds(candidate) = to_milliseconds(last_timestamp)
                        THEN Call("uuid_exchange", last_timestamp, candidate)
                        ELSE Call("uuid", 0, 0)]
        /\ UNCHANGED <<clock, last, last_timestamp, stamps, uuids, latest, calls, backs>>

UuidReturn(t, value) ==
    /\ call' = [call EXCEPT ![t] = Idle]
    /\ uuids' = With(uuids, value)

\* The clock is behind: fetch_add returns the value that was there before.
UuidFetchAdd(t) ==
    /\ call[t].at = "add"
    /\ last_timestamp' = last_timestamp + 1
    /\ UuidReturn(t, last_timestamp)
    /\ UNCHANGED <<clock, last, stamps, latest, calls, backs>>

UuidExchange(t) ==
    /\ call[t].at = "uuid_exchange"
    /\ IF last_timestamp = call[t].last
       THEN last_timestamp' = call[t].value /\ UuidReturn(t, call[t].value)
       ELSE call' = [call EXCEPT ![t] = Call("uuid", 0, 0)] /\ UNCHANGED <<last_timestamp, uuids>>
    /\ UNCHANGED <<clock, last, stamps, latest, calls, backs>>
-----------------------------------------------------------------------------
Next ==
    \/ Tick \/ SetBack
    \/ \E t \in Threads :
        \/ \E at \in {"stamp", "uuid"} : Begin(t, at)
        \/ StampLoad(t) \/ StampCompute(t) \/ StampExchange(t)
        \/ UuidClock(t) \/ UuidLoad(t) \/ UuidFetchAdd(t) \/ UuidExchange(t)

Spec == Init /\ [][Next]_vars
-----------------------------------------------------------------------------
(* Properties *)

Full(v) == v % PerMs = PerMs - 1

\* topics/basics/client_side_timestamps: a write gets a larger timestamp than
\* every write before it, whatever the threads and the clock do, and no two
\* get the same; except that a millisecond has only so many (the warning of
\* compute_next), and the last of them is then given again.
StampsIncrease ==
    /\ \A t \in Threads : latest[t][2] > latest[t][1] \/ (latest[t][2] = latest[t][1] /\ Full(latest[t][1]))
    /\ \A v \in BagToSet(stamps) : stamps[v] = 1 \/ Full(v)

\* Whatever threads and clock do, the last value only grows: one call can be
\* given what an earlier call was given, a third cannot.
UuidsAtMostTwice == \A v \in BagToSet(uuids) : uuids[v] <= 2

\* topics/basics/uuids/README.md: UUIDs uniquely identify information; no two
\* calls of cass_uuid_gen_time get the same.
UuidsUnique == \A v \in BagToSet(uuids) : uuids[v] = 1
=============================================================================
