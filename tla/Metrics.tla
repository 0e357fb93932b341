------------------------------ MODULE Metrics ------------------------------
(***************************************************************************)
(* The latencies of metrics.hpp: every thread records into one of its two  *)
(* histograms, and cass_session_get_metrics adds them up while they do.  A *)
(* WriterReaderPhaser keeps the two apart without a lock: the epochs count *)
(* the writers that came and went, from 0 in an even phase and from the    *)
(* smallest integer in an odd one.  Counters and the ticks of the rates    *)
(* are next to it.                                                         *)
(*                                                                         *)
(* A histogram is the bag of its values; a value is the number of a call.  *)
(***************************************************************************)
EXTENDS Integers, FiniteSets, Bags

CONSTANTS
    Writers,        \* threads that record, each with its own histograms
    Readers,        \* application threads that ask for metrics
    MaxRecords,     \* bound: records
    MaxSnapshots    \* bound: snapshots

NoOne == "no one"
INT64_MIN == -1000

\* The epochs of the two phases never meet.
MetricsAssumption ==
    /\ IsFiniteSet(Writers) /\ NoOne \notin Readers
    /\ MaxRecords \in Nat /\ MaxRecords < -INT64_MIN

VARIABLES
    histograms,     \* of each writer: <<one, other>>, and which is active
    epochs,         \* of each writer: start, even_end and odd_end epochs
    writer,         \* of each writer: where it is in record_value
    reader,         \* of each reader: where it is in get_snapshot
    mutex,          \* the reader that holds the mutex
    total,          \* histogram_: what snapshots have added
    before,         \* values that were recorded before the snapshot began
    uncounted, counted, \* of a rate: events since the last tick, and ticked
    records, snapshots

vars == <<histograms, epochs, writer, reader, mutex, total, before, uncounted, counted, records, snapshots>>

Other(i) == 3 - i

\* Histograms as the bags of their latencies, all of them in the range.
hdr_record_value(histogram, value) == histogram (+) SetToBag({value})
hdr_add(to, from) == to (+) from

Init ==
    /\ histograms = [w \in Writers |-> [bags |-> <<EmptyBag, EmptyBag>>, active |-> 1]]
    /\ epochs = [w \in Writers |-> [start |-> 0, even |-> 0, odd |-> INT64_MIN]]
    /\ writer = [w \in Writers |-> [at |-> "idle", enter |-> 0, index |-> 0, value |-> 0, todo |-> {}]]
    /\ reader = [r \in Readers |-> [at |-> "idle", todo |-> {}, of |-> NoOne, from |-> 0, even |-> FALSE, flip |-> 0]]
    /\ mutex = NoOne /\ total = EmptyBag /\ before = {}
    /\ uncounted = [w \in Writers |-> 0] /\ counted = 0
    /\ records = 0 /\ snapshots = 0
-----------------------------------------------------------------------------
(* record_request, by the thread of a worker *)

writer_critical_section_enter(w) ==
    /\ writer[w].at = "idle" /\ records < MaxRecords
    /\ records' = records + 1
    /\ writer' = [writer EXCEPT ![w] = [at |-> "entered", enter |-> epochs[w].start, index |-> 0, value |-> records + 1, todo |-> {}]]
    /\ epochs' = [epochs EXCEPT ![w].start = @ + 1]
    /\ UNCHANGED <<histograms, reader, mutex, total, before, uncounted, counted, snapshots>>

LoadActive(w) ==
    /\ writer[w].at = "entered"
    /\ writer' = [writer EXCEPT ![w].at = "record", ![w].index = histograms[w].active]
    /\ UNCHANGED <<histograms, epochs, reader, mutex, total, before, uncounted, counted, records, snapshots>>

RecordValue(w) ==
    /\ writer[w].at = "record"
    /\ histograms' = [histograms EXCEPT ![w].bags[writer[w].index] = hdr_record_value(@, writer[w].value)]
    /\ writer' = [writer EXCEPT ![w].at = "recorded"]
    /\ UNCHANGED <<epochs, reader, mutex, total, before, uncounted, counted, records, snapshots>>

writer_critical_section_end(w) ==
    /\ writer[w].at = "recorded"
    /\ epochs' = IF writer[w].enter < 0 THEN [epochs EXCEPT ![w].odd = @ + 1] ELSE [epochs EXCEPT ![w].even = @ + 1]
    /\ writer' = [writer EXCEPT ![w].at = "mark"]
    /\ UNCHANGED <<histograms, reader, mutex, total, before, uncounted, counted, records, snapshots>>

\* Meter::mark: when an interval is over (external) the thread that exchanges
\* last_tick_ counts what all threads have, one counter after another; then
\* it counts its own event.
Mark(w, ticks) ==
    /\ writer[w].at = "mark"
    /\ writer' = [writer EXCEPT ![w].at = "tick", ![w].todo = IF ticks THEN Writers ELSE {}]
    /\ UNCHANGED <<histograms, epochs, reader, mutex, total, before, uncounted, counted, records, snapshots>>

sum_and_reset(w, other) ==
    /\ writer[w].at = "tick" /\ other \in writer[w].todo
    /\ counted' = counted + uncounted[other]
    /\ uncounted' = [uncounted EXCEPT ![other] = 0]
    /\ writer' = [writer EXCEPT ![w].todo = @ \ {other}]
    /\ UNCHANGED <<histograms, epochs, reader, mutex, total, before, records, snapshots>>

Update(w) ==
    /\ writer[w].at = "tick" /\ writer[w].todo = {}
    /\ writer' = [writer EXCEPT ![w].at = "idle"]
    /\ uncounted' = [uncounted EXCEPT ![w] = @ + 1]
    /\ UNCHANGED <<histograms, epochs, reader, mutex, total, before, counted, records, snapshots>>
-----------------------------------------------------------------------------
(* get_snapshot, by a thread of the application *)

Recorded == UNION {BagToSet(histograms[w].bags[1]) \cup BagToSet(histograms[w].bags[2]) : w \in Writers}
At(r, at) == reader[r].at = at
Only(r, rest) == reader' = [reader EXCEPT ![r] = rest]

Lock(r) ==
    /\ At(r, "idle") /\ mutex = NoOne /\ snapshots < MaxSnapshots
    /\ mutex' = r /\ snapshots' = snapshots + 1 /\ before' = Recorded
    /\ Only(r, [reader[r] EXCEPT !.at = "next", !.todo = Writers])
    /\ UNCHANGED <<histograms, epochs, writer, total, uncounted, counted, records>>

\* add: the histogram that is active becomes the one to add.
Exchange(r, w) ==
    /\ At(r, "next") /\ w \in reader[r].todo
    /\ histograms' = [histograms EXCEPT ![w].active = Other(@)]
    /\ Only(r, [reader[r] EXCEPT !.at = "phase", !.of = w, !.from = histograms[w].active])
    /\ UNCHANGED <<epochs, writer, mutex, total, before, uncounted, counted, records, snapshots>>

\* Faulty: the end epoch of the next phase is not set back.
NextPhaseAsIs(r) ==
    /\ At(r, "phase")
    /\ Only(r, [reader[r] EXCEPT !.at = "flip", !.even = epochs[reader[r].of].start < 0])
    /\ UNCHANGED <<histograms, epochs, writer, mutex, total, before, uncounted, counted, records, snapshots>>

\* flip_phase: which phase is next, the epoch it will end with, ...
NextPhase(r) ==
    LET w == reader[r].of
        even == epochs[w].start < 0
    IN  /\ At(r, "phase")
        /\ epochs' = IF even THEN [epochs EXCEPT ![w].even = 0] ELSE [epochs EXCEPT ![w].odd = INT64_MIN]
        /\ Only(r, [reader[r] EXCEPT !.at = "flip", !.even = even])
        /\ UNCHANGED <<histograms, writer, mutex, total, before, uncounted, counted, records, snapshots>>

\* ... the exchange of the start epoch, ...
FlipPhase(r) ==
    LET w == reader[r].of
    IN  /\ At(r, "flip")
        /\ epochs' = [epochs EXCEPT ![w].start = IF reader[r].even THEN 0 ELSE INT64_MIN]
        /\ Only(r, [reader[r] EXCEPT !.at = "wait", !.flip = epochs[w].start])
        /\ UNCHANGED <<histograms, writer, mutex, total, before, uncounted, counted, records, snapshots>>

\* Faulty: does not wait for the writers of the last phase.
CaughtUpAtOnce(r) ==
    /\ At(r, "wait")
    /\ Only(r, [reader[r] EXCEPT !.at = "add"])
    /\ UNCHANGED <<histograms, epochs, writer, mutex, total, before, uncounted, counted, records, snapshots>>

\* ... and the loop until the writers of the last phase have gone.
CaughtUp(r) ==
    LET w == reader[r].of
        end == IF reader[r].even THEN epochs[w].odd ELSE epochs[w].even
    IN  /\ At(r, "wait") /\ end = reader[r].flip
        /\ Only(r, [reader[r] EXCEPT !.at = "add"])
        /\ UNCHANGED <<histograms, epochs, writer, mutex, total, before, uncounted, counted, records, snapshots>>

Add(r) ==
    LET w == reader[r].of
    IN  /\ At(r, "add")
        /\ total' = hdr_add(total, histograms[w].bags[reader[r].from])
        /\ Only(r, [reader[r] EXCEPT !.at = "next", !.todo = @ \ {w}, !.of = NoOne])
        /\ UNCHANGED <<histograms, epochs, writer, mutex, before, uncounted, counted, records, snapshots>>

Unlock(r) ==
    /\ At(r, "next") /\ reader[r].todo = {}
    /\ mutex' = NoOne
    /\ Only(r, [reader[r] EXCEPT !.at = "idle"])
    /\ UNCHANGED <<histograms, epochs, writer, total, before, uncounted, counted, records, snapshots>>
-----------------------------------------------------------------------------
Write(w) ==
    \/ LoadActive(w) \/ RecordValue(w) \/ writer_critical_section_end(w)
    \/ Mark(w, FALSE) \/ Mark(w, TRUE) \/ Update(w)
    \/ \E other \in Writers : sum_and_reset(w, other)

Read(r) ==
    \/ Lock(r) \/ NextPhase(r) \/ FlipPhase(r) \/ CaughtUp(r) \/ Add(r) \/ Unlock(r)
    \/ \E w \in Writers : Exchange(r, w)

\* Nothing is left to do within the bounds.
Done ==
    /\ records = MaxRecords /\ snapshots = MaxSnapshots
    /\ \A w \in Writers : writer[w].at = "idle"
    /\ mutex = NoOne
    /\ UNCHANGED vars

Next ==
    \/ \E w \in Writers : writer_critical_section_enter(w) \/ Write(w)
    \/ \E r \in Readers : Read(r)
    \/ Done

\* Threads run.
Fairness ==
    /\ \A w \in Writers : WF_vars(Write(w))
    /\ \A r \in Readers : WF_vars(Read(r))

Spec == Init /\ [][Next]_vars /\ Fairness
-----------------------------------------------------------------------------
(* Properties *)

\* While a snapshot adds a histogram no thread records into it (hdr_add and
\* hdr_record_value are not atomic).
AddedAlone ==
    \A r \in Readers, w \in Writers :
        At(r, "add") /\ reader[r].of = w => ~(writer[w].at = "record" /\ writer[w].index = reader[r].from)

\* A snapshot has every latency that was recorded before it began, and none
\* that was not; and no event of the rates is lost or counted twice.
SnapshotComplete ==
    /\ \A r \in Readers : At(r, "next") /\ reader[r].todo = {} => before \subseteq BagToSet(total)
    /\ BagToSet(total) \subseteq Recorded
    /\ LET left == {p \in Writers \X (1..MaxRecords) : p[2] <= uncounted[p[1]]}
           marked == records - Cardinality({w \in Writers : writer[w].at # "idle"})
       IN  counted + Cardinality(left) = marked

\* The loop of flip_phase ends: cass_session_get_metrics returns, however
\* often the threads record.
SnapshotEnds == \A r \in Readers : (mutex = r) ~> (mutex # r)
=============================================================================
