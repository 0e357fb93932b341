---------------------------- MODULE FutureProofs ----------------------------
(***************************************************************************)
(* Proofs about Future, for any number of threads that wait and that set   *)
(* callbacks.                                                              *)
(***************************************************************************)
EXTENDS Future, TLAPS

\* Types, as far as the proofs need them.
Types ==
  /\ is_set \in BOOLEAN
  /\ callback \in Callers \cup {NoCallback}
  /\ setter \in {"start", "callback", "set", "done"}
  /\ waiter \in [Waiting -> {"start", "waiting", "woken", "true", "false"}]
  /\ caller \in [Callers -> {"start", "callback", "accepted", "refused"}]
  /\ work \in {"none", "queued", "ran", "done"}
  /\ runs \in [Callers -> Nat]
  /\ refs \subseteq {"application", "setter", "work"}

\* The future is set once, by its setter, and nobody has to run anything
\* before that.
SetFirst ==
  /\ is_set <=> setter # "start"
  /\ ~is_set => work = "none" /\ \A c \in Callers : caller[c] # "callback" /\ runs[c] = 0

\* At most one party has the callback to run: the setter, a thread of the work
\* pool or the thread that set it; and once one ran it, none has.
OneRunner ==
  /\ setter = "callback" \/ work # "none" => callback # NoCallback
  /\ setter = "callback" => work = "none"
  /\ \A c \in Callers :
       /\ caller[c] = "callback" => callback = c /\ setter # "callback" /\ work = "none"
       /\ runs[c] > 0 => callback = c
       /\ callback = c /\ (setter = "callback" \/ work = "queued" \/ caller[c] = "callback")
            => runs[c] = 0
       /\ runs[c] <= 1

\* The callback that is set was accepted or is about to be run; no other is.
OnlyAccepted ==
  /\ callback # NoCallback => caller[callback] \in {"callback", "accepted"}
  /\ \A c \in Callers : caller[c] \in {"callback", "accepted"} => callback = c

\* A callback that was accepted has been run, or somebody has yet to run it.
NotLost ==
  \A c \in Callers :
    caller[c] = "accepted" =>
      runs[c] = 1 \/ setter \in {"start", "callback"} \/ work = "queued"

\* Who may touch the future holds a reference to it.
Held ==
  /\ setter \in {"start", "callback", "set"} <=> "setter" \in refs
  /\ work \in {"queued", "ran"} <=> "work" \in refs
  /\ "application" \notin refs =>
       \A c \in Callers : caller[c] \in {"accepted", "refused"}

\* The inductive invariant.
Inv == Types /\ SetFirst /\ OneRunner /\ OnlyAccepted /\ NotLost /\ Held

\* A new future satisfies the invariant.
LEMMA InvInit == Init => Inv
<1> SUFFICES ASSUME Init PROVE Inv
  OBVIOUS
<1>1. Types
  BY DEF Init, Types
<1>2. SetFirst /\ OneRunner
  BY FutureAssumption DEF Init, SetFirst, OneRunner
<1>3. OnlyAccepted /\ NotLost
  BY DEF Init, OnlyAccepted, NotLost
<1>4. Held
  BY DEF Init, Held
<1> QED
  BY <1>1, <1>2, <1>3, <1>4 DEF Inv

\* Waiting threads change nothing but their own place.
LEMMA WaitingPreserves ==
  ASSUME Inv, NEW t \in Waiting,
         WaitStep(t) \/ WakesSpuriously(t) \/ WaitForTimesOut(t)
  PROVE  Inv'
<1>1. waiter' \in [Waiting -> {"start", "waiting", "woken", "true", "false"}]
  BY DEF Inv, Types, WaitStep, Wait, WaitChecks, WaitForReturns, WakesSpuriously, WaitForTimesOut
<1>2. UNCHANGED <<is_set, callback, setter, caller, work, runs, refs>>
  BY DEF WaitStep, Wait, WaitChecks, WaitForReturns, WakesSpuriously, WaitForTimesOut
<1> QED
  BY <1>1, <1>2 DEF Inv, Types, SetFirst, OneRunner, OnlyAccepted, NotLost, Held

\* Setting the future: the setter takes the callback over, or queues it.
LEMMA InternalSetPreserves ==
  ASSUME Inv, InternalSet
  PROVE  Inv'
<1>1. Types'
  BY DEF Inv, Types, InternalSet, Broadcast
<1>2. SetFirst' /\ OneRunner'
  BY DEF Inv, Types, SetFirst, OneRunner, OnlyAccepted, InternalSet
<1>3. OnlyAccepted' /\ NotLost'
  BY FutureAssumption DEF Inv, Types, SetFirst, OneRunner, OnlyAccepted, NotLost, InternalSet
<1>4. Held'
  BY DEF Inv, Types, SetFirst, Held, InternalSet
<1> QED
  BY <1>1, <1>2, <1>3, <1>4 DEF Inv

\* The setter runs the callback it took over.
LEMMA SetterRunsPreserves ==
  ASSUME Inv, SetterRunsCallback
  PROVE  Inv'
<1>1. callback \in Callers
  BY DEF Inv, Types, OneRunner, SetterRunsCallback
<1>2. Types'
  BY <1>1 DEF Inv, Types, SetterRunsCallback, Run
<1>3. SetFirst' /\ OneRunner'
  BY <1>1 DEF Inv, Types, SetFirst, OneRunner, OnlyAccepted, SetterRunsCallback, Run
<1>4. OnlyAccepted' /\ NotLost'
  BY <1>1 DEF Inv, Types, SetFirst, OneRunner, OnlyAccepted, NotLost, SetterRunsCallback, Run
<1>5. Held'
  BY DEF Inv, Held, SetterRunsCallback
<1> QED
  BY <1>2, <1>3, <1>4, <1>5 DEF Inv

\* The setter lets go of the future.
LEMMA SetterReleasesPreserves ==
  ASSUME Inv, SetterReleases
  PROVE  Inv'
  BY DEF Inv, Types, SetFirst, OneRunner, OnlyAccepted, NotLost, Held, SetterReleases

\* A thread of the work pool runs the callback that was queued.
LEMMA OnWorkPreserves ==
  ASSUME Inv, OnWork
  PROVE  Inv'
<1>1. callback \in Callers
  BY DEF Inv, Types, OneRunner, OnWork
<1>2. Types'
  BY <1>1 DEF Inv, Types, OnWork, Run
<1>3. SetFirst' /\ OneRunner'
  BY <1>1 DEF Inv, Types, SetFirst, OneRunner, OnlyAccepted, OnWork, Run
<1>4. OnlyAccepted' /\ NotLost'
  BY <1>1 DEF Inv, Types, SetFirst, OneRunner, OnlyAccepted, NotLost, OnWork, Run
<1>5. Held'
  BY DEF Inv, Held, OnWork
<1> QED
  BY <1>2, <1>3, <1>4, <1>5 DEF Inv

\* The event loop drops the reference of the work.
LEMMA OnAfterWorkPreserves ==
  ASSUME Inv, OnAfterWork
  PROVE  Inv'
  BY DEF Inv, Types, SetFirst, OneRunner, OnlyAccepted, NotLost, Held, OnAfterWork

\* A callback is refused, or set; when the value is there its caller runs it.
LEMMA SetCallbackPreserves ==
  ASSUME Inv, NEW c \in Callers, SetCallback(c)
  PROVE  Inv'
<1>1. Types'
  BY DEF Inv, Types, SetCallback
<1>2. SetFirst'
  BY DEF Inv, Types, SetFirst, SetCallback
<1>3. OneRunner'
  BY FutureAssumption DEF Inv, Types, SetFirst, OneRunner, OnlyAccepted, SetCallback
<1>4. OnlyAccepted'
  BY FutureAssumption DEF Inv, Types, OnlyAccepted, SetCallback
<1>5. NotLost'
  BY FutureAssumption DEF Inv, Types, SetFirst, OnlyAccepted, NotLost, SetCallback
<1>6. Held'
  BY DEF Inv, Types, Held, SetCallback
<1> QED
  BY <1>1, <1>2, <1>3, <1>4, <1>5, <1>6 DEF Inv

\* The thread that set the callback runs it.
LEMMA CallerRunsPreserves ==
  ASSUME Inv, NEW c \in Callers, CallerRunsCallback(c)
  PROVE  Inv'
<1>1. Types'
  BY DEF Inv, Types, CallerRunsCallback, Run
<1>2. SetFirst' /\ OneRunner'
  BY DEF Inv, Types, SetFirst, OneRunner, OnlyAccepted, CallerRunsCallback, Run
<1>3. OnlyAccepted' /\ NotLost'
  BY FutureAssumption
     DEF Inv, Types, SetFirst, OneRunner, OnlyAccepted, NotLost, CallerRunsCallback, Run
<1>4. Held'
  BY DEF Inv, Types, Held, CallerRunsCallback
<1> QED
  BY <1>1, <1>2, <1>3, <1>4 DEF Inv

\* The application frees the future.
LEMMA FreePreserves ==
  ASSUME Inv, Free
  PROVE  Inv'
  BY DEF Inv, Types, SetFirst, OneRunner, OnlyAccepted, NotLost, Held, Free

\* Every step of a future keeps the invariant.
LEMMA InvNext == Inv /\ [Next]_vars => Inv'
<1> SUFFICES ASSUME Inv, [Next]_vars PROVE Inv'
  OBVIOUS
<1>1. CASE \E t \in Waiting : WaitStep(t) \/ WakesSpuriously(t) \/ WaitForTimesOut(t)
  BY <1>1, WaitingPreserves
<1>2. CASE SetStep
  BY <1>2, InternalSetPreserves, SetterRunsPreserves, SetterReleasesPreserves DEF SetStep
<1>3. CASE WorkStep
  BY <1>3, OnWorkPreserves, OnAfterWorkPreserves DEF WorkStep
<1>4. CASE \E c \in Callers : CallStep(c)
  BY <1>4, SetCallbackPreserves, CallerRunsPreserves DEF CallStep
<1>5. CASE Free
  BY <1>5, FreePreserves
<1>6. CASE Done \/ UNCHANGED vars
  <2>1. UNCHANGED <<is_set, callback, setter, waiter, caller, work, runs, refs>>
    BY <1>6 DEF Done, vars
  <2> QED
    BY <2>1 DEF Inv, Types, SetFirst, OneRunner, OnlyAccepted, NotLost, Held
<1> QED
  BY <1>1, <1>2, <1>3, <1>4, <1>5, <1>6 DEF Next

\* The invariant holds for every future.
LEMMA InvAlways == Spec => []Inv
  BY InvInit, InvNext, PTL DEF Spec

\* set_callback and set may race in any way: the callback that was accepted
\* runs at most once, no other one runs, and none before the value is there.
THEOREM CallbackRunsAtMostOnce == Spec => []CallbackAtMostOnce
<1>1. Inv => CallbackAtMostOnce
  BY DEF Inv, Types, SetFirst, OneRunner, CallbackAtMostOnce
<1> QED
  BY <1>1, InvAlways, PTL

\* Whatever order the application, the setter and the work thread let go in,
\* the future is alive while one of them may touch it, and when it is deleted
\* the callback that was accepted has run.
THEOREM FutureOutlivesItsUsers == Spec => []AliveWhileUsed
<1>1. Inv => AliveWhileUsed
  BY DEF Inv, Types, NotLost, Held, AliveWhileUsed
<1> QED
  BY <1>1, InvAlways, PTL
=============================================================================
