------------------------------- MODULE Future -------------------------------
(***************************************************************************)
(* A future of the driver (future.hpp, future.cpp): set by one thread,     *)
(* waited for and given a callback by others.  What a call does under      *)
(* mutex_ is one step; the callback runs after the mutex was released, on  *)
(* the thread that finds both the callback and the value, or on a thread   *)
(* of libuv's pool when the future has a loop.  A condition variable may   *)
(* wake a waiter for no reason.                                            *)
(***************************************************************************)
EXTENDS Integers, FiniteSets

CONSTANTS
  Waiters,       \* threads in cass_future_wait
  TimedWaiters,  \* threads in cass_future_wait_timed
  Callers,       \* threads in cass_future_set_callback, each with its callback
  HasLoop,       \* may set_loop have been called, so that callbacks go to a work thread?
  NoCallback     \* callback_ is NULL

ASSUME FutureAssumption ==
  /\ IsFiniteSet(Waiters \cup TimedWaiters \cup Callers)
  /\ Waiters \cap TimedWaiters = {}
  /\ HasLoop \subseteq BOOLEAN
  /\ NoCallback \notin Callers

VARIABLES
  is_set,     \* is_set_
  callback,   \* callback_
  setter,     \* the thread that sets the future
  waiter,     \* waiting thread -> where it is
  caller,     \* thread in set_callback -> where it is
  work,       \* the uv_work_t of run_callback_on_work_thread
  runs,       \* callback -> how often it ran
  refs        \* the references: of the application, of the setter, of the work

vars == <<is_set, callback, setter, waiter, caller, work, runs, refs>>

Waiting == Waiters \cup TimedWaiters

Init ==
  /\ is_set = FALSE /\ callback = NoCallback
  /\ setter = "start" /\ work = "none"
  /\ waiter = [t \in Waiting |-> "start"]
  /\ caller = [c \in Callers |-> "start"]
  /\ runs = [c \in Callers |-> 0]
  /\ refs = {"application", "setter"}

----------------------------------------------------------------------------
(* Waiting *)

\* internal_wait and internal_wait_for up to the condition variable.
Wait(t) ==
  /\ waiter[t] = "start"
  /\ waiter' = [waiter EXCEPT ![t] = IF is_set THEN "true" ELSE "waiting"]
  /\ UNCHANGED <<is_set, callback, setter, caller, work, runs, refs>>

\* uv_cond_wait returns though nobody signalled.
WakesSpuriously(t) ==
  /\ waiter[t] = "waiting"
  /\ waiter' = [waiter EXCEPT ![t] = "woken"]
  /\ UNCHANGED <<is_set, callback, setter, caller, work, runs, refs>>

\* internal_wait: while (!is_set_).
WaitChecks(t) ==
  /\ t \in Waiters /\ waiter[t] = "woken"
  /\ waiter' = [waiter EXCEPT ![t] = IF is_set THEN "true" ELSE "waiting"]
  /\ UNCHANGED <<is_set, callback, setter, caller, work, runs, refs>>

\* internal_wait_for: whatever woke it, the call returns is_set_.
WaitForReturns(t) ==
  /\ t \in TimedWaiters /\ waiter[t] = "woken"
  /\ waiter' = [waiter EXCEPT ![t] = IF is_set THEN "true" ELSE "false"]
  /\ UNCHANGED <<is_set, callback, setter, caller, work, runs, refs>>

\* uv_cond_timedwait reports a timeout.
WaitForTimesOut(t) ==
  /\ t \in TimedWaiters /\ waiter[t] = "waiting"
  /\ waiter' = [waiter EXCEPT ![t] = "false"]
  /\ UNCHANGED <<is_set, callback, setter, caller, work, runs, refs>>

----------------------------------------------------------------------------
(* Setting, and callbacks *)

Broadcast ==
  waiter' = [t \in Waiting |-> IF waiter[t] = "waiting" THEN "woken" ELSE waiter[t]]

\* Faulty: the work holds no reference.
InternalSetWithoutRef ==
  /\ setter = "start"
  /\ is_set' = TRUE
  /\ Broadcast
  /\ setter' = "set"
  /\ work' = IF callback = NoCallback THEN "none" ELSE "queued"
  /\ UNCHANGED <<callback, caller, runs, refs>>

\* internal_set: the callback is run after the mutex was released, or queued.
InternalSet ==
  /\ setter = "start"
  /\ is_set' = TRUE
  /\ Broadcast
  /\ \/ /\ callback = NoCallback
        /\ setter' = "set"
        /\ UNCHANGED <<work, refs>>
     \/ /\ callback # NoCallback /\ FALSE \in HasLoop
        /\ setter' = "callback"
        /\ UNCHANGED <<work, refs>>
     \/ /\ callback # NoCallback /\ TRUE \in HasLoop
        /\ setter' = "set"
        /\ work' = "queued"
        /\ refs' = refs \cup {"work"}
  /\ UNCHANGED <<callback, caller, runs>>

Run(c) == runs' = [runs EXCEPT ![c] = @ + 1]

SetterRunsCallback ==
  /\ setter = "callback"
  /\ Run(callback)
  /\ setter' = "set"
  /\ UNCHANGED <<is_set, callback, waiter, caller, work, refs>>

\* The request handler, or the session, lets go of the future.
SetterReleases ==
  /\ setter = "set"
  /\ setter' = "done"
  /\ refs' = refs \ {"setter"}
  /\ UNCHANGED <<is_set, callback, waiter, caller, work, runs>>

\* on_work, on a thread of the pool.
OnWork ==
  /\ work = "queued"
  /\ Run(callback)
  /\ work' = "ran"
  /\ UNCHANGED <<is_set, callback, setter, waiter, caller, refs>>

OnAfterWork ==
  /\ work = "ran"
  /\ work' = "done"
  /\ refs' = refs \ {"work"}
  /\ UNCHANGED <<is_set, callback, setter, waiter, caller, runs>>

\* Faulty: a second callback replaces the first.
SetCallbackAgain(c) ==
  /\ caller[c] = "start" /\ "application" \in refs
  /\ callback' = c
  /\ caller' = [caller EXCEPT ![c] = IF is_set THEN "callback" ELSE "accepted"]
  /\ UNCHANGED <<is_set, setter, waiter, work, runs, refs>>

\* Faulty: left to the thread that sets the future, which may have done so.
SetCallbackOnly(c) ==
  /\ caller[c] = "start" /\ "application" \in refs
  /\ callback' = IF callback = NoCallback THEN c ELSE callback
  /\ caller' = [caller EXCEPT ![c] = IF callback = NoCallback THEN "accepted" ELSE "refused"]
  /\ UNCHANGED <<is_set, setter, waiter, work, runs, refs>>

\* set_callback: refused when there is one; run here when the value is there.
SetCallback(c) ==
  /\ caller[c] = "start" /\ "application" \in refs
  /\ \/ /\ callback # NoCallback
        /\ caller' = [caller EXCEPT ![c] = "refused"]
        /\ UNCHANGED callback
     \/ /\ callback = NoCallback
        /\ callback' = c
        /\ caller' = [caller EXCEPT ![c] = IF is_set THEN "callback" ELSE "accepted"]
  /\ UNCHANGED <<is_set, setter, waiter, work, runs, refs>>

CallerRunsCallback(c) ==
  /\ caller[c] = "callback"
  /\ Run(c)
  /\ caller' = [caller EXCEPT ![c] = "accepted"]
  /\ UNCHANGED <<is_set, callback, setter, waiter, work, refs>>

\* cass_future_free, after the application's own calls have returned.
Free ==
  /\ "application" \in refs
  /\ \A t \in Waiting : waiter[t] \in {"true", "false"}
  /\ \A c \in Callers : caller[c] \in {"accepted", "refused"}
  /\ refs' = refs \ {"application"}
  /\ UNCHANGED <<is_set, callback, setter, waiter, caller, work, runs>>

----------------------------------------------------------------------------
Done == refs = {} /\ UNCHANGED vars

WaitStep(t) == Wait(t) \/ WaitChecks(t) \/ WaitForReturns(t)
SetStep == InternalSet \/ SetterRunsCallback \/ SetterReleases
WorkStep == OnWork \/ OnAfterWork
CallStep(c) == SetCallback(c) \/ CallerRunsCallback(c)

Next ==
  \/ \E t \in Waiting : WaitStep(t) \/ WakesSpuriously(t) \/ WaitForTimesOut(t)
  \/ SetStep \/ WorkStep
  \/ \E c \in Callers : CallStep(c)
  \/ Free
  \/ Done

\* The threads run, and the future is set some day (Session).
Fairness ==
  /\ \A t \in Waiting : WF_vars(WaitStep(t))
  /\ WF_vars(SetStep) /\ WF_vars(WorkStep)
  /\ \A c \in Callers : WF_vars(CallStep(c))

Spec == Init /\ [][Next]_vars /\ Fairness

----------------------------------------------------------------------------
(* Properties *)

\* Whichever thread comes first, the callback that was accepted runs at most
\* once, no other runs, and none runs before the value is there.
CallbackAtMostOnce ==
  \A c \in Callers :
    /\ runs[c] <= 1
    /\ runs[c] = 1 => is_set /\ callback = c

\* The future is alive while a thread other than the application's may still
\* touch it, and freed when nobody can: cass_future_free needs no waiting.
AliveWhileUsed ==
  /\ setter \in {"start", "callback", "set"} => refs # {}
  /\ work \in {"queued", "ran"} => refs # {}
  /\ refs = {} => \A c \in Callers : caller[c] = "accepted" => runs[c] = 1

\* A callback that was accepted runs: it does not fall between the thread that
\* sets the future and the one that sets the callback.
AcceptedCallbackRuns ==
  \A c \in Callers : caller[c] = "accepted" ~> runs[c] = 1

\* cass_future_wait returns, whatever the condition variable does.
WaitersReturn == \A t \in Waiters : waiter[t] = "waiting" ~> waiter[t] = "true"

=============================================================================
