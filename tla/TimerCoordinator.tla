--------------------------- MODULE TimerCoordinator ---------------------------
(***************************************************************************)
(* The timer service of the dictation server                               *)
(* (voice_typer/server/timer_coordinator.py).  Any thread schedules a      *)
(* one-shot callback; start, stop and cancel of a recording call           *)
(* _cancel_pending_timers so that callbacks of the previous dictation      *)
(* (a delayed "tray back to IDLE", a zero-delay auto-stop) do not act on   *)
(* the next one.  A callback captures the timer generation when it is      *)
(* scheduled and is skipped when the generation has moved on.              *)
(*                                                                         *)
(* Critical sections under _pending_timers_lock are single steps; what the *)
(* code does outside the lock (the first check, the shutdown check,        *)
(* timer.cancel() and the callback itself) are steps of their own.         *)
(***************************************************************************)
EXTENDS Naturals, FiniteSets

CONSTANTS
    Timers,     \* one element per call of _schedule_timer
    Delayed,    \* the calls with delay > 0 (a threading.Timer, kept in the list)
    MaxCancels  \* bound on calls of _cancel_pending_timers

ASSUME TimersAssumption  == Delayed \subseteq Timers
ASSUME CancelsAssumption == MaxCancels \in Nat

VARIABLES
    generation,   \* _timer_generation
    pending,      \* _pending_timers: the threading.Timer objects in the list
    captured,     \* gen, as captured by each timer's guarded_func
    stage,        \* how far each timer has come
    toCancel,     \* timers a canceller took from the list and has yet to cancel()
    cancelled,    \* timers whose cancel() has been called
    shuttingDown  \* app._shutting_down_event

vars == <<generation, pending, captured, stage, toCancel, cancelled, shuttingDown>>

(* "armed": scheduled, waiting for the delay.  "entered": guarded_func has   *)
(* begun.  "checked": past the unlocked generation and shutdown checks.      *)
(* "cleared": past the re-check under the lock, func() not yet called.       *)
(* "suppressed": func() will never be called.                                *)
Stages == {"unscheduled", "armed", "entered", "checked", "cleared", "ran", "suppressed"}

TypeOK ==
    /\ generation \in Nat
    /\ pending \subseteq Delayed
    /\ captured \in [Timers -> Nat]
    /\ stage \in [Timers -> Stages]
    /\ toCancel \subseteq Delayed
    /\ cancelled \subseteq Delayed
    /\ shuttingDown \in BOOLEAN

Init ==
    /\ generation = 0
    /\ pending = {}
    /\ captured = [t \in Timers |-> 0]
    /\ stage = [t \in Timers |-> "unscheduled"]
    /\ toCancel = {}
    /\ cancelled = {}
    /\ shuttingDown = FALSE

Advance(t, from, to) ==
    /\ stage[t] = from
    /\ stage' = [stage EXCEPT ![t] = to]

-----------------------------------------------------------------------------

(* Bug form of Schedule: the generation is read before the lock is taken, so *)
(* a concurrent cancel may come between the read and the append.             *)
ScheduleReadsEarly(t) ==
    /\ Advance(t, "unscheduled", "armed")
    /\ \E g \in {generation, IF generation = 0 THEN 0 ELSE generation - 1} :
          captured' = [captured EXCEPT ![t] = g]
    /\ pending' = IF t \in Delayed THEN pending \cup {t} ELSE pending
    /\ UNCHANGED <<generation, toCancel, cancelled, shuttingDown>>

(* Bug form of Schedule: the zero-delay thread is put in the list too.       *)
ScheduleListsAll(t) ==
    /\ Advance(t, "unscheduled", "armed")
    /\ captured' = [captured EXCEPT ![t] = generation]
    /\ pending' = pending \cup {t}
    /\ UNCHANGED <<generation, toCancel, cancelled, shuttingDown>>

(* _schedule_timer: generation capture and list append in one section.       *)
(* A zero-delay call starts a bare thread that is never in the list.         *)
Schedule(t) ==
    /\ Advance(t, "unscheduled", "armed")
    /\ captured' = [captured EXCEPT ![t] = generation]
    /\ pending' = IF t \in Delayed THEN pending \cup {t} ELSE pending
    /\ UNCHANGED <<generation, toCancel, cancelled, shuttingDown>>

(* The delay is over: threading.Timer calls its function unless cancel()     *)
(* was called; a cancelled timer wakes at once and ends.                     *)
Expire(t) ==
    /\ Advance(t, "armed", IF t \in cancelled THEN "suppressed" ELSE "entered")
    /\ UNCHANGED <<generation, pending, captured, toCancel, cancelled, shuttingDown>>

(* Bug form of FirstCheck: the list is asked instead of the generation, and   *)
(* the thread of a call without delay was never in it.                       *)
FirstCheckAsksList(t) ==
    /\ Advance(t, "entered",
               IF t \in pending /\ ~shuttingDown THEN "checked" ELSE "suppressed")
    /\ UNCHANGED <<generation, pending, captured, toCancel, cancelled, shuttingDown>>

(* guarded_func, before it takes the lock.                                   *)
FirstCheck(t) ==
    /\ Advance(t, "entered",
               IF captured[t] = generation /\ ~shuttingDown THEN "checked" ELSE "suppressed")
    /\ UNCHANGED <<generation, pending, captured, toCancel, cancelled, shuttingDown>>

(* Bug form of Recheck: no second look at the generation under the lock.     *)
RecheckDropped(t) ==
    /\ Advance(t, "checked", "cleared")
    /\ pending' = pending \ {t}
    /\ UNCHANGED <<generation, captured, toCancel, cancelled, shuttingDown>>

(* guarded_func, under the lock: re-check and leave the list.                *)
Recheck(t) ==
    /\ \/ /\ captured[t] = generation
          /\ Advance(t, "checked", "cleared")
          /\ pending' = pending \ {t}
       \/ /\ captured[t] # generation
          /\ Advance(t, "checked", "suppressed")
          /\ UNCHANGED pending
    /\ UNCHANGED <<generation, captured, toCancel, cancelled, shuttingDown>>

(* func(), after the lock is released.                                       *)
RunCallback(t) ==
    /\ Advance(t, "cleared", "ran")
    /\ UNCHANGED <<generation, pending, captured, toCancel, cancelled, shuttingDown>>

(* _cancel_pending_timers, the section under the lock.                       *)
CancelPending ==
    /\ generation < MaxCancels
    /\ generation' = generation + 1
    /\ toCancel' = toCancel \cup pending
    /\ pending' = {}
    /\ UNCHANGED <<captured, stage, cancelled, shuttingDown>>

(* _cancel_pending_timers, the loop after it.                                *)
CancelTimer(t) ==
    /\ t \in toCancel
    /\ toCancel' = toCancel \ {t}
    /\ cancelled' = cancelled \cup {t}
    /\ UNCHANGED <<generation, pending, captured, stage, shuttingDown>>

(* The shutdown controller sets the event; nothing clears it.                *)
BeginShutdown ==
    /\ ~shuttingDown
    /\ shuttingDown' = TRUE
    /\ UNCHANGED <<generation, pending, captured, stage, toCancel, cancelled>>

TimerThread(t) == Expire(t) \/ FirstCheck(t) \/ Recheck(t) \/ RunCallback(t)

Next ==
    \/ \E t \in Timers : Schedule(t) \/ TimerThread(t) \/ CancelTimer(t)
    \/ CancelPending
    \/ BeginShutdown

Spec == Init /\ [][Next]_vars

(* A started timer thread runs when it can.                                  *)
FairSpec == Spec /\ \A t \in Timers : WF_vars(TimerThread(t))

-----------------------------------------------------------------------------

(* No timer escapes cancellation: a timer that may still run its callback    *)
(* and belongs to the current generation is in the list the next cancel      *)
(* takes, and the list holds timers of the current generation only, none of  *)
(* which has been let through already (the contract argued in the docstring  *)
(* of _schedule_timer).                                                      *)
NothingEscapesCancel ==
    /\ \A t \in Delayed :
          stage[t] \in {"armed", "entered", "checked"} /\ captured[t] = generation
             => t \in pending
    /\ \A t \in pending : captured[t] = generation /\ stage[t] \notin {"cleared", "ran"}

(* A timer leaves guarded_func towards its callback only in the generation   *)
(* it was scheduled in, and a timer whose cancel() was called while it was   *)
(* waiting never does: it was taken from the list by a cancel.               *)
OnlyCurrentIsCleared ==
    [][\A t \in Timers :
          stage[t] # "cleared" /\ stage'[t] = "cleared"
             => captured[t] = generation /\ t \notin cancelled]_vars

(* What the class docstring promises of the generation guard: a callback     *)
(* scheduled before the most recent cancel does not start.                   *)
NoStaleCallback ==
    [][\A t \in Timers :
          stage[t] # "ran" /\ stage'[t] = "ran" => captured[t] = generation]_vars

(* A callback is not lost to a cancel it does not belong to: a timer that    *)
(* waits in its own generation runs its callback, unless a cancel comes      *)
(* after it, or the shutdown.  In particular not because a canceller is      *)
(* still in the loop that cancels what it took in an earlier generation      *)
(* ("legitimate run" in the docstring of _schedule_timer).                   *)
CurrentCallbackRuns ==
    \A t \in Timers :
        stage[t] = "armed" /\ captured[t] = generation
          ~> stage[t] = "ran" \/ captured[t] < generation \/ shuttingDown
=============================================================================
