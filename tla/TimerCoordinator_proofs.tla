----------------------- MODULE TimerCoordinator_proofs -----------------------
(***************************************************************************)
(* Proofs about TimerCoordinator for every set of timers and every number  *)
(* of cancels.  The inductive invariant is TypeOK, the relation between    *)
(* the list and the generation (NothingEscapesCancel), the fact that a     *)
(* timer is only ever cancelled after its generation has passed, and that  *)
(* one that ended without its callback was stale, or the shutdown began.   *)
(***************************************************************************)
EXTENDS TimerCoordinator, TLAPS

(* A timer that a canceller holds, or has cancelled, belongs to an earlier   *)
(* generation; generations only grow.                                        *)
CancelledIsStale ==
    \A t \in toCancel \cup cancelled : captured[t] < generation

(* A timer that has not been scheduled is in none of the sets.               *)
UnscheduledIsFree ==
    \A t \in Timers :
        /\ captured[t] <= generation
        /\ stage[t] = "unscheduled" => t \notin pending \cup toCancel \cup cancelled

(* What guarded_func or cancel() keeps from running is stale.                *)
SuppressedIsStale ==
    \A t \in Timers : stage[t] = "suppressed" => captured[t] < generation \/ shuttingDown

IInv == /\ TypeOK /\ NothingEscapesCancel /\ CancelledIsStale
        /\ UnscheduledIsFree /\ SuppressedIsStale

-----------------------------------------------------------------------------

LEMMA InitInv == Init => IInv
  <1> SUFFICES ASSUME Init PROVE IInv
    OBVIOUS
  <1> USE TimersAssumption DEF Init
  <1>1. TypeOK
    BY DEF TypeOK, Stages
  <1>2. NothingEscapesCancel
    BY DEF NothingEscapesCancel
  <1>3. CancelledIsStale
    BY DEF CancelledIsStale
  <1>4. UnscheduledIsFree
    BY DEF UnscheduledIsFree
  <1>5. SuppressedIsStale
    BY DEF SuppressedIsStale
  <1> QED
    BY <1>1, <1>2, <1>3, <1>4, <1>5 DEF IInv

LEMMA NextInv == IInv /\ [Next]_vars => IInv'
  <1> SUFFICES ASSUME IInv, [Next]_vars PROVE IInv'
    OBVIOUS
  <1> USE TimersAssumption, CancelsAssumption
      DEF IInv, TypeOK, NothingEscapesCancel, CancelledIsStale, UnscheduledIsFree,
          SuppressedIsStale, Stages
  <1>1. CASE \E t \in Timers : Schedule(t)
    BY <1>1 DEF Schedule, Advance
  <1>2. CASE \E t \in Timers : Expire(t)
    BY <1>2 DEF Expire, Advance
  <1>3. CASE \E t \in Timers : FirstCheck(t)
    BY <1>3 DEF FirstCheck, Advance
  <1>4. CASE \E t \in Timers : Recheck(t)
    BY <1>4 DEF Recheck, Advance
  <1>5. CASE \E t \in Timers : RunCallback(t)
    BY <1>5 DEF RunCallback, Advance
  <1>6. CASE \E t \in Timers : CancelTimer(t)
    BY <1>6 DEF CancelTimer
  <1>7. CASE CancelPending
    BY <1>7 DEF CancelPending
  <1>8. CASE BeginShutdown
    BY <1>8 DEF BeginShutdown
  <1>9. CASE UNCHANGED vars
    BY <1>9 DEF vars
  <1> QED
    BY <1>1, <1>2, <1>3, <1>4, <1>5, <1>6, <1>7, <1>8, <1>9 DEF Next, TimerThread

LEMMA Invariance == Spec => []IInv
  BY InitInv, NextInv, PTL DEF Spec

-----------------------------------------------------------------------------

(* The list and the generation agree in every reachable state: what          *)
(* _cancel_pending_timers takes from the list is exactly what could still    *)
(* run in the current generation.                                            *)
THEOREM NothingEscapes == Spec => []NothingEscapesCancel
  <1>1. IInv => NothingEscapesCancel
    BY DEF IInv
  <1> QED
    BY <1>1, Invariance, PTL

(* No callback is lost to a cancel it does not belong to: what is kept from  *)
(* running was scheduled before a later cancel, or meets the shutdown.  It   *)
(* is the safety half of CurrentCallbackRuns.                                *)
THEOREM OnlyStaleIsSuppressed == Spec => []SuppressedIsStale
  <1>1. IInv => SuppressedIsStale
    BY DEF IInv
  <1> QED
    BY <1>1, Invariance, PTL

(* guarded_func lets a callback through only in the generation it was        *)
(* scheduled in, and never once cancel() was called on its timer.            *)
THEOREM OnlyCurrentCleared == Spec => OnlyCurrentIsCleared
  <1> DEFINE A == \A t \in Timers :
                     stage[t] # "cleared" /\ stage'[t] = "cleared"
                       => captured[t] = generation /\ t \notin cancelled
  <1>1. IInv /\ [Next]_vars => [A]_vars
    <2> SUFFICES ASSUME IInv, Next, NEW t \in Timers,
                        stage[t] # "cleared", stage'[t] = "cleared"
                 PROVE  captured[t] = generation /\ t \notin cancelled
      OBVIOUS
    <2>1. Recheck(t) /\ captured[t] = generation
      <3>1. PICK u \in Timers : Schedule(u) \/ TimerThread(u) \/ CancelTimer(u)
        BY DEF Next, CancelPending, BeginShutdown
      <3> QED
        BY <3>1 DEF IInv, TypeOK, Stages, TimerThread, Schedule, Expire, FirstCheck, Recheck,
                    RunCallback, CancelTimer, Advance
    <2> QED
      BY <2>1 DEF IInv, TypeOK, CancelledIsStale
  <1> QED
    BY <1>1, Invariance, PTL DEF Spec, OnlyCurrentIsCleared
=============================================================================
