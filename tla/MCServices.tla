----------------------------- MODULE MCServices -----------------------------
(***************************************************************************)
(* The timers, the device side of the recorder and its capture side, each  *)
(* on its own, in one run.                                                 *)
(***************************************************************************)
EXTENDS TimerCoordinator, RecorderDevice, RecorderCapture

CONSTANTS tray, bubble, autostop,   \* the timers: two delayed ones, and a callback at once
          h1, h2                    \* the threads of spawn_device_thread

MCTimers   == {tray, bubble, autostop}
MCDelayed  == {tray, bubble}
MCHandlers == {h1, h2}

(* Three detections in one recording, or one in the first of two recordings. *)
DeviceLimits == {[starts |-> 1, notices |-> 3], [starts |-> 2, notices |-> 1]}

VARIABLE part   \* the component this behaviour is one of

(* Each behaviour is one of one component; the variables of the others stay  *)
(* as they are.                                                              *)
Parts == {"timer", "device", "capture"}

ServicesInit ==
    /\ part \in Parts
    /\ Init
    /\ DeviceInit
    /\ CaptureInit

allParts == <<part, vars, deviceVars, captureVars>>

OnlyTimer == part = "timer" /\ UNCHANGED <<part, deviceVars, captureVars>>
OnlyDevice == part = "device" /\ UNCHANGED <<part, vars, captureVars>>
OnlyCapture == part = "capture" /\ UNCHANGED <<part, vars, deviceVars>>

ServicesNext ==
    \/ OnlyTimer /\ Next
    \/ OnlyDevice /\ DeviceNext
    \/ OnlyCapture /\ CaptureNext

(* The fairness of each component (see there), of its behaviours only.       *)
ServicesFairness ==
    /\ \A t \in Timers :
         /\ WF_allParts(OnlyTimer /\ TimerThread(t))
    /\ WF_allParts(OnlyDevice /\ CallerSteps)
    /\ \A d \in Detectors :
         /\ WF_allParts(OnlyDevice /\ Marks(d))
         /\ WF_allParts(OnlyDevice /\ Spawn(d))
    /\ \A h \in Handlers :
         /\ WF_allParts(OnlyDevice /\ HandlerSteps(h))
    /\ WF_allParts(OnlyCapture /\ CallerStep)
    /\ \A w \in Sessions :
         /\ WF_allParts(OnlyCapture /\ WorkerSteps(w))

ServicesSpec == ServicesInit /\ [][ServicesNext]_allParts /\ ServicesFairness

-----------------------------------------------------------------------------
(* The properties of the components have their names already, but for the    *)
(* answer to a loss (see LossIsAnswered and HandlersEnd) and the types.      *)
LossIsSettled == LossIsAnswered /\ HandlersEnd
ServicesTypeOK == TypeOK /\ DeviceTypeOK /\ CaptureTypeOK
=============================================================================
