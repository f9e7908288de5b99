----------------------- MODULE DictationLifecycle_proofs -----------------------
(***************************************************************************)
(* Proofs about DictationLifecycle, for any number of recordings, workers  *)
(* and cycles.  What holds in every environment comes first; the theorems  *)
(* of the second half hold of calm environments, and the runs show each of *)
(* them to fail without that assumption.                                   *)
(***************************************************************************)
EXTENDS DictationLifecycle, TLAPS

LEMMA InitType == Init => TypeOK
  <1> SUFFICES ASSUME Init PROVE TypeOK
    OBVIOUS
  <1>1. ControlType
    <2>1. lock = "free" /\ busy \in BOOLEAN /\ cycle = 0 /\ cancelledIds = {} /\ auto = "none"
      BY DEF Init
    <2> QED
      BY <2>1, BoundsAssumption DEF ControlType
  <1>2. CaptureType
    <2>1. recording \in BOOLEAN /\ recordings = 0 /\ buf = 0 /\ spc = [r \in Recordings |-> "none"]
      BY DEF Init, Nobody
    <2> QED
      BY <2>1, BoundsAssumption DEF CaptureType, StartPcs, Nobody
  <1>3. WorkerType
    <2>1. /\ tpc = [w \in Workers |-> "none"] /\ wcycle = [w \in Workers |-> 0]
          /\ waudio = [w \in Workers |-> 0] /\ handle = 0 /\ pasted = {}
      BY DEF Init, Nobody
    <2> QED
      BY <2>1, BoundsAssumption DEF WorkerType, WorkerPcs, Nobody
  <1>4. WatchdogType
    <2>1. /\ wdThread = 0 /\ wdStop \in BOOLEAN /\ wdEvent \in BOOLEAN /\ firings = 0
          /\ rpc = [x \in Recoverers |-> "off"] /\ wjoin = [w \in Workers |-> 0]
          /\ rjoin = [x \in Recoverers |-> 0]
      BY DEF Init, Nobody
    <2> QED
      BY <2>1, BoundsAssumption DEF WatchdogType, RecoverPcs, Nobody
  <1> QED
    BY <1>1, <1>2, <1>3, <1>4 DEF TypeOK

(* What a step leaves alone keeps its type.                                  *)
LEMMA TypeFrame ==
  ASSUME TypeOK
  PROVE  /\ UNCHANGED controlVars => ControlType'
         /\ UNCHANGED <<captureVars, spc>> => CaptureType'
         /\ UNCHANGED workerVars => WorkerType'
         /\ UNCHANGED watchdogVars => WatchdogType'
  BY DEF TypeOK, controlVars, ControlType, captureVars, CaptureType, workerVars, WorkerType,
         watchdogVars, WatchdogType

(* The controls are set by the entries, and the flag, the lock and the marks *)
(* by some of the threads.                                                   *)
LEMMA ControlStep ==
  ASSUME TypeOK,
         lock' \in {"free", "start", "cancel", "discarded", "recover"},
         busy' \in BOOLEAN,
         cycle' = cycle \/ (cycle < MaxCycle /\ cycle' = cycle + 1),
         cancelledIds' \subseteq cancelledIds \cup {cycle},
         auto' \in {"none", "scheduled", "committed"}
  PROVE  ControlType'
  <1>1. cycle \in 0 .. MaxCycle /\ cancelledIds \subseteq 0 .. MaxCycle
    BY DEF TypeOK, ControlType
  <1>2. cycle' \in 0 .. MaxCycle
    BY <1>1, BoundsAssumption
  <1> QED
    BY <1>1, <1>2 DEF ControlType

(* A Transcription worker walks.                                             *)
LEMMA WorkerStep ==
  ASSUME TypeOK, NEW w \in Workers, NEW from, NEW to \in WorkerPcs, WStep(w, from, to),
         waudio' \in [Workers -> Recordings \cup {Nobody}],
         handle' \in Workers \cup {Nobody}, pasted' \subseteq Workers,
         UNCHANGED wcycle
  PROVE  WorkerType'
  BY DEF TypeOK, WorkerType, WStep

(* A watchdog thread or a forced recovery walks.                             *)
LEMMA RecovererStep ==
  ASSUME TypeOK, NEW x \in Recoverers, NEW from, NEW to \in RecoverPcs, RStep(x, from, to),
         wdThread' \in Watchdogs \cup {Nobody}, wdStop' \in BOOLEAN, wdEvent' \in BOOLEAN,
         firings' \in 0 .. MaxFirings, UNCHANGED wjoin,
         rjoin' \in [Recoverers -> Watchdogs \cup {Nobody}]
  PROVE  WatchdogType'
  BY DEF TypeOK, WatchdogType, RStep

(* The entries keep the types.                                               *)
LEMMA StopType ==
  ASSUME TypeOK, NEW id \in 0 .. MaxCycle, StopWith(id)
  PROVE  WorkerType' /\ busy' \in BOOLEAN /\ UNCHANGED <<lock, cancelledIds, captureVars, spc, watchdogVars>>
  <1>1. PICK w \in Workers : /\ WStep(w, "none", "stop")
                             /\ wcycle' = [wcycle EXCEPT ![w] = id]
                             /\ handle' = w
    BY DEF StopWith
  <1>2. UNCHANGED <<waudio, pasted>>
    BY DEF StopWith
  <1>3. "stop" \in WorkerPcs
    BY DEF WorkerPcs, InFlightPcs
  <1>4. WorkerType'
    BY <1>1, <1>2, <1>3 DEF TypeOK, WorkerType, WStep
  <1> QED
    BY <1>4 DEF StopWith

LEMMA EntriesType == TypeOK /\ Entries => TypeOK'
  <1> SUFFICES ASSUME TypeOK, Entries PROVE TypeOK'
    OBVIOUS
  <1>t. /\ lock \in {"free", "start", "cancel", "discarded", "recover"} /\ busy \in BOOLEAN
        /\ cycle \in 0 .. MaxCycle /\ auto \in {"none", "scheduled", "committed"}
    BY DEF TypeOK, ControlType
  <1>0. auto' = auto \/ CancelTimers => auto' \in {"none", "scheduled", "committed"}
    BY <1>t DEF CancelTimers
  <1> USE TypeFrame
  <1>1. CASE StartRefused \/ StartOpens \/ QueuedStart \/ StartFails
    <2>1. ControlType'
      <3>1. /\ lock' \in {lock, "start"} /\ UNCHANGED <<busy, cancelledIds>>
            /\ auto' = auto \/ CancelTimers
            /\ cycle' = cycle \/ (cycle < MaxCycle /\ cycle' = cycle + 1)
        BY <1>1 DEF StartRefused, StartOpens, QueuedStart, StartFails, ToggleCommits,
                    OpensRecording
      <3> QED
        BY <3>1, <1>0, <1>t, ControlStep
    <2>2. CaptureType'
      <3>1. CASE UNCHANGED <<captureVars, spc>>
        BY <3>1
      <3>2. CASE OpensRecording
        <4>1. recordings \in 0 .. MaxRecordings /\ recordings < MaxRecordings
          BY <3>2 DEF OpensRecording, TypeOK, CaptureType
        <4>2. recordings + 1 \in 0 .. MaxRecordings /\ recordings + 1 \in Recordings
          BY <4>1, BoundsAssumption DEF Recordings
        <4> QED
          BY <3>2, <4>2 DEF OpensRecording, TypeOK, CaptureType
      <3>3. CASE DiscardRecording /\ UNCHANGED spc
        BY <3>3 DEF DiscardRecording, TypeOK, CaptureType
      <3> QED
        BY <1>1, <3>1, <3>2, <3>3 DEF StartRefused, StartOpens, QueuedStart, StartFails
    <2>3. WorkerType' /\ WatchdogType'
      BY <1>1 DEF StartRefused, StartOpens, QueuedStart, StartFails, OpensRecording
    <2> QED
      BY <2>1, <2>2, <2>3 DEF TypeOK
  <1>2. CASE StartCommits
    <2>1. ControlType'
      BY <1>2, <1>t, ControlStep DEF StartCommits
    <2>2. CaptureType'
      BY <1>2 DEF StartCommits, SStep, TypeOK, CaptureType, captureVars, StartPcs
    <2> QED
      BY <1>2, <2>1, <2>2 DEF StartCommits, TypeOK
  <1>3. CASE \/ ToggleStops \/ ReleaseStops
             \/ AutoStopRuns /\ StopWith(cycle) /\ UNCHANGED cycle
    <2>1. PICK id \in 0 .. MaxCycle : /\ StopWith(id)
                                      /\ cycle' = cycle \/ (cycle < MaxCycle /\ cycle' = cycle + 1)
                                      /\ auto' = "none" \/ CancelTimers
      <3>1. CASE ToggleStops
        <4>1. cycle' = cycle + 1 /\ cycle < MaxCycle
          BY <3>1 DEF ToggleStops, ToggleCommits
        <4>2. cycle' \in 0 .. MaxCycle
          BY <4>1, <1>t, BoundsAssumption
        <4> QED
          BY <3>1, <4>1, <4>2 DEF ToggleStops
      <3>2. CASE ReleaseStops
        BY <3>2, <1>t DEF ReleaseStops
      <3>3. CASE AutoStopRuns /\ StopWith(cycle) /\ UNCHANGED cycle
        BY <3>3, <1>t DEF AutoStopRuns
      <3> QED
        BY <1>3, <3>1, <3>2, <3>3
    <2>2. /\ WorkerType' /\ busy' \in BOOLEAN
          /\ UNCHANGED <<lock, cancelledIds, captureVars, spc, watchdogVars>>
      BY <2>1, StopType
    <2>3. auto' \in {"none", "scheduled", "committed"}
      BY <2>1, <1>0
    <2>4. ControlType'
      BY <2>1, <2>2, <2>3, <1>t, ControlStep
    <2> QED
      BY <2>2, <2>4 DEF TypeOK
  <1>4. CASE \/ AutoStopScheduled \/ AutoStopCleared \/ CancelBegins \/ CancelFinishes
             \/ auto' = "none" /\ UNCHANGED <<lock, busy, cycle, cancelledIds, captureVars,
                                              spc, workerVars, watchdogVars>>
    <2>1. /\ lock' \in {lock, "cancel", "free"} /\ busy' \in {busy, FALSE}
          /\ UNCHANGED <<cycle, cancelledIds>>
          /\ UNCHANGED <<captureVars, spc, workerVars, watchdogVars>>
      BY <1>4 DEF AutoStopScheduled, AutoStopCleared, CancelBegins, CancelFinishes
    <2>2. auto' \in {auto, "none", "scheduled", "committed"}
      BY <1>4 DEF AutoStopScheduled, AutoStopCleared, CancelBegins, CancelFinishes,
                  CancelTimers
    <2>3. ControlType'
      <3>1. /\ lock' \in {"free", "start", "cancel", "discarded", "recover"}
            /\ busy' \in BOOLEAN /\ cycle' = cycle
            /\ cancelledIds' \subseteq cancelledIds \cup {cycle}
            /\ auto' \in {"none", "scheduled", "committed"}
        BY <2>1, <2>2, <1>t
      <3> QED
        BY <3>1, ControlStep
    <2> QED
      BY <2>1, <2>3, <1>t, TypeFrame DEF TypeOK
  <1>5. CASE CancelDiscards
    <2>1. ControlType'
      BY <1>5, <1>t, ControlStep DEF CancelDiscards
    <2>2. CaptureType'
      <3>1. CASE UNCHANGED captureVars /\ UNCHANGED spc
        BY <3>1
      <3>2. CASE DiscardRecording /\ UNCHANGED spc
        BY <3>2 DEF DiscardRecording, TypeOK, CaptureType
      <3> QED
        BY <1>5, <3>1, <3>2 DEF CancelDiscards
    <2> QED
      BY <1>5, <2>1, <2>2 DEF CancelDiscards, TypeOK
  <1>6. CASE CancelTranscription
    <2>1. ControlType'
      BY <1>6, <1>t, ControlStep DEF CancelTranscription
    <2>2. WatchdogType'
      <3>1. Esc \in Recoverers /\ "force" \in RecoverPcs
        BY DEF Recoverers, RecoverPcs
      <3> QED
        BY <1>6, <3>1, RecovererStep DEF CancelTranscription, TypeOK, WatchdogType
    <2> QED
      BY <1>6, <2>1, <2>2 DEF CancelTranscription, TypeOK
  <1> QED
    BY <1>1, <1>2, <1>3, <1>4, <1>5, <1>6 DEF Entries, AutoStopRuns

(* The DictationStart workers keep the types.                                *)
LEMMA StartWorkerType == TypeOK /\ (\E r \in Recordings : StartWorker(r)) => TypeOK'
  <1> SUFFICES ASSUME TypeOK, NEW r \in Recordings, StartWorker(r) PROVE TypeOK'
    OBVIOUS
  <1>1. ControlType' /\ WorkerType' /\ WatchdogType'
    BY TypeFrame DEF StartWorker, StartWorkerLoads, StartWorkerFails, FallbackDiscards,
                     StartWorkerTearsDown
  <1>2. spc' \in [Recordings -> StartPcs]
    BY DEF StartWorker, StartWorkerLoads, StartWorkerFails, FallbackDiscards,
           StartWorkerTearsDown, SStep, TypeOK, CaptureType, StartPcs
  <1>3. UNCHANGED captureVars \/ DiscardRecording
    BY DEF StartWorker, StartWorkerLoads, StartWorkerFails, FallbackDiscards,
           StartWorkerTearsDown
  <1>4. CaptureType'
    BY <1>2, <1>3 DEF captureVars, DiscardRecording, TypeOK, CaptureType
  <1> QED
    BY <1>1, <1>4 DEF TypeOK

(* The Transcription workers keep the types.                                 *)
LEMMA TranscriptionType == TypeOK /\ (\E w \in Workers : Infers(w) \/ PromptSteps(w) \/ WorkerErrs(w)) => TypeOK'
  <1> SUFFICES ASSUME TypeOK, NEW w \in Workers, Infers(w) \/ PromptSteps(w) \/ WorkerErrs(w) PROVE TypeOK'
    OBVIOUS
  <1>t. /\ lock \in {"free", "start", "cancel", "discarded", "recover"} /\ busy \in BOOLEAN
        /\ auto \in {"none", "scheduled", "committed"}
    BY DEF TypeOK, ControlType
  <1>1. ControlType'
    <2>1. /\ UNCHANGED <<lock, cycle, auto>> /\ busy' \in {busy, FALSE}
          /\ cancelledIds' \subseteq cancelledIds
      <3>1. CASE Infers(w) \/ WorkerErrs(w)
        BY <3>1 DEF controlVars, Infers, WorkerErrs, WorkerTakesSession, WorkerHasText, WorkerIsEmpty
      <3>2. CASE PromptSteps(w)
        BY <3>2 DEF controlVars, PromptSteps, WorkerStops, WorkerExports, WorkerStopFails,
            WorkerRefuses, WorkerReminds, WorkerDelivers, WorkerArms, WorkerIsGuarded,
            WorkerPastes, WorkerCannotCopy, WorkerSignals, WorkerJoins, WorkerPopsSession,
            WorkerGoesIdle, WorkerClears
      <3> QED
        BY <3>1, <3>2
    <2> QED
      BY <2>1, <1>t, ControlStep
  <1>2. CaptureType'
    <2>1. /\ UNCHANGED <<recordings, spc>> /\ recording' \in {recording, FALSE}
          /\ buf' \in {buf, Nobody}
      <3>1. CASE Infers(w) \/ WorkerErrs(w)
        BY <3>1 DEF captureVars, Infers, WorkerErrs, WorkerTakesSession, WorkerHasText, WorkerIsEmpty
      <3>2. CASE PromptSteps(w)
        BY <3>2 DEF captureVars, PromptSteps, WorkerStops, WorkerExports, WorkerStopFails,
            WorkerRefuses, WorkerReminds, WorkerDelivers, WorkerArms, WorkerIsGuarded,
            WorkerPastes, WorkerCannotCopy, WorkerSignals, WorkerJoins, WorkerPopsSession,
            WorkerGoesIdle, WorkerClears
      <3> QED
        BY <3>1, <3>2
    <2> QED
      BY <2>1 DEF TypeOK, CaptureType
  <1>3. WorkerType'
    <2>1. \E from, to \in WorkerPcs : WStep(w, from, to)
      <3>1. CASE Infers(w) \/ WorkerErrs(w)
        BY <3>1 DEF Infers, WorkerErrs, WorkerTakesSession, WorkerHasText, WorkerIsEmpty,
            WorkerPcs, InFlightPcs
      <3>2. CASE WorkerStops(w) \/ WorkerIsGuarded(w) \/ WorkerReminds(w)
        BY <3>2 DEF WorkerStops, WorkerIsGuarded, WorkerReminds, WorkerPcs, InFlightPcs
      <3>3. CASE PromptSteps(w)
        BY <3>2, <3>3 DEF PromptSteps, WorkerExports, WorkerStopFails,
            WorkerRefuses, WorkerDelivers, WorkerArms, WorkerPastes, WorkerCannotCopy,
            WorkerSignals, WorkerJoins, WorkerPopsSession, WorkerGoesIdle, WorkerClears,
            WorkerPcs, InFlightPcs
      <3> QED
        BY <3>1, <3>3
    <2>2. /\ UNCHANGED wcycle
          /\ waudio' \in {waudio, [waudio EXCEPT ![w] = buf]}
          /\ handle' \in {handle, Nobody} /\ pasted' \in {pasted, pasted \cup {w}}
      <3>1. CASE Infers(w) \/ WorkerErrs(w)
        BY <3>1 DEF Infers, WorkerErrs, WorkerTakesSession, WorkerHasText, WorkerIsEmpty
      <3>2. CASE PromptSteps(w)
        BY <3>2 DEF PromptSteps, WorkerStops, WorkerExports, WorkerStopFails,
            WorkerRefuses, WorkerReminds, WorkerDelivers, WorkerArms, WorkerIsGuarded,
            WorkerPastes, WorkerCannotCopy, WorkerSignals, WorkerJoins, WorkerPopsSession,
            WorkerGoesIdle, WorkerClears
      <3> QED
        BY <3>1, <3>2
    <2>3. /\ waudio' \in [Workers -> Recordings \cup {Nobody}]
          /\ handle' \in Workers \cup {Nobody} /\ pasted' \subseteq Workers
      BY <2>2 DEF TypeOK, CaptureType, WorkerType
    <2> QED
      BY <2>1, <2>2, <2>3, WorkerStep
  <1>4. WatchdogType'
    <2>t. /\ wdThread \in Watchdogs \cup {Nobody} /\ wdStop \in BOOLEAN /\ wdEvent \in BOOLEAN
          /\ firings \in 0 .. MaxFirings /\ rpc \in [Recoverers -> RecoverPcs]
          /\ wjoin \in [Workers -> Watchdogs \cup {Nobody}]
          /\ rjoin \in [Recoverers -> Watchdogs \cup {Nobody}]
      BY DEF TypeOK, WatchdogType
    <2>z. 0 \in 0 .. MaxFirings /\ w \in Watchdogs /\ "wait" \in RecoverPcs
      BY BoundsAssumption DEF Watchdogs, RecoverPcs
    <2>1. CASE UNCHANGED watchdogVars
      BY <2>1, TypeFrame
    <2>2. CASE WorkerDelivers(w) \/ WorkerTakesSession(w)
      BY <2>2, <2>t, <2>z DEF WorkerDelivers, WorkerTakesSession, WatchdogType
    <2>3. CASE WorkerArms(w)
      BY <2>3, <2>t, <2>z DEF WorkerArms, ReusesWatchdog, SpawnsWatchdog, WatchdogType
    <2>4. CASE WorkerSignals(w)
      BY <2>4, <2>t DEF WorkerSignals, WatchdogType
    <2>5. CASE WorkerJoins(w)
      <3>1. wdThread' \in {wdThread, Nobody}
        BY <2>5 DEF WorkerJoins, Unregister
      <3> QED
        BY <2>5, <2>t, <3>1 DEF WorkerJoins, WatchdogType
    <2> QED
      BY <2>1, <2>2, <2>3, <2>4, <2>5
      DEF Infers, PromptSteps, WorkerErrs, WorkerHasText, WorkerIsEmpty, WorkerStops,
          WorkerExports, WorkerStopFails, WorkerRefuses, WorkerReminds, WorkerIsGuarded,
          WorkerPastes, WorkerCannotCopy, WorkerPopsSession, WorkerGoesIdle, WorkerClears
  <1> QED
    BY <1>1, <1>2, <1>3, <1>4 DEF TypeOK

(* The watchdog threads keep the types.                                      *)
LEMMA WatchdogLoopType == TypeOK /\ (\E d \in Watchdogs : WatchdogLoop(d)) => TypeOK'
  <1> SUFFICES ASSUME TypeOK, NEW d \in Watchdogs, WatchdogLoop(d) PROVE TypeOK'
    OBVIOUS
  <1>1. UNCHANGED <<controlVars, captureVars, spc, workerVars, wdThread, wdStop, wjoin, rjoin>>
    BY DEF WatchdogLoop, WatchdogFires, WatchdogIsReset, WatchdogLoops
  <1>2. \E from, to \in RecoverPcs : RStep(d, from, to)
    BY DEF WatchdogLoop, WatchdogFires, WatchdogIsReset, WatchdogLoops, RecoverPcs
  <1>3. wdEvent' \in {wdEvent, FALSE}
    BY DEF WatchdogLoop, WatchdogFires, WatchdogIsReset, WatchdogLoops
  <1>4. firings' \in {firings, 0, MaxFirings} \/ (firings < MaxFirings /\ firings' = firings + 1)
    BY DEF WatchdogLoop, WatchdogFires, WatchdogIsReset, WatchdogLoops
  <1>5. firings' \in 0 .. MaxFirings
    <2>1. firings \in 0 .. MaxFirings
      BY DEF TypeOK, WatchdogType
    <2> QED
      BY <1>4, <2>1, BoundsAssumption
  <1>6. d \in Recoverers
    BY DEF Recoverers
  <1>7. WatchdogType'
    BY <1>1, <1>2, <1>3, <1>5, <1>6, RecovererStep DEF TypeOK, WatchdogType
  <1> QED
    BY <1>1, <1>7, TypeFrame DEF TypeOK

(* A forced recovery keeps the types.                                        *)
LEMMA ForceRecoverType == TypeOK /\ (\E x \in Recoverers : ForceRecover(x)) => TypeOK'
  <1> SUFFICES ASSUME TypeOK, NEW x \in Recoverers, ForceRecover(x) PROVE TypeOK'
    OBVIOUS
  <1> DEFINE Walks == \E from, to \in RecoverPcs : RStep(x, from, to)
  <1>1. /\ UNCHANGED <<cycle, auto, captureVars, spc, workerVars, wjoin>>
        /\ lock' \in {lock, "free"} /\ busy' \in {busy, FALSE}
        /\ cancelledIds' \in {cancelledIds, cancelledIds \cup {cycle}}
    BY DEF ForceRecover, RecoverLeaves, RecoverProceeds, RecoverMarks, RecoverHalts,
           RecoverJoins, RecoverDrops, RecoverReleases, RecoverAnnounces, RecoverEnds,
           controlVars
  <1>2. ControlType'
    BY <1>1, ControlStep DEF TypeOK, ControlType
  <1>3. Walks
    <2>1. CASE RecoverLeaves(x) \/ RecoverAnnounces(x)
      BY <2>1 DEF RecoverLeaves, RecoverAnnounces, RecoverEnds, RecoverPcs
    <2>2. CASE RecoverProceeds(x) \/ RecoverMarks(x) \/ RecoverHalts(x)
      BY <2>2 DEF RecoverProceeds, RecoverMarks, RecoverHalts, RecoverPcs
    <2>3. CASE RecoverJoins(x) \/ RecoverDrops(x) \/ RecoverReleases(x)
      BY <2>3 DEF RecoverJoins, RecoverDrops, RecoverReleases, RecoverPcs
    <2> QED
      BY <2>1, <2>2, <2>3 DEF ForceRecover
  <1>4. /\ wdThread' \in {wdThread, Nobody} /\ wdStop' \in {wdStop, TRUE}
        /\ wdEvent' \in {wdEvent, TRUE} /\ UNCHANGED firings
        /\ \E d \in {wdThread, Nobody} : rjoin' \in {rjoin, [rjoin EXCEPT ![x] = d]}
    BY DEF ForceRecover, RecoverLeaves, RecoverProceeds, RecoverMarks, RecoverHalts,
           RecoverJoins, RecoverDrops, RecoverReleases, RecoverAnnounces, Unregister
  <1>5. rjoin' \in [Recoverers -> Watchdogs \cup {Nobody}]
    BY <1>4 DEF TypeOK, WatchdogType
  <1>6. WatchdogType'
    BY <1>1, <1>3, <1>4, <1>5, RecovererStep DEF TypeOK, WatchdogType
  <1> QED
    BY <1>1, <1>2, <1>6, TypeFrame DEF TypeOK

LEMMA TypeStep == TypeOK /\ [Next]_vars => TypeOK'
  <1> SUFFICES ASSUME TypeOK, [Next]_vars PROVE TypeOK'
    OBVIOUS
  <1>1. CASE UNCHANGED vars
    BY <1>1 DEF vars, controlVars, captureVars, workerVars, watchdogVars,
                TypeOK, ControlType, CaptureType, WorkerType, WatchdogType
  <1>2. CASE Next
    BY <1>2, EntriesType, StartWorkerType, TranscriptionType, WatchdogLoopType, ForceRecoverType
    DEF Next
  <1> QED
    BY <1>1, <1>2

(* Every variable keeps its type, in every environment.                      *)
THEOREM TypeCorrect == Spec => []TypeOK
  BY InitType, TypeStep, PTL DEF Spec

-----------------------------------------------------------------------------
(* A step lowers the busy flag, or is an accepted stop that raises it with   *)
(* the worker it spawns, or leaves the flag alone and the dictations in      *)
(* flight in flight.                                                         *)
Accepts == busy' /\ \E w \in Workers : tpc'[w] = "stop"
KeepsFlight ==
    /\ busy' = busy
    /\ \A w \in Workers : tpc[w] \in InFlightPcs => tpc'[w] \in InFlightPcs

LEMMA FlagStep == TypeOK /\ Next => ~busy' \/ Accepts \/ KeepsFlight
  <1> SUFFICES ASSUME TypeOK, Next PROVE ~busy' \/ Accepts \/ KeepsFlight
    OBVIOUS
  <1> USE DEF InFlightPcs, controlVars, captureVars, workerVars, watchdogVars
  <1>t. tpc \in [Workers -> WorkerPcs]
    BY DEF TypeOK, WorkerType
  <1>s. ASSUME NEW id, StopWith(id) PROVE Accepts
    BY <1>s, <1>t DEF StopWith, WStep, Accepts
  <1>1. CASE Entries
    <2>1. CASE \E id : StopWith(id)
      BY <1>s, <2>1
    <2>2. CASE busy' = busy /\ tpc' = tpc
      BY <2>2 DEF KeepsFlight
    <2>3. CASE CancelFinishes
      BY <2>3 DEF CancelFinishes
    <2> QED
      BY <1>1, <2>1, <2>2, <2>3
      DEF Entries, StartRefused, StartOpens, QueuedStart, OpensRecording, StartFails,
          StartCommits, ToggleStops, ReleaseStops, AutoStopScheduled, AutoStopCleared,
          AutoStopRuns, CancelBegins, CancelDiscards, CancelTranscription
  <1>2. CASE \E r \in Recordings : StartWorker(r)
    BY <1>2 DEF StartWorker, StartWorkerLoads, StartWorkerFails, FallbackDiscards,
                StartWorkerTearsDown, KeepsFlight
  <1>3. ASSUME NEW w \in Workers, Infers(w) \/ PromptSteps(w) \/ WorkerErrs(w)
        PROVE  ~busy' \/ KeepsFlight
    <2> USE <1>t DEF WStep, KeepsFlight
    <2>1. CASE Infers(w)
      BY <2>1 DEF Infers, WorkerTakesSession, WorkerHasText, WorkerIsEmpty
    <2>2. CASE PromptSteps(w)
      BY <2>2
      DEF PromptSteps, WorkerStops, WorkerExports, WorkerStopFails, WorkerRefuses,
          WorkerReminds, WorkerDelivers, WorkerArms, WorkerIsGuarded, WorkerPastes,
          WorkerCannotCopy, WorkerSignals, WorkerJoins, WorkerPopsSession,
          WorkerGoesIdle, WorkerClears
    <2>3. CASE WorkerErrs(w)
      BY <2>3 DEF WorkerErrs
    <2> QED
      BY <1>3, <2>1, <2>2, <2>3
  <1>4. CASE \E d \in Watchdogs : WatchdogLoop(d)
    BY <1>4 DEF WatchdogLoop, WatchdogFires, WatchdogIsReset, WatchdogLoops, KeepsFlight
  <1>5. CASE \E x \in Recoverers : ForceRecover(x)
    BY <1>5
    DEF ForceRecover, RecoverLeaves, RecoverProceeds, RecoverMarks, RecoverHalts,
        RecoverJoins, RecoverDrops, RecoverReleases, RecoverAnnounces, KeepsFlight
  <1> QED
    BY <1>1, <1>2, <1>3, <1>4, <1>5 DEF Next

(* The busy flag never stays up with nobody in flight to lower it, in any    *)
(* environment: with ESC, time-outs, failing engines and queued starts.      *)
THEOREM NeverStuckBusy == Spec => []BusyHasWorker
  <1>1. Init => BusyHasWorker
    BY DEF Init, BusyHasWorker
  <1>2. TypeOK /\ BusyHasWorker /\ [Next]_vars => BusyHasWorker'
    <2> SUFFICES ASSUME TypeOK, BusyHasWorker, [Next]_vars PROVE BusyHasWorker'
      OBVIOUS
    <2>1. CASE UNCHANGED vars
      BY <2>1 DEF vars, controlVars, workerVars, BusyHasWorker
    <2>2. CASE Next
      BY <2>2, FlagStep DEF Accepts, KeepsFlight, BusyHasWorker, InFlightPcs
    <2> QED
      BY <2>1, <2>2
  <1> QED
    BY <1>1, <1>2, TypeCorrect, PTL DEF Spec

-----------------------------------------------------------------------------
(* cancel() holds _toggle_lock exactly as long as its forced recovery runs,  *)
(* and no stop can raise the busy flag again before it gives the lock back.  *)
EscHolds ==
    /\ lock = "recover" <=> rpc[Esc] # "off"
    /\ rpc[Esc] \notin {"wait", "check", "tail"}
    /\ rpc[Esc] = "announce" => ~busy

(* What a step other than an entry or cancel()'s own does to these.          *)
EscFrame == lock' = lock /\ rpc'[Esc] = rpc[Esc] /\ (busy' => busy)

LEMMA OthersFrame ==
  ASSUME TypeOK,
         \/ \E r \in Recordings : StartWorker(r)
         \/ \E w \in Workers : Infers(w) \/ PromptSteps(w) \/ WorkerErrs(w)
         \/ \E d \in Watchdogs : WatchdogLoop(d) \/ ForceRecover(d)
         \/ UNCHANGED vars
  PROVE  EscFrame
  <1> USE DEF EscFrame, controlVars, captureVars, workerVars, watchdogVars
  <1>t. rpc \in [Recoverers -> RecoverPcs] /\ Esc \notin Workers /\ Esc \in Recoverers
    BY BoundsAssumption DEF TypeOK, WatchdogType, Esc, Workers, Recoverers
  <1>1. CASE \E r \in Recordings : StartWorker(r)
    BY <1>1 DEF StartWorker, StartWorkerLoads, StartWorkerFails, FallbackDiscards,
                StartWorkerTearsDown
  <1>2. CASE \E w \in Workers : Infers(w)
    BY <1>2 DEF Infers, WorkerTakesSession, WorkerHasText, WorkerIsEmpty
  <1>3. CASE \E w \in Workers : WorkerErrs(w)
    BY <1>3 DEF WorkerErrs
  <1>4. CASE \E w \in Workers : PromptSteps(w) /\ ~WorkerArms(w)
    BY <1>4
    DEF PromptSteps, WorkerStops, WorkerExports, WorkerStopFails, WorkerRefuses,
        WorkerReminds, WorkerDelivers, WorkerIsGuarded, WorkerPastes,
        WorkerCannotCopy, WorkerSignals, WorkerJoins, WorkerPopsSession,
        WorkerGoesIdle, WorkerClears
  <1>5. CASE \E w \in Workers : WorkerArms(w)
    BY <1>5, <1>t DEF WorkerArms, ReusesWatchdog, SpawnsWatchdog
  <1>6. CASE \E d \in Watchdogs : WatchdogLoop(d)
    BY <1>6, <1>t DEF WatchdogLoop, WatchdogFires, WatchdogIsReset, WatchdogLoops, RStep, Watchdogs
  <1>7. CASE \E d \in Watchdogs : ForceRecover(d)
    <2> SUFFICES ASSUME NEW d \in Watchdogs, ForceRecover(d) PROVE EscFrame
      BY <1>7
    <2> USE <1>t DEF RStep, RecoverEnds, Watchdogs
    <2>1. CASE RecoverLeaves(d) \/ RecoverAnnounces(d)
      BY <2>1 DEF RecoverLeaves, RecoverAnnounces
    <2>2. CASE RecoverProceeds(d) \/ RecoverMarks(d) \/ RecoverDrops(d) \/ RecoverReleases(d)
      BY <2>2 DEF RecoverProceeds, RecoverMarks, RecoverDrops, RecoverReleases
    <2>3. CASE RecoverHalts(d) \/ RecoverJoins(d)
      BY <2>3 DEF RecoverHalts, RecoverJoins
    <2> QED
      BY <2>1, <2>2, <2>3 DEF ForceRecover
  <1>8. CASE UNCHANGED vars
    BY <1>8 DEF vars
  <1> QED
    BY <1>1, <1>2, <1>3, <1>4, <1>5, <1>6, <1>7, <1>8

(* The entries other than ESC during a transcription.                        *)
LEMMA EntriesFrame ==
  Entries => \/ CancelTranscription
             \/ /\ rpc' = rpc
                /\ \/ lock' = lock /\ (busy' => busy)
                   \/ lock # "recover" /\ lock' # "recover"
  <1> SUFFICES ASSUME Entries, ~CancelTranscription
               PROVE  /\ rpc' = rpc
                      /\ \/ lock' = lock /\ (busy' => busy)
                         \/ lock # "recover" /\ lock' # "recover"
    OBVIOUS
  <1> USE DEF controlVars, watchdogVars, workerVars
  <1>1. CASE StartRefused \/ StartOpens \/ QueuedStart \/ StartFails \/ StartCommits
    BY <1>1 DEF StartRefused, StartOpens, QueuedStart, OpensRecording, StartFails,
                StartCommits, ToggleCommits
  <1>2. CASE ToggleStops \/ ReleaseStops
    BY <1>2 DEF ToggleStops, ReleaseStops, ToggleCommits, StopWith
  <1>3. CASE AutoStopScheduled \/ AutoStopCleared \/ AutoStopRuns
    BY <1>3 DEF AutoStopScheduled, AutoStopCleared, AutoStopRuns, StopWith
  <1>4. CASE CancelBegins \/ CancelDiscards \/ CancelFinishes
    BY <1>4 DEF CancelBegins, CancelDiscards, CancelFinishes, EscPressed
  <1> QED
    BY <1>1, <1>2, <1>3, <1>4 DEF Entries

LEMMA EscStep == TypeOK /\ EscHolds /\ [Next]_vars => EscHolds'
  <1> SUFFICES ASSUME TypeOK, EscHolds, [Next]_vars PROVE EscHolds'
    OBVIOUS
  <1>t. rpc \in [Recoverers -> RecoverPcs] /\ Esc \in Recoverers
    BY DEF TypeOK, WatchdogType, Recoverers
  <1>1. CASE EscFrame
    BY <1>1 DEF EscHolds, EscFrame
  <1>2. CASE CancelTranscription
    BY <1>2, <1>t DEF EscHolds, CancelTranscription, EscPressed, RStep
  <1>3. CASE Entries
    BY <1>2, <1>3, EntriesFrame DEF EscHolds
  <1>4. CASE ForceRecover(Esc)
    <2> USE <1>t DEF EscHolds, RStep, RecoverEnds, controlVars
    <2>1. CASE RecoverLeaves(Esc) \/ RecoverAnnounces(Esc)
      BY <2>1 DEF RecoverLeaves, RecoverAnnounces
    <2>2. CASE RecoverProceeds(Esc) \/ RecoverMarks(Esc) \/ RecoverDrops(Esc)
      BY <2>2 DEF RecoverProceeds, RecoverMarks, RecoverDrops
    <2>3. CASE RecoverHalts(Esc) \/ RecoverJoins(Esc)
      BY <2>3 DEF RecoverHalts, RecoverJoins
    <2>4. CASE RecoverReleases(Esc)
      BY <2>4 DEF RecoverReleases
    <2> QED
      BY <1>4, <2>1, <2>2, <2>3, <2>4 DEF ForceRecover
  <1> QED
    BY <1>1, <1>3, <1>4, OthersFrame DEF Next, Recoverers

LEMMA EscInvariance == Spec => [](TypeOK /\ EscHolds)
  <1>1. Init => EscHolds
    <2> SUFFICES ASSUME Init PROVE EscHolds
      OBVIOUS
    <2>1. lock = "free" /\ rpc = [x \in Recoverers |-> "off"] /\ Esc \in Recoverers
      BY DEF Init, Recoverers
    <2> QED
      BY <2>1 DEF EscHolds
  <1> QED
    BY <1>1, EscStep, TypeCorrect, PTL DEF Spec

(* Whichever of its two paths cancel() took, the busy flag is down when it   *)
(* gives back _toggle_lock.                                                  *)
THEOREM EscReturnsIdle == Spec => EscLeavesIdle
  <1> DEFINE A == (lock \in {"discarded", "recover"} /\ lock' = "free") => ~busy'
  <1>1. TypeOK /\ EscHolds /\ [Next]_vars => [A]_vars
    <2> SUFFICES ASSUME TypeOK, EscHolds, Next, lock \in {"discarded", "recover"}, lock' = "free"
                 PROVE  ~busy'
      OBVIOUS
    <2>1. CASE EscFrame
      BY <2>1 DEF EscFrame
    <2>2. CASE Entries
      BY <2>2
      DEF Entries, StartRefused, StartOpens, QueuedStart, OpensRecording, StartFails,
          StartCommits, ToggleCommits, ToggleStops, ReleaseStops, StopWith, AutoStopScheduled,
          AutoStopCleared, AutoStopRuns, CancelBegins, CancelDiscards, CancelFinishes,
          CancelTranscription, EscPressed, controlVars
    <2>3. CASE ForceRecover(Esc)
      BY <2>3
      DEF ForceRecover, RecoverLeaves, RecoverProceeds, RecoverMarks, RecoverHalts, RecoverJoins,
          RecoverDrops, RecoverReleases, RecoverAnnounces, RecoverEnds, RStep, EscHolds, controlVars
    <2> QED
      BY <2>1, <2>2, <2>3, OthersFrame DEF Next, Recoverers
  <1> QED
    BY <1>1, EscInvariance, PTL DEF Spec, EscLeavesIdle

-----------------------------------------------------------------------------
(* Joins of watchdog threads: stop_thread of a forced recovery joins the     *)
(* thread that is registered, cancel() while it holds _toggle_lock.          *)

Joins(x, S) == rpc[x] = "join" /\ rjoin[x] \in S

(* No recoveries wait for each other in a circle.                            *)
NoCircularJoin == \A S \in SUBSET Recoverers : S # {} => \E x \in S : ~Joins(x, S)

(* The registered watchdog waits for nobody: it joins another thread only    *)
(* once it is not registered any more, and is never registered again.        *)
RegisteredIsFree == wdThread # Nobody => rpc[wdThread] # "join"

JoinInv == NoCircularJoin /\ RegisteredIsFree

(* What nearly every step does: nobody begins a join, and who is registered  *)
(* was so before or begins to wait.                                          *)
NobodyJoins ==
    /\ \A x \in Recoverers : rpc'[x] = "join" => rpc[x] = "join" /\ rjoin'[x] = rjoin[x]
    /\ wdThread' \in {Nobody, wdThread} \/ rpc'[wdThread'] # "join"

LEMMA JoinFrame ==
  ASSUME TypeOK, JoinInv, NobodyJoins
  PROVE  JoinInv'
  <1>1. NoCircularJoin'
    <2> SUFFICES ASSUME NEW S \in SUBSET Recoverers, S # {} PROVE \E x \in S : ~Joins(x, S)'
      BY DEF NoCircularJoin
    <2>1. PICK x \in S : ~Joins(x, S)
      BY DEF JoinInv, NoCircularJoin
    <2>2. ~Joins(x, S)'
      BY <2>1 DEF Joins, NobodyJoins
    <2> QED
      BY <2>2
  <1>2. RegisteredIsFree'
    <2>1. wdThread # Nobody => wdThread \in Recoverers
      BY DEF TypeOK, WatchdogType, Recoverers
    <2> QED
      BY <2>1 DEF JoinInv, RegisteredIsFree, NobodyJoins
  <1> QED
    BY <1>1, <1>2 DEF JoinInv

(* A join begins: with the registered thread, which waits for nobody.        *)
LEMMA JoinBegins ==
  ASSUME TypeOK, JoinInv, NEW x \in Recoverers, RecoverHalts(x), rpc'[x] = "join"
  PROVE  JoinInv'
  <1>1. /\ wdThread \notin {Nobody, x} /\ UNCHANGED wdThread
        /\ rpc' = [rpc EXCEPT ![x] = "join"]
        /\ rjoin' = [rjoin EXCEPT ![x] = wdThread]
    BY DEF RecoverHalts, RStep, TypeOK, WatchdogType
  <1>2. wdThread \in Recoverers /\ rpc[wdThread] # "join"
    BY <1>1 DEF TypeOK, WatchdogType, Recoverers, JoinInv, RegisteredIsFree
  <1>3. /\ rpc'[wdThread] # "join"
        /\ rjoin'[x] = wdThread
        /\ \A y \in Recoverers \ {x} : rpc'[y] = rpc[y] /\ rjoin'[y] = rjoin[y]
    BY <1>1, <1>2 DEF TypeOK, WatchdogType
  <1>4. NoCircularJoin'
    <2> SUFFICES ASSUME NEW S \in SUBSET Recoverers, S # {} PROVE \E y \in S : ~Joins(y, S)'
      BY DEF NoCircularJoin
    <2>1. CASE wdThread \in S
      BY <1>3, <2>1 DEF Joins
    <2>2. CASE wdThread \notin S /\ x \in S
      BY <1>3, <2>2 DEF Joins
    <2>3. CASE x \notin S
      <3>1. PICK y \in S : ~Joins(y, S)
        BY DEF JoinInv, NoCircularJoin
      <3>2. ~Joins(y, S)'
        BY <1>3, <2>3, <3>1 DEF Joins
      <3> QED
        BY <3>2
    <2> QED
      BY <2>1, <2>2, <2>3
  <1>5. RegisteredIsFree'
    BY <1>1, <1>3 DEF RegisteredIsFree
  <1> QED
    BY <1>4, <1>5 DEF JoinInv

LEMMA JoinStep == TypeOK /\ JoinInv /\ [Next]_vars => JoinInv'
  <1> SUFFICES ASSUME TypeOK, JoinInv, [Next]_vars PROVE JoinInv'
    OBVIOUS
  <1>t. rpc \in [Recoverers -> RecoverPcs] /\ rjoin \in [Recoverers -> Watchdogs \cup {Nobody}]
    BY DEF TypeOK, WatchdogType
  <1> USE <1>t DEF NobodyJoins, controlVars, captureVars, workerVars, watchdogVars, RStep
  <1>1. CASE Entries
    <2>1. CASE CancelTranscription
      <3>1. NobodyJoins
        BY <2>1 DEF CancelTranscription
      <3> QED
        BY <3>1, JoinFrame
    <2>2. CASE ~CancelTranscription
      <3>1. UNCHANGED watchdogVars
        BY <1>1, <2>2
        DEF Entries, StartRefused, StartOpens, QueuedStart, OpensRecording, StartFails, StartCommits,
            ToggleStops, ReleaseStops, StopWith, AutoStopScheduled, AutoStopCleared, AutoStopRuns,
            CancelBegins, CancelDiscards, CancelFinishes
      <3>2. NobodyJoins
        BY <3>1
      <3> QED
        BY <3>2, JoinFrame
    <2> QED
      BY <2>1, <2>2
  <1>2. CASE \E r \in Recordings : StartWorker(r)
    <2>1. NobodyJoins
      BY <1>2 DEF StartWorker, StartWorkerLoads, StartWorkerFails, FallbackDiscards,
                  StartWorkerTearsDown
    <2> QED
      BY <2>1, JoinFrame
  <1>3. CASE \E w \in Workers : Infers(w) \/ PromptSteps(w) \/ WorkerErrs(w)
    <2>1. CASE \E w \in Workers : WorkerArms(w)
      <3>1. NobodyJoins
        BY <2>1 DEF WorkerArms, ReusesWatchdog, SpawnsWatchdog, Recoverers, Watchdogs
      <3> QED
        BY <3>1, JoinFrame
    <2>2. CASE ~\E w \in Workers : WorkerArms(w)
      <3>1. wdThread' \in {Nobody, wdThread} /\ UNCHANGED <<rpc, rjoin>>
        BY <1>3, <2>2
        DEF Infers, WorkerTakesSession, WorkerHasText, WorkerIsEmpty, WorkerErrs, PromptSteps,
            WorkerStops, WorkerExports, WorkerStopFails, WorkerRefuses, WorkerReminds, WorkerDelivers,
            WorkerIsGuarded, WorkerPastes, WorkerCannotCopy, WorkerSignals, WorkerJoins,
            WorkerPopsSession, WorkerGoesIdle, WorkerClears, Unregister
      <3>2. NobodyJoins
        BY <3>1
      <3> QED
        BY <3>2, JoinFrame
    <2> QED
      BY <2>1, <2>2
  <1>4. CASE \E d \in Watchdogs : WatchdogLoop(d)
    <2>1. NobodyJoins
      BY <1>4 DEF WatchdogLoop, WatchdogFires, WatchdogIsReset, WatchdogLoops, Recoverers
    <2> QED
      BY <2>1, JoinFrame
  <1>5. ASSUME NEW x \in Recoverers, ForceRecover(x) PROVE JoinInv'
    <2>1. CASE RecoverHalts(x) /\ rpc'[x] = "join"
      BY <2>1, JoinBegins
    <2>2. CASE RecoverHalts(x) /\ rpc'[x] # "join"
      <3>1. NobodyJoins
        BY <2>2 DEF RecoverHalts
      <3> QED
        BY <3>1, JoinFrame
    <2>3. CASE RecoverJoins(x)
      <3>1. NobodyJoins
        BY <2>3 DEF RecoverJoins, Unregister
      <3> QED
        BY <3>1, JoinFrame
    <2>4. CASE \/ RecoverLeaves(x) \/ RecoverProceeds(x) \/ RecoverMarks(x)
               \/ RecoverDrops(x) \/ RecoverReleases(x) \/ RecoverAnnounces(x)
      <3>1. NobodyJoins
        BY <2>4 DEF RecoverLeaves, RecoverProceeds, RecoverMarks, RecoverDrops, RecoverReleases,
                    RecoverAnnounces, RecoverEnds
      <3> QED
        BY <3>1, JoinFrame
    <2> QED
      BY <1>5, <2>1, <2>2, <2>3, <2>4 DEF ForceRecover
  <1>6. CASE UNCHANGED vars
    <2>1. NobodyJoins
      BY <1>6 DEF vars
    <2> QED
      BY <2>1, JoinFrame
  <1> QED
    BY <1>1, <1>2, <1>3, <1>4, <1>5, <1>6 DEF Next

(* In every environment the recoveries never wait for each other in a        *)
(* circle: whichever watchdog fires while cancel() forces a recovery, with   *)
(* workers registering and unregistering watchdogs meanwhile, a chain of     *)
(* joins ends at a thread that joins nobody.  It is the safety half of       *)
(* EntriesReturn: cancel() joins while it holds _toggle_lock, so a circle    *)
(* would make every later key press wait for a time-out (stop_thread).       *)
THEOREM RecoveriesDoNotWaitInACircle == Spec => []NoCircularJoin
  <1>1. Init => JoinInv
    <2> SUFFICES ASSUME Init PROVE JoinInv
      OBVIOUS
    <2>1. wdThread = Nobody /\ rpc = [x \in Recoverers |-> "off"]
      BY DEF Init
    <2>2. \A S \in SUBSET Recoverers : \A x \in S : ~Joins(x, S)
      BY <2>1 DEF Joins
    <2> QED
      BY <2>1, <2>2 DEF JoinInv, NoCircularJoin, RegisteredIsFree
  <1>2. JoinInv => NoCircularJoin
    BY DEF JoinInv
  <1> QED
    BY <1>1, <1>2, JoinStep, TypeCorrect, PTL DEF Spec

-----------------------------------------------------------------------------
(* Who will bring the busy flag down.                                        *)

(* A worker that waits for no engine, a recovery that has decided, or a      *)
(* watchdog thread that nobody has told to stop.                             *)
Finishes == \E w \in Workers : tpc[w] \in InFlightPcs \ {"take", "infer"}
Recovers == \E x \in Recoverers : rpc[x] \in {"mark", "halt", "join", "drop", "release"}
Watches  == ~wdStop /\ \E d \in Watchdogs : WatchdogAlive(d)

BusyIsWatched == busy => Finishes \/ Recovers \/ Watches

(* What a step of one worker comes to: it goes on to a place from which it   *)
(* finishes, or it was in none.                                              *)
LEMMA WorkerWatched ==
  ASSUME TypeOK, BusyIsWatched, busy' => busy, UNCHANGED rpc,
         NEW w \in Workers, tpc' = [tpc EXCEPT ![w] = tpc'[w]],
         tpc'[w] \in InFlightPcs \ {"take", "infer"} \/ tpc[w] \notin InFlightPcs \ {"take", "infer"},
         wdStop' = wdStop \/ tpc'[w] \in InFlightPcs \ {"take", "infer"}
  PROVE  BusyIsWatched'
  <1> SUFFICES ASSUME busy', ~(tpc'[w] \in InFlightPcs \ {"take", "infer"})
               PROVE  Finishes' \/ Recovers' \/ Watches'
    BY DEF BusyIsWatched, Finishes
  <1>1. wdStop' = wdStop /\ tpc[w] \notin InFlightPcs \ {"take", "infer"} /\ busy
    OBVIOUS
  <1>2. Recovers' = Recovers /\ Watches' = Watches
    BY <1>1 DEF Recovers, Watches, WatchdogAlive
  <1>3. Finishes => Finishes'
    <2> SUFFICES ASSUME NEW v \in Workers, tpc[v] \in InFlightPcs \ {"take", "infer"}
                 PROVE  Finishes'
      BY DEF Finishes
    <2>1. v # w
      BY <1>1
    <2>2. tpc'[v] = tpc[v]
      BY <2>1 DEF TypeOK, WorkerType
    <2> QED
      BY <2>2 DEF Finishes
  <1> QED
    BY <1>1, <1>2, <1>3 DEF BusyIsWatched

(* What a step of one recoverer comes to.                                    *)
LEMMA RecovererWatched ==
  ASSUME TypeOK, BusyIsWatched, busy' => busy, UNCHANGED tpc,
         NEW x \in Recoverers, rpc' = [rpc EXCEPT ![x] = rpc'[x]],
         \/ rpc'[x] \in {"mark", "halt", "join", "drop", "release"}
         \/ /\ rpc[x] \notin {"mark", "halt", "join", "drop", "release"}
            /\ UNCHANGED wdStop
            /\ x \in Watchdogs /\ rpc'[x] = "off" => wdStop
  PROVE  BusyIsWatched'
  <1> SUFFICES ASSUME busy', ~(rpc'[x] \in {"mark", "halt", "join", "drop", "release"})
               PROVE  Finishes' \/ Recovers' \/ Watches'
    BY DEF BusyIsWatched, Recovers
  <1>t. rpc \in [Recoverers -> RecoverPcs] /\ Watchdogs \subseteq Recoverers
    BY DEF TypeOK, WatchdogType, Recoverers
  <1>1. /\ rpc[x] \notin {"mark", "halt", "join", "drop", "release"} /\ UNCHANGED wdStop /\ busy
        /\ x \in Watchdogs /\ rpc'[x] = "off" => wdStop
    OBVIOUS
  <1>2. \A y \in Recoverers : y # x => rpc'[y] = rpc[y]
    BY <1>t
  <1>3. Finishes' = Finishes
    BY DEF Finishes
  <1>4. Recovers => Recovers'
    BY <1>1, <1>2 DEF Recovers
  <1>5. Watches => Watches'
    <2> SUFFICES ASSUME ~wdStop, NEW d \in Watchdogs, d # Nobody, rpc[d] # "off" PROVE Watches'
      BY DEF Watches, WatchdogAlive
    <2>1. rpc'[d] # "off"
      BY <1>1, <1>2, <1>t
    <2> QED
      BY <1>1, <2>1 DEF Watches, WatchdogAlive
  <1> QED
    BY <1>1, <1>3, <1>4, <1>5 DEF BusyIsWatched

LEMMA WatchedStep ==
  ASSUME ~SlowJoin, TypeOK, BusyIsWatched, [Next]_vars
  PROVE  BusyIsWatched'
  <1> USE DEF controlVars, captureVars, workerVars, watchdogVars
  <1>t. tpc \in [Workers -> WorkerPcs] /\ rpc \in [Recoverers -> RecoverPcs] /\ Esc \notin Watchdogs
    BY BoundsAssumption DEF TypeOK, WorkerType, WatchdogType, Esc, Watchdogs, Workers
  <1>0. ASSUME busy' => busy, UNCHANGED <<tpc, rpc, wdStop>> PROVE BusyIsWatched'
    BY <1>0 DEF BusyIsWatched, Finishes, Recovers, Watches, WatchdogAlive
  <1>1. CASE Entries
    <2>1. CASE CancelTranscription
      <3>1. rpc' = [rpc EXCEPT ![Esc] = "force"] /\ rpc[Esc] = "off" /\ UNCHANGED <<tpc, busy, wdStop>>
        BY <2>1 DEF CancelTranscription, RStep
      <3> QED
        BY <1>t, <3>1, RecovererWatched DEF Recoverers
    <2>2. ASSUME NEW id, StopWith(id) PROVE BusyIsWatched'
      <3>1. PICK w \in Workers : tpc'[w] = "stop"
        BY <2>2, <1>t DEF StopWith, WStep
      <3> QED
        BY <3>1 DEF BusyIsWatched, Finishes, InFlightPcs
    <2>3. CASE \/ StartRefused \/ StartOpens \/ QueuedStart \/ StartFails \/ StartCommits
               \/ AutoStopScheduled \/ AutoStopCleared
      BY <2>3, <1>0 DEF StartRefused, StartOpens, QueuedStart, OpensRecording, StartFails, StartCommits,
                        ToggleCommits, AutoStopScheduled, AutoStopCleared
    <2>4. CASE CancelBegins \/ CancelDiscards \/ CancelFinishes
      BY <2>4, <1>0 DEF CancelBegins, CancelDiscards, CancelFinishes
    <2>5. CASE ToggleStops \/ ReleaseStops \/ AutoStopRuns
      BY <2>5, <2>2, <1>0 DEF ToggleStops, ReleaseStops, AutoStopRuns
    <2> QED
      BY <1>1, <2>1, <2>3, <2>4, <2>5 DEF Entries
  <1>2. CASE \E r \in Recordings : StartWorker(r)
    BY <1>2, <1>0 DEF StartWorker, StartWorkerLoads, StartWorkerFails, FallbackDiscards,
                      StartWorkerTearsDown
  <1>3. ASSUME NEW w \in Workers, Infers(w) \/ PromptSteps(w) \/ WorkerErrs(w) PROVE BusyIsWatched'
    <2> USE <1>t DEF WStep, InFlightPcs
    <2>1. CASE WorkerArms(w)
      <3>1. Watches'
        <4>1. CASE ReusesWatchdog(w)
          BY <2>1, <4>1 DEF WorkerArms, ReusesWatchdog, Watches, WatchdogAlive, TypeOK, WatchdogType
        <4>2. CASE SpawnsWatchdog(w)
          BY <2>1, <4>2, BoundsAssumption
          DEF WorkerArms, SpawnsWatchdog, Watches, WatchdogAlive, Watchdogs, Workers, Recoverers, Nobody
        <4> QED
          BY <2>1, <4>1, <4>2 DEF WorkerArms
      <3> QED
        BY <3>1 DEF BusyIsWatched
    <2>2. CASE busy' = FALSE
      BY <2>2 DEF BusyIsWatched
    <2>3. CASE WorkerStops(w) \/ WorkerExports(w) \/ WorkerDelivers(w) \/ WorkerReminds(w)
      <3>1. /\ UNCHANGED <<busy, rpc, wdStop>> /\ tpc' = [tpc EXCEPT ![w] = tpc'[w]]
            /\ \/ tpc'[w] \in {"export", "deliver", "arm", "signal"}
               \/ tpc[w] = "refused"
        BY <2>3 DEF WorkerStops, WorkerExports, WorkerDelivers, WorkerReminds
      <3> QED
        BY <3>1, WorkerWatched
    <2>4. CASE WorkerTakesSession(w) \/ WorkerHasText(w) \/ WorkerErrs(w)
      <3>1. /\ UNCHANGED <<busy, rpc, wdStop>> /\ tpc' = [tpc EXCEPT ![w] = tpc'[w]]
            /\ \/ tpc'[w] \in {"guard", "signal"}
               \/ tpc[w] = "take"
        BY <2>4 DEF WorkerTakesSession, WorkerHasText, WorkerErrs
      <3> QED
        BY <3>1, WorkerWatched
    <2>5. CASE WorkerIsEmpty(w) \/ WorkerIsGuarded(w) \/ WorkerPastes(w)
      <3>1. /\ busy' = FALSE \/ UNCHANGED busy
            /\ UNCHANGED <<rpc, wdStop>> /\ tpc' = [tpc EXCEPT ![w] = tpc'[w]]
            /\ tpc'[w] \in {"paste", "signal", "settled"}
        BY <2>5 DEF WorkerIsEmpty, WorkerIsGuarded, WorkerPastes
      <3> QED
        BY <3>1, WorkerWatched
    <2>6. CASE WorkerSignals(w) \/ WorkerJoins(w) \/ WorkerPopsSession(w)
      <3>1. /\ UNCHANGED <<busy, rpc>> /\ tpc' = [tpc EXCEPT ![w] = tpc'[w]]
            /\ tpc'[w] \in {"join", "pop", "idle"}
        BY <2>6 DEF WorkerSignals, WorkerJoins, WorkerPopsSession
      <3> QED
        BY <3>1, WorkerWatched
    <2>7. CASE WorkerClears(w)
      <3>1. /\ UNCHANGED <<busy, rpc, wdStop>> /\ tpc' = [tpc EXCEPT ![w] = tpc'[w]]
            /\ tpc[w] = "clear"
        BY <2>7 DEF WorkerClears
      <3> QED
        BY <3>1, WorkerWatched
    <2>8. CASE WorkerStopFails(w) \/ WorkerRefuses(w) \/ WorkerCannotCopy(w) \/ WorkerGoesIdle(w)
      BY <2>2, <2>8 DEF WorkerStopFails, WorkerRefuses, WorkerCannotCopy, WorkerGoesIdle
    <2> QED
      BY <1>3, <2>1, <2>3, <2>4, <2>5, <2>6, <2>7, <2>8 DEF Infers, PromptSteps
  <1>4. ASSUME NEW d \in Watchdogs, WatchdogLoop(d) PROVE BusyIsWatched'
    <2>1. /\ UNCHANGED <<busy, tpc, wdStop>> /\ rpc' = [rpc EXCEPT ![d] = rpc'[d]]
          /\ rpc[d] \in {"wait", "tail"} /\ (rpc'[d] = "off" => wdStop)
      BY <1>4, <1>t DEF WatchdogLoop, WatchdogFires, WatchdogIsReset, WatchdogLoops, RStep, Recoverers
    <2> QED
      BY <2>1, RecovererWatched DEF Recoverers
  <1>5. ASSUME NEW x \in Recoverers, ForceRecover(x) PROVE BusyIsWatched'
    <2> USE <1>t DEF RStep, RecoverEnds
    <2>1. CASE RecoverReleases(x)
      BY <2>1 DEF RecoverReleases, BusyIsWatched
    <2>2. CASE RecoverProceeds(x) \/ RecoverMarks(x) \/ RecoverHalts(x) \/ RecoverJoins(x) \/ RecoverDrops(x)
      <3>1. /\ UNCHANGED <<busy, tpc>> /\ rpc' = [rpc EXCEPT ![x] = rpc'[x]]
            /\ rpc'[x] \in {"mark", "halt", "join", "drop", "release"}
        BY <2>2 DEF RecoverProceeds, RecoverMarks, RecoverHalts, RecoverJoins, RecoverDrops
      <3> QED
        BY <3>1, RecovererWatched
    <2>3. CASE RecoverLeaves(x) \/ RecoverAnnounces(x)
      <3>1. /\ UNCHANGED <<busy, tpc, wdStop>> /\ rpc' = [rpc EXCEPT ![x] = rpc'[x]]
            /\ rpc[x] \in {"check", "force", "announce"} /\ (x # Esc => rpc'[x] = "tail")
        BY <2>3 DEF RecoverLeaves, RecoverAnnounces
      <3> QED
        BY <3>1, RecovererWatched
    <2> QED
      BY <1>5, <2>1, <2>2, <2>3 DEF ForceRecover
  <1>6. CASE UNCHANGED vars
    BY <1>6, <1>0 DEF vars
  <1> QED
    BY <1>1, <1>2, <1>3, <1>4, <1>5, <1>6 DEF Next

(* While the busy flag is up there is always somebody to bring it down: a    *)
(* worker that waits for no engine, a recovery under way, or, when only the  *)
(* engine could answer, a watchdog nobody has told to stop, however zombies  *)
(* of recovered dictations signal, join and unregister the watchdog of the   *)
(* present one.  It is the safety half of BusyEnds and needs joins that      *)
(* return in time: start_thread reuses a watchdog that has outlived its join *)
(* with its stop event set (transcription_watchdog.py), and a hung engine    *)
(* then stays busy for ever.                                                 *)
THEOREM HungEngineIsWatched == ASSUME ~SlowJoin PROVE Spec => []BusyIsWatched
  <1>1. Init => BusyIsWatched
    BY DEF Init, BusyIsWatched
  <1>2. TypeOK /\ BusyIsWatched /\ [Next]_vars => BusyIsWatched'
    BY WatchedStep
  <1> QED
    BY <1>1, <1>2, TypeCorrect, PTL DEF Spec

-----------------------------------------------------------------------------
(* Without time-outs the watchdog threads only wait: all recoveries are      *)
(* cancel()'s own.                                                           *)
QuietWatchdogs == \A d \in Watchdogs : rpc[d] \in {"off", "wait"}

LEMMA QuietStep ==
  ASSUME ~Timeouts PROVE TypeOK /\ QuietWatchdogs /\ [Next]_vars => QuietWatchdogs'
  <1> SUFFICES ASSUME TypeOK, QuietWatchdogs, [Next]_vars PROVE QuietWatchdogs'
    OBVIOUS
  <1> USE DEF QuietWatchdogs, Watchdogs, controlVars, captureVars, workerVars, watchdogVars
  <1>t. rpc \in [Recoverers -> RecoverPcs] /\ Esc \notin Workers /\ Workers \subseteq Recoverers
    BY BoundsAssumption DEF TypeOK, WatchdogType, Esc, Workers, Recoverers
  <1>1. CASE Entries
    <2>1. CASE rpc' = rpc
      BY <2>1
    <2>2. CASE CancelTranscription
      BY <2>2, <1>t DEF CancelTranscription, RStep
    <2> QED
      BY <1>1, <2>1, <2>2, EntriesFrame
  <1>2. CASE \E r \in Recordings : StartWorker(r)
    BY <1>2 DEF StartWorker, StartWorkerLoads, StartWorkerFails, FallbackDiscards,
                StartWorkerTearsDown
  <1>3. CASE \E w \in Workers : WorkerArms(w)
    BY <1>3, <1>t DEF WorkerArms, ReusesWatchdog, SpawnsWatchdog
  <1>4. CASE \E w \in Workers : (Infers(w) \/ PromptSteps(w) \/ WorkerErrs(w)) /\ ~WorkerArms(w)
    BY <1>4
    DEF Infers, WorkerTakesSession, WorkerHasText, WorkerIsEmpty, WorkerErrs,
        PromptSteps, WorkerStops, WorkerExports, WorkerStopFails, WorkerRefuses,
        WorkerReminds, WorkerDelivers, WorkerIsGuarded, WorkerPastes,
        WorkerCannotCopy, WorkerSignals, WorkerJoins, WorkerPopsSession,
        WorkerGoesIdle, WorkerClears
  <1>5. CASE \E d \in Watchdogs : WatchdogLoop(d)
    <2> SUFFICES ASSUME NEW d \in Watchdogs, WatchdogLoop(d) PROVE QuietWatchdogs'
      BY <1>5
    <2>1. rpc' = [rpc EXCEPT ![d] = "off"] \/ rpc' = [rpc EXCEPT ![d] = "wait"]
      BY DEF WatchdogLoop, WatchdogFires, WatchdogIsReset, WatchdogLoops, RStep
    <2> QED
      BY <2>1, <1>t
  <1>6. CASE \E x \in Recoverers : ForceRecover(x)
    <2> SUFFICES ASSUME NEW x \in Recoverers, ForceRecover(x) PROVE QuietWatchdogs'
      BY <1>6
    <2>1. rpc[x] \notin {"off", "wait"} /\ \E to : rpc' = [rpc EXCEPT ![x] = to]
      BY DEF ForceRecover, RecoverLeaves, RecoverProceeds, RecoverMarks, RecoverHalts,
             RecoverJoins, RecoverDrops, RecoverReleases, RecoverAnnounces, RecoverEnds, RStep
    <2>2. x \notin Watchdogs
      BY <2>1
    <2> QED
      BY <2>1, <2>2, <1>t
  <1>7. CASE UNCHANGED vars
    BY <1>7 DEF vars
  <1> QED
    BY <1>1, <1>2, <1>3, <1>4, <1>5, <1>6, <1>7 DEF Next

(* A mark is of a cycle that was given out, and the current cycle is marked  *)
(* only between dictations.                                                  *)
FreshMarks ==
    /\ QuietWatchdogs
    /\ cancelledIds \subseteq 0 .. cycle
    /\ recording => cycle \notin cancelledIds /\ lock # "recover"

LEMMA FreshStep ==
  ASSUME ~Timeouts, ~QueuedStarts
  PROVE  TypeOK /\ EscHolds /\ FreshMarks /\ [Next]_vars => FreshMarks'
  <1> SUFFICES ASSUME TypeOK, EscHolds, FreshMarks, [Next]_vars PROVE FreshMarks'
    OBVIOUS
  <1>q. QuietWatchdogs'
    BY QuietStep DEF FreshMarks
  <1>t. cycle \in Nat /\ cancelledIds \subseteq 0 .. cycle
    BY BoundsAssumption DEF TypeOK, ControlType, FreshMarks
  <1> USE DEF FreshMarks, controlVars, captureVars, workerVars, watchdogVars
  <1>0. CASE /\ UNCHANGED <<lock, cycle>> /\ cancelledIds' \subseteq cancelledIds
             /\ recording' => recording
    BY <1>0, <1>q, <1>t
  <1>1. CASE StartRefused \/ StartOpens \/ StartFails \/ ToggleStops
    <2>1. cycle' = cycle + 1 /\ UNCHANGED cancelledIds /\ lock' # "recover"
      BY <1>1 DEF StartRefused, StartOpens, OpensRecording, StartFails, ToggleStops,
                  ToggleCommits, StopWith
    <2>2. 0 .. cycle \subseteq 0 .. cycle' /\ cycle' \notin 0 .. cycle
      BY <2>1, <1>t
    <2> QED
      BY <2>1, <2>2, <1>q, <1>t
  <1>2. CASE Entries
    <2>1. CASE ReleaseStops \/ AutoStopRuns \/ AutoStopScheduled \/ AutoStopCleared
      BY <2>1, <1>0 DEF ReleaseStops, AutoStopRuns, StopWith, AutoStopScheduled, AutoStopCleared
    <2>2. CASE StartCommits \/ CancelBegins \/ CancelDiscards \/ CancelFinishes
      <3>1. lock' # "recover" /\ UNCHANGED <<cycle, cancelledIds>>
        BY <2>2 DEF StartCommits, CancelBegins, CancelDiscards, CancelFinishes
      <3>2. recording' => recording
        BY <2>2 DEF StartCommits, CancelBegins, CancelDiscards, DiscardRecording, CancelFinishes
      <3> QED
        BY <3>1, <3>2, <1>q, <1>t
    <2>3. CASE CancelTranscription
      BY <2>3, <1>q, <1>t DEF CancelTranscription
    <2> QED
      BY <1>1, <1>2, <2>1, <2>2, <2>3 DEF Entries, QueuedStart
  <1>3. CASE \E r \in Recordings : StartWorker(r)
    BY <1>3, <1>0 DEF StartWorker, StartWorkerLoads, StartWorkerFails, FallbackDiscards,
                      StartWorkerTearsDown, DiscardRecording
  <1>4. CASE \E w \in Workers : Infers(w) \/ PromptSteps(w) \/ WorkerErrs(w)
    <2>1. UNCHANGED <<lock, cycle>>
      BY <1>4
      DEF Infers, WorkerTakesSession, WorkerHasText, WorkerIsEmpty, WorkerErrs,
          PromptSteps, WorkerStops, WorkerExports, WorkerStopFails, WorkerRefuses,
          WorkerReminds, WorkerDelivers, WorkerArms, WorkerIsGuarded, WorkerPastes,
          WorkerCannotCopy, WorkerSignals, WorkerJoins, WorkerPopsSession,
          WorkerGoesIdle, WorkerClears
    <2>2. cancelledIds' \subseteq cancelledIds
      BY <1>4
      DEF Infers, WorkerTakesSession, WorkerHasText, WorkerIsEmpty, WorkerErrs,
          PromptSteps, WorkerStops, WorkerExports, WorkerStopFails, WorkerRefuses,
          WorkerReminds, WorkerDelivers, WorkerArms, WorkerIsGuarded, WorkerPastes,
          WorkerCannotCopy, WorkerSignals, WorkerJoins, WorkerPopsSession,
          WorkerGoesIdle, WorkerClears
    <2>3. recording' => recording
      <3>1. CASE \E w \in Workers : WorkerStops(w)
        BY <3>1 DEF WorkerStops
      <3>2. CASE recording' = recording
        BY <3>2
      <3> QED
        BY <1>4, <3>1, <3>2
        DEF Infers, WorkerTakesSession, WorkerHasText, WorkerIsEmpty, WorkerErrs,
            PromptSteps, WorkerExports, WorkerStopFails, WorkerRefuses,
            WorkerReminds, WorkerDelivers, WorkerArms, WorkerIsGuarded, WorkerPastes,
            WorkerCannotCopy, WorkerSignals, WorkerJoins, WorkerPopsSession,
            WorkerGoesIdle, WorkerClears
    <2> QED
      BY <2>1, <2>2, <2>3, <1>0
  <1>5. CASE \E d \in Watchdogs : WatchdogLoop(d)
    BY <1>5, <1>0 DEF WatchdogLoop, WatchdogFires, WatchdogIsReset, WatchdogLoops
  <1>6. CASE \E x \in Recoverers : ForceRecover(x)
    <2> SUFFICES ASSUME NEW x \in Recoverers, ForceRecover(x) PROVE FreshMarks'
      BY <1>6
    <2>1. x = Esc /\ lock = "recover" /\ ~recording
      <3>1. rpc[x] \notin {"off", "wait"}
        BY DEF ForceRecover, RecoverLeaves, RecoverProceeds, RecoverMarks, RecoverHalts,
               RecoverJoins, RecoverDrops, RecoverReleases, RecoverAnnounces, RecoverEnds, RStep
      <3> QED
        BY <3>1 DEF QuietWatchdogs, Recoverers, EscHolds
    <2>2. ~recording' /\ cycle' = cycle /\ cancelledIds' \subseteq cancelledIds \cup {cycle}
      BY <2>1 DEF ForceRecover, RecoverLeaves, RecoverProceeds, RecoverMarks, RecoverHalts,
             RecoverJoins, RecoverDrops, RecoverReleases, RecoverAnnounces
    <2> QED
      BY <2>2, <1>q, <1>t
  <1>7. CASE UNCHANGED vars
    BY <1>7, <1>0 DEF vars
  <1> QED
    BY <1>2, <1>3, <1>4, <1>5, <1>6, <1>7 DEF Next

(* A dictation never begins its life with the mark of a cancelled one, as    *)
(* long as no transcription outlasts the watchdog and no start is queued.    *)
THEOREM FreshIsUnmarked ==
  ASSUME ~Timeouts, ~QueuedStarts PROVE Spec => NewDictationUnmarked
  <1> DEFINE A == \A w \in Workers : tpc[w] = "none" /\ tpc'[w] = "stop"
                                       => wcycle'[w] \notin cancelledIds
  <1>1. Init => FreshMarks
    <2> SUFFICES ASSUME Init PROVE FreshMarks
      OBVIOUS
    <2>1. /\ rpc = [x \in Recoverers |-> "off"] /\ Watchdogs \subseteq Recoverers
          /\ cancelledIds = {} /\ ~recording
      BY DEF Init, Recoverers
    <2> QED
      BY <2>1 DEF FreshMarks, QuietWatchdogs
  <1>2. TypeOK /\ EscHolds /\ FreshMarks /\ [Next]_vars => [A]_vars
    <2> SUFFICES ASSUME TypeOK, FreshMarks, Next, NEW w \in Workers,
                        tpc[w] = "none", tpc'[w] = "stop"
                 PROVE  wcycle'[w] \notin cancelledIds
      OBVIOUS
    <2>t. /\ tpc \in [Workers -> WorkerPcs] /\ wcycle \in [Workers -> 0 .. MaxCycle]
          /\ cycle \in Nat /\ cancelledIds \subseteq 0 .. cycle
      BY BoundsAssumption DEF TypeOK, ControlType, WorkerType, FreshMarks
    <2> USE DEF controlVars, captureVars, workerVars, watchdogVars, WStep
    <2>1. CASE \E id \in {cycle, cycle + 1} : StopWith(id)
      BY <2>1, <2>t DEF StopWith, FreshMarks
    <2>2. CASE Entries
      BY <2>1, <2>2
      DEF Entries, StartRefused, StartOpens, QueuedStart, OpensRecording, StartFails,
          StartCommits, ToggleCommits, ToggleStops, ReleaseStops, AutoStopScheduled,
          AutoStopCleared, AutoStopRuns, CancelBegins, CancelDiscards, CancelFinishes,
          CancelTranscription
    <2>3. CASE \E v \in Workers : Infers(v) \/ PromptSteps(v) \/ WorkerErrs(v)
      <3>0. PICK v \in Workers : Infers(v) \/ PromptSteps(v) \/ WorkerErrs(v)
        BY <2>3
      <3>1. ~Infers(v)
        BY <2>t DEF Infers, WorkerTakesSession, WorkerHasText, WorkerIsEmpty
      <3>2. ~WorkerErrs(v)
        BY <2>t DEF WorkerErrs
      <3>3. ~(WorkerStops(v) \/ WorkerExports(v) \/ WorkerStopFails(v) \/ WorkerRefuses(v))
        BY <2>t DEF WorkerStops, WorkerExports, WorkerStopFails, WorkerRefuses
      <3>4. ~(WorkerReminds(v) \/ WorkerDelivers(v) \/ WorkerArms(v) \/ WorkerIsGuarded(v))
        BY <2>t DEF WorkerReminds, WorkerDelivers, WorkerArms, WorkerIsGuarded
      <3>5. ~(WorkerPastes(v) \/ WorkerCannotCopy(v) \/ WorkerSignals(v) \/ WorkerJoins(v))
        BY <2>t DEF WorkerPastes, WorkerCannotCopy, WorkerSignals, WorkerJoins
      <3>6. ~(WorkerPopsSession(v) \/ WorkerGoesIdle(v) \/ WorkerClears(v))
        BY <2>t DEF WorkerPopsSession, WorkerGoesIdle, WorkerClears
      <3> QED
        BY <3>0, <3>1, <3>2, <3>3, <3>4, <3>5, <3>6 DEF PromptSteps
    <2>4. CASE \/ \E r \in Recordings : StartWorker(r)
               \/ \E d \in Watchdogs : WatchdogLoop(d)
               \/ \E x \in Recoverers : ForceRecover(x)
      BY <2>4
      DEF StartWorker, StartWorkerLoads, StartWorkerFails, FallbackDiscards,
          StartWorkerTearsDown, WatchdogLoop, WatchdogFires, WatchdogIsReset, WatchdogLoops,
          ForceRecover, RecoverLeaves, RecoverProceeds, RecoverMarks, RecoverHalts,
          RecoverJoins, RecoverDrops, RecoverReleases, RecoverAnnounces
    <2> QED
      BY <2>2, <2>3, <2>4 DEF Next
  <1> QED
    BY <1>1, <1>2, FreshStep, EscInvariance, PTL DEF Spec, NewDictationUnmarked

-----------------------------------------------------------------------------
(* Steady environments: no ESC, no time-out and no failing engine (loads may *)
(* fail, captures may stop by themselves, joins may be slow, the model       *)
(* manager may start a dictation it queued).  The busy flag is up exactly    *)
(* while one dictation is in flight.  Calm ones have no queued start either: *)
(* it may open a recording under the worker of the one before.               *)
Steady == ~EscEnabled /\ ~Timeouts /\ ~EngineMayFail
Calm   == Steady /\ ~QueuedStarts

SteadyInv ==
    /\ lock \in {"free", "start"}
    /\ QuietWatchdogs
    /\ NotBusyMeansDone
    /\ OneCycleAtATime

(* A step leaves the flag and the set of dictations in flight alone, or adds *)
(* one to none, or ends one.                                                 *)
InFlight == {w \in Workers : tpc[w] \in InFlightPcs}
Cruises  == busy' = busy /\ InFlight' = InFlight
TakesOff == recording /\ ~busy /\ busy' /\ \E w \in Workers : InFlight' = InFlight \cup {w}
Lands    == \E w \in InFlight : tpc[w] # "stop" /\ InFlight' = InFlight \ {w}

LEMMA NoRecovery ==
  ASSUME EscHolds, QuietWatchdogs, lock # "recover"
  PROVE  ~\E x \in Recoverers : ForceRecover(x)
  <1> SUFFICES ASSUME NEW x \in Recoverers, ForceRecover(x) PROVE FALSE
    OBVIOUS
  <1>1. rpc[x] \notin {"off", "wait"}
    BY DEF ForceRecover, RecoverLeaves, RecoverProceeds, RecoverMarks, RecoverHalts,
           RecoverJoins, RecoverDrops, RecoverReleases, RecoverAnnounces, RecoverEnds, RStep
  <1> QED
    BY <1>1 DEF QuietWatchdogs, Recoverers, EscHolds

LEMMA SteadyFlight ==
  ASSUME Steady, TypeOK, EscHolds, SteadyInv, Next
  PROVE  Cruises \/ TakesOff \/ Lands
  <1> USE DEF controlVars, captureVars, workerVars, watchdogVars
  <1>t. tpc \in [Workers -> WorkerPcs]
    BY DEF TypeOK, WorkerType
  <1>s. ASSUME NEW id, StopWith(id) PROVE TakesOff
    <2>1. recording /\ ~busy /\ busy'
      BY <1>s DEF StopWith
    <2>2. PICK w \in Workers : tpc' = [tpc EXCEPT ![w] = "stop"]
      BY <1>s DEF StopWith, WStep
    <2> QED
      BY <2>1, <2>2, <1>t DEF TakesOff, InFlight, InFlightPcs
  <1>1. CASE Entries
    <2>1. CASE \E id : StopWith(id)
      BY <1>s, <2>1
    <2>2. CASE busy' = busy /\ tpc' = tpc
      BY <2>2 DEF Cruises, InFlight
    <2> QED
      BY <1>1, <2>1, <2>2
      DEF Entries, StartRefused, StartOpens, QueuedStart, OpensRecording, StartFails,
          StartCommits, ToggleStops, ReleaseStops, AutoStopScheduled, AutoStopCleared,
          AutoStopRuns, CancelBegins, CancelDiscards, CancelFinishes, CancelTranscription,
          SteadyInv
  <1>2. CASE \E r \in Recordings : StartWorker(r)
    BY <1>2 DEF StartWorker, StartWorkerLoads, StartWorkerFails, FallbackDiscards,
                StartWorkerTearsDown, Cruises, InFlight
  <1>3. ASSUME NEW w \in Workers, Infers(w) \/ PromptSteps(w) \/ WorkerErrs(w)
        PROVE  Cruises \/ Lands
    <2>1. CASE WorkerRefuses(w) \/ WorkerGoesIdle(w)
      BY <2>1, <1>t DEF WorkerRefuses, WorkerGoesIdle, WStep, Lands, InFlight, InFlightPcs
    <2>2. ASSUME NEW from, NEW to, WStep(w, from, to), busy' = busy,
                 from \in InFlightPcs <=> to \in InFlightPcs
          PROVE  Cruises
      <3>1. \A v \in Workers : tpc'[v] \in InFlightPcs <=> tpc[v] \in InFlightPcs
        BY <2>2, <1>t DEF WStep
      <3> QED
        BY <2>2, <3>1 DEF Cruises, InFlight
    <2>3. CASE Infers(w) \/ WorkerErrs(w)
      BY <2>2, <2>3 DEF Infers, WorkerErrs, WorkerTakesSession, WorkerHasText, WorkerIsEmpty,
                        Steady, InFlightPcs
    <2>4. CASE PromptSteps(w)
      BY <2>1, <2>2, <2>4
      DEF PromptSteps, WorkerStops, WorkerExports, WorkerStopFails,
          WorkerReminds, WorkerDelivers, WorkerArms, WorkerIsGuarded, WorkerPastes,
          WorkerCannotCopy, WorkerSignals, WorkerJoins, WorkerPopsSession,
          WorkerClears, Steady, InFlightPcs
    <2> QED
      BY <1>3, <2>3, <2>4
  <1>4. CASE \E d \in Watchdogs : WatchdogLoop(d)
    BY <1>4 DEF WatchdogLoop, WatchdogFires, WatchdogIsReset, WatchdogLoops, Cruises, InFlight
  <1> QED
    BY <1>1, <1>2, <1>3, <1>4, NoRecovery DEF Next, SteadyInv

LEMMA SteadyStep ==
  ASSUME Steady PROVE TypeOK /\ EscHolds /\ SteadyInv /\ [Next]_vars => SteadyInv'
  <1> SUFFICES ASSUME TypeOK, EscHolds, SteadyInv, [Next]_vars PROVE SteadyInv'
    OBVIOUS
  <1>1. lock' \in {"free", "start"}
    <2>1. CASE Entries
      BY <2>1
      DEF Entries, StartRefused, StartOpens, QueuedStart, OpensRecording, StartFails,
          StartCommits, ToggleStops, ReleaseStops, StopWith, AutoStopScheduled, AutoStopCleared,
          AutoStopRuns, CancelBegins, CancelDiscards, CancelFinishes, CancelTranscription,
          EscPressed, Steady, SteadyInv
    <2>2. CASE EscFrame
      BY <2>2 DEF EscFrame, SteadyInv
    <2> QED
      BY <2>1, <2>2, OthersFrame, NoRecovery DEF Next, SteadyInv
  <1>2. QuietWatchdogs'
    BY QuietStep DEF Steady, SteadyInv
  <1>3. NotBusyMeansDone' /\ OneCycleAtATime'
    <2> USE DEF NotBusyMeansDone, OneCycleAtATime, SteadyInv, InFlight
    <2>1. CASE UNCHANGED vars
      BY <2>1 DEF vars, controlVars, workerVars
    <2>2. CASE Cruises
      BY <2>2 DEF Cruises
    <2>3. CASE TakesOff
      BY <2>3 DEF TakesOff
    <2>4. CASE Lands
      BY <2>4 DEF Lands
    <2> QED
      BY <2>1, <2>2, <2>3, <2>4, SteadyFlight
  <1> QED
    BY <1>1, <1>2, <1>3 DEF SteadyInv

LEMMA SteadyInvariance ==
  ASSUME Steady PROVE Spec => [](TypeOK /\ EscHolds /\ SteadyInv)
  <1>1. Init => SteadyInv
    <2> SUFFICES ASSUME Init PROVE SteadyInv
      OBVIOUS
    <2>1. /\ rpc = [x \in Recoverers |-> "off"] /\ Watchdogs \subseteq Recoverers
          /\ tpc = [w \in Workers |-> "none"] /\ lock = "free"
      BY DEF Init, Recoverers
    <2> QED
      BY <2>1 DEF SteadyInv, QuietWatchdogs, NotBusyMeansDone, OneCycleAtATime, InFlightPcs
  <1> QED
    BY <1>1, SteadyStep, EscInvariance, PTL DEF Spec

(* In a steady environment a dictation in flight keeps the busy flag up, so  *)
(* that the next toggle cannot overlap it.                                   *)
THEOREM SteadyIsDone == ASSUME Steady PROVE Spec => []NotBusyMeansDone
  <1>1. SteadyInv => NotBusyMeansDone
    BY DEF SteadyInv
  <1> QED
    BY <1>1, SteadyInvariance, PTL

-----------------------------------------------------------------------------
(* Where the audio of a recording is, in a calm environment.  The export     *)
(* moves it: no capture runs meanwhile, because the flag is up.              *)
TranscribingPcs == {"arm", "take", "infer", "guard", "paste"}
PastPastePcs    == {"signal", "join", "pop", "idle", "clear", "done"}
EmptyPcs        == {"none", "stop", "export"}
StoppedPcs      == InFlightPcs \ {"stop"}
CarryPcs        == {"deliver"} \cup TranscribingPcs

AudioInv ==
    /\ buf \in {Nobody, recordings}
    /\ \A w \in Workers : waudio[w] \in 0 .. recordings
    /\ \A w \in Workers : tpc[w] \in EmptyPcs => waudio[w] = Nobody
    /\ \A w \in Workers : tpc[w] \in StoppedPcs => ~recording
    /\ \A w \in Workers : tpc[w] \in CarryPcs => waudio[w] \in {Nobody, recordings}
    /\ \A w \in Workers : w \in pasted \/ tpc[w] \in TranscribingPcs => waudio[w] # Nobody
    /\ \A w \in pasted : tpc[w] \in PastPastePcs
    /\ AudioInOnePlace

(* The steps that leave the audio where it is.                               *)
SameAudio ==
    /\ UNCHANGED <<recordings, waudio>>
    /\ buf' \in {buf, Nobody}
    /\ recording' => recording

LEMMA AudioStep ==
  ASSUME Calm PROVE TypeOK /\ EscHolds /\ SteadyInv /\ AudioInv /\ [Next]_vars => AudioInv'
  <1> SUFFICES ASSUME TypeOK, EscHolds, SteadyInv, AudioInv, [Next]_vars PROVE AudioInv'
    OBVIOUS
  <1>t. /\ tpc \in [Workers -> WorkerPcs] /\ waudio \in [Workers -> Recordings \cup {Nobody}]
        /\ recordings \in Nat /\ buf \in Nat /\ pasted \subseteq Workers
        /\ \A w \in Workers : waudio[w] \in Nat
    BY BoundsAssumption DEF TypeOK, WorkerType, CaptureType, Recordings, Nobody
  <1>n. Nobody = 0
    BY DEF Nobody
  <1> USE DEF controlVars, captureVars, workerVars, watchdogVars
  <1>k. ASSUME SameAudio, tpc' = tpc, pasted' = pasted PROVE AudioInv'
    BY <1>k, <1>t, <1>n DEF SameAudio, AudioInv, AudioInOnePlace
  <1>w. ASSUME NEW w \in Workers, \A v \in Workers \ {w} : tpc'[v] = tpc[v],
               SameAudio,
               tpc'[w] \in EmptyPcs => tpc[w] \in EmptyPcs,
               tpc'[w] \in StoppedPcs => tpc[w] \in StoppedPcs,
               tpc'[w] \in CarryPcs => tpc[w] \in CarryPcs,
               \/ pasted' = pasted
               \/ pasted' = pasted \cup {w} /\ tpc[w] \in TranscribingPcs /\ tpc'[w] \in PastPastePcs,
               tpc[w] \in PastPastePcs => tpc'[w] \in PastPastePcs,
               tpc'[w] \in TranscribingPcs => waudio[w] # Nobody
        PROVE  AudioInv'
    <2>2. /\ buf' \in {Nobody, recordings'}
          /\ \A v \in Workers : waudio'[v] \in 0 .. recordings'
          /\ AudioInOnePlace'
      BY <1>w, <1>t, <1>n DEF SameAudio, AudioInv, AudioInOnePlace
    <2>3. \A v \in Workers : /\ tpc'[v] \in EmptyPcs => waudio'[v] = Nobody
                             /\ tpc'[v] \in StoppedPcs => ~recording'
                             /\ tpc'[v] \in CarryPcs => waudio'[v] \in {Nobody, recordings'}
      <3> SUFFICES ASSUME NEW v \in Workers
                   PROVE  /\ tpc'[v] \in EmptyPcs => waudio'[v] = Nobody
                          /\ tpc'[v] \in StoppedPcs => ~recording'
                          /\ tpc'[v] \in CarryPcs => waudio'[v] \in {Nobody, recordings'}
        OBVIOUS
      <3>1. /\ tpc'[v] \in EmptyPcs => tpc[v] \in EmptyPcs
            /\ tpc'[v] \in StoppedPcs => tpc[v] \in StoppedPcs
            /\ tpc'[v] \in CarryPcs => tpc[v] \in CarryPcs
        BY <1>w
      <3> QED
        BY <1>w, <3>1 DEF SameAudio, AudioInv
    <2>4. \A v \in Workers : v \in pasted' \/ tpc'[v] \in TranscribingPcs => waudio'[v] # Nobody
      BY <1>w, <1>t DEF SameAudio, AudioInv
    <2>5. \A v \in pasted' : tpc'[v] \in PastPastePcs
      BY <1>w, <1>t DEF AudioInv
    <2> QED
      BY <2>2, <2>3, <2>4, <2>5 DEF AudioInv
  <1>1. CASE StartOpens
    <2>1. /\ recordings' = recordings + 1 /\ buf' = recordings + 1
          /\ UNCHANGED <<tpc, waudio, pasted>>
      BY <1>1 DEF StartOpens, OpensRecording
    <2>2. \A w \in Workers : tpc[w] \notin StoppedPcs /\ tpc[w] \notin CarryPcs
      BY <1>1 DEF StartOpens, ToggleCommits, SteadyInv, NotBusyMeansDone, InFlightPcs,
                  StoppedPcs, CarryPcs, TranscribingPcs
    <2>3. \A w \in Workers : waudio[w] \in 0 .. recordings
      BY DEF AudioInv
    <2> QED
      BY <2>1, <2>2, <2>3, <1>t, <1>n DEF AudioInv, AudioInOnePlace
  <1>2. ASSUME NEW id, StopWith(id) PROVE AudioInv'
    <2>1. PICK w \in Workers : WStep(w, "none", "stop")
      BY <1>2 DEF StopWith
    <2>2. SameAudio /\ pasted' = pasted
      BY <1>2 DEF StopWith, SameAudio
    <2> QED
      BY <2>1, <2>2, <1>w, <1>t DEF WStep, PastPastePcs, TranscribingPcs,
                                      EmptyPcs, StoppedPcs, CarryPcs, InFlightPcs
  <1>3. CASE Entries
    <2>1. CASE \E id : StopWith(id)
      BY <1>2, <2>1
    <2>2. CASE StartRefused \/ StartCommits \/ AutoStopScheduled \/ AutoStopCleared \/ CancelBegins
               \/ CancelFinishes \/ CancelTranscription \/ (AutoStopRuns /\ UNCHANGED workerVars)
      <3>1. SameAudio /\ tpc' = tpc /\ pasted' = pasted
        BY <2>2 DEF StartRefused, StartCommits, AutoStopScheduled, AutoStopCleared, CancelBegins,
                    CancelFinishes, CancelTranscription, AutoStopRuns, StopWith, SameAudio
      <3> QED
        BY <3>1, <1>k
    <2>3. CASE StartFails \/ CancelDiscards
      <3>1. SameAudio /\ tpc' = tpc /\ pasted' = pasted
        BY <2>3 DEF StartFails, CancelDiscards, DiscardRecording, SameAudio
      <3> QED
        BY <3>1, <1>k
    <2> QED
      BY <1>1, <1>3, <2>1, <2>2, <2>3
      DEF Entries, QueuedStart, Calm, Steady, ToggleStops, ReleaseStops, AutoStopRuns
  <1>4. CASE \E r \in Recordings : StartWorker(r)
    <2>1. SameAudio /\ tpc' = tpc /\ pasted' = pasted
      BY <1>4 DEF StartWorker, StartWorkerLoads, StartWorkerFails, FallbackDiscards,
                  StartWorkerTearsDown, DiscardRecording, SameAudio
    <2> QED
      BY <2>1, <1>k
  <1>5. ASSUME NEW w \in Workers, Infers(w) \/ PromptSteps(w) \/ WorkerErrs(w) PROVE AudioInv'
    <2>1. CASE WorkerStops(w)
      <3>1. /\ UNCHANGED <<recordings, buf, waudio, pasted>> /\ ~recording'
            /\ tpc[w] = "stop" /\ \E to \in {"export", "deliver"} : tpc' = [tpc EXCEPT ![w] = to]
        BY <2>1 DEF WorkerStops, WStep
      <3>2. w \notin pasted
        BY <3>1 DEF AudioInv, PastPastePcs
      <3> QED
        BY <3>1, <3>2, <1>t DEF AudioInv, AudioInOnePlace, TranscribingPcs, EmptyPcs, StoppedPcs, CarryPcs
    <2>2. CASE WorkerExports(w)
      <3>1. /\ UNCHANGED <<recordings, recording, pasted>>
            /\ tpc[w] = "export" /\ tpc' = [tpc EXCEPT ![w] = "deliver"]
            /\ waudio' = [waudio EXCEPT ![w] = buf] /\ buf' = Nobody
        BY <2>2 DEF WorkerExports, WStep, AudioInv, StoppedPcs, InFlightPcs
      <3>2. w \notin pasted
        BY <3>1 DEF AudioInv, PastPastePcs
      <3>3. AudioInOnePlace'
        BY <3>1, <1>t, <1>n DEF AudioInv, AudioInOnePlace
      <3>4. /\ waudio'[w] = buf /\ tpc'[w] = "deliver"
            /\ \A v \in Workers \ {w} : waudio'[v] = waudio[v] /\ tpc'[v] = tpc[v]
        BY <3>1, <1>t
      <3>5. /\ buf' \in {Nobody, recordings'}
            /\ \A v \in Workers : waudio'[v] \in 0 .. recordings'
        BY <3>1, <3>4, <1>t, <1>n DEF AudioInv
      <3>6. \A v \in Workers : /\ tpc'[v] \in EmptyPcs => waudio'[v] = Nobody
                               /\ tpc'[v] \in StoppedPcs => ~recording'
                               /\ tpc'[v] \in CarryPcs => waudio'[v] \in {Nobody, recordings'}
        BY <3>1, <3>4 DEF AudioInv, EmptyPcs, StoppedPcs, InFlightPcs
      <3>7. /\ \A v \in Workers : v \in pasted' \/ tpc'[v] \in TranscribingPcs => waudio'[v] # Nobody
            /\ \A v \in pasted' : tpc'[v] \in PastPastePcs
        BY <3>1, <3>2, <3>4, <1>t DEF AudioInv, TranscribingPcs
      <3> QED
        BY <3>3, <3>5, <3>6, <3>7 DEF AudioInv
    <2>3. CASE WorkerDelivers(w)
      BY <2>3, <1>w, <1>t DEF WorkerDelivers, WStep, SameAudio, PastPastePcs,
                                TranscribingPcs, EmptyPcs, StoppedPcs, CarryPcs, InFlightPcs
    <2>4. CASE WorkerPastes(w)
      BY <2>4, <1>w, <1>t DEF WorkerPastes, WStep, SameAudio, PastPastePcs, TranscribingPcs,
                                EmptyPcs, StoppedPcs, CarryPcs, InFlightPcs
    <2>5. CASE ~WorkerStops(w) /\ ~WorkerExports(w) /\ ~WorkerDelivers(w) /\ ~WorkerPastes(w)
      <3>1. SameAudio /\ pasted' = pasted
        <4>1. UNCHANGED <<recording, recordings, buf, waudio, pasted>>
          BY <1>5, <2>5
          DEF Infers, WorkerTakesSession, WorkerHasText, WorkerIsEmpty, WorkerErrs,
              PromptSteps, WorkerStopFails, WorkerRefuses, WorkerReminds, WorkerArms,
              WorkerIsGuarded, WorkerCannotCopy, WorkerSignals, WorkerJoins,
              WorkerPopsSession, WorkerGoesIdle, WorkerClears, Calm, Steady
        <4> QED
          BY <4>1 DEF SameAudio
      <3>2. /\ \A v \in Workers \ {w} : tpc'[v] = tpc[v]
            /\ tpc'[w] \in EmptyPcs => tpc[w] \in EmptyPcs
            /\ tpc'[w] \in StoppedPcs => tpc[w] \in StoppedPcs
            /\ tpc'[w] \in CarryPcs => tpc[w] \in CarryPcs
            /\ tpc[w] \in PastPastePcs => tpc'[w] \in PastPastePcs
            /\ tpc'[w] \in TranscribingPcs => tpc[w] \in TranscribingPcs
        BY <1>5, <2>5, <1>t
        DEF Infers, WorkerTakesSession, WorkerHasText, WorkerIsEmpty, WorkerErrs,
            PromptSteps, WorkerStopFails, WorkerRefuses, WorkerReminds, WorkerArms,
            WorkerIsGuarded, WorkerCannotCopy, WorkerSignals, WorkerJoins,
            WorkerPopsSession, WorkerGoesIdle, WorkerClears, WStep, Calm, Steady,
            PastPastePcs, TranscribingPcs, EmptyPcs, StoppedPcs, CarryPcs, InFlightPcs
      <3>3. tpc[w] \in TranscribingPcs => waudio[w] # Nobody
        BY DEF AudioInv
      <3> QED
        BY <3>1, <3>2, <3>3, <1>w
    <2> QED
      BY <1>5, <2>1, <2>2, <2>3, <2>4, <2>5
  <1>6. CASE \E d \in Watchdogs : WatchdogLoop(d)
    <2>1. SameAudio /\ tpc' = tpc /\ pasted' = pasted
      BY <1>6 DEF WatchdogLoop, WatchdogFires, WatchdogIsReset, WatchdogLoops, SameAudio
    <2> QED
      BY <2>1, <1>k
  <1>7. CASE UNCHANGED vars
    BY <1>7, <1>k DEF vars, SameAudio
  <1> QED
    BY <1>3, <1>4, <1>5, <1>6, <1>7, NoRecovery DEF Next, SteadyInv

LEMMA AudioInvariance ==
  ASSUME Calm PROVE Spec => []AudioInv
  <1>1. Init => AudioInv
    <2> SUFFICES ASSUME Init PROVE AudioInv
      OBVIOUS
    <2>1. /\ tpc = [w \in Workers |-> "none"] /\ waudio = [w \in Workers |-> 0]
          /\ buf = 0 /\ recordings = 0 /\ pasted = {} /\ Nobody = 0
      BY DEF Init, Nobody
    <2> QED
      BY <2>1 DEF AudioInv, AudioInOnePlace, TranscribingPcs, StoppedPcs, CarryPcs, InFlightPcs
  <1>2. Steady
    BY DEF Calm
  <1> QED
    BY <1>1, <1>2, AudioStep, SteadyInvariance, PTL DEF Spec

(* In a calm environment the audio of a recording is in one place ...        *)
THEOREM CalmAudioInOnePlace == ASSUME Calm PROVE Spec => []AudioInOnePlace
  <1>1. AudioInv => AudioInOnePlace
    BY DEF AudioInv
  <1> QED
    BY <1>1, AudioInvariance, PTL

(* ... and reaches the user's document at most once.                         *)
THEOREM CalmPasteOnce == ASSUME Calm PROVE Spec => []PasteOnce
  <1>1. TypeOK /\ AudioInv => PasteOnce
    BY DEF AudioInv, AudioInOnePlace, PasteOnce, TypeOK, WorkerType
  <1> QED
    BY <1>1, AudioInvariance, TypeCorrect, PTL

-----------------------------------------------------------------------------
(* The calm lifecycle implements DictationContract.  A step opens a          *)
(* recording, pastes a text, or does neither; in the last case what it does  *)
(* to the dictations in flight (SteadyFlight) decides which step of the        *)
(* contract it is.                                                           *)
Stays ==
    /\ UNCHANGED <<recordings, pasted>>
    /\ recording' => recording
    /\ \A w \in pasted : waudio'[w] = waudio[w]

LEMMA ContractCases ==
  ASSUME Calm, TypeOK, EscHolds, SteadyInv, AudioInv, Next
  PROVE  StartOpens \/ (\E w \in Workers : WorkerPastes(w)) \/ Stays
  <1> USE DEF Stays, controlVars, captureVars, workerVars, watchdogVars
  <1>1. CASE Entries
    <2>1. CASE \E id : StopWith(id)
      BY <2>1 DEF StopWith
    <2>2. CASE StartRefused \/ StartCommits \/ AutoStopScheduled \/ AutoStopCleared \/ CancelBegins
               \/ CancelFinishes \/ CancelTranscription \/ (AutoStopRuns /\ UNCHANGED captureVars)
      BY <2>2 DEF StartRefused, StartCommits, AutoStopScheduled, AutoStopCleared, CancelBegins,
                  CancelFinishes, CancelTranscription, AutoStopRuns, StopWith
    <2>3. CASE StartFails \/ CancelDiscards
      BY <2>3 DEF StartFails, CancelDiscards, DiscardRecording
    <2> QED
      BY <1>1, <2>1, <2>2, <2>3
      DEF Entries, QueuedStart, Calm, Steady, ToggleStops, ReleaseStops, AutoStopRuns
  <1>2. CASE \E r \in Recordings : StartWorker(r)
    BY <1>2 DEF StartWorker, StartWorkerLoads, StartWorkerFails, FallbackDiscards,
                StartWorkerTearsDown, DiscardRecording
  <1>3. ASSUME NEW w \in Workers, Infers(w) \/ PromptSteps(w) \/ WorkerErrs(w), ~WorkerPastes(w)
        PROVE  Stays
    <2>1. CASE WorkerStops(w)
      BY <2>1 DEF WorkerStops
    <2>2. CASE WorkerExports(w)
      <3>1. w \notin pasted /\ waudio \in [Workers -> Recordings \cup {Nobody}] /\ pasted \subseteq Workers
        BY <2>2 DEF WorkerExports, WStep, AudioInv, PastPastePcs, TypeOK, WorkerType
      <3>2. waudio' = [waudio EXCEPT ![w] = buf] /\ UNCHANGED <<recordings, recording, pasted>>
        BY <2>2 DEF WorkerExports
      <3> QED
        BY <3>1, <3>2
    <2>3. CASE ~WorkerStops(w) /\ ~WorkerExports(w)
      <3>1. UNCHANGED <<recording, recordings, waudio, pasted>>
        BY <1>3, <2>3
        DEF Infers, WorkerTakesSession, WorkerHasText, WorkerIsEmpty, WorkerErrs,
            PromptSteps, WorkerStopFails, WorkerRefuses, WorkerReminds, WorkerDelivers,
            WorkerArms, WorkerIsGuarded, WorkerCannotCopy, WorkerSignals, WorkerJoins,
            WorkerPopsSession, WorkerGoesIdle, WorkerClears, Calm, Steady
      <3> QED
        BY <3>1
    <2> QED
      BY <2>1, <2>2, <2>3
  <1>4. CASE \E d \in Watchdogs : WatchdogLoop(d)
    BY <1>4 DEF WatchdogLoop, WatchdogFires, WatchdogIsReset, WatchdogLoops
  <1> QED
    BY <1>1, <1>2, <1>3, <1>4, NoRecovery DEF Next, SteadyInv

(* The state of the contract, as the refinement mapping has it.              *)
Phase == IF \E w \in Workers : tpc[w] \in InFlightPcs THEN "transcribing"
         ELSE IF recording THEN "recording" ELSE "idle"
Delivered == {waudio[w] : w \in pasted}

LEMMA ContractStep ==
  ASSUME Calm, TypeOK, EscHolds, SteadyInv, AudioInv, [Next]_vars
  PROVE  [Contract!Next]_(Contract!vars)
  <1>t. tpc \in [Workers -> WorkerPcs] /\ pasted \subseteq Workers
    BY DEF TypeOK, WorkerType
  <1>b. ASSUME Phase = "idle", Phase' = "recording", recordings < MaxRecordings,
               recordings' = recordings + 1, Delivered' = Delivered
        PROVE  Contract!Next
    BY <1>b DEF Contract!Next, Contract!Begin, Contract!Go, Phase, Delivered
  <1>d. ASSUME Phase = "recording", Phase' = "idle", recordings' = recordings, Delivered' = Delivered
        PROVE  Contract!Next
    BY <1>d DEF Contract!Next, Contract!Drop, Contract!Go, Phase, Delivered
  <1>p. ASSUME Phase = "recording", Phase' = "transcribing", recordings' = recordings, Delivered' = Delivered
        PROVE  Contract!Next
    BY <1>p DEF Contract!Next, Contract!Stop, Contract!Go, Phase, Delivered
  <1>e. ASSUME Phase = "transcribing", Phase' = "idle", recordings' = recordings, Delivered' = Delivered
        PROVE  Contract!Next
    BY <1>e DEF Contract!Next, Contract!Settle, Contract!Go, Phase, Delivered
  <1>v. ASSUME Phase = "transcribing", Phase' = "transcribing", recordings' = recordings,
               recordings \notin Delivered, Delivered' = Delivered \cup {recordings}
        PROVE  Contract!Next
    BY <1>v DEF Contract!Next, Contract!Deliver, Phase, Delivered
  <1>s. ASSUME Phase' = Phase, recordings' = recordings, Delivered' = Delivered
        PROVE  UNCHANGED Contract!vars
    BY <1>s DEF Contract!vars, Phase, Delivered
  <1>1. CASE UNCHANGED vars
    <2>1. UNCHANGED <<tpc, recording, recordings, waudio, pasted>>
      BY <1>1 DEF vars, captureVars, workerVars
    <2> QED
      BY <2>1, <1>s DEF Phase, Delivered
  <1>2. CASE StartOpens
    <2>1. /\ ~recording /\ recording' /\ ~busy /\ recordings < MaxRecordings
          /\ recordings' = recordings + 1 /\ UNCHANGED <<tpc, waudio, pasted>>
      BY <1>2 DEF StartOpens, ToggleCommits, OpensRecording, workerVars
    <2>2. \A w \in Workers : tpc[w] \notin InFlightPcs
      BY <2>1 DEF SteadyInv, NotBusyMeansDone
    <2> QED
      BY <2>1, <2>2, <1>b DEF Phase, Delivered
  <1>3. ASSUME NEW w \in Workers, WorkerPastes(w) PROVE Contract!Next
    <2>1. /\ tpc[w] = "paste" /\ tpc' = [tpc EXCEPT ![w] = "signal"]
          /\ pasted' = pasted \cup {w} /\ UNCHANGED <<recordings, waudio>>
      BY <1>3 DEF WorkerPastes, WStep, captureVars
    <2>2. waudio[w] = recordings /\ waudio[w] # Nobody
      BY <2>1 DEF AudioInv, CarryPcs, TranscribingPcs
    <2>3. \A v \in pasted : waudio[v] # recordings
      <3> SUFFICES ASSUME NEW v \in pasted, waudio[v] = recordings PROVE FALSE
        OBVIOUS
      <3>1. v # w /\ v \in Workers
        BY <2>1, <1>t DEF AudioInv, PastPastePcs
      <3> QED
        BY <3>1, <2>2 DEF AudioInv, AudioInOnePlace
    <2>4. Phase = "transcribing" /\ Phase' = "transcribing"
      <3>1. tpc[w] \in InFlightPcs /\ tpc'[w] \in InFlightPcs
        BY <2>1, <1>t DEF InFlightPcs
      <3> QED
        BY <3>1 DEF Phase
    <2>5. recordings \notin Delivered /\ Delivered' = Delivered \cup {recordings}
      BY <2>1, <2>2, <2>3 DEF Delivered
    <2> QED
      BY <2>1, <2>4, <2>5, <1>v
  <1>4. CASE Next /\ Stays
    <2>1. recordings' = recordings /\ Delivered' = Delivered /\ (recording' => recording)
      BY <1>4 DEF Stays, Delivered
    <2>2. (\E w \in Workers : tpc[w] \in InFlightPcs) <=> InFlight # {}
      BY DEF InFlight
    <2>3. (\E w \in Workers : tpc'[w] \in InFlightPcs) <=> InFlight' # {}
      BY DEF InFlight
    <2>4. CASE Cruises
      <3>1. CASE Phase' = Phase
        BY <3>1, <2>1, <1>s
      <3>2. CASE Phase' # Phase
        <4>1. Phase = "recording" /\ Phase' = "idle"
          BY <3>2, <2>1, <2>2, <2>3, <2>4 DEF Cruises, Phase
        <4> QED
          BY <4>1, <2>1, <1>d
      <3> QED
        BY <3>1, <3>2
    <2>5. CASE TakesOff
      <3>1. Phase' = "transcribing"
        BY <2>3, <2>5 DEF TakesOff, Phase
      <3>2. Phase = "recording"
        BY <2>5 DEF TakesOff, Phase, SteadyInv, NotBusyMeansDone
      <3> QED
        BY <3>1, <3>2, <2>1, <1>p
    <2>6. CASE Lands
      <3>1. PICK w \in InFlight : tpc[w] # "stop" /\ InFlight' = InFlight \ {w}
        BY <2>6 DEF Lands
      <3>2. InFlight' = {}
        BY <3>1 DEF InFlight, SteadyInv, OneCycleAtATime
      <3>3. ~recording'
        BY <3>1, <2>1 DEF AudioInv, StoppedPcs, InFlight
      <3>4. Phase = "transcribing" /\ Phase' = "idle"
        BY <3>1, <3>2, <3>3, <2>2, <2>3 DEF Phase
      <3> QED
        BY <3>4, <2>1, <1>e
    <2> QED
      BY <1>4, <2>4, <2>5, <2>6, SteadyFlight DEF Calm
  <1> QED
    BY <1>1, <1>2, <1>3, <1>4, ContractCases

(* When nothing goes wrong but loads, microphones and slow joins, the        *)
(* lifecycle does what the contract promises: one recording at a time, and   *)
(* each delivered at most once, before the next begins.                      *)
THEOREM CalmKeepsContract == ASSUME Calm PROVE Spec => KeepsContract
  <1>1. Init => Contract!Init
    <2> SUFFICES ASSUME Init PROVE Contract!Init
      OBVIOUS
    <2>1. /\ tpc = [w \in Workers |-> "none"] /\ ~recording /\ recordings = 0 /\ pasted = {}
      BY DEF Init
    <2>2. \A w \in Workers : tpc[w] \notin InFlightPcs
      BY <2>1 DEF InFlightPcs
    <2> QED
      BY <2>1, <2>2 DEF Contract!Init
  <1>2. Steady
    BY DEF Calm
  <1> QED
    BY <1>1, <1>2, ContractStep, SteadyInvariance, AudioInvariance, PTL
    DEF Spec, KeepsContract, Contract!Spec
=============================================================================
