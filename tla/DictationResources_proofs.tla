----------------------- MODULE DictationResources_proofs -----------------------
(***************************************************************************)
(* DictationResources implements DictationLifecycle: streaming sessions,   *)
(* volume, keyboard and tray add nothing to what the lifecycle may do, so  *)
(* what is proved of it holds of the larger system.                        *)
(***************************************************************************)
EXTENDS MCResources, DictationLifecycle_proofs

(* The entries, and the tray timer, are entries of the lifecycle or stutter. *)
LEMMA EntriesRefine ==
  ASSUME \/ RefusesStart \/ RefusesHotkey \/ OpensStream \/ FailsToStart \/ CommitsStart
         \/ AcceptsStop \/ BeginsCancel \/ FinishesCancel \/ CaptureHotkey \/ Repaint
  PROVE  Entries \/ UNCHANGED vars
  BY DEF RefusesStart, RefusesHotkey, OpensStream, FailsToStart, CommitsStart, AcceptsStop,
         BeginsCancel, FinishesCancel, CaptureHotkey, Repaint, Entries

LEMMA StartRefines ==
  ASSUME NEW r \in Recordings,
         \/ DucksVolume(r) \/ LoadsEngine(r) \/ StartsStream(r) \/ PublishesStream(r)
         \/ FailsToLoad(r) \/ TearsDown(r)
  PROVE  StartWorker(r) \/ UNCHANGED vars
  BY DEF DucksVolume, LoadsEngine, StartsStream, PublishesStream, FailsToLoad, TearsDown,
         StartWorker

LEMMA TranscriptionRefines ==
  ASSUME NEW w \in Workers,
         \/ FailsToStop(w) \/ RefusesAudio(w) \/ DeliversAudio(w) \/ TakesSession(w)
         \/ FindsNothing(w) \/ ShowsError(w) \/ PastesText(w) \/ CannotCopy(w)
         \/ SchedulesRepaint(w) \/ DropsSession(w)
  PROVE  Infers(w) \/ PromptSteps(w) \/ WorkerErrs(w)
  BY DEF FailsToStop, RefusesAudio, DeliversAudio, TakesSession, FindsNothing, ShowsError,
         PastesText, CannotCopy, SchedulesRepaint, DropsSession, Infers, PromptSteps

LEMMA RecoveryRefines ==
  ASSUME NEW x \in Recoverers,
         StillTranscribing(x) \/ CancelsStuckSession(x) \/ AnnouncesRecovery(x)
  PROVE  ForceRecover(x)
  BY DEF StillTranscribing, CancelsStuckSession, AnnouncesRecovery, ForceRecover

LEMMA LifecycleOnlyRefines == LifecycleOnly => Next
  <1> SUFFICES ASSUME LifecycleOnly PROVE Next
    OBVIOUS
  <1>1. CASE \/ AutoStopScheduled \/ AutoStopCleared \/ AutoStopRuns
             \/ CancelDiscards \/ CancelTranscription
    BY <1>1 DEF Entries, Next
  <1>2. CASE \E r \in Recordings : FallbackDiscards(r)
    BY <1>2 DEF StartWorker, Next
  <1>3. CASE \E w \in Workers :
               \/ WorkerStops(w) \/ WorkerExports(w) \/ WorkerArms(w) \/ WorkerHasText(w)
               \/ WorkerIsGuarded(w) \/ WorkerSignals(w) \/ WorkerJoins(w)
               \/ WorkerGoesIdle(w) \/ WorkerClears(w)
    BY <1>3 DEF Infers, PromptSteps, Next
  <1>4. CASE \E d \in Watchdogs : WatchdogLoop(d)
    BY <1>4 DEF Next
  <1>5. CASE \E x \in Recoverers :
               \/ RecoverProceeds(x) \/ RecoverMarks(x) \/ RecoverHalts(x)
               \/ RecoverJoins(x) \/ RecoverReleases(x)
    BY <1>5 DEF ForceRecover, Next
  <1> QED
    BY <1>1, <1>2, <1>3, <1>4, <1>5 DEF LifecycleOnly

LEMMA StepRefines == [ResourcesNext]_allVars => [Next]_vars
  <1> SUFFICES ASSUME [ResourcesNext]_allVars PROVE [Next]_vars
    OBVIOUS
  <1>1. CASE UNCHANGED allVars
    BY <1>1 DEF allVars
  <1>2. CASE ResourcesNext
    <2>1. CASE \/ RefusesStart \/ RefusesHotkey \/ OpensStream \/ FailsToStart \/ CommitsStart
               \/ AcceptsStop \/ BeginsCancel \/ FinishesCancel \/ CaptureHotkey \/ Repaint
      BY <2>1, EntriesRefine DEF Next
    <2>2. CASE \E r \in Recordings :
                 \/ DucksVolume(r) \/ LoadsEngine(r) \/ StartsStream(r) \/ PublishesStream(r)
                 \/ FailsToLoad(r) \/ TearsDown(r)
      BY <2>2, StartRefines DEF Next
    <2>3. CASE \E w \in Workers :
                 \/ FailsToStop(w) \/ RefusesAudio(w) \/ DeliversAudio(w) \/ TakesSession(w)
                 \/ FindsNothing(w) \/ ShowsError(w) \/ PastesText(w) \/ CannotCopy(w)
                 \/ SchedulesRepaint(w) \/ DropsSession(w)
      BY <2>3, TranscriptionRefines DEF Next
    <2>4. CASE \E x \in Recoverers :
                 StillTranscribing(x) \/ CancelsStuckSession(x) \/ AnnouncesRecovery(x)
      BY <2>4, RecoveryRefines DEF Next
    <2>5. CASE LifecycleOnly
      BY <2>5, LifecycleOnlyRefines
    <2> QED
      BY <1>2, <2>1, <2>2, <2>3, <2>4, <2>5 DEF ResourcesNext
  <1> QED
    BY <1>1, <1>2

(* Every behaviour of the server with its sessions, volume, keyboard and     *)
(* tray is, the resources put aside, a behaviour of the lifecycle.           *)
THEOREM ResourcesRefine == ResourcesSpec => Spec
  <1>1. ResourcesInit => Init
    BY DEF ResourcesInit
  <1> QED
    BY <1>1, StepRefines, PTL DEF ResourcesSpec, Spec

(* Its busy flag, too, never stays up with nobody in flight to lower it.     *)
THEOREM ResourcesNeverStuckBusy == ResourcesSpec => []BusyHasWorker
  BY ResourcesRefine, NeverStuckBusy

-----------------------------------------------------------------------------
(* The types of the resources, by what a step does to each group of them.    *)

LEMMA SessionsKeepType ==
  ASSUME ResourcesTypeOK,
         \/ UNCHANGED sessionVars
         \/ CancelSession
         \/ PopSession /\ live' \subseteq live
         \/ pendingFinal' = session /\ UNCHANGED <<session, live>>
         \/ /\ session' \in Recordings \cup {Nobody} /\ live' \subseteq Recordings
            /\ UNCHANGED pendingFinal
  PROVE  /\ session' \in Recordings \cup {Nobody}
         /\ pendingFinal' \in Recordings \cup {Nobody}
         /\ live' \subseteq Recordings
  BY DEF ResourcesTypeOK, sessionVars, CancelSession, PopSession

LEMMA ResourcesTypeStep == ResourcesTypeOK /\ [ResourcesNext]_allVars => ResourcesTypeOK'
  <1> SUFFICES ASSUME ResourcesTypeOK, [ResourcesNext]_allVars PROVE ResourcesTypeOK'
    OBVIOUS
  <1> USE DEF resourceVars, faceVars
  <1> DEFINE Faces == /\ owner' \in {"normal", "recording", "hotkey_capture"}
                      /\ ducked' \in BOOLEAN
                      /\ tray' \in {"idle", "recording", "cancelling", "transcribing", "error"}
                      /\ repaint' \in BOOLEAN
             Sessions == /\ session' \in Recordings \cup {Nobody}
                         /\ pendingFinal' \in Recordings \cup {Nobody}
                         /\ live' \subseteq Recordings
             Walks == phase' \in [Recordings -> Phases]
  <1>1. CASE UNCHANGED resourceVars
    BY <1>1 DEF ResourcesTypeOK, sessionVars
  <1>2. CASE RefusesStart \/ RefusesHotkey \/ OpensStream \/ FailsToStart \/ CommitsStart
    <2>1. Faces
      BY <1>2 DEF ResourcesTypeOK, RefusesStart, RefusesHotkey, OpensStream, FailsToStart,
                  CommitsStart
    <2>2. Sessions
      BY <1>2, SessionsKeepType DEF RefusesStart, RefusesHotkey, OpensStream, FailsToStart,
                  CommitsStart
    <2>3. Walks
      BY <1>2 DEF ResourcesTypeOK, RefusesStart, RefusesHotkey, OpensStream, FailsToStart,
                  CommitsStart, PStep, Phases
    <2> QED
      BY <2>1, <2>2, <2>3 DEF ResourcesTypeOK
  <1>3. CASE AcceptsStop \/ BeginsCancel \/ FinishesCancel \/ CaptureHotkey \/ Repaint
    <2>1. Faces
      BY <1>3 DEF ResourcesTypeOK, AcceptsStop, BeginsCancel, FinishesCancel, CaptureHotkey,
                  Repaint, GivesUpKeyboard
    <2>2. Sessions
      BY <1>3, SessionsKeepType DEF AcceptsStop, BeginsCancel, FinishesCancel,
                  CaptureHotkey, Repaint
    <2>3. Walks
      BY <1>3 DEF ResourcesTypeOK, AcceptsStop, BeginsCancel, FinishesCancel, CaptureHotkey,
                  Repaint
    <2> QED
      BY <2>1, <2>2, <2>3 DEF ResourcesTypeOK
  <1>4. ASSUME NEW r \in Recordings,
               \/ DucksVolume(r) \/ LoadsEngine(r) \/ StartsStream(r) \/ PublishesStream(r)
               \/ FailsToLoad(r) \/ TearsDown(r)
        PROVE  ResourcesTypeOK'
    <2>1. Faces
      <3>1. CASE DucksVolume(r)
        BY <3>1 DEF ResourcesTypeOK, DucksVolume
      <3> QED
        BY <1>4, <3>1 DEF ResourcesTypeOK, LoadsEngine, StartsStream, PublishesStream,
                          FailsToLoad, TearsDown
    <2>2. Sessions
      <3>1. live \cup {r} \subseteq Recordings /\ live \subseteq Recordings
        BY DEF ResourcesTypeOK
      <3> QED
        BY <1>4, <3>1, SessionsKeepType DEF DucksVolume, LoadsEngine, StartsStream,
                          PublishesStream, FailsToLoad, TearsDown
    <2>3. Walks
      BY <1>4 DEF ResourcesTypeOK, DucksVolume, LoadsEngine, StartsStream, PublishesStream,
                  FailsToLoad, TearsDown, PStep, Phases
    <2> QED
      BY <2>1, <2>2, <2>3 DEF ResourcesTypeOK
  <1>5. ASSUME NEW w \in Workers,
               \/ FailsToStop(w) \/ RefusesAudio(w) \/ DeliversAudio(w) \/ TakesSession(w)
               \/ FindsNothing(w) \/ ShowsError(w) \/ PastesText(w) \/ CannotCopy(w)
               \/ SchedulesRepaint(w) \/ DropsSession(w)
        PROVE  ResourcesTypeOK'
    <2>1. Faces
      BY <1>5 DEF ResourcesTypeOK, FailsToStop, RefusesAudio, DeliversAudio, TakesSession,
                  FindsNothing, ShowsError, PastesText, CannotCopy, SchedulesRepaint,
                  DropsSession
    <2>2. Sessions
      BY <1>5, SessionsKeepType DEF FailsToStop, RefusesAudio, DeliversAudio, TakesSession,
                  FindsNothing, ShowsError, PastesText, CannotCopy, SchedulesRepaint,
                  DropsSession
    <2>3. Walks
      BY <1>5 DEF ResourcesTypeOK, FailsToStop, RefusesAudio, DeliversAudio, TakesSession,
                  FindsNothing, ShowsError, PastesText, CannotCopy, SchedulesRepaint,
                  DropsSession
    <2> QED
      BY <2>1, <2>2, <2>3 DEF ResourcesTypeOK
  <1>6. ASSUME NEW x \in Recoverers,
               StillTranscribing(x) \/ CancelsStuckSession(x) \/ AnnouncesRecovery(x)
        PROVE  ResourcesTypeOK'
    <2>1. Sessions
      BY <1>6, SessionsKeepType DEF StillTranscribing, CancelsStuckSession, AnnouncesRecovery
    <2>2. Faces /\ Walks
      BY <1>6 DEF ResourcesTypeOK, StillTranscribing, CancelsStuckSession, AnnouncesRecovery
    <2> QED
      BY <2>1, <2>2 DEF ResourcesTypeOK
  <1> QED
    BY <1>1, <1>2, <1>3, <1>4, <1>5, <1>6 DEF ResourcesNext, LifecycleOnly, allVars

(* Whatever recovery path runs, the session references name recordings or    *)
(* nobody, and keyboard, volume and tray keep their types.                   *)
THEOREM ResourcesTypeCorrect == ResourcesSpec => []ResourcesTypeOK
  <1>1. ResourcesInit => ResourcesTypeOK
    BY DEF ResourcesInit, ResourcesTypeOK, Phases
  <1> QED
    BY <1>1, ResourcesTypeStep, PTL DEF ResourcesSpec
-----------------------------------------------------------------------------
(* Who will give the system volume back while it is lowered: a recording     *)
(* that is running, a cancel() past its discard, a start worker that has yet *)
(* to look again, a worker that has yet to deliver.  A start worker that     *)
(* died of a failed load gives it back no more.                              *)
VolumeFollows ==
    ducked => \/ recording
              \/ lock = "discarded"
              \/ \E r \in Recordings : phase[r] = "ducked"
              \/ \E r \in Recordings : spc[r] \in {"teardown", "died"}
              \/ \E w \in Workers : tpc[w] \in {"export", "deliver"}

(* Most steps leave each of them where it is.                                *)
LEMMA VolumeKept ==
  ASSUME VolumeFollows,
         ducked' => ducked,
         recording => recording',
         lock = "discarded" => lock' = "discarded",
         \A r \in Recordings : phase[r] = "ducked" => phase'[r] = "ducked",
         \A r \in Recordings : spc[r] \in {"teardown", "died"} => spc'[r] \in {"teardown", "died"},
         \A w \in Workers : tpc[w] \in {"export", "deliver"} => tpc'[w] \in {"export", "deliver"}
  PROVE  VolumeFollows'
  BY DEF VolumeFollows

LEMMA VolumeEntries ==
  ASSUME TypeOK, ResourcesTypeOK, VolumeFollows,
         \/ RefusesStart \/ RefusesHotkey \/ OpensStream \/ FailsToStart \/ CommitsStart
         \/ AcceptsStop \/ BeginsCancel \/ FinishesCancel \/ CaptureHotkey \/ Repaint
  PROVE  VolumeFollows'
  <1>t. /\ spc \in [Recordings -> StartPcs] /\ phase \in [Recordings -> Phases]
        /\ tpc \in [Workers -> WorkerPcs]
    BY DEF TypeOK, CaptureType, WorkerType, ResourcesTypeOK
  <1> USE DEF controlVars, captureVars, workerVars, watchdogVars
  <1>1. CASE RefusesStart
    BY <1>1, VolumeKept DEF RefusesStart, StartRefused
  <1>2. CASE RefusesHotkey \/ CaptureHotkey \/ Repaint
    BY <1>2, VolumeKept DEF RefusesHotkey, CaptureHotkey, Repaint, vars
  <1>3. CASE OpensStream
    <2>1. recording'
      BY <1>3 DEF OpensStream, StartOpens, QueuedStart, OpensRecording
    <2> QED
      BY <2>1 DEF VolumeFollows
  <1>4. CASE FailsToStart
    BY <1>4, VolumeKept DEF FailsToStart, StartFails
  <1>5. CASE CommitsStart
    <2>1. /\ UNCHANGED <<recording, tpc, ducked>> /\ lock = "start"
          /\ \E r : spc[r] = "none" /\ spc' = [spc EXCEPT ![r] = "load"]
          /\ \E r : phase[r] = "none" /\ phase' = [phase EXCEPT ![r] = "duck"]
      BY <1>5 DEF CommitsStart, StartCommits, SStep, PStep
    <2> QED
      BY <2>1, <1>t, VolumeKept
  <1>6. CASE AcceptsStop
    <2>1. /\ UNCHANGED <<recording, ducked, lock, spc, phase>>
          /\ \E w : tpc[w] = "none" /\ tpc' = [tpc EXCEPT ![w] = "stop"]
      BY <1>6 DEF AcceptsStop, ToggleStops, ReleaseStops, AutoStopRuns, StopWith, WStep
    <2> QED
      BY <2>1, <1>t, VolumeKept
  <1>7. CASE BeginsCancel
    BY <1>7, VolumeKept DEF BeginsCancel, CancelBegins, EscPressed
  <1>8. CASE FinishesCancel
    BY <1>8 DEF FinishesCancel, VolumeFollows
  <1> QED
    BY <1>1, <1>2, <1>3, <1>4, <1>5, <1>6, <1>7, <1>8

LEMMA VolumeStart ==
  ASSUME TypeOK, ResourcesTypeOK, VolumeFollows, NEW r \in Recordings,
         \/ DucksVolume(r) \/ LoadsEngine(r) \/ StartsStream(r) \/ PublishesStream(r)
         \/ FailsToLoad(r) \/ TearsDown(r)
  PROVE  VolumeFollows'
  <1>t. spc \in [Recordings -> StartPcs] /\ phase \in [Recordings -> Phases]
    BY DEF TypeOK, CaptureType, ResourcesTypeOK
  <1> USE DEF controlVars, captureVars, workerVars, watchdogVars, faceVars, vars, PStep, SStep
  <1>1. CASE DucksVolume(r)
    <2>1. UNCHANGED vars
      BY <1>1 DEF DucksVolume
    <2>2. CASE phase[r] = "ducked" /\ ducked' = (recording /\ ducked)
      BY <2>1, <2>2 DEF VolumeFollows
    <2>3. CASE phase' = [phase EXCEPT ![r] = "ducked"]
      BY <2>3, <1>t DEF VolumeFollows
    <2>4. CASE /\ phase[r] = "duck" /\ UNCHANGED ducked
               /\ \E to : phase' = [phase EXCEPT ![r] = to]
      BY <2>1, <2>4, <1>t, VolumeKept
    <2> QED
      BY <1>1, <2>2, <2>3, <2>4 DEF DucksVolume
  <1>2. CASE StartsStream(r) \/ PublishesStream(r)
    <2>1. /\ UNCHANGED vars /\ UNCHANGED ducked
          /\ \E from, to : from # "ducked" /\ phase[r] = from /\ phase' = [phase EXCEPT ![r] = to]
      BY <1>2 DEF StartsStream, PublishesStream
    <2> QED
      BY <2>1, <1>t, VolumeKept
  <1>3. CASE LoadsEngine(r) \/ FailsToLoad(r)
    <2>1. /\ UNCHANGED <<recording, lock, tpc, ducked>>
          /\ phase[r] = "ready" /\ \E to : phase' = [phase EXCEPT ![r] = to]
          /\ spc[r] = "load" /\ \E to : spc' = [spc EXCEPT ![r] = to]
      BY <1>3 DEF LoadsEngine, StartWorkerLoads, FailsToLoad, StartWorkerFails
    <2> QED
      BY <2>1, <1>t, VolumeKept
  <1>4. CASE TearsDown(r)
    <2>1. spc' = [spc EXCEPT ![r] = "died"]
      BY <1>4 DEF TearsDown, StartWorkerTearsDown
    <2> QED
      BY <2>1, <1>t DEF VolumeFollows
  <1> QED
    BY <1>1, <1>2, <1>3, <1>4

LEMMA VolumeTranscription ==
  ASSUME TypeOK, ResourcesTypeOK, VolumeFollows, NEW w \in Workers,
         \/ FailsToStop(w) \/ RefusesAudio(w) \/ DeliversAudio(w) \/ TakesSession(w)
         \/ FindsNothing(w) \/ ShowsError(w) \/ PastesText(w) \/ CannotCopy(w)
         \/ SchedulesRepaint(w) \/ DropsSession(w)
  PROVE  VolumeFollows'
  <1>t. tpc \in [Workers -> WorkerPcs]
    BY DEF TypeOK, WorkerType
  <1> USE DEF controlVars, captureVars, workerVars, watchdogVars, faceVars
  <1>1. CASE FailsToStop(w) \/ RefusesAudio(w) \/ DeliversAudio(w)
    BY <1>1 DEF FailsToStop, RefusesAudio, DeliversAudio, VolumeFollows
  <1>2. CASE \/ TakesSession(w) \/ FindsNothing(w) \/ ShowsError(w) \/ PastesText(w)
             \/ CannotCopy(w) \/ SchedulesRepaint(w) \/ DropsSession(w)
    <2>1. /\ UNCHANGED <<recording, lock, spc, ducked, phase>>
          /\ \E from, to : /\ from \notin {"export", "deliver"}
                           /\ tpc[w] = from /\ tpc' = [tpc EXCEPT ![w] = to]
      BY <1>2 DEF TakesSession, FindsNothing, ShowsError, PastesText, CannotCopy,
                  SchedulesRepaint, DropsSession, WorkerTakesSession, WorkerIsEmpty,
                  WorkerErrs, WorkerPastes, WorkerCannotCopy, WorkerReminds,
                  WorkerPopsSession, WStep
    <2> QED
      BY <2>1, <1>t, VolumeKept
  <1> QED
    BY <1>1, <1>2

(* A forced recovery touches no recording and no worker; only that of        *)
(* cancel() gives a lock back, its own.                                      *)
LEMMA RecoveryFrame ==
  ASSUME TypeOK, EscHolds, NEW x \in Recoverers, ForceRecover(x)
  PROVE  /\ UNCHANGED <<captureVars, spc, workerVars>>
         /\ lock = "discarded" => lock' = "discarded"
  <1> USE DEF controlVars, captureVars, workerVars, watchdogVars
  <1>1. CASE RecoverLeaves(x) \/ RecoverAnnounces(x)
    <2>1. /\ UNCHANGED <<captureVars, spc, workerVars>>
          /\ lock' = lock \/ (x = Esc /\ rpc[Esc] \in {"check", "force", "announce"})
      BY <1>1 DEF RecoverLeaves, RecoverAnnounces, RecoverEnds, RStep
    <2> QED
      BY <2>1 DEF EscHolds
  <1>2. CASE \/ RecoverProceeds(x) \/ RecoverMarks(x) \/ RecoverHalts(x) \/ RecoverJoins(x)
             \/ RecoverDrops(x) \/ RecoverReleases(x)
    BY <1>2 DEF RecoverProceeds, RecoverMarks, RecoverHalts, RecoverJoins, RecoverDrops,
                RecoverReleases
  <1> QED
    BY <1>1, <1>2 DEF ForceRecover

LEMMA VolumeOthers ==
  ASSUME TypeOK, EscHolds, ResourcesTypeOK, VolumeFollows,
         \/ LifecycleOnly
         \/ \E x \in Recoverers :
               StillTranscribing(x) \/ CancelsStuckSession(x) \/ AnnouncesRecovery(x)
  PROVE  VolumeFollows'
  <1>t. spc \in [Recordings -> StartPcs] /\ tpc \in [Workers -> WorkerPcs]
    BY DEF TypeOK, CaptureType, WorkerType
  <1> USE DEF controlVars, captureVars, workerVars, watchdogVars, resourceVars, faceVars
  <1>1. ASSUME UNCHANGED <<ducked, phase>>, NEW x \in Recoverers, ForceRecover(x)
        PROVE  VolumeFollows'
    BY <1>1, RecoveryFrame, VolumeKept
  <1>2. CASE \E x \in Recoverers :
               StillTranscribing(x) \/ CancelsStuckSession(x) \/ AnnouncesRecovery(x)
    BY <1>1, <1>2 DEF StillTranscribing, CancelsStuckSession, AnnouncesRecovery, ForceRecover
  <1>3. CASE LifecycleOnly
    <2>0. UNCHANGED <<ducked, phase>>
      BY <1>3 DEF LifecycleOnly
    <2>1. CASE AutoStopScheduled \/ AutoStopCleared \/ (AutoStopRuns /\ (~recording \/ busy))
      BY <2>0, <2>1, VolumeKept DEF AutoStopScheduled, AutoStopCleared, AutoStopRuns, StopWith
    <2>2. CASE CancelDiscards
      BY <2>2 DEF CancelDiscards, VolumeFollows
    <2>3. CASE CancelTranscription
      BY <2>0, <2>3, VolumeKept DEF CancelTranscription, EscPressed
    <2>4. ASSUME NEW r \in Recordings, FallbackDiscards(r)
          PROVE  VolumeFollows'
      <3>1. spc' = [spc EXCEPT ![r] = "teardown"]
        BY <2>4 DEF FallbackDiscards, SStep
      <3> QED
        BY <3>1, <1>t DEF VolumeFollows
    <2>5. ASSUME NEW w \in Workers, WorkerStops(w)
          PROVE  VolumeFollows'
      <3>1. \E to \in {"export", "deliver"} : tpc' = [tpc EXCEPT ![w] = to]
        BY <2>5 DEF WorkerStops, WStep
      <3> QED
        BY <3>1, <1>t DEF VolumeFollows
    <2>6. ASSUME NEW w \in Workers, WorkerExports(w)
          PROVE  VolumeFollows'
      BY <2>0, <2>6, <1>t, VolumeKept DEF WorkerExports, WStep
    <2>7. ASSUME NEW w \in Workers,
                 \/ WorkerArms(w) \/ WorkerHasText(w) \/ WorkerIsGuarded(w) \/ WorkerSignals(w)
                 \/ WorkerJoins(w) \/ WorkerGoesIdle(w) \/ WorkerClears(w)
          PROVE  VolumeFollows'
      <3>1. /\ UNCHANGED <<recording, lock, spc>>
            /\ \E from, to : /\ from \notin {"export", "deliver"}
                             /\ tpc[w] = from /\ tpc' = [tpc EXCEPT ![w] = to]
        BY <2>7 DEF WorkerArms, WorkerHasText, WorkerIsGuarded, WorkerSignals, WorkerJoins,
                    WorkerGoesIdle, WorkerClears, WStep
      <3> QED
        BY <2>0, <3>1, <1>t, VolumeKept
    <2>8. CASE \E d \in Watchdogs : WatchdogLoop(d)
      BY <2>0, <2>8, VolumeKept DEF WatchdogLoop, WatchdogFires, WatchdogIsReset, WatchdogLoops
    <2>9. ASSUME NEW x \in Recoverers,
                 \/ RecoverProceeds(x) \/ RecoverMarks(x) \/ RecoverHalts(x)
                 \/ RecoverJoins(x) \/ RecoverReleases(x)
          PROVE  VolumeFollows'
      BY <2>0, <2>9, <1>1 DEF ForceRecover
    <2> QED
      BY <1>3, <2>1, <2>2, <2>3, <2>4, <2>5, <2>6, <2>7, <2>8, <2>9 DEF LifecycleOnly
  <1> QED
    BY <1>2, <1>3

LEMMA VolumeStep ==
  TypeOK /\ EscHolds /\ ResourcesTypeOK /\ VolumeFollows /\ [ResourcesNext]_allVars
    => VolumeFollows'
  <1> SUFFICES ASSUME TypeOK, EscHolds, ResourcesTypeOK, VolumeFollows, [ResourcesNext]_allVars
               PROVE  VolumeFollows'
    OBVIOUS
  <1>1. CASE UNCHANGED allVars
    BY <1>1, VolumeKept DEF allVars, vars, controlVars, captureVars, workerVars, resourceVars, faceVars
  <1> QED
    BY <1>1, VolumeEntries, VolumeStart, VolumeTranscription, VolumeOthers DEF ResourcesNext

(* The system volume that a dictation lowered is raised again, in every      *)
(* environment: ESC, time-outs, failing engines and queued starts included.  *)
(* Only a start worker that died of a failed load may leave it behind.       *)
THEOREM VolumeGoesBack == ResourcesSpec => []VolumeComesBack
  <1>1. ResourcesInit => VolumeFollows
    BY DEF ResourcesInit, VolumeFollows
  <1>2. VolumeFollows => VolumeComesBack
    <2> SUFFICES ASSUME VolumeFollows, AllQuiet, ducked
                 PROVE  \E r \in Recordings : spc[r] = "died"
      BY DEF VolumeComesBack
    <2>1. ~recording /\ lock # "discarded" /\ \A r \in Recordings : phase[r] # "ducked"
      BY DEF AllQuiet
    <2>2. \A w \in Workers : tpc[w] \in {"none", "done"}
      BY BoundsAssumption DEF AllQuiet, WorkerAlive, Workers, Nobody
    <2>3. \A r \in Recordings : spc[r] # "teardown"
      BY DEF AllQuiet
    <2> QED
      BY <2>1, <2>2, <2>3 DEF VolumeFollows
  <1>3. ResourcesSpec => [](TypeOK /\ EscHolds)
    BY ResourcesRefine, EscInvariance
  <1> QED
    BY <1>1, <1>2, <1>3, VolumeStep, ResourcesTypeCorrect, PTL DEF ResourcesSpec
-----------------------------------------------------------------------------
(* The keyboard and the tray, in a steady environment in which loads do not  *)
(* fail.  A worker that is about to stop the recorder finds the recording it *)
(* was started for, so no start meets it: a start that commits over a        *)
(* recording that is gone would take the keyboard for good.                  *)
Loading == {"none", "load", "done"}
ShownPcs == {"stop", "export", "deliver", "arm", "take", "infer", "guard", "paste"}

StartsHold == lock = "start" => recording
StopsHold  == \A w \in Workers : tpc[w] = "stop" => /\ recording /\ lock = "free"
                                                    /\ owner # "recording"
KeyboardFollows == owner = "recording" => recording
TrayFollows ==
    /\ tray # "cancelling"
    /\ tray \in {"recording", "transcribing"} =>
          recording \/ \E w \in Workers : tpc[w] \in ShownPcs

FacesFollow ==
    /\ cancelledIds = {}
    /\ \A r \in Recordings : spc[r] \in Loading
    /\ StartsHold /\ StopsHold
    /\ KeyboardFollows /\ TrayFollows

(* Most steps leave recording and lock alone, add no stop, and take neither  *)
(* the keyboard nor the tray.                                                *)
LEMMA FacesKept ==
  ASSUME FacesFollow,
         cancelledIds' = {},
         UNCHANGED <<recording, lock>>,
         owner' = "recording" => owner = "recording",
         \/ tray' \in {"idle", "error"}
         \/ /\ tray' = tray \/ (tray' = "transcribing" /\ \E w \in Workers : tpc[w] \in ShownPcs)
            /\ \A w \in Workers : tpc[w] \in ShownPcs => tpc'[w] \in ShownPcs,
         \A w \in Workers : tpc'[w] = "stop" => tpc[w] = "stop",
         \A r \in Recordings : spc'[r] \in Loading
  PROVE  FacesFollow'
  <1>1. StartsHold' /\ StopsHold' /\ KeyboardFollows'
    BY DEF FacesFollow, StartsHold, StopsHold, KeyboardFollows
  <1>2. TrayFollows'
    BY DEF FacesFollow, TrayFollows
  <1> QED
    BY <1>1, <1>2 DEF FacesFollow

LEMMA FacesEntries ==
  ASSUME Steady, ~LoadMayFail, TypeOK, ResourcesTypeOK, SteadyInv, FacesFollow,
         \/ RefusesStart \/ RefusesHotkey \/ OpensStream \/ FailsToStart \/ CommitsStart
         \/ AcceptsStop \/ BeginsCancel \/ FinishesCancel \/ CaptureHotkey \/ Repaint
  PROVE  FacesFollow'
  <1>t. spc \in [Recordings -> StartPcs] /\ tpc \in [Workers -> WorkerPcs]
    BY DEF TypeOK, CaptureType, WorkerType
  <1> USE DEF controlVars, captureVars, workerVars, watchdogVars, vars, sessionVars
  <1>0. ~BeginsCancel /\ ~FinishesCancel
    BY DEF BeginsCancel, CancelBegins, EscPressed, FinishesCancel, CancelFinishes, Steady,
           SteadyInv
  <1>1. ~RefusesStart /\ ~RefusesHotkey /\ ~FailsToStart
    BY DEF RefusesStart, StartRefused, RefusesHotkey, FailsToStart, StartFails
  <1>2. CASE CaptureHotkey \/ Repaint
    BY <1>2, FacesKept DEF CaptureHotkey, Repaint, FacesFollow
  <1>3. CASE OpensStream
    <2>1. /\ ~recording /\ recording' /\ UNCHANGED <<cancelledIds, spc, tpc, owner, tray>>
      BY <1>3 DEF OpensStream, StartOpens, QueuedStart, OpensRecording
    <2>2. \A w \in Workers : tpc[w] # "stop"
      BY <2>1 DEF FacesFollow, StopsHold
    <2> QED
      BY <2>1, <2>2 DEF FacesFollow, StartsHold, StopsHold, KeyboardFollows, TrayFollows
  <1>4. CASE CommitsStart
    <2>1. /\ lock = "start" /\ lock' = "free" /\ UNCHANGED <<cancelledIds, recording, tpc>>
          /\ tray' = "recording" /\ \E r : spc' = [spc EXCEPT ![r] = "load"]
      BY <1>4 DEF CommitsStart, StartCommits, SStep
    <2>2. recording /\ \A w \in Workers : tpc[w] # "stop"
      BY <2>1 DEF FacesFollow, StartsHold, StopsHold
    <2> QED
      BY <2>1, <2>2, <1>t
      DEF FacesFollow, StartsHold, StopsHold, KeyboardFollows, TrayFollows, Loading
  <1>5. CASE AcceptsStop
    <2>1. /\ recording /\ lock = "free" /\ UNCHANGED <<cancelledIds, recording, lock, spc, tray>>
          /\ owner' = "normal"
      BY <1>5 DEF AcceptsStop, GivesUpKeyboard, ToggleStops, ToggleCommits, ReleaseStops,
                  AutoStopRuns, StopWith
    <2> QED
      BY <2>1 DEF FacesFollow, StartsHold, StopsHold, KeyboardFollows, TrayFollows
  <1> QED
    BY <1>0, <1>1, <1>2, <1>3, <1>4, <1>5

LEMMA FacesStart ==
  ASSUME ~LoadMayFail, TypeOK, FacesFollow, NEW r \in Recordings,
         \/ DucksVolume(r) \/ LoadsEngine(r) \/ StartsStream(r) \/ PublishesStream(r)
         \/ FailsToLoad(r) \/ TearsDown(r)
  PROVE  FacesFollow'
  <1>t. spc \in [Recordings -> StartPcs]
    BY DEF TypeOK, CaptureType
  <1> USE DEF controlVars, captureVars, workerVars, watchdogVars, faceVars, vars, SStep
  <1>1. ~FailsToLoad(r) /\ ~TearsDown(r)
    BY DEF FailsToLoad, StartWorkerFails, TearsDown, StartWorkerTearsDown, FacesFollow, Loading
  <1>2. UNCHANGED <<cancelledIds, recording, lock, tpc, owner, tray>>
    BY <1>1 DEF DucksVolume, LoadsEngine, StartWorkerLoads, StartsStream, PublishesStream
  <1>3. spc' = spc \/ spc' = [spc EXCEPT ![r] = "done"]
    BY <1>1 DEF DucksVolume, LoadsEngine, StartWorkerLoads, StartsStream, PublishesStream
  <1>4. \A q \in Recordings : spc'[q] \in Loading
    BY <1>3, <1>t DEF FacesFollow, Loading
  <1> QED
    BY <1>2, <1>4, FacesKept DEF FacesFollow

LEMMA FacesTranscription ==
  ASSUME Steady, TypeOK, FacesFollow, NEW w \in Workers,
         \/ FailsToStop(w) \/ RefusesAudio(w) \/ DeliversAudio(w) \/ TakesSession(w)
         \/ FindsNothing(w) \/ ShowsError(w) \/ PastesText(w) \/ CannotCopy(w)
         \/ SchedulesRepaint(w) \/ DropsSession(w)
  PROVE  FacesFollow'
  <1>t. tpc \in [Workers -> WorkerPcs]
    BY DEF TypeOK, WorkerType
  <1> USE DEF controlVars, captureVars, workerVars, watchdogVars, faceVars, sessionVars, WStep
  <1>1. ~FailsToStop(w) /\ ~FindsNothing(w) /\ ~ShowsError(w) /\ ~CannotCopy(w)
    BY DEF FailsToStop, WorkerStopFails, FindsNothing, WorkerIsEmpty, ShowsError, WorkerErrs,
           CannotCopy, WorkerCannotCopy, Steady
  <1>2. ASSUME NEW from \in WorkerPcs \ {"stop"}, NEW to \in WorkerPcs \ {"stop"},
               tpc[w] = from, tpc' = [tpc EXCEPT ![w] = to],
               UNCHANGED <<recording, lock, owner, spc, cancelledIds>>,
               \/ tray' \in {"idle", "error"}
               \/ tray' = tray /\ (from \in ShownPcs => to \in ShownPcs)
               \/ tray' = "transcribing" /\ from \in ShownPcs /\ to \in ShownPcs
        PROVE  FacesFollow'
    <2>1. \A v \in Workers : /\ tpc'[v] = "stop" => tpc[v] = "stop"
                             /\ (from \in ShownPcs => to \in ShownPcs) =>
                                   (tpc[v] \in ShownPcs => tpc'[v] \in ShownPcs)
      BY <1>2, <1>t
    <2> QED
      BY <1>2, <2>1, FacesKept DEF FacesFollow
  <1>3. CASE RefusesAudio(w)
    BY <1>2, <1>3 DEF RefusesAudio, WorkerRefuses, WorkerPcs, InFlightPcs
  <1>4. CASE DeliversAudio(w)
    BY <1>2, <1>4 DEF DeliversAudio, WorkerDelivers, WorkerPcs, InFlightPcs, ShownPcs
  <1>5. CASE TakesSession(w)
    BY <1>2, <1>5 DEF TakesSession, WorkerTakesSession, WorkerPcs, InFlightPcs, ShownPcs
  <1>6. CASE PastesText(w)
    BY <1>2, <1>6 DEF PastesText, WorkerPastes, WorkerPcs, InFlightPcs
  <1>7. CASE SchedulesRepaint(w) \/ DropsSession(w)
    BY <1>2, <1>7 DEF SchedulesRepaint, WorkerReminds, DropsSession, WorkerPopsSession,
                      WorkerPcs, InFlightPcs, ShownPcs
  <1> QED
    BY <1>1, <1>3, <1>4, <1>5, <1>6, <1>7

LEMMA FacesLifecycle ==
  ASSUME Steady, TypeOK, EscHolds, SteadyInv, FacesFollow, LifecycleOnly
  PROVE  FacesFollow'
  <1>t. /\ spc \in [Recordings -> StartPcs] /\ tpc \in [Workers -> WorkerPcs]
        /\ cancelledIds = {} /\ \A r \in Recordings : spc[r] \in Loading
    BY DEF TypeOK, CaptureType, WorkerType, FacesFollow
  <1> USE DEF controlVars, captureVars, workerVars, watchdogVars, resourceVars, faceVars, WStep
  <1>0. UNCHANGED <<owner, tray>>
    BY DEF LifecycleOnly
  <1>k. ASSUME UNCHANGED <<recording, lock, spc, tpc, cancelledIds>>
        PROVE  FacesFollow'
    BY <1>0, <1>k, <1>t, FacesKept
  <1>1. CASE AutoStopScheduled \/ AutoStopCleared \/ (AutoStopRuns /\ (~recording \/ busy))
    BY <1>1, <1>k DEF AutoStopScheduled, AutoStopCleared, AutoStopRuns, StopWith
  <1>2. ~CancelDiscards /\ ~CancelTranscription /\ \A r \in Recordings : ~FallbackDiscards(r)
    BY <1>t DEF CancelDiscards, CancelTranscription, EscPressed, FallbackDiscards, SStep,
           Steady, SteadyInv, Loading
  <1>3. ASSUME NEW w \in Workers, WorkerStops(w)
        PROVE  FacesFollow'
    <2>1. recording /\ lock = "free" /\ owner # "recording" /\ tpc[w] = "stop"
      BY <1>3 DEF WorkerStops, FacesFollow, StopsHold
    <2>2. tpc' = [tpc EXCEPT ![w] = "export"] /\ UNCHANGED <<lock, spc, cancelledIds>>
      BY <1>3, <2>1 DEF WorkerStops
    <2>3. \A v \in Workers \ {w} : tpc[v] # "stop"
      BY <2>1 DEF SteadyInv, OneCycleAtATime, InFlightPcs
    <2>4. tpc'[w] \in ShownPcs /\ \A v \in Workers : tpc'[v] # "stop"
      BY <2>2, <2>3, <1>t DEF ShownPcs
    <2> QED
      BY <1>0, <2>1, <2>2, <2>4, <1>t
      DEF FacesFollow, StartsHold, StopsHold, KeyboardFollows, TrayFollows
  <1>4. ASSUME NEW w \in Workers, NEW from \in WorkerPcs \ {"stop"}, NEW to \in WorkerPcs \ {"stop"},
               from \in ShownPcs => to \in ShownPcs,
               tpc[w] = from, tpc' = [tpc EXCEPT ![w] = to],
               UNCHANGED <<recording, lock, spc>>, cancelledIds' \subseteq cancelledIds
        PROVE  FacesFollow'
    <2>1. \A v \in Workers : /\ tpc'[v] = "stop" => tpc[v] = "stop"
                             /\ tpc[v] \in ShownPcs => tpc'[v] \in ShownPcs
      BY <1>4, <1>t
    <2>2. cancelledIds' = {}
      BY <1>4, <1>t
    <2> QED
      BY <1>0, <1>4, <1>t, <2>1, <2>2, FacesKept
  <1>5. ASSUME NEW w \in Workers,
               WorkerExports(w) \/ WorkerArms(w) \/ WorkerHasText(w) \/ WorkerIsGuarded(w)
        PROVE  FacesFollow'
    BY <1>4, <1>5, <1>t DEF WorkerExports, WorkerArms, WorkerHasText, WorkerIsGuarded,
                            WorkerPcs, InFlightPcs, ShownPcs
  <1>6. ASSUME NEW w \in Workers,
               WorkerSignals(w) \/ WorkerJoins(w) \/ WorkerGoesIdle(w) \/ WorkerClears(w)
        PROVE  FacesFollow'
    BY <1>4, <1>6 DEF WorkerSignals, WorkerJoins, WorkerGoesIdle, WorkerClears,
                      WorkerPcs, InFlightPcs, ShownPcs
  <1>7. CASE \E d \in Watchdogs : WatchdogLoop(d)
    BY <1>7, <1>k DEF WatchdogLoop, WatchdogFires, WatchdogIsReset, WatchdogLoops
  <1>8. ~\E x \in Recoverers : ForceRecover(x)
    BY NoRecovery DEF SteadyInv
  <1>9. ~\E x \in Recoverers :
            \/ RecoverProceeds(x) \/ RecoverMarks(x) \/ RecoverHalts(x)
            \/ RecoverJoins(x) \/ RecoverReleases(x)
    BY <1>8 DEF ForceRecover
  <1> QED
    BY <1>1, <1>2, <1>3, <1>5, <1>6, <1>7, <1>9 DEF LifecycleOnly

LEMMA FacesStep ==
  ASSUME Steady, ~LoadMayFail
  PROVE  TypeOK /\ EscHolds /\ SteadyInv /\ ResourcesTypeOK /\ FacesFollow
           /\ [ResourcesNext]_allVars => FacesFollow'
  <1> SUFFICES ASSUME TypeOK, EscHolds, SteadyInv, ResourcesTypeOK, FacesFollow,
                      [ResourcesNext]_allVars
               PROVE  FacesFollow'
    OBVIOUS
  <1>1. CASE UNCHANGED allVars
    BY <1>1, FacesKept
    DEF allVars, vars, controlVars, captureVars, workerVars, resourceVars, faceVars, FacesFollow
  <1>2. ~\E x \in Recoverers : ForceRecover(x)
    BY NoRecovery DEF SteadyInv
  <1>3. ~\E x \in Recoverers :
            StillTranscribing(x) \/ CancelsStuckSession(x) \/ AnnouncesRecovery(x)
    BY <1>2, RecoveryRefines
  <1> QED
    BY <1>1, <1>3, FacesEntries, FacesStart, FacesTranscription, FacesLifecycle
    DEF ResourcesNext

LEMMA FacesInvariance ==
  ASSUME Steady, ~LoadMayFail PROVE ResourcesSpec => []FacesFollow
  <1>1. ResourcesInit => FacesFollow
    <2> SUFFICES ASSUME ResourcesInit PROVE FacesFollow
      OBVIOUS
    <2>1. /\ cancelledIds = {} /\ lock = "free" /\ owner = "normal" /\ tray = "idle"
          /\ spc = [r \in Recordings |-> "none"] /\ tpc = [w \in Workers |-> "none"]
      BY DEF ResourcesInit, Init
    <2> QED
      BY <2>1 DEF FacesFollow, StartsHold, StopsHold, KeyboardFollows, TrayFollows, Loading
  <1>2. ResourcesSpec => [](TypeOK /\ EscHolds /\ SteadyInv)
    BY ResourcesRefine, SteadyInvariance
  <1> QED
    BY <1>1, <1>2, FacesStep, ResourcesTypeCorrect, PTL DEF ResourcesSpec

(* In such an environment no dictation keeps the keyboard when it is over:   *)
(* whoever owned it, only the settings page may own it then.                 *)
THEOREM KeyboardGoesBack ==
  ASSUME Steady, ~LoadMayFail PROVE ResourcesSpec => []KeyboardComesBack
  <1>1. FacesFollow => KeyboardComesBack
    BY DEF FacesFollow, KeyboardFollows, KeyboardComesBack, AllQuiet
  <1> QED
    BY <1>1, FacesInvariance, PTL

(* ... and the tray does not go on showing a dictation that is over, though  *)
(* another may have been recording while this one was transcribed.           *)
THEOREM TrayGoesBack ==
  ASSUME Steady, ~LoadMayFail PROVE ResourcesSpec => []TrayComesBack
  <1>1. ResourcesTypeOK /\ FacesFollow => TrayComesBack
    <2> SUFFICES ASSUME ResourcesTypeOK, FacesFollow, AllQuiet PROVE tray \in {"idle", "error"}
      BY DEF TrayComesBack
    <2>1. \A w \in Workers : tpc[w] \in {"none", "done"}
      BY BoundsAssumption DEF AllQuiet, WorkerAlive, Workers, Nobody
    <2>2. ~recording /\ \A w \in Workers : tpc[w] \notin ShownPcs
      BY <2>1 DEF AllQuiet, ShownPcs
    <2> QED
      BY <2>2 DEF FacesFollow, TrayFollows, ResourcesTypeOK
  <1> QED
    BY <1>1, FacesInvariance, ResourcesTypeCorrect, PTL

-----------------------------------------------------------------------------
(* MCResources tells its environments apart by part, which never changes: a  *)
(* behaviour of the configuration's own environment is one of ResourcesSpec. *)
LEMMA PartsStay ==
  /\ PartsInit => ResourcesInit
  /\ [PartsNext]_<<part, allVars>> => part' = part
  /\ part = "queued" /\ [PartsNext]_<<part, allVars>> => [ResourcesNext]_allVars
  <1>1. PartsInit => ResourcesInit
    BY DEF PartsInit
  <1>2. PartsNext => UNCHANGED part
    BY DEF PartsNext, OnlyQueued, OnlyEngines, OnlyLoads, OnlyEscapes
  <1>3. part = "queued" /\ PartsNext => ResourcesNext
    BY DEF PartsNext, OnlyQueued, OnlyEngines, OnlyLoads, OnlyEscapes
  <1> QED
    BY <1>1, <1>2, <1>3

LEMMA QueuedRefines == PartsSpec /\ part = "queued" => ResourcesSpec /\ [](part = "queued")
  <1>1. part = "queued" /\ [PartsNext]_<<part, allVars>> => (part = "queued")'
    BY PartsStay
  <1> QED
    BY <1>1, PartsStay, PTL DEF PartsSpec, ResourcesSpec

LEMMA OthersStayOthers == PartsSpec /\ ~(part = "queued") => [](~(part = "queued"))
  <1>1. ~(part = "queued") /\ [PartsNext]_<<part, allVars>> => (~(part = "queued"))'
    BY PartsStay
  <1> QED
    BY <1>1, PTL DEF PartsSpec

(* So keyboard and tray come back in the steady behaviours of that larger    *)
(* specification as well, however many dictations were queued.               *)
THEOREM QueuedKeyboardGoesBack ==
  ASSUME Steady, ~LoadMayFail PROVE PartsSpec => []SteadyKeyboardComesBack
  <1>1. KeyboardComesBack => SteadyKeyboardComesBack
    BY DEF SteadyKeyboardComesBack
  <1>2. ~(part = "queued") => SteadyKeyboardComesBack
    BY DEF SteadyKeyboardComesBack
  <1>3. ResourcesSpec => []KeyboardComesBack
    BY KeyboardGoesBack
  <1> QED
    BY <1>1, <1>2, <1>3, QueuedRefines, OthersStayOthers, PTL

(* The same of the tray.                                                     *)
THEOREM QueuedTrayGoesBack ==
  ASSUME Steady, ~LoadMayFail PROVE PartsSpec => []SteadyTrayComesBack
  <1>1. TrayComesBack => SteadyTrayComesBack
    BY DEF SteadyTrayComesBack
  <1>2. ~(part = "queued") => SteadyTrayComesBack
    BY DEF SteadyTrayComesBack
  <1>3. ResourcesSpec => []TrayComesBack
    BY TrayGoesBack
  <1> QED
    BY <1>1, <1>2, <1>3, QueuedRefines, OthersStayOthers, PTL

=============================================================================
