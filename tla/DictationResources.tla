-------------------------- MODULE DictationResources --------------------------
(***************************************************************************)
(* DictationLifecycle with the resources a dictation borrows and the face  *)
(* it shows: the streaming session, the lowered system volume, the         *)
(* keyboard ownership and the tray. The lifecycle depends on them in one   *)
(* guard only (ESC is ignored during a hotkey capture); each action here   *)
(* is an action of the lifecycle together with what its code does to them, *)
(* or a step that touches nothing else.                                    *)
(*                                                                         *)
(* A streaming session has the number of the recording whose start worker  *)
(* opened it.                                                              *)
(***************************************************************************)
EXTENDS DictationLifecycle

VARIABLES
    phase,         \* what the start worker of each recording does around the load
    session,       \* _streaming_session
    pendingFinal,  \* _pending_finalize_session
    live,          \* streaming sessions whose thread has not been told to end
    owner,         \* keyboard ownership
    ducked,        \* the system volume is lowered
    tray,          \* tray state
    repaint        \* a pending timer that sets the tray to IDLE

sessionVars  == <<session, pendingFinal, live>>
faceVars     == <<owner, ducked, tray, repaint>>
resourceVars == <<phase, sessionVars, faceVars>>
allVars      == <<vars, resourceVars>>

Phases == {"none", "duck", "ducking", "ducked", "ready", "stream", "publish", "over"}

ResourcesTypeOK ==
    /\ phase \in [Recordings -> Phases]
    /\ session \in Recordings \cup {Nobody}
    /\ pendingFinal \in Recordings \cup {Nobody}
    /\ live \subseteq Recordings
    /\ owner \in {"normal", "recording", "hotkey_capture"}
    /\ ducked \in BOOLEAN
    /\ tray \in {"idle", "recording", "cancelling", "transcribing", "error"}
    /\ repaint \in BOOLEAN

ResourcesInit ==
    /\ Init
    /\ phase = [r \in Recordings |-> "none"]
    /\ session = Nobody /\ pendingFinal = Nobody /\ live = {}
    /\ owner = "normal" /\ ducked = FALSE /\ tray = "idle" /\ repaint = FALSE

-----------------------------------------------------------------------------
(* What the controller's helpers do to the resources.                        *)

PStep(r, from, to) == phase[r] = from /\ phase' = [phase EXCEPT ![r] = to]

(* pop_streaming_session: the session, or else the finalize stash.           *)
Popped == IF session # Nobody THEN session ELSE pendingFinal
PopSession ==
    /\ session' = Nobody
    /\ pendingFinal' = IF session # Nobody THEN pendingFinal ELSE Nobody

(* _cancel_streaming_session: pop, and tell the session's thread to end.     *)
CancelSession == PopSession /\ live' = live \ {Popped}

(* _stop_impl and _cancel_impl: ownership goes back, tray timers are dropped.*)
KeepsKeyboard == repaint' = FALSE /\ UNCHANGED owner  \* bug form
GivesUpKeyboard == owner' = "normal" /\ repaint' = FALSE

-----------------------------------------------------------------------------
(* The entries.                                                              *)

RefusesStart ==
    /\ StartRefused
    /\ tray' = "error"
    /\ repaint' \in {repaint, TRUE}   \* only the permission refusal has a timer
    /\ UNCHANGED <<phase, sessionVars, owner, ducked>>

(* The permission check of _toggle_impl, when no engine is there to load:      *)
(* before the cycle id is taken, and while recording too.                    *)
RefusesHotkey ==
    /\ LoadMayFail
    /\ lock = "free" /\ ~busy
    /\ tray' = "error"
    /\ repaint' = TRUE
    /\ UNCHANGED <<vars, phase, sessionVars, owner, ducked>>

OpensStream ==
    /\ StartOpens \/ QueuedStart
    /\ repaint' = FALSE
    /\ UNCHANGED <<phase, sessionVars, owner, ducked, tray>>

(* The tray, and the timer that would reset it, are behind the AttributeError.*)
FailsToStart ==
    /\ StartFails
    /\ CancelSession
    /\ repaint' = FALSE
    /\ UNCHANGED <<phase, owner, ducked, tray>>

CommitsStart ==
    /\ StartCommits
    /\ PStep(recordings, "none", "duck")
    /\ tray' = "recording"
    /\ owner' = "recording"
    /\ UNCHANGED <<sessionVars, ducked, repaint>>

AcceptsStop ==
    /\ ToggleStops \/ ReleaseStops \/ (AutoStopRuns /\ recording /\ ~busy)
    /\ GivesUpKeyboard
    /\ UNCHANGED <<phase, sessionVars, ducked, tray>>

BeginsCancel ==
    /\ CancelBegins
    /\ owner # "hotkey_capture"
    /\ GivesUpKeyboard
    /\ tray' = "cancelling"
    /\ UNCHANGED <<phase, sessionVars, ducked>>

FinishesCancel ==
    /\ CancelFinishes
    /\ CancelSession
    /\ ducked' = FALSE
    /\ tray' = "idle"
    /\ UNCHANGED <<phase, owner, repaint>>

(* The settings page enters or leaves hotkey capture (set_owner over IPC),   *)
(* whoever owns the keyboard.                                                *)
CaptureHotkey ==
    /\ owner' \in {"hotkey_capture", "normal"}
    /\ UNCHANGED <<vars, phase, sessionVars, ducked, tray, repaint>>

-----------------------------------------------------------------------------
(* The DictationStart worker: lower the volume if still recording, look      *)
(* again and raise it if not, load, open a session.                          *)

(* Bug form: the second look is left out.                                    *)
DucksOnce(r) ==
    /\ \/ /\ IF recording THEN PStep(r, "duck", "ducking") ELSE PStep(r, "duck", "ready")
          /\ UNCHANGED ducked
       \/ PStep(r, "ducking", "ready") /\ ducked' = TRUE
    /\ UNCHANGED <<vars, sessionVars, owner, tray, repaint>>

DucksVolume(r) ==
    /\ \/ /\ IF recording THEN PStep(r, "duck", "ducking") ELSE PStep(r, "duck", "ready")
          /\ UNCHANGED ducked
       \/ PStep(r, "ducking", "ducked") /\ ducked' = TRUE
       \/ PStep(r, "ducked", "ready") /\ ducked' = (recording /\ ducked)
    /\ UNCHANGED <<vars, sessionVars, owner, tray, repaint>>

LoadsEngine(r) ==
    /\ StartWorkerLoads(r)
    /\ IF ~recording \/ busy THEN PStep(r, "ready", "over") ELSE PStep(r, "ready", "stream")
    /\ UNCHANGED <<sessionVars, faceVars>>

(* start_streaming_session_if_enabled drops the reference to whatever        *)
(* session there is and, when streaming is on, starts a session's thread ... *)
StartsStream(r) ==
    /\ session' = Nobody
    /\ \/ PStep(r, "stream", "over") /\ UNCHANGED live
       \/ PStep(r, "stream", "publish") /\ live' = live \cup {r}
    /\ UNCHANGED <<vars, pendingFinal, faceVars>>

(* ... and then publishes it, whatever became of the recording meanwhile.    *)
PublishesStream(r) ==
    /\ PStep(r, "publish", "over")
    /\ session' = r
    /\ UNCHANGED <<vars, pendingFinal, live, faceVars>>

FailsToLoad(r) ==
    /\ StartWorkerFails(r)
    /\ PStep(r, "ready", "over")
    /\ UNCHANGED <<sessionVars, faceVars>>

TearsDown(r) ==
    /\ StartWorkerTearsDown(r)
    /\ CancelSession
    /\ UNCHANGED <<phase, faceVars>>

-----------------------------------------------------------------------------
(* The Transcription worker.                                                 *)

FailsToStop(w) ==
    /\ WorkerStopFails(w)
    /\ CancelSession
    /\ ducked' = FALSE
    /\ tray' = "error"
    /\ UNCHANGED <<phase, owner, repaint>>

(* Silence of no length is taken for a missing permission, which schedules   *)
(* its timer before set_idle; every other refusal does so after it.          *)
RefusesAudio(w) ==
    /\ WorkerRefuses(w)
    /\ CancelSession
    /\ ducked' = FALSE
    /\ \/ tray' = "error" /\ repaint' = TRUE
       \/ tray' = "idle" /\ UNCHANGED repaint
    /\ UNCHANGED <<phase, owner>>

DeliversAudio(w) ==
    /\ WorkerDelivers(w)
    /\ ducked' = FALSE
    /\ tray' = "transcribing"
    /\ pendingFinal' = session
    /\ UNCHANGED <<phase, session, live, owner, repaint>>

(* A wait for the engine shows LOADING and, at its end, TRANSCRIBING again.  *)
TakesSession(w) ==
    /\ WorkerTakesSession(w)
    /\ CancelSession
    /\ tray' \in {tray} \cup (IF wdEvent' THEN {"transcribing"} ELSE {})
    /\ UNCHANGED <<phase, owner, ducked, repaint>>

FindsNothing(w) ==
    /\ WorkerIsEmpty(w)
    /\ tray' = IF wcycle[w] \in cancelledIds THEN tray ELSE "idle"
    /\ UNCHANGED <<phase, sessionVars, owner, ducked, repaint>>

ShowsError(w) ==
    /\ WorkerErrs(w)
    /\ tray' = "error"
    /\ repaint' = TRUE
    /\ UNCHANGED <<phase, sessionVars, owner, ducked>>

PastesUnseen(w) ==  \* bug form: the tray is left as it is
    /\ WorkerPastes(w)
    /\ UNCHANGED resourceVars

PastesText(w) ==
    /\ WorkerPastes(w)
    /\ tray' = "idle"
    /\ repaint' = TRUE
    /\ UNCHANGED <<phase, sessionVars, owner, ducked>>

CannotCopy(w) ==
    /\ WorkerCannotCopy(w)
    /\ tray' = "idle"
    /\ UNCHANGED <<phase, sessionVars, owner, ducked, repaint>>

SchedulesRepaint(w) ==
    /\ WorkerReminds(w)
    /\ repaint' = TRUE \/ (tpc[w] = "refused" /\ UNCHANGED repaint)
    /\ UNCHANGED <<phase, sessionVars, owner, ducked, tray>>

(* The clean-up cancels the session unless a recording is running by now.    *)
DropsSession(w) ==
    /\ WorkerPopsSession(w)
    /\ PopSession
    /\ live' = IF recording THEN live ELSE live \ {Popped}
    /\ UNCHANGED <<phase, faceVars>>

-----------------------------------------------------------------------------
(* Forced recovery, the tray timer, and the steps that touch no resource.    *)

StillTranscribing(x) ==
    /\ RecoverLeaves(x)
    /\ tray' = IF busy THEN "transcribing" ELSE tray
    /\ UNCHANGED <<phase, sessionVars, owner, ducked, repaint>>

CancelsStuckSession(x) ==
    /\ RecoverDrops(x)
    /\ CancelSession
    /\ UNCHANGED <<phase, faceVars>>

AnnouncesRecovery(x) ==
    /\ RecoverAnnounces(x)
    /\ tray' = "idle"
    /\ repaint' = TRUE
    /\ UNCHANGED <<phase, sessionVars, owner, ducked>>

Repaint ==
    /\ repaint
    /\ repaint' = FALSE
    /\ tray' = "idle"
    /\ UNCHANGED <<vars, phase, sessionVars, owner, ducked>>

LifecycleOnly ==
    /\ \/ AutoStopScheduled \/ AutoStopCleared
       \/ AutoStopRuns /\ (~recording \/ busy)
       \/ CancelDiscards
       \/ CancelTranscription /\ owner # "hotkey_capture"
       \/ \E r \in Recordings : FallbackDiscards(r)
       \/ \E w \in Workers :
             \/ WorkerStops(w) \/ WorkerExports(w) \/ WorkerArms(w) \/ WorkerHasText(w)
             \/ WorkerIsGuarded(w) \/ WorkerSignals(w) \/ WorkerJoins(w)
             \/ WorkerGoesIdle(w) \/ WorkerClears(w)
       \/ \E d \in Watchdogs : WatchdogLoop(d)
       \/ \E x \in Recoverers :
             \/ RecoverProceeds(x) \/ RecoverMarks(x) \/ RecoverHalts(x)
             \/ RecoverJoins(x) \/ RecoverReleases(x)
    /\ UNCHANGED resourceVars

ResourcesNext ==
    \/ RefusesStart \/ RefusesHotkey \/ OpensStream \/ FailsToStart \/ CommitsStart
    \/ AcceptsStop \/ BeginsCancel \/ FinishesCancel \/ CaptureHotkey
    \/ \E r \in Recordings :
          \/ DucksVolume(r) \/ LoadsEngine(r) \/ StartsStream(r) \/ PublishesStream(r)
          \/ FailsToLoad(r) \/ TearsDown(r)
    \/ \E w \in Workers :
          \/ FailsToStop(w) \/ RefusesAudio(w) \/ DeliversAudio(w) \/ TakesSession(w)
          \/ FindsNothing(w) \/ ShowsError(w) \/ PastesText(w) \/ CannotCopy(w)
          \/ SchedulesRepaint(w) \/ DropsSession(w)
    \/ \E x \in Recoverers :
          StillTranscribing(x) \/ CancelsStuckSession(x) \/ AnnouncesRecovery(x)
    \/ Repaint \/ LifecycleOnly

ResourcesSpec == ResourcesInit /\ [][ResourcesNext]_allVars

-----------------------------------------------------------------------------
(* No thread of a dictation is left, no entry holds the lock, no recording   *)
(* is running and no tray timer is pending.                                  *)
AllQuiet ==
    /\ lock = "free" /\ ~recording /\ ~repaint
    /\ \A r \in Recordings : spc[r] \in {"none", "done", "died"} /\ phase[r] \in {"none", "over"}
    /\ \A w \in Workers : ~WorkerAlive(w)
    /\ \A x \in Recoverers : rpc[x] \in {"off", "wait"}

(* VolumeComesBack: the system volume a dictation lowered is restored, unless *)
(* its start worker died of a failed load: the start worker's duck races the  *)
(* stop's restore.                                                            *)
VolumeComesBack == AllQuiet /\ ducked => \E r \in Recordings : spc[r] = "died"

(* KeyboardComesBack: so is the keyboard; only the settings page may hold it.*)
KeyboardComesBack == AllQuiet => owner # "recording"

(* TrayComesBack: the tray does not go on showing a dictation that is over.  *)
TrayComesBack == AllQuiet => tray \in {"idle", "error"}

(* SessionsEnd: no streaming session outlives the dictations: its thread     *)
(* would go on polling the recorder and transcribing what it finds.          *)
SessionsEnd == AllQuiet => live = {}

=============================================================================
