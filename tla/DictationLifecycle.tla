-------------------------- MODULE DictationLifecycle --------------------------
(***************************************************************************)
(* The life of a dictation in the server process: hotkey, ESC and timer    *)
(* threads enter RecordingLifecycle (toggle, stop, cancel) under           *)
(* _toggle_lock; each start spawns a DictationStart worker (the engine     *)
(* load) and each stop a Transcription worker (recorder.stop, pipeline,    *)
(* clean-up), and a watchdog thread recovers a stuck transcription.  None  *)
(* of the workers holds _toggle_lock, and a forced recovery cannot kill    *)
(* the worker it gives up on.                                              *)
(*                                                                         *)
(* Sections under one lock, and statements no other thread can tell apart, *)
(* are one step. Audio, text and the engine are abstracted: the capture    *)
(* buffer holds "the audio of recording r", and inference yields text,     *)
(* nothing or an exception. What a dictation borrows meanwhile (streaming  *)
(* session, volume, keyboard, tray) is in DictationResources.              *)
(***************************************************************************)
EXTENDS Naturals, FiniteSets

CONSTANTS
    MaxRecordings, \* bound: recordings started
    MaxWorkers,    \* bound: Transcription workers spawned (accepted stops)
    MaxCycle,      \* bound: dictation cycle ids given out
    MaxFirings,    \* _watchdog_max_firings
    LoadMayFail,   \* whether engine load and microphone open may fail
    EngineMayFail, \* whether recorder.stop, a pipeline stage or the clipboard may
                   \* fail, and whether inference may yield no text
    SlowJoin,      \* whether a bounded Thread.join may time out
    Timeouts,      \* whether a transcription may outlast the watchdog's 90 s
    EscEnabled,    \* config.esc_cancel_enabled
    AutoStops,     \* whether the capture stops by itself (silence, device loss)
    QueuedStarts   \* whether the model manager starts a dictation it queued

ASSUME BoundsAssumption ==
    /\ MaxRecordings \in Nat \ {0}
    /\ MaxWorkers \in Nat \ {0}
    /\ MaxCycle \in Nat
    /\ MaxFirings \in Nat \ {0}
ASSUME SwitchAssumption == {LoadMayFail, EngineMayFail, SlowJoin, Timeouts, EscEnabled, AutoStops, QueuedStarts} \subseteq BOOLEAN

Recordings == 1 .. MaxRecordings
Workers    == 1 .. MaxWorkers
Watchdogs  == Workers          \* a watchdog thread has the number of the worker that started it
Esc        == 0                \* the thread running cancel(), as a recoverer
Recoverers == {Esc} \cup Watchdogs
Nobody     == 0                \* None: no recording, session, worker or thread

VARIABLES
    lock,          \* _toggle_lock: "free", or the entry that holds it
    busy,          \* ~_busy_event.is_set()
    cycle,         \* _cycle_counter, also the current _cycle_id
    cancelledIds,  \* _cancelled_cycle_ids
    auto,          \* a zero-delay stop scheduled by the capture thread
    recording,     \* recorder._recording_event
    recordings,    \* recordings started so far; the newest has this number
    buf,           \* the recording whose audio the capture buffer holds
    spc,           \* DictationStart worker of each recording
    tpc,           \* Transcription workers
    wcycle,        \* the cycle id each Transcription worker captured
    waudio,        \* the recording whose audio it got from recorder.stop()
    handle,        \* _transcription_thread
    pasted,        \* workers whose text reached the clipboard or the target
    wdThread,      \* _watchdog_thread
    wdStop,        \* _watchdog_stop_event
    wdEvent,       \* _watchdog_event
    firings,       \* _watchdog_firings
    rpc,           \* watchdog threads, and cancel()'s own forced recovery
    wjoin,         \* the watchdog thread a worker is joining in stop_thread
    rjoin          \* the same for a recoverer

controlVars  == <<lock, busy, cycle, cancelledIds, auto>>
captureVars  == <<recording, recordings, buf>>
workerVars   == <<tpc, wcycle, waudio, handle, pasted>>
watchdogVars == <<wdThread, wdStop, wdEvent, firings, rpc, wjoin, rjoin>>
vars == <<controlVars, captureVars, spc, workerVars, watchdogVars>>

StartPcs == {"none", "load", "discard", "teardown", "done", "died"}

(* "stop" .. "idle" is one dictation in flight: from set_busy() to the       *)
(* set_idle() of the pipeline's finally block.                               *)
InFlightPcs == {"stop", "export", "deliver", "arm", "take", "infer", "guard",
                "paste", "settled", "signal", "join", "pop", "idle"}
WorkerPcs   == InFlightPcs \cup {"none", "refused", "clear", "done"}
RecoverPcs  == {"off", "wait", "check", "force", "mark", "halt", "join", "drop",
                "release", "announce", "tail"}

ControlType ==
    /\ lock \in {"free", "start", "cancel", "discarded", "recover"}
    /\ busy \in BOOLEAN
    /\ cycle \in 0 .. MaxCycle
    /\ cancelledIds \subseteq 0 .. MaxCycle
    /\ auto \in {"none", "scheduled", "committed"}

CaptureType ==
    /\ recording \in BOOLEAN
    /\ recordings \in 0 .. MaxRecordings
    /\ buf \in Recordings \cup {Nobody}
    /\ spc \in [Recordings -> StartPcs]

WorkerType ==
    /\ tpc \in [Workers -> WorkerPcs]
    /\ wcycle \in [Workers -> 0 .. MaxCycle]
    /\ waudio \in [Workers -> Recordings \cup {Nobody}]
    /\ handle \in Workers \cup {Nobody}
    /\ pasted \subseteq Workers

WatchdogType ==
    /\ wdThread \in Watchdogs \cup {Nobody}
    /\ wdStop \in BOOLEAN
    /\ wdEvent \in BOOLEAN
    /\ firings \in 0 .. MaxFirings
    /\ rpc \in [Recoverers -> RecoverPcs]
    /\ wjoin \in [Workers -> Watchdogs \cup {Nobody}]
    /\ rjoin \in [Recoverers -> Watchdogs \cup {Nobody}]

TypeOK == ControlType /\ CaptureType /\ WorkerType /\ WatchdogType

Init ==
    /\ lock = "free" /\ busy = FALSE /\ cycle = 0 /\ cancelledIds = {} /\ auto = "none"
    /\ recording = FALSE /\ recordings = 0 /\ buf = Nobody
    /\ spc = [r \in Recordings |-> "none"]
    /\ tpc = [w \in Workers |-> "none"] /\ wcycle = [w \in Workers |-> 0]
    /\ waudio = [w \in Workers |-> Nobody] /\ handle = Nobody /\ pasted = {}
    /\ wdThread = Nobody /\ wdStop = FALSE /\ wdEvent = FALSE /\ firings = 0
    /\ rpc = [x \in Recoverers |-> "off"]
    /\ wjoin = [w \in Workers |-> Nobody] /\ rjoin = [x \in Recoverers |-> Nobody]

-----------------------------------------------------------------------------
(* Shared helpers of the controller.                                         *)

SStep(r, from, to) == spc[r] = from /\ spc' = [spc EXCEPT ![r] = to]
WStep(w, from, to) == tpc[w] = from /\ tpc' = [tpc EXCEPT ![w] = to]
RStep(x, from, to) == rpc[x] = from /\ rpc' = [rpc EXCEPT ![x] = to]

WorkerAlive(w)   == w # Nobody /\ tpc[w] \notin {"none", "done"}
WatchdogAlive(d) == d # Nobody /\ rpc[d] # "off"

(* _cancel_pending_timers, as TimerCoordinator shows it to be: a scheduled    *)
(* stop is dropped, one that is past its generation checks is not.           *)
CancelTimers == auto' = IF auto = "scheduled" THEN "none" ELSE auto

(* recorder.discard: the capture stops and its audio is wiped.  It returns   *)
(* at once when the capture has ended already, its threads included, and     *)
(* then leaves the buffer to the stop in progress.                           *)
DiscardRecording ==
    /\ recording' = FALSE
    /\ IF recording THEN buf' = Nobody ELSE buf' \in {buf, Nobody}
    /\ UNCHANGED recordings

-----------------------------------------------------------------------------
(* The toggle hotkey, no recording running: _toggle_impl and _start_impl.    *)

(* Bug forms of ToggleCommits: a toggle during a transcription is accepted;  *)
(* a toggle goes on with the previous cycle id.                              *)
ToggleIgnoresBusy ==
    /\ lock = "free"
    /\ cycle < MaxCycle
    /\ cycle' = cycle + 1

ToggleKeepsCycle ==
    /\ lock = "free" /\ ~busy
    /\ cycle < MaxCycle
    /\ UNCHANGED cycle

ToggleCommits ==
    /\ lock = "free" /\ ~busy
    /\ cycle < MaxCycle
    /\ cycle' = cycle + 1

(* Consent or microphone permission is missing.                              *)
StartRefused ==
    /\ ToggleCommits /\ ~recording
    /\ LoadMayFail
    /\ UNCHANGED <<lock, busy, cancelledIds, auto>>
    /\ UNCHANGED <<captureVars, spc, workerVars, watchdogVars>>

(* recorder.start() has cleared the session state and opened the stream.     *)
OpensRecording ==
    /\ ~recording
    /\ recordings < MaxRecordings
    /\ lock' = "start"
    /\ CancelTimers
    /\ recordings' = recordings + 1
    /\ recording' = TRUE
    /\ buf' = recordings'
    /\ UNCHANGED <<busy, cancelledIds>>
    /\ UNCHANGED <<spc, workerVars, watchdogVars>>

StartOpens == ToggleCommits /\ OpensRecording

(* The model manager starts a dictation it queued while the engine was busy: *)
(* start() itself, with the cycle id of the day and no look at busy.         *)
QueuedStart == QueuedStarts /\ lock = "free" /\ OpensRecording /\ UNCHANGED cycle

(* recorder.start() raised.  The teardown cancels the streaming session and  *)
(* discards; its assignment to the read-only Recorder.recording then raises  *)
(* AttributeError, so neither the error tray nor the notification nor the    *)
(* timer that follow it is reached.                                          *)
StartFails ==
    /\ ToggleCommits /\ ~recording
    /\ LoadMayFail
    /\ CancelTimers
    /\ DiscardRecording
    /\ UNCHANGED <<lock, busy, cancelledIds>>
    /\ UNCHANGED <<spc, workerVars, watchdogVars>>

(* The rest of _start_impl: tray, keyboard ownership, the start worker.      *)
StartCommits ==
    /\ lock = "start"
    /\ lock' = "free"
    /\ SStep(recordings, "none", "load")
    /\ UNCHANGED <<busy, cycle, cancelledIds, auto>>
    /\ UNCHANGED <<captureVars, workerVars, watchdogVars>>

-----------------------------------------------------------------------------
(* _stop_impl, from the toggle hotkey (a new cycle id), from the release of  *)
(* a push-to-talk key or from a scheduled stop (the same cycle id).  The     *)
(* recorder is still recording when it returns: the worker stops it.         *)
(*                                                                           *)
(* Two bug forms come first: a stop that ignores the busy flag, and one that *)
(* hands its worker the id of the next cycle.                                *)
StopIgnoresBusy(id) ==
    /\ recording
    /\ busy' = TRUE
    /\ \E w \in Workers :
          /\ \A v \in Workers : v < w => tpc[v] # "none"
          /\ WStep(w, "none", "stop")
          /\ wcycle' = [wcycle EXCEPT ![w] = id]
          /\ handle' = w
    /\ UNCHANGED <<lock, cancelledIds, waudio, pasted>>
    /\ UNCHANGED <<captureVars, spc, watchdogVars>>

StopTakesNextId(id) ==
    /\ recording /\ ~busy
    /\ busy' = TRUE
    /\ \E w \in Workers :
          /\ \A v \in Workers : v < w => tpc[v] # "none"
          /\ WStep(w, "none", "stop")
          /\ wcycle' = [wcycle EXCEPT ![w] = id + 1]
          /\ handle' = w
    /\ UNCHANGED <<lock, cancelledIds, waudio, pasted>>
    /\ UNCHANGED <<captureVars, spc, watchdogVars>>

StopWith(id) ==
    /\ recording /\ ~busy
    /\ busy' = TRUE
    /\ \E w \in Workers :
          /\ \A v \in Workers : v < w => tpc[v] # "none"
          /\ WStep(w, "none", "stop")
          /\ wcycle' = [wcycle EXCEPT ![w] = id]
          /\ handle' = w
    /\ UNCHANGED <<lock, cancelledIds, waudio, pasted>>
    /\ UNCHANGED <<captureVars, spc, watchdogVars>>

ToggleStops  == ToggleCommits /\ StopWith(cycle') /\ CancelTimers
ReleaseStops == lock = "free" /\ StopWith(cycle) /\ CancelTimers /\ UNCHANGED cycle

(* on_silence_auto_stop, on_max_duration_auto_stop, on_device_lost,          *)
(* on_active_mic_lost: _schedule_timer(0, _stop_dictation).  The first two   *)
(* do so once per cycle id (_claim_auto_stop), the others at any time.       *)
AutoStopScheduled ==
    /\ AutoStops
    /\ recording /\ auto = "none"
    /\ auto' = "scheduled"
    /\ UNCHANGED <<lock, busy, cycle, cancelledIds>>
    /\ UNCHANGED <<captureVars, spc, workerVars, watchdogVars>>

(* The timer thread passes the generation checks and calls _stop_dictation.  *)
AutoStopCleared ==
    /\ auto = "scheduled"
    /\ auto' = "committed"
    /\ UNCHANGED <<lock, busy, cycle, cancelledIds>>
    /\ UNCHANGED <<captureVars, spc, workerVars, watchdogVars>>

(* ... and gets _toggle_lock: it stops whatever is recording by then.        *)
AutoStopRuns ==
    /\ auto = "committed" /\ lock = "free"
    /\ auto' = "none"
    /\ \/ StopWith(cycle) /\ UNCHANGED cycle
       \/ /\ ~recording \/ busy
          /\ UNCHANGED <<lock, busy, cycle, cancelledIds, captureVars, spc>>
          /\ UNCHANGED <<workerVars, watchdogVars>>

-----------------------------------------------------------------------------
(* ESC: _cancel_impl.  It does nothing when neither a recording nor a        *)
(* transcription is running (nor while the settings page captures a hotkey,  *)
(* which here is an ESC that is not pressed).                                *)

EscPressed == EscEnabled /\ lock = "free"

(* A recording is running.  Its worker, if a stop was accepted already, may   *)
(* still take the audio: cancel looks at the recorder again before it        *)
(* discards.                                                                 *)
CancelBegins ==
    /\ EscPressed /\ recording
    /\ lock' = "cancel"
    /\ CancelTimers
    /\ UNCHANGED <<busy, cycle, cancelledIds>>
    /\ UNCHANGED <<captureVars, spc, workerVars, watchdogVars>>

CancelDiscards ==
    /\ lock = "cancel"
    /\ lock' = "discarded"
    /\ IF recording THEN DiscardRecording ELSE UNCHANGED captureVars
    /\ UNCHANGED <<busy, cycle, cancelledIds, auto>>
    /\ UNCHANGED <<spc, workerVars, watchdogVars>>

CancelLeavesBusy ==  \* bug form: set_idle is left to the worker
    /\ lock = "discarded"
    /\ lock' = "free"
    /\ UNCHANGED <<busy, cycle, cancelledIds, auto>>
    /\ UNCHANGED <<captureVars, spc, workerVars, watchdogVars>>

CancelFinishes ==
    /\ lock = "discarded"
    /\ lock' = "free"
    /\ busy' = FALSE
    /\ UNCHANGED <<cycle, cancelledIds, auto>>
    /\ UNCHANGED <<captureVars, spc, workerVars, watchdogVars>>

(* A transcription is running: mark its cycle and force a recovery.          *)
CancelTranscription ==
    /\ EscPressed /\ ~recording
    /\ busy /\ WorkerAlive(handle)
    /\ lock' = "recover"
    /\ cancelledIds' = cancelledIds \cup {cycle}
    /\ RStep(Esc, "off", "force")
    /\ UNCHANGED <<busy, cycle, auto, wdThread, wdStop, wdEvent, firings, wjoin, rjoin>>
    /\ UNCHANGED <<captureVars, spc, workerVars>>

-----------------------------------------------------------------------------
(* The DictationStart worker of recording r.  It holds no lock.              *)

(* The engine is loaded, by itself or by the fallback; a streaming session   *)
(* may follow (DictationResources).                                          *)
StartWorkerLoads(r) ==
    /\ SStep(r, "load", "done")
    /\ UNCHANGED <<controlVars, captureVars, workerVars, watchdogVars>>

(* The load raised, or neither the engine nor the fallback loaded.           *)
StartWorkerFails(r) ==
    /\ LoadMayFail
    /\ \/ SStep(r, "load", "teardown")
       \/ recording /\ ~busy /\ SStep(r, "load", "discard")
    /\ UNCHANGED <<controlVars, captureVars, workerVars, watchdogVars>>

(* Both failure paths discard and then assign the read-only                  *)
(* Recorder.recording: the first raises into the second, the second out of   *)
(* the thread, before the tray, the notification or the volume is touched.   *)
FallbackDiscards(r) ==
    /\ SStep(r, "discard", "teardown")
    /\ DiscardRecording
    /\ UNCHANGED <<controlVars, workerVars, watchdogVars>>

StartWorkerTearsDown(r) ==
    /\ SStep(r, "teardown", "died")
    /\ DiscardRecording
    /\ UNCHANGED <<controlVars, workerVars, watchdogVars>>

-----------------------------------------------------------------------------
(* The Transcription worker w: recorder.stop(), the pipeline, the clean-up.  *)

(* stop_recording clears the recording event and joins the capture threads;  *)
(* a recorder that is not recording returns no audio.                        *)
(* Bug form first: the recording event is not cleared.                       *)
WorkerStopsNothing(w) ==
    /\ IF recording THEN WStep(w, "stop", "export") ELSE WStep(w, "stop", "deliver")
    /\ UNCHANGED <<captureVars, wcycle, waudio, handle, pasted>>
    /\ UNCHANGED <<controlVars, spc, watchdogVars>>

WorkerStops(w) ==
    /\ IF recording THEN WStep(w, "stop", "export") ELSE WStep(w, "stop", "deliver")
    /\ recording' = FALSE
    /\ UNCHANGED <<recordings, buf, wcycle, waudio, handle, pasted>>
    /\ UNCHANGED <<controlVars, spc, watchdogVars>>

(* Then it swaps the buffer for an empty one and exports the old one.  A     *)
(* capture started since goes on into the empty one.                         *)
(* Bug form first: the old buffer stays in place.                            *)
WorkerExportsCopy(w) ==
    /\ WStep(w, "export", "deliver")
    /\ waudio' = [waudio EXCEPT ![w] = buf]
    /\ UNCHANGED <<captureVars, wcycle, handle, pasted>>
    /\ UNCHANGED <<controlVars, spc, watchdogVars>>

WorkerExports(w) ==
    /\ WStep(w, "export", "deliver")
    /\ waudio' = [waudio EXCEPT ![w] = buf]
    /\ buf' = IF recording THEN buf ELSE Nobody
    /\ UNCHANGED <<recording, recordings, wcycle, handle, pasted>>
    /\ UNCHANGED <<controlVars, spc, watchdogVars>>

(* recorder.stop() raised.                                                   *)
WorkerStopFails(w) ==
    /\ EngineMayFail
    /\ WStep(w, "export", "refused")
    /\ buf' = IF recording THEN buf ELSE Nobody
    /\ busy' = FALSE
    /\ UNCHANGED <<lock, cycle, cancelledIds, auto, recording, recordings>>
    /\ UNCHANGED <<wcycle, waudio, handle, pasted, spc, watchdogVars>>

(* _run_stop_and_transcribe: no audio, or too little of it.                  *)
WorkerRefuses(w) ==
    /\ WStep(w, "deliver", "refused")
    /\ busy' = FALSE
    /\ UNCHANGED <<lock, cycle, cancelledIds, auto, captureVars>>
    /\ UNCHANGED <<wcycle, waudio, handle, pasted, spc, watchdogVars>>

(* The tray timer of both refusals; nothing is left to do after it.          *)
WorkerReminds(w) ==
    /\ \/ WStep(w, "refused", "done")
       \/ WStep(w, "settled", "signal")
    /\ UNCHANGED <<wcycle, waudio, handle, pasted>>
    /\ UNCHANGED <<controlVars, captureVars, spc, watchdogVars>>

WorkerDelivers(w) ==
    /\ waudio[w] # Nobody
    /\ WStep(w, "deliver", "arm")
    /\ firings' = 0
    /\ UNCHANGED <<wcycle, waudio, handle, pasted>>
    /\ UNCHANGED <<wdThread, wdStop, wdEvent, rpc, wjoin, rjoin>>
    /\ UNCHANGED <<controlVars, captureVars, spc>>

(* start_thread: a watchdog that outlives the 0.1 s join is reused as it is, *)
(* its stop event included.                                                  *)
ReusesWatchdog(w) ==
    /\ WatchdogAlive(wdThread)
    /\ ~wdStop \/ SlowJoin
    /\ UNCHANGED <<wdThread, wdStop, rpc>>
SpawnsStoppedWatchdog(w) ==  \* bug form: the stop event is not cleared
    /\ ~WatchdogAlive(wdThread)
    /\ UNCHANGED wdStop
    /\ wdThread' = w
    /\ rpc' = [rpc EXCEPT ![w] = "wait"]
SpawnsWatchdog(w) ==
    /\ ~WatchdogAlive(wdThread)
    /\ wdStop' = FALSE
    /\ wdThread' = w
    /\ rpc' = [rpc EXCEPT ![w] = "wait"]
WorkerArms(w) ==
    /\ WStep(w, "arm", "take")
    /\ firings' = 0
    /\ wdEvent' = FALSE
    /\ ReusesWatchdog(w) \/ SpawnsWatchdog(w)
    /\ UNCHANGED <<wcycle, waudio, handle, pasted, wjoin, rjoin>>
    /\ UNCHANGED <<controlVars, captureVars, spc>>

(* _transcribe takes whatever streaming session is there, to finalize it; a  *)
(* wait for an engine that is still loading resets the watchdog.             *)
WorkerTakesSession(w) ==
    /\ WStep(w, "take", "infer")
    /\ wdEvent' \in {wdEvent, TRUE}
    /\ UNCHANGED <<wcycle, waudio, handle, pasted, wdThread, wdStop, firings, rpc, wjoin, rjoin>>
    /\ UNCHANGED <<controlVars, captureVars, spc>>

(* Inference returned text.                                                  *)
WorkerHasText(w) ==
    /\ WStep(w, "infer", "guard")
    /\ UNCHANGED <<wcycle, waudio, handle, pasted>>
    /\ UNCHANGED <<controlVars, captureVars, spc, watchdogVars>>

(* No text: _handle_empty_transcription, silent for a cancelled cycle.       *)
WorkerIsEmpty(w) ==
    /\ EngineMayFail
    /\ IF wcycle[w] \in cancelledIds
       THEN WStep(w, "infer", "signal") /\ UNCHANGED busy
       ELSE WStep(w, "infer", "settled") /\ busy' = FALSE
    /\ UNCHANGED <<lock, cycle, cancelledIds, auto>>
    /\ UNCHANGED <<wcycle, waudio, handle, pasted>>
    /\ UNCHANGED <<captureVars, spc, watchdogVars>>

(* A stage raised.                                                           *)
WorkerErrs(w) ==
    /\ EngineMayFail
    /\ \/ WStep(w, "infer", "signal")
       \/ WStep(w, "paste", "signal")
    /\ UNCHANGED <<wcycle, waudio, handle, pasted>>
    /\ UNCHANGED <<controlVars, captureVars, spc, watchdogVars>>

(* CancellationGuard tests the captured id under the lock and then runs the  *)
(* paste stage.                                                              *)
WorkerIsGuarded(w) ==
    /\ IF wcycle[w] \in cancelledIds
       THEN WStep(w, "guard", "signal") ELSE WStep(w, "guard", "paste")
    /\ UNCHANGED <<wcycle, waudio, handle, pasted>>
    /\ UNCHANGED <<controlVars, captureVars, spc, watchdogVars>>

WorkerPastes(w) ==
    /\ WStep(w, "paste", "signal")
    /\ pasted' = pasted \cup {w}
    /\ UNCHANGED <<wcycle, waudio, handle>>
    /\ UNCHANGED <<controlVars, captureVars, spc, watchdogVars>>

(* ClipboardCopyError.                                                       *)
WorkerCannotCopy(w) ==
    /\ EngineMayFail
    /\ WStep(w, "paste", "settled")
    /\ busy' = FALSE
    /\ UNCHANGED <<lock, cycle, cancelledIds, auto>>
    /\ UNCHANGED <<wcycle, waudio, handle, pasted>>
    /\ UNCHANGED <<captureVars, spc, watchdogVars>>

(* The finally block of run().  First the watchdog: both events, then a join *)
(* of the thread registered at that moment, which may time out.              *)
Joinable(d) == ~WatchdogAlive(d) \/ SlowJoin
Unregister(d) == wdThread' = IF WatchdogAlive(d) THEN wdThread ELSE Nobody

WorkerSignals(w) ==
    /\ WStep(w, "signal", "join")
    /\ wdStop' = TRUE
    /\ wdEvent' = TRUE
    /\ wjoin' = [wjoin EXCEPT ![w] = wdThread]
    /\ UNCHANGED <<wcycle, waudio, handle, pasted, wdThread, firings, rpc, rjoin>>
    /\ UNCHANGED <<controlVars, captureVars, spc>>

WorkerJoins(w) ==
    /\ WStep(w, "join", "pop")
    /\ Joinable(wjoin[w])
    /\ Unregister(wjoin[w])
    /\ wjoin' = [wjoin EXCEPT ![w] = Nobody]
    /\ cancelledIds' = cancelledIds \ {wcycle[w]}
    /\ UNCHANGED <<lock, busy, cycle, auto, wcycle, waudio, handle, pasted>>
    /\ UNCHANGED <<wdStop, wdEvent, firings, rpc, rjoin>>
    /\ UNCHANGED <<captureVars, spc>>

(* The session is cancelled unless a recording is running by now.            *)
WorkerPopsSession(w) ==
    /\ WStep(w, "pop", "idle")
    /\ UNCHANGED <<wcycle, waudio, handle, pasted>>
    /\ UNCHANGED <<controlVars, captureVars, spc, watchdogVars>>

StaysBusy(w) ==  \* bug form: set_idle is forgotten
    /\ WStep(w, "idle", "clear")
    /\ UNCHANGED <<controlVars, wcycle, waudio, handle, pasted>>
    /\ UNCHANGED <<captureVars, spc, watchdogVars>>

WorkerGoesIdle(w) ==
    /\ WStep(w, "idle", "clear")
    /\ busy' = FALSE
    /\ UNCHANGED <<lock, cycle, cancelledIds, auto, wcycle, waudio, handle, pasted>>
    /\ UNCHANGED <<captureVars, spc, watchdogVars>>

(* _transcription_thread = None, whoever it was, and the end of the thread.  *)
WorkerClears(w) ==
    /\ WStep(w, "clear", "done")
    /\ handle' = Nobody
    /\ cancelledIds' = cancelledIds \ {wcycle[w]}
    /\ UNCHANGED <<lock, busy, cycle, auto, wcycle, waudio, pasted>>
    /\ UNCHANGED <<captureVars, spc, watchdogVars>>

-----------------------------------------------------------------------------
(* The watchdog thread d: loop().                                            *)

(* 90 seconds without a reset.                                               *)
WatchdogFires(d) ==
    /\ Timeouts \/ wdStop
    /\ ~wdEvent
    /\ IF wdStop THEN RStep(d, "wait", "off") /\ UNCHANGED firings
       ELSE /\ firings' = IF firings < MaxFirings THEN firings + 1 ELSE MaxFirings
            /\ IF firings' < MaxFirings
               THEN RStep(d, "wait", "check") ELSE RStep(d, "wait", "force")
    /\ UNCHANGED <<wdThread, wdStop, wdEvent, wjoin, rjoin>>
    /\ UNCHANGED <<controlVars, captureVars, spc, workerVars>>

WatchdogIsReset(d) ==
    /\ wdEvent
    /\ IF wdStop THEN RStep(d, "wait", "off") /\ UNCHANGED <<firings, wdEvent>>
       ELSE RStep(d, "wait", "wait") /\ firings' = 0 /\ wdEvent' = FALSE
    /\ UNCHANGED <<wdThread, wdStop, wjoin, rjoin>>
    /\ UNCHANGED <<controlVars, captureVars, spc, workerVars>>

WatchdogLoops(d) ==
    /\ IF wdStop THEN RStep(d, "tail", "off") ELSE RStep(d, "tail", "wait")
    /\ UNCHANGED <<wdThread, wdStop, wdEvent, firings, wjoin, rjoin>>
    /\ UNCHANGED <<controlVars, captureVars, spc, workerVars>>

(* force_recover ends: back in the loop, or out of cancel() and its lock.    *)
RecoverKeepsLock(x, from) ==  \* bug form: cancel() does not give the lock back
    IF x = Esc THEN RStep(x, from, "off") /\ UNCHANGED lock
               ELSE RStep(x, from, "tail") /\ UNCHANGED lock

RecoverEnds(x, from) ==
    IF x = Esc THEN RStep(x, from, "off") /\ lock' = "free"
               ELSE RStep(x, from, "tail") /\ UNCHANGED lock

(* Nothing to recover, or a worker that is alive and still has time.         *)
RecoverLeaves(x) ==
    /\ \/ /\ ~busy
          /\ RecoverEnds(x, "check") \/ RecoverEnds(x, "force")
       \/ /\ busy /\ WorkerAlive(handle)
          /\ RecoverEnds(x, "check")
    /\ UNCHANGED <<busy, cycle, cancelledIds, auto>>
    /\ UNCHANGED <<wdThread, wdStop, wdEvent, firings, wjoin, rjoin>>
    /\ UNCHANGED <<captureVars, spc, workerVars>>

RecoverProceeds(x) ==
    /\ busy
    /\ \/ RStep(x, "force", "mark")
       \/ ~WorkerAlive(handle) /\ RStep(x, "check", "mark")
    /\ UNCHANGED <<wdThread, wdStop, wdEvent, firings, wjoin, rjoin>>
    /\ UNCHANGED <<controlVars, captureVars, spc, workerVars>>

(* The current cycle is marked, not the one of the stuck worker.             *)
RecoverMarks(x) ==
    /\ RStep(x, "mark", "halt")
    /\ cancelledIds' = cancelledIds \cup {cycle}
    /\ UNCHANGED <<lock, busy, cycle, auto, wdThread, wdStop, wdEvent, firings, wjoin, rjoin>>
    /\ UNCHANGED <<captureVars, spc, workerVars>>

(* stop_thread; a watchdog does not join itself.                             *)
RecoverHalts(x) ==
    /\ wdStop' = TRUE
    /\ wdEvent' = TRUE
    /\ IF wdThread \in {Nobody, x}
       THEN RStep(x, "halt", "drop") /\ wdThread' = Nobody /\ UNCHANGED rjoin
       ELSE RStep(x, "halt", "join") /\ rjoin' = [rjoin EXCEPT ![x] = wdThread]
            /\ UNCHANGED wdThread
    /\ UNCHANGED <<firings, wjoin>>
    /\ UNCHANGED <<controlVars, captureVars, spc, workerVars>>

RecoverJoins(x) ==
    /\ RStep(x, "join", "drop")
    /\ Joinable(rjoin[x])
    /\ Unregister(rjoin[x])
    /\ rjoin' = [rjoin EXCEPT ![x] = Nobody]
    /\ UNCHANGED <<wdStop, wdEvent, firings, wjoin>>
    /\ UNCHANGED <<controlVars, captureVars, spc, workerVars>>

(* The session is cancelled and the engine unloaded under the stuck worker.  *)
RecoverDrops(x) ==
    /\ RStep(x, "drop", "release")
    /\ UNCHANGED <<wdThread, wdStop, wdEvent, firings, wjoin, rjoin>>
    /\ UNCHANGED <<controlVars, captureVars, spc, workerVars>>

RecoverReleases(x) ==
    /\ RStep(x, "release", "announce")
    /\ busy' = FALSE
    /\ UNCHANGED <<lock, cycle, cancelledIds, auto, wdThread, wdStop, wdEvent, firings>>
    /\ UNCHANGED <<wjoin, rjoin, captureVars, spc, workerVars>>

RecoverAnnounces(x) ==
    /\ RecoverEnds(x, "announce")
    /\ UNCHANGED <<busy, cycle, cancelledIds, auto>>
    /\ UNCHANGED <<wdThread, wdStop, wdEvent, firings, wjoin, rjoin>>
    /\ UNCHANGED <<captureVars, spc, workerVars>>

-----------------------------------------------------------------------------
Entries ==
    \/ StartRefused \/ StartOpens \/ QueuedStart \/ StartFails \/ StartCommits
    \/ ToggleStops \/ ReleaseStops
    \/ AutoStopScheduled \/ AutoStopCleared \/ AutoStopRuns
    \/ CancelBegins \/ CancelDiscards \/ CancelFinishes \/ CancelTranscription

StartWorker(r) ==
    \/ StartWorkerLoads(r) \/ StartWorkerFails(r)
    \/ FallbackDiscards(r) \/ StartWorkerTearsDown(r)

(* The engine, and with it these steps, may hang for ever.                   *)
Infers(w) ==
    \/ WorkerTakesSession(w) \/ WorkerHasText(w) \/ WorkerIsEmpty(w)

PromptSteps(w) ==
    \/ WorkerStops(w) \/ WorkerExports(w) \/ WorkerStopFails(w)
    \/ WorkerRefuses(w) \/ WorkerReminds(w) \/ WorkerDelivers(w) \/ WorkerArms(w)
    \/ WorkerIsGuarded(w) \/ WorkerPastes(w) \/ WorkerCannotCopy(w)
    \/ WorkerSignals(w) \/ WorkerJoins(w) \/ WorkerPopsSession(w)
    \/ WorkerGoesIdle(w) \/ WorkerClears(w)

WatchdogLoop(d) == WatchdogFires(d) \/ WatchdogIsReset(d) \/ WatchdogLoops(d)

ForceRecover(x) ==
    \/ RecoverLeaves(x) \/ RecoverProceeds(x) \/ RecoverMarks(x) \/ RecoverHalts(x)
    \/ RecoverJoins(x) \/ RecoverDrops(x) \/ RecoverReleases(x) \/ RecoverAnnounces(x)

Next ==
    \/ Entries
    \/ \E r \in Recordings : StartWorker(r)
    \/ \E w \in Workers : Infers(w) \/ PromptSteps(w) \/ WorkerErrs(w)
    \/ \E d \in Watchdogs : WatchdogLoop(d)
    \/ \E x \in Recoverers : ForceRecover(x)

Spec == Init /\ [][Next]_vars

(* Threads that are not waiting for an engine are scheduled.  Nothing is     *)
(* assumed of the user, of timers, of the capture or of the engine.          *)
FairSpec ==
    /\ Spec
    /\ WF_vars(StartCommits) /\ WF_vars(CancelDiscards) /\ WF_vars(CancelFinishes)
    /\ \A r \in Recordings : WF_vars(StartWorker(r))
    /\ \A w \in Workers : WF_vars(PromptSteps(w))
    /\ \A d \in Watchdogs : WF_vars(WatchdogLoop(d))
    /\ \A x \in Recoverers : WF_vars(ForceRecover(x))

-----------------------------------------------------------------------------
(* BusyHasWorker: the busy flag is up only while a Transcription worker is in *)
(* flight, so it never stays up with nobody left to bring it down (every      *)
(* hotkey press would be ignored): set_busy and spawn in _stop_impl against   *)
(* the set_idle of five places.                                               *)
BusyHasWorker == busy => \E w \in Workers : tpc[w] \in InFlightPcs

(* NotBusyMeansDone: conversely, when the flag is down no dictation is in     *)
(* flight, so the next toggle cannot overlap it.  True only of environments   *)
(* without ESC, time-outs and failing engines.                                *)
NotBusyMeansDone == (\E w \in Workers : tpc[w] \in InFlightPcs) => busy

(* AudioInOnePlace: the audio of a recording is in the capture buffer or in   *)
(* the hands of one worker, never in two places: the buffer swap of           *)
(* stop_recording against the reset of the next start.                        *)
AudioInOnePlace ==
    \A v \in Workers : waudio[v] # Nobody =>
        /\ waudio[v] # buf
        /\ \A w \in Workers \ {v} : waudio[w] # waudio[v]

(* PasteOnce: no recording's audio reaches the user's document twice.         *)
PasteOnce == \A v, w \in pasted : waudio[v] = waudio[w] => v = w

(* EscLeavesIdle: when cancel() gives back _toggle_lock the busy flag is down *)
(* whichever of its two paths it took, whatever stop was waiting meanwhile.   *)
EscLeavesIdle ==
    [][(lock \in {"discarded", "recover"} /\ lock' = "free") => ~busy']_vars

(* BusyEnds: a dictation does not stay busy for ever, even when its engine    *)
(* never answers: the watchdog recovers it.                                   *)
BusyEnds == []<>~busy

(* EntriesReturn: whoever has _toggle_lock gives it back; cancel() joins the  *)
(* watchdog while it holds the lock.                                          *)
EntriesReturn == []<>(lock = "free")

(* NewDictationUnmarked: a dictation does not inherit the cancelled mark of    *)
(* an earlier one: when its stop is accepted its cycle id is unmarked, though  *)
(* the clean-up of a cancelled worker may still be to come.                    *)
NewDictationUnmarked ==
    [][\A w \in Workers : tpc[w] = "none" /\ tpc'[w] = "stop" => wcycle'[w] \notin cancelledIds]_vars

(* Contract: seen from outside, the dictations follow DictationContract.      *)
Contract == INSTANCE DictationContract WITH
    phase <- IF \E w \in Workers : tpc[w] \in InFlightPcs THEN "transcribing"
             ELSE IF recording THEN "recording" ELSE "idle",
    newest <- recordings,
    delivered <- {waudio[w] : w \in pasted}
KeepsContract == Contract!Spec

-----------------------------------------------------------------------------
(* What the documentation says of dictations that overlap, are cancelled or   *)
(* time out.                                                                  *)

(* OneCycleAtATime: a second dictation is not transcribed while the first one *)
(* is: toggle and stop see the busy flag and refuse.                          *)
OneCycleAtATime ==
    \A v, w \in Workers : tpc[v] \in InFlightPcs /\ tpc[w] \in InFlightPcs => v = w

(* NoLatePaste: the text of a cycle that is marked cancelled is not pasted.   *)
NoLatePaste ==
    [][\A w \in Workers : w \in pasted' \ pasted => wcycle[w] \notin cancelledIds]_vars

(* EscCancels: when the ESC that met a recording returns, no audio taken from *)
(* the recorder is still on its way to the document.                          *)
EscCancels ==
    [][(lock = "discarded" /\ lock' = "free") =>
          \A w \in Workers : waudio[w] # Nobody /\ wcycle[w] \notin cancelledIds =>
              tpc[w] \notin {"deliver", "arm", "take", "infer", "guard", "paste"}]_vars

(* EscReaches: ESC can cancel whatever dictation is in flight: the thread it  *)
(* looks for is the one that is in flight.                                    *)
EscReaches == busy /\ ~recording => WorkerAlive(handle)

=============================================================================
