---------------------------- MODULE RecorderDevice ----------------------------
(***************************************************************************)
(* The microphone stream of the recorder and its recovery from a lost      *)
(* device: recorder.py, recording_start.py, recording_lifecycle.py (start, *)
(* stop, discard), disconnect_handler.py, device_health.py, and            *)
(* detect_device_disconnect of audio_pipeline.py.                          *)
(*                                                                         *)
(* One caller thread starts and ends recordings (the toggle lock           *)
(* serialises them, see DictationLifecycle); detector threads notice that  *)
(* the device is gone and spawn handler threads that reopen the stream.    *)
(***************************************************************************)
EXTENDS Naturals, FiniteSets

CONSTANTS
    Handlers,       \* threads of spawn_device_thread that may run at once
    MaxRetries,     \* _get_max_retries_for_device
    MaxFlaps,       \* _flapping_max_restarts
    Limits          \* bounds of one behaviour: calls of start, and detections

Detectors == {"zero", "health", "permission", "finished", "hotplug"}
NoStream  == 0
NoHandler == "no handler"

DeviceConstants ==
    /\ NoHandler \notin Handlers
    /\ {MaxRetries, MaxFlaps} \subseteq Nat \ {0}
    /\ Limits \subseteq [starts : Nat, notices : Nat]
ASSUME DeviceAssumption == DeviceConstants

VARIABLES
    recording,   \* _recording_event
    gen,         \* _stop_generation
    userStop,    \* _user_stop_pending
    caller,      \* where the thread that starts and ends recordings is
    starts,      \* calls of start so far
    stream,      \* _stream, NoStream when None
    opened,      \* streams PortAudio has open
    serial,      \* number of the newest stream
    lockedBy,    \* the handler that holds _stream_lifecycle_lock
    handler,     \* per handler: where it is, the generation it captured, its new stream
    running,     \* _single_flight_running
    lost,        \* _device_disconnected
    retries,     \* _device_disconnect_retries
    flaps,       \* len(_restart_timestamps)
    detector,    \* per detector: where it is and the generation it captured
    notices,     \* detections so far
    checker,     \* the health checker thread is alive
    checkerStop, \* _device_health_stop_event
    told,        \* on_device_lost or on_microphone_permission_revoked was called
    crossed      \* a detection met a running handler, or the start or the end of a
                 \* recording (history)

controlVars == <<recording, gen, userStop, caller, starts>>
streamVars  == <<stream, opened, serial, lockedBy>>
lossVars    == <<running, lost, retries, flaps, told>>
noticeVars  == <<detector, notices, checker, checkerStop>>
deviceVars  == <<controlVars, streamVars, handler, lossVars, noticeVars, crossed>>

CallerStages  == {"idle", "opening", "armed", "workers", "live", "undo", "stopping", "discarding"}
HandlerStages == {"off", "begin", "teardown", "lock", "open", "assign", "clear", "flap", "tell", "end"}

DeviceTypeOK ==
    /\ recording \in BOOLEAN /\ gen \in Nat /\ userStop \in BOOLEAN
    /\ caller \in CallerStages /\ starts \in Nat
    /\ serial \in Nat /\ stream \in 0..serial /\ opened \subseteq 1..serial
    /\ lockedBy \in Handlers \cup {NoHandler}
    /\ handler \in [Handlers -> [at : HandlerStages, gen : Nat, new : 0..serial]]
    /\ running \in BOOLEAN /\ lost \in BOOLEAN /\ told \in BOOLEAN
    /\ retries \in 0..MaxRetries /\ flaps \in 0..(MaxFlaps - 1)
    /\ detector \in [Detectors -> [at : {"idle", "seen", "marked"}, gen : Nat]]
    /\ notices \in Nat /\ checker \in BOOLEAN /\ checkerStop \in BOOLEAN
    /\ crossed \in BOOLEAN

DeviceInit ==
    /\ recording = FALSE /\ gen = 0 /\ userStop = FALSE /\ caller = "idle" /\ starts = 0
    /\ stream = NoStream /\ opened = {} /\ serial = 0 /\ lockedBy = NoHandler
    /\ handler = [h \in Handlers |-> [at |-> "off", gen |-> 0, new |-> NoStream]]
    /\ running = FALSE /\ lost = FALSE /\ retries = 0 /\ flaps = 0 /\ told = FALSE
    /\ detector = [d \in Detectors |-> [at |-> "idle", gen |-> 0]]
    /\ notices = 0 /\ checker = FALSE /\ checkerStop = FALSE
    /\ crossed = FALSE

----------------------------------------------------------------------------
(* The caller.                                                               *)

Within(begun, noticed) == \E l \in Limits : begun <= l.starts /\ noticed <= l.notices

Active(h)  == handler[h].at # "off"
Quiet      == /\ \A h \in Handlers : ~Active(h)
              /\ \A d \in Detectors : detector[d].at = "idle"

\* Mutant of Teardown: the reference is dropped before the stream is closed.
TeardownForgets ==
    /\ IF lockedBy = NoHandler THEN stream' = NoStream ELSE UNCHANGED stream
    /\ UNCHANGED opened

\* _teardown_stream: the lock is only tried, so a restart in progress makes
\* the teardown return at once.
Teardown ==
    IF lockedBy = NoHandler
    THEN /\ opened' = opened \ {stream}
         /\ stream' = NoStream
    ELSE UNCHANGED <<opened, stream>>

\* The gate of start and reset_session_state.
StartReset ==
    /\ caller = "idle" /\ ~recording /\ Within(starts + 1, notices)
    /\ starts' = starts + 1
    /\ caller' = "opening"
    /\ userStop' = FALSE
    /\ lost' = FALSE /\ retries' = 0 /\ flaps' = 0
    /\ told' = FALSE
    /\ UNCHANGED <<recording, gen, streamVars, handler, running, noticeVars, crossed>>

\* The candidates and then the fallback devices are tried; the slot is written
\* whatever it held.
StartOpens ==
    /\ caller = "opening"
    /\ serial' = serial + 1
    /\ opened' = opened \cup {serial + 1}
    /\ stream' = serial + 1
    /\ caller' = "armed"
    /\ UNCHANGED <<recording, gen, userStop, starts, lockedBy, handler, lossVars,
                   noticeVars, crossed>>

StartFindsNoDevice ==
    /\ caller = "opening"
    /\ stream' = NoStream
    /\ caller' = "idle"
    /\ UNCHANGED <<recording, gen, userStop, starts, opened, serial, lockedBy, handler,
                   lossVars, noticeVars, crossed>>

\* Only a fallback device answers and the privacy settings forbid the chosen one.
StartIsForbidden ==
    /\ caller = "armed"
    /\ Teardown
    /\ caller' = "idle"
    /\ UNCHANGED <<recording, gen, userStop, starts, serial, lockedBy, handler, lossVars,
                   noticeVars, crossed>>

StartRecords ==
    /\ caller = "armed"
    /\ recording' = TRUE
    /\ caller' = "workers"
    /\ UNCHANGED <<gen, userStop, starts, streamVars, handler, lossVars, noticeVars, crossed>>

\* The health checker is started unless its thread is still alive, even when
\* that thread has been told to stop.
StartFinishes ==
    /\ caller = "workers"
    /\ caller' = "live"
    /\ checker' = TRUE
    /\ checkerStop' = (checker /\ checkerStop)
    /\ UNCHANGED <<recording, gen, userStop, starts, streamVars, handler, lossVars,
                   detector, notices, crossed>>

\* A worker thread cannot be started: the recording is undone.
StartFails ==
    /\ caller = "workers"
    /\ gen' = gen + 1
    /\ recording' = FALSE
    /\ caller' = "undo"
    /\ crossed' = (crossed \/ ~Quiet)
    /\ UNCHANGED <<userStop, starts, streamVars, handler, lossVars, noticeVars>>

StartUndoes ==
    /\ caller = "undo"
    /\ Teardown
    /\ caller' = "idle"
    /\ UNCHANGED <<recording, gen, userStop, starts, serial, lockedBy, handler, lossVars,
                   noticeVars, crossed>>

\* stop_recording and discard_recording up to the teardown.
EndBegins(how) ==
    /\ caller = "live"
    /\ recording' = FALSE
    /\ gen' = gen + 1
    /\ userStop' = TRUE
    /\ caller' = how
    /\ crossed' = (crossed \/ ~Quiet)
    /\ UNCHANGED <<starts, streamVars, handler, lossVars, noticeVars>>

\* The teardown and the signal to the health checker (timeout 0: no join).
\* discard leaves _user_stop_pending set until the next start.
EndTearsDown ==
    /\ caller \in {"stopping", "discarding"}
    /\ Teardown
    /\ userStop' = (caller = "discarding")
    /\ checkerStop' = TRUE
    /\ caller' = "idle"
    /\ UNCHANGED <<recording, gen, starts, serial, lockedBy, handler, lossVars,
                   detector, notices, checker, crossed>>

----------------------------------------------------------------------------
(* The detectors.                                                            *)

DetectorAt(d, from, to) ==
    /\ detector[d].at = from
    /\ detector' = [detector EXCEPT ![d].at = to]

\* The first half of a detection: no disconnect is being handled and the
\* recording is on.  The health checker leaves its thread when it finds that
\* the recording is off.
CheckerAwake == checker /\ ~checkerStop /\ detector["health"].at = "idle"
                        /\ detector["permission"].at = "idle"

Notices(d) ==
    /\ Within(starts, notices + 1) /\ ~lost
    /\ d \in {"health", "permission"} => CheckerAwake
    /\ d \in {"zero", "health", "permission"} /\ (d = "zero" => opened # {})
    /\ recording
    /\ DetectorAt(d, "idle", "seen")
    /\ notices' = notices + 1
    /\ UNCHANGED <<controlVars, streamVars, handler, lossVars, checker, checkerStop, crossed>>

CheckerLeaves ==
    /\ checker
    /\ detector["health"].at = "idle" /\ detector["permission"].at = "idle"
    /\ checkerStop \/ (~recording /\ ~lost)
    /\ checker' = FALSE
    /\ UNCHANGED <<controlVars, streamVars, handler, lossVars, detector, notices,
                   checkerStop, crossed>>

\* The second half: the flag is set and the generation captured.  The zero-fill
\* detector also declares that no handler is running.
Marks(d) ==
    /\ detector[d].at = "seen"
    /\ detector' = [detector EXCEPT ![d] = [at |-> "marked", gen |-> gen]]
    /\ lost' = TRUE
    /\ running' = (running /\ d # "zero")
    /\ UNCHANGED <<controlVars, streamVars, handler, retries, flaps, told, notices,
                   checker, checkerStop, crossed>>

\* stream_finished_callback_body: PortAudio ends a stream by itself.  While the
\* recording is on this callback does nothing.
StreamFinishes ==
    /\ Within(starts, notices + 1) /\ stream # NoStream
    /\ ~lost /\ ~userStop /\ ~recording
    /\ detector["finished"].at = "idle"
    /\ detector' = [detector EXCEPT !["finished"] = [at |-> "marked", gen |-> gen]]
    /\ notices' = notices + 1
    /\ lost' = TRUE
    /\ UNCHANGED <<controlVars, streamVars, handler, running, retries, flaps, told,
                   checker, checkerStop, crossed>>

\* _on_devices_changed: a device was plugged in while a disconnect is pending.
DevicesChange ==
    /\ Within(starts, notices + 1) /\ lost /\ recording
    /\ detector["hotplug"].at = "idle"
    /\ detector' = [detector EXCEPT !["hotplug"] = [at |-> "marked", gen |-> gen]]
    /\ notices' = notices + 1
    /\ UNCHANGED <<controlVars, streamVars, handler, lossVars, checker, checkerStop, crossed>>

\* The single-flight test of spawn_device_thread.
InFlight == running /\ lost

\* spawn_device_thread(single_flight=True).
Spawn(d) ==
    /\ DetectorAt(d, "marked", "idle")
    /\ IF InFlight
       THEN /\ crossed' = TRUE
            /\ UNCHANGED <<handler, running>>
       ELSE LET h == CHOOSE free \in Handlers : ~Active(free) IN
               /\ \E free \in Handlers : ~Active(free)
               /\ running' = TRUE
               /\ handler' = [handler EXCEPT ![h] =
                     [at |-> IF d = "permission" THEN "tell" ELSE "begin",
                      gen |-> detector[d].gen, new |-> NoStream]]
               /\ crossed' = (crossed \/ \E other \in Handlers : Active(other))
    /\ UNCHANGED <<controlVars, streamVars, lost, retries, flaps, told, notices,
                   checker, checkerStop>>

----------------------------------------------------------------------------
(* A handler: _handle_device_disconnect and restart_stream.                  *)

Stale(h) == handler[h].gen # gen
Unlock == lockedBy' = NoHandler
Moves(h, from, to) ==
    /\ handler[h].at = from
    /\ handler' = [handler EXCEPT ![h].at = to]

HandlerGivesUp(h) ==
    /\ handler[h].at = "begin" /\ (Stale(h) \/ ~recording)
    /\ Moves(h, "begin", "end")
    /\ crossed' = TRUE
    /\ UNCHANGED <<controlVars, streamVars, lossVars, noticeVars>>

HandlerRetries(h) ==
    /\ ~Stale(h) /\ recording /\ retries < MaxRetries
    /\ Moves(h, "begin", "teardown")
    /\ retries' = retries + 1
    /\ UNCHANGED <<controlVars, streamVars, running, lost, flaps, told, noticeVars,
                   crossed>>

\* The retries are used up: the user is told and the detectors work again.
HandlerSurrenders(h) ==
    /\ ~Stale(h) /\ recording /\ retries = MaxRetries
    /\ Moves(h, "begin", "end")
    /\ told' = TRUE /\ lost' = FALSE /\ retries' = 0
    /\ UNCHANGED <<controlVars, streamVars, running, flaps, noticeVars, crossed>>

\* After the pause between two attempts.  Nothing is checked again before the
\* stream is aborted and closed.
HandlerTearsDown(h) ==
    /\ Moves(h, "teardown", "lock")
    /\ Teardown
    /\ UNCHANGED <<controlVars, serial, lockedBy, lossVars, noticeVars, crossed>>

HandlerLocks(h) ==
    /\ lockedBy = NoHandler
    /\ IF Stale(h) \/ ~recording
       THEN /\ Moves(h, "lock", "end")
            /\ UNCHANGED lockedBy
       ELSE /\ Moves(h, "lock", "open")
            /\ lockedBy' = h
    /\ UNCHANGED <<controlVars, stream, opened, serial, lossVars, noticeVars, crossed>>

\* Mutant of LeavesEarly: the lock is kept on the early return.
LeavesLocked == UNCHANGED lockedBy

LeavesEarly == Unlock

\* The new stream is started and the generation read again; a stream of an
\* ended recording is closed at once.
HandlerOpens(h) ==
    /\ handler[h].at = "open"
    /\ serial' = serial + 1
    /\ IF Stale(h)
       THEN /\ Moves(h, "open", "end")
            /\ LeavesEarly
            /\ UNCHANGED opened
       ELSE /\ handler' = [handler EXCEPT ![h].at = "assign", ![h].new = serial + 1]
            /\ opened' = opened \cup {serial + 1}
            /\ UNCHANGED lockedBy
    /\ UNCHANGED <<controlVars, stream, lossVars, noticeVars, crossed>>

\* Mutant of AfterFailure: the flag is left for the next restart to reset.
FailureKeepsFlag == UNCHANGED <<lost, retries>>

AfterFailure == lost' = FALSE /\ UNCHANGED retries

\* The device cannot be opened: the detectors will notice again.
HandlerFails(h) ==
    /\ Moves(h, "open", "end")
    /\ Unlock
    /\ AfterFailure
    /\ UNCHANGED <<controlVars, stream, opened, serial, running, flaps, told, noticeVars,
                   crossed>>

HandlerAssigns(h) ==
    /\ Moves(h, "assign", "clear")
    /\ stream' = handler[h].new
    /\ UNCHANGED <<controlVars, opened, serial, lockedBy, lossVars, noticeVars, crossed>>

HandlerClears(h) ==
    /\ Moves(h, "clear", "flap")
    /\ lost' = FALSE /\ retries' = 0
    /\ UNCHANGED <<controlVars, streamVars, running, flaps, told, noticeVars, crossed>>

\* Mutant of Flapping: off by one.
FlappingLate == flaps >= MaxFlaps

Flapping == flaps + 1 >= MaxFlaps

\* Too many successful restarts in the window: the user is told as well.
HandlerCountsFlap(h) ==
    /\ Moves(h, "flap", "end")
    /\ Unlock
    /\ IF Flapping
       THEN told' = TRUE /\ flaps' = 0
       ELSE flaps' = flaps + 1 /\ UNCHANGED told
    /\ UNCHANGED <<controlVars, stream, opened, serial, running, lost, retries,
                   noticeVars, crossed>>

HandlerTells(h) ==
    /\ Moves(h, "tell", "end")
    /\ told' = TRUE
    /\ UNCHANGED <<controlVars, streamVars, running, lost, retries, flaps, noticeVars,
                   crossed>>

\* The guarded target's finally block.
HandlerEnds(h) ==
    /\ handler[h].at = "end"
    /\ handler' = [handler EXCEPT ![h] = [at |-> "off", gen |-> 0, new |-> NoStream]]
    /\ running' = FALSE
    /\ UNCHANGED <<controlVars, streamVars, lost, retries, flaps, told, noticeVars,
                   crossed>>

HandlerSteps(h) ==
    \/ HandlerGivesUp(h) \/ HandlerRetries(h) \/ HandlerSurrenders(h) \/ HandlerTearsDown(h)
    \/ HandlerLocks(h) \/ HandlerOpens(h) \/ HandlerFails(h) \/ HandlerAssigns(h)
    \/ HandlerClears(h) \/ HandlerCountsFlap(h) \/ HandlerTells(h) \/ HandlerEnds(h)

CallerSteps ==
    \/ StartOpens \/ StartFindsNoDevice \/ StartIsForbidden \/ StartRecords
    \/ StartFinishes \/ StartFails \/ StartUndoes \/ EndTearsDown

DeviceNext ==
    \/ StartReset \/ CallerSteps
    \/ \E how \in {"stopping", "discarding"} : EndBegins(how)
    \/ \E d \in Detectors : Notices(d) \/ Marks(d) \/ Spawn(d)
    \/ StreamFinishes \/ DevicesChange \/ CheckerLeaves
    \/ \E h \in Handlers : HandlerSteps(h)

\* A thread that can take a step takes it; nobody has to press a key, and no
\* device has to fail.
DeviceFairness ==
    /\ WF_deviceVars(CallerSteps)
    /\ \A d \in Detectors : WF_deviceVars(Marks(d)) /\ WF_deviceVars(Spawn(d))
    /\ \A h \in Handlers : WF_deviceVars(HandlerSteps(h))

DeviceSpec == DeviceInit /\ [][DeviceNext]_deviceVars /\ DeviceFairness

----------------------------------------------------------------------------
(* Properties.                                                               *)

\* As long as every detection is dealt with inside the recording it was made
\* in and before the next one, no stream is forgotten while it is open: it is
\* the one in the slot or the one a handler is about to put there, and between
\* two recordings the microphone is closed (_teardown_stream, restart_stream).
OpenStreamsAreHeld ==
    ~crossed => /\ opened \subseteq {stream} \cup {handler[h].new : h \in Handlers}
                /\ caller = "idle" => opened = {}

\* Under the same condition a loss noticed while recording does not stay
\* pending: the stream is reopened, a new attempt is due, or the user is told.
LossIsAnswered == []<>(lost => ~recording \/ told \/ crossed)

\* The single-flight handler always comes to its end, whatever the caller does
\* meanwhile: the stream lifecycle lock is never left held.
HandlersEnd == \A h \in Handlers : []<>~Active(h)

\* stop_recording says that the generation makes stale handlers bail out: a
\* handler never closes the stream of a recording later than its own.
StaleHandlerBailsOut ==
    [][\A h \in Handlers : HandlerTearsDown(h) /\ stream' # stream /\ recording => ~Stale(h)]_deviceVars

\* No stream is open between two recordings.
MicrophoneCloses == caller = "idle" => opened = {}

\* A recording is fed by one stream.
OneMicrophone == caller = "live" => Cardinality(opened) <= 1

\* A recording in progress has a health checker that has not been told to stop.
RecordingIsWatched == caller = "live" => checker /\ ~checkerStop

\* The detectors skip a pending loss because somebody is handling it.
LossIsHandled == lost /\ recording ~> ~lost \/ ~recording \/ told
=============================================================================
