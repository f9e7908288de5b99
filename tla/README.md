# Lausu (voice-typer): a formal model

This directory holds TLA+ models of the dictation core of Lausu (the repository's
name is `voice-typer`), the TLC configurations that model-check them, and theorems
about them checked by TLAPS. All paths below are relative to `src/`; `server/` stands
for `src/voice_typer/server/`.

Contents: [the system](#the-system) · [the modules](#the-modules) ·
[the runs](#the-runs) · [what holds in which environment](#what-holds-in-which-environment) ·
[where code and documents disagree](#where-code-and-documents-disagree) ·
[the proofs](#the-proofs) · [abstractions](#abstractions-and-what-is-left-out) ·
[plan](#plan) · [how to run](#how-to-run)

## The system

Lausu is a desktop dictation program: press a hotkey, speak, press it again, and the
text is pasted into the application in front. It is made of four programs:

- the **server** (Python, `voice_typer/server/`): hotkeys, microphone, dictation
  pipeline, history, clipboard, tray state, and a WebSocket for the user interface;
- the **ML worker** (Python, `voice_typer/worker/`): an optional process that holds the
  speech engine and answers transcription requests over a WebSocket;
- the **desktop shell** (Rust, `src-tauri/src/`): starts the server, restarts it when
  it dies, owns windows and tray;
- the **renderer** (React, `voice_typer/client/`).

The server is a program of many threads. A dictation alone involves the hotkey thread,
the audio callback and its workers, timer threads, one `DictationStart` thread per
recording, one `Transcription` thread per accepted stop, and the watchdog. They share a
handful of events, counters and references, partly under `_toggle_lock`, partly under
smaller locks, partly under none. That is where its difficulty lies, and where the
models begin.

### Inventory

| Component | Source (`server/` unless said) | State | Operations | Hard behaviour | What makes it correct |
|---|---|---|---|---|---|
| Recording lifecycle | `recording_lifecycle.py`, `recording_controller.py`, `app_dictation.py`, `_busyness.py` | `_toggle_lock`, busy event, cycle counter, thread references | toggle, start, stop, cancel, auto-stops, start worker | workers hold no lock; `recorder.recording` and the busy event are read at several moments; five callers of `set_idle` on four kinds of thread | busy iff a dictation is in flight; ESC gives back an idle state; one dictation after the other |
| Dictation pipeline | `dictation_pipeline/`, `dictation_stages.py` | per-run state, busy event, cancelled marks | wait for the engine, finalize or infer, text stages, guard, paste, clean-up | cancelled while running; recovered while running; every error path lowers the flag itself | no recording is pasted twice, a cancelled one not at all |
| Transcription watchdog | `transcription_watchdog.py` | thread reference, stop and reset events, firings, cancelled ids | arm, fire, reset, stop, force recovery | joins with time-outs, the reuse of a thread that is about to end, a recovery that races the recovered worker | a hung transcription does not block the program; a new dictation carries no old mark |
| Timer service | `timer_coordinator.py` | generation, list of timers | schedule, cancel all, guarded callback | a timer fires while it is cancelled or scheduled | nothing scheduled escapes a cancel |
| Recorder | `recording/` | recording event, buffer, stream, `_stop_generation`, worker threads | start, stop, discard, reconnect | device loss against stop, swap of the buffer | audio belongs to one recording and reaches one worker |
| Streaming sessions | `streaming_session_coordinator.py`, `streaming.py` | current session, finalize stash | start, publish, pop, cancel, finalize | published seconds after the check that allowed it | every session ends |
| Keyboard ownership | `keyboard_ownership.py`, `hotkey_dispatch.py` | owner | set, reset | two independent writers | a recording gives it back |
| Volume ducking | `volume_ducker*.py`, `duck_crash_recovery.py` | saved volume, generation, monitor thread, crash file | duck, restore, recover | ducked by one thread, restored by another | the volume comes back |
| Tray state | `tray*.py` | state, timers | set, delayed reset | timers of an earlier dictation | no dictation shown when none runs |
| Model manager | `model_manager/`, `prewarm/` | loaded engine, load thread, deferred change, queued start | load, unload, change, deferred start | change of engine during a dictation, joined loads | the engine in use is not unloaded |
| Engine registry | `asr/`, `asr_registry.py` | engines, busy marks, counts of failures | create, load, fall back, look up, mark, unregister | a lookup that waits for a load while it keeps the lock | a recording finds an engine |
| Engines | `parakeet_engine/`, `qwen_engine.py`, `cloud/` | weights, lock, inferences under way | load, transcribe, unload | hang, fail | not unloaded under an inference |
| Worker client | `worker_client.py`, `worker_pending.py`, `worker_session.py`, … | pending futures, outbound queue, generation | send, answer, expire, abort, reconnect | late, lost and early answers; half-queued requests | each request ends exactly once |
| ML worker | `voice_typer/worker/` | sample buffers, gate, abort marks | receive, infer, answer | a connection lost in a request | a text is of the whole audio |
| History | `history_db.py`, `history_db_internals/` | writer queue, futures, database | submit, batch, flush, shut down, recover | full queue, shutdown during submit, failing database | each write is acknowledged or refused |
| Crash recovery | `crash_recovery/` | entries, save queue and thread, file | add, flush, mark pasted, stop | crash between two steps | a flushed text is on the disk |
| Clipboard | `clipboard/`, `clipboard_target_safety/` | snapshot, pending restores | borrow, paste, delayed restore | the user copies in between | the user's clipboard is not lost |
| Hotkeys | `hotkeys/`, `native_hotkeys/`, … | bindings, helper process | dispatch, restart helper | helper dies, key stays down | one press, one toggle |
| Event bus | `event_bus*.py` | subscribers, queues | publish, subscribe, deliver | full queues, unsubscribe in delivery | order per subscriber |
| IPC | `ipc/`, `ipc_server.py`, `sidecar_ws*`, `handlers/` | connections, rate limits | request, reply, push, drain | shutdown with requests in flight | every request is answered |
| Startup and shutdown | `startup_sequence/`, `shutdown/`, `single_instance.py` | phases, thread registry | start, tear down in order | time budget, second signal | teardown ends and runs once |
| Downloads | `segmented_download*.py` | segments, state file | fetch, resume, verify | crash and resume | the file is complete when it says so |
| Server supervision | `src-tauri/src/sidecar/` | child handle, connection, flags, restart counter, respawn queue | spawn, connect, heartbeat, respawn, suspend, shut down | clean-ups of an old connection, back-off against shutdown | no orphaned server; the flag given back; the link comes back |
| Configuration, secrets, text processing, media ingestion, onboarding, plugins, screenshots, service, autostart, user interface | `config/`, `credential_store/`, `text_cleanup/`, `media_ingest/`, … | files | – | – | – |

### How the parts of a dictation interact

    hotkey / ESC / auto-stop timer ──(_toggle_lock)──> RecordingLifecycle
         toggle:  start ──> recorder.start, tray, keyboard, spawn DictationStart ──> volume, engine load, streaming session
                  stop  ──> set_busy, spawn Transcription
         cancel:  discard the recording, or mark the cycle and force a recovery
    Transcription ──> recorder.stop ──> pipeline: arm watchdog, take session, infer, guard, paste
                  ──> finally: stop watchdog, drop session, set_idle, forget the thread
    watchdog ──(time-out)──> force_recover: mark, stop watchdog, drop session, unload engine, set_idle

    PortAudio callback ──(ring)──> audio worker ──(buffer)──> recorder.stop
    device lost ──> detector ──> handler thread: close, wait, reopen the stream
    infer ──> registry ──> in-process engine, or worker client ──(queue, WebSocket)──> ML worker
    paste ──> history queue ──> writer thread;  recovery file: add, flush ──> paste ──> mark
          ──> clipboard: snapshot, text, keystroke ──> delayed restore
    desktop shell ──(WebSocket, heartbeat)──> server;  dead or silent ──> respawn

Neither kind of dictation worker holds `_toggle_lock`; the watchdog cannot kill the
worker it gives up on, it only marks its cycle and lowers the flag. So a worker of an
abandoned dictation goes on, next to the workers of the following ones.

## The modules

| Module | Models | Uses |
|---|---|---|
| `TimerCoordinator` | `server/timer_coordinator.py` | – |
| `DictationContract` | what a user is promised of dictations (abstract specification) | – |
| `DictationLifecycle` | `recording_lifecycle.py`, `recording_controller.py`, `dictation_pipeline/`, `dictation_stages.py`, `transcription_watchdog.py`, and the recorder as they see it | instantiates `DictationContract` |
| `DictationResources` | the lifecycle together with streaming sessions, volume, keyboard owner and tray | extends `DictationLifecycle` |
| `RecorderDevice` | the microphone stream, the detection of its loss, the reopening (`recording/`) | – |
| `RecorderCapture` | the audio from the callback to the array `stop()` returns (`recording/`) | – |
| `EngineManager` | `model_manager/`, `asr/`, the locks of the in-process engines, and a dictation's visits to them | – |
| `RequestContract` | what a caller of the worker client is promised (abstract specification) | – |
| `WorkerChannel` | `worker_client.py`, `worker_session.py`, `voice_typer/worker/` | instantiates `RequestContract` |
| `SidecarSupervisor` | the shell's supervision of the server, `src-tauri/src/sidecar/` | – |
| `VolumeDucker` | `volume_ducker*.py`, `duck_crash_recovery.py` | – |
| `TranscriptStore` | `crash_recovery/` | – |
| `ClipboardLoan` | `clipboard/` | – |
| `HistoryWriter` | the write queue of `history_db_internals/` | – |
| `MC…` | the instances for TLC | the modules they instantiate |
| `…_proofs` | theorems and proofs; `Recorder_proofs` and `Stores_proofs` are about two and four modules | the modules they are about |

Each module is a specification of its own: they meet at the calls in the diagram above,
which the lifecycle models by what they do to it (`recording`, `buf`, `ducked`, …).

### TimerCoordinator

Each timer is a thread with a stage. `Schedule` is `_schedule_timer` (generation and list
entry under the lock; zero-delay timers are not listed, as in the code), `Expire`,
`Recheck`, … are the steps of `guarded_func`, `CancelPending` is `_cancel_pending_timers`
(the bump of the generation and the swap of the list are one critical section) and
`BeginShutdown` sets the flag the callback looks at. `generation`, `pending` and each
timer's own `gen` are the fields of the code. The property
`NoStaleCallback` is what the class's docstring promises; the code does not keep it (below).

### DictationLifecycle

| Variables | Code |
|---|---|
| `lock` | `_toggle_lock`, and where in its section the holder is |
| `busy` | `not _busy_event.is_set()` |
| `cycle`, `cancelledIds` | `_cycle_counter`/`_cycle_id`, `_cancelled_cycle_ids` |
| `auto` | a stop scheduled with zero delay by the capture, through TimerCoordinator: *scheduled* can be cancelled, *committed* cannot |
| `recording`, `recordings`, `buf` | `recorder._recording_event`, the number of recordings, whose audio the capture buffer holds |
| `spc[r]` | the `DictationStart` thread of recording r |
| `tpc[w]`, `wcycle[w]`, `waudio[w]` | the `Transcription` threads: place, captured cycle id, audio |
| `handle` | `_transcription_thread` |
| `pasted` | ghost: the workers whose text was delivered |
| `wdThread`, `wdStop`, `wdEvent`, `firings`, `rpc`, `wjoin`, `rjoin` | the watchdog's fields, its threads, and who is joining which |

The entries (`StartOpens`, `StartCommits`, `ToggleStops`, `ReleaseStops`, `AutoStop…`,
`CancelBegins`, `CancelDiscards`, `CancelFinishes`, `CancelTranscription`, …) run under
the lock. An entry that another thread can observe half-way is split: a start between
`recorder.start()` and the spawn of its worker, a cancel between its two looks at
`recorder.recording` and again before `set_idle`. `Worker…` are the steps of a
Transcription thread, `Watchdog…` of the watchdog's loop, and `Recover…` of
`force_recover`, which the watchdog runs and `cancel()` runs too (recoverer `Esc`).
A clean-up (`finally`) is a chain of steps that every path goes through: signal the
watchdog, join it, drop the session, `set_idle`, forget the thread.

Switches say what the environment may do: `LoadMayFail`, `EngineMayFail`, `SlowJoin`,
`Timeouts`, `EscEnabled`, `AutoStops`, `QueuedStarts`. They are constants, so that a
property that needs an assumption about the environment names it.

### DictationContract and the refinement

`DictationContract` has three phases (idle, recording, transcribing), a number for the
newest recording and the set of those delivered: recordings come one at a time, each is
dropped or handed to one transcription, and delivered at most once, before the next
begins. The lifecycle maps to it by: *transcribing* if a Transcription worker is in
flight, else *recording* if the recorder records, else *idle*; delivered are the
recordings of the workers that pasted. `KeepsContract` is the abstract specification
under this mapping.

### DictationResources

Every action is an action of the lifecycle conjoined with what the same code does to the
session references, the set of sessions not told to end (`live`), the keyboard owner,
the lowered volume, the tray and its pending reset (`repaint`), or a step that touches
only these (`DucksVolume`, `StartsStream`, `PublishesStream`, `CaptureHotkey`,
`Repaint`, the permission check of the toggle). Theorem `ResourcesRefine` shows that it
implements the lifecycle.

### RecorderDevice and RecorderCapture

`RecorderDevice`: one caller (the toggle lock serialises it) starts and ends recordings
(`StartReset` … `StartFinishes`, the failing paths, `EndBegins`, `EndTearsDown`); five
detectors (silence of zeros, health checker, permission, PortAudio's finished callback,
hot-plug) notice a loss in two steps, mark and spawn, since the check of
`_single_flight_running` and the capture of the generation lie apart; a handler
(`Handler…`) checks the generation, gives up or retries, tears down, takes
`_stream_lifecycle_lock`, opens, assigns, clears the flag, counts the flap and tells.
`gen`, `stream`, `lost`, `retries`, `flaps` and `lockedBy` are the fields of the code;
`opened` is what PortAudio has open. `crossed` is history: a detection met a running
handler, or the start or end of a recording. The properties are claimed while it has not,
because past that the code loses streams (below).

`RecorderCapture`: `AudioCallback` pushes numbered chunks into the pre-roll or the ring,
each session's worker (`PrependPreroll`, `TakeChunk`, `ProcessChunk`, `RingEmpty`) moves
them to the buffer, and the caller's steps order start, signal, join, teardown and
`TakeBuffer`. A worker that outlives its join is left behind with its own stop event;
`stalled` records that.

### EngineManager

An engine object is a backend and a serial. The threads are the hotkey, the loader of
`ModelManager`, one start worker and one transcription per dictation, the changes
requested by the settings page and the idle-unload thread; `at` is where each is,
`held` and `name` its locals. `registry`, `marked`, `failures`, `recency`, `armed`,
`deferred`, `pending` and the two locks are fields of the code, `loading` and `waiting`
who holds an engine's lock, and who keeps the registry's while waiting for one. Actions:
`Ensures` … `Concludes` (a load, with fallback, breaker, eviction and success ritual),
`Requests…`, `Enters`, `UnloadsOld`, … (a change, at once or deferred), `Hotkey…`,
`Starter…`, `Transcriber…`, `Idler…`, `Recovers` (the forced unload). What may go wrong in
one behaviour is its *environment* (`env`), chosen in the initial state.

### WorkerChannel and RequestContract

Requesters of two kinds (a dictation's `WorkerBackedAsr`, a window of the media loop)
queue the frames of a request one by one (`Begin`, `PutChunk`, `PutFull`), register a
Future (`Register`), wait, time out and send an abort. The session thread of each
generation registers its wake, drains the queue into its connection, waits, retries or
ends; `SetPort`, `Close`, `CloseStops` change the generation; `AbortAll` and `AbortOne`
abort what is outstanding. `ReceiveChunk`, `ReceiveAbort`, `FinishInference` are the
worker's end; an abort reaches whatever inference is running (`Shortened`). `RequestContract` says that a request is refused, and then never answered,
or ends; that it is answered at most once; and that every request ends.

### SidecarSupervisor

Cold start and respawn are two actors that go through spawn, check, install, connect,
authenticate and success or the next attempt. Reader, writer and heartbeat of a
connection ask for a respawn through a queue of which `SupervisorDequeues` is the one
reader; the user and a resume ask directly. `SystemSuspends`, `SuspendKills`, … are the
power events, `LeaveBegins` … the teardown. `child`, `tx`, `current`, `inProgress`,
`counter`, `exitOf` are fields of the state, `process` the servers that exist.

### VolumeDucker, TranscriptStore, ClipboardLoan, HistoryWriter

`VolumeDucker`: the start worker's `duck` (initialise and repair, save, fade in two
steps, settle, recheck), the smart-duck monitor, `restore` by the start worker or by
whoever ends the dictation, the crash file, a crash, the user's own changes. Each step
that reads or writes the volume or the file has its failures (`…Fails`, `…Raises`,
`DuckReadsNothing`, `MonitorTriesAgain`, the parameters `fails`, `blind`, `sets`,
`clears`), as the return values and the `except` clauses of the code distinguish them;
`damage` is ghost and says what they have done.

`TranscriptStore`: the list of entries, the file, the save queue with its put-drop-put,
the saver thread, a dictation's add, flush, paste and mark, and the quit with its
sentinel, its join and its two last saves. `holder` and `image` are `_save_lock` and the
copy being written.

`ClipboardLoan`: `Copies` (snapshot and text), `Registers` (the list with its limit),
`Sends`, the delayed thread's `Claims`, `Compares`, `Restores`, and the exit handler. Each
access of the clipboard may fail, and a write may leave it empty (`Fills`).

`HistoryWriter`: savers that go on, askers that wait for a Future with a deadline, the
closer; a full queue drops its oldest item, and puts the sentinel back when that was it;
the writer thread collects a batch, puts back what does not belong to it, inserts, runs
closures and drains after the sentinel; the database may fail.

Three of them have a constant of *races* (`VolumeRaces`, `LoanRaces`, `ExitRaces`): the
timing assumptions without which the property fails, each of which the environment may
be allowed to break. They are listed [below](#what-holds-in-which-environment).

## The runs

TLC evaluates twelve runs. Where several components are small, one run checks them
together: its MC module has a variable `part` which an initial state sets to one of the
components, and each behaviour is one of that component while the variables of the others
keep their initial values. The states are the sum of the components' states, not their
product, and nothing of one component is hidden from another: they share no variable.

| Run | Shows | Bounds and environment | Distinct states |
|---|---|---|---|
| `life_calm` | busy flag exact, audio in one place, no double paste, contract implemented | 3 recordings, 3 workers, 3 cycles; failed loads, slow joins, auto-stops | 1,262,332 |
| `life_recovery` | types; the flag is up only with a worker; ESC leaves it down; an entry gives the lock back although `cancel()` joins the watchdog under it; new dictations unmarked | 2/2/2; ESC, failing engines | 423,466 |
| `life_timeouts` | a hung dictation is given up: `busy ~> ~busy` | 2/2/2, 2 firings; the engine may hang; one queued start, the last of a behaviour (`QueuedStartIsLast`) | 397,422 |
| `resources` | the volume comes back; keyboard and tray in a steady environment | 2 recordings, 2 workers, 2 cycles (ESC: 1 cycle); four environments: queued starts, failing engines, failed loads, ESC with failed loads | 1,070,458 |
| `services` | no timer escapes a cancel, and a current one runs its callback; open streams are held and a loss is answered; the buffer is the recording | 3 timers (one with no delay), 2 cancels; 2 handlers, one retry, 2 flaps, {1 start, 3 detections} or {2 starts, 1 detection}; 2 sessions, 4 chunks, ring of 2, pre-roll of 1, a look at the stop event every 2 chunks | 247,811 |
| `connections` | a text is of the whole audio, or was cut by an abort; requests keep their contract; no orphaned server, the flag is given back, the link comes back | 2 requests (3 frames and 1), queue of 2, 2 generations, close at any time; 2 attempts, 2 relaunches, queue of 2, 5 server numbers, and two faults, a fault and a suspend, a fault and an exit, or a restart | 278,223 |
| `stores` | volume, recovery file, clipboard and history | 2 dictations, a crash, a step in which backend or crash file fails (`Faults`); 2 texts (one of a cancelled cycle), file of 2, queue of 2, a crash or failed write; 3 pastes, 2 pending, any access of the clipboard may fail; 2 savers, a clear, queue and batch of 2, a fault of the database | 911,806 |
| `engines` | an inference keeps its engine, a recording finds one, callers return | 2 backends, 3 objects each, breaker at 1; seven environments (`MCEngineManager`): 2 dictations and 2 changes in calm, with room for both engines or for one; the same with backends asked for amid a dictation; 1 and 1 with failing loads and the idle time (both installed, or one), 1 and 3 with a hanging inference, 1 and 1 with a change that overtakes a start | 324,408 |
| `life_late_paste`, `res_failed_load`, `engine_idle`, `supervisor_cleanup` | a violation each, see below | the smallest environment that has it | – |

Bounds disable the entry that would exceed them, so every run ends: deadlock is not
checked, since a bounded system stops, and so does the real one when the user goes away.

Why the bounds are enough for what they are used for:

- *Lifecycle, resources.* The races are between a dictation and its successor, so two
  recordings and two workers meet in every pair of positions; `life_calm` has a third to
  let the second be both successor and predecessor. Two firings are what it takes to tell
  the first time-out (the worker is left alone if it is alive) from the last (forced).
  The cycle bound lets toggles be spent on stops as well as on starts; pushes-to-talk and
  auto-stops take no new id. In `life_timeouts` nothing starts after a queued start, which
  leaves its meeting with a hung dictation.
- *Recorder.* A second recording meets the handlers and workers of the first; with three
  detections a retry and a flap reach their limits; a ring of two overflows and still
  holds a chunk at a stop.
- *Engines.* Two backends are a configured one and the fallback every other has. A third
  object of a backend is one that a thread still refers to after a replacement.
- *Worker.* Three frames over a queue of two: a request meets a full queue and a connection
  lost between its frames. The second request is of the other kind of caller.
- *Supervisor.* `NumbersSuffice`, in the run's type invariant, says that no spawn is ever
  held up by the bound on numbers. The real queue has 8 places: with two the drop of a
  request for a full queue happens.
- *Stores.* Queues of two fill and drop; the list of pending restores fills only when
  pastes overlap, which `LoanRaces` excludes in this run. One fault of the volume is
  enough to lose a level for good, and leaves a crash and a second dictation to meet it;
  the properties hold with two as well (TLC takes four minutes then).

What the bounds leave out is covered by the proofs for the properties listed there, and
only there.

Fairness: a thread that can take its next step takes it. That is what the operating
system's scheduler gives each of the threads named in a module's fairness formula (the
entries under way, start workers, the prompt steps of a Transcription worker, the
watchdog's loop, recoveries, timers; the recorder's caller, detectors, handlers and
workers; loads, changes and lookups of engines; requesters, session threads and the
worker's gate; actors and tasks of the supervisor; the history's callers and writer).
Waits with a time-out in the code end by it. Nothing is assumed of the user, of clocks
that start something, of devices, of power events, of faults, or of an engine's
inference: in the lifecycle `Infers` has no fairness and `BusyEnds` is about a hung engine;
in `EngineManager` an inference ends unless the environment has hangs; in `WorkerChannel` a
request's own timer expires it. A sum run states the same fairness for the behaviours of
each component.

## What holds in which environment

### Dictations

The busy flag decides whether dictations can overlap. In a *calm* environment (no ESC,
no time-outs, no failing engine, no queued start) they cannot, whatever fails to load,
however slow a join is and whenever an auto-stop comes. In others they can, and then
the properties that presuppose one dictation at a time go with it. Each column but the
first is the calm environment with that one thing added:

| Property | Calm | ESC | Time-outs | Failing engine | Queued starts |
|---|---|---|---|---|---|
| `BusyHasWorker` | proved | proved | proved | proved | proved |
| `EscLeavesIdle` | – | proved | – | – | – |
| `NewDictationUnmarked` | – | proved | fails (3) | – | – |
| `NotBusyMeansDone` | proved | fails | fails | fails | proved |
| `OneCycleAtATime` | proved (in `SteadyInv`) | fails | fails | fails | proved |
| `AudioInOnePlace`, `PasteOnce` | proved | fails | fails (3) | fails (3) | fails |
| `KeepsContract` | proved | fails | fails | fails | fails |
| `NoLatePaste` | – | fails | fails | – | – |
| `BusyIsWatched` (safety half of `BusyEnds`) | proved | proved | proved | proved | proved |
| `BusyEnds` | – | – | checked | – | – |
| `NoCircularJoin` (safety half of `EntriesReturn`) | proved | proved | proved | proved | proved |
| `EntriesReturn` | checked | checked | checked | checked | checked |
| `VolumeComesBack` | proved | proved | proved | proved | proved |
| `KeyboardComesBack`, `TrayComesBack` | proved (no failed load) | fails | not claimed | fails (3) | proved (no failed load) |

*Proved* is by TLAPS for all bounds; *checked* means that TLC finds no violation at two
recordings, two workers and two cycles, in the runs listed or with that switch set in
their configurations; *fails* that it has a counterexample, *(3)* that this takes three
dictations; *not claimed* that we do not say; a dash that nothing in that environment
could break the property (no mark is ever set, no watchdog fires). The proofs of the
first two rows hold in every combination, that of `NewDictationUnmarked` in every one
without time-outs and queued starts: with ESC, a start that was queued may carry an old
mark. `BusyEnds` is about time-outs: where no watchdog fires, nothing is said of an
engine that never answers. It and `BusyIsWatched` need joins that return in time.

### The other components

| Property | Holds when | Otherwise |
|---|---|---|
| `OpenStreamsAreHeld`, `LossIsAnswered` | no detection met a running handler or an end (`~crossed`) | a stale handler may leave a stream open, or swallow a loss |
| `HandlersEnd`, the lock of the streams | always | – |
| `BufferIsTheRecording` | order and no repetition: always; only the recording's own audio: no join has timed out (`~stalled`) | a worker left behind may append to the next recording |
| `NoOrphans`, `InferenceKeepsEngine`, `CurrentCallbackRuns` | always | – |
| `AnswerIsWhole` | the inference was not cut short by an abort (`cut`) | the abort token is the process's: an abort of another request, over another connection too, ends the segment loop of whatever runs, and the part is sent as that request's text (below) |
| `ExitLeavesNone` | the cold start did not install a server after the shutdown began (`lateInstall`) | that server outlives the host's teardown |
| `LinkIsTended`, `SupervisorLinkComesBack` | no heartbeat comes to its last miss while the host is suspended | its request is turned away, and the resume finds a sender and does nothing (below) |
| `AudioFindsEngine` | no trouble of the environment: no failing load, no lock waited for in vain, no change that overtakes a start, no backend asked for amid a dictation | a load may simply have failed; after a backend was put off the engine that serves is no longer the one that is marked (below) |
| `VolumeIsBack` | a fade is over before the next actor: before a restore ends (`duck`, `monitor`), before the user touches the volume (`user`), before the next dictation (`overlap`); and no restore, repair or monitor has failed since the last restore that came through or the last start (`damage`) | each of the four races alone leaves a wrong volume, against `docs/ARCHITECTURE.md:37`; a restore that fails leaves it low and forgets it, and the next duck takes it for the user's (below) |
| `LoweredIsRecorded` | likewise, but also after such a failure, until a section goes by the wrong level; the file could be written | a save that failed three times is ignored, and the volume lowered all the same |
| `FlushedIsOnDisk` | no write failed and the save queue has lost nothing | a full queue of 32 drops a save nobody has made, and `flush` says True after a failed write |
| `QuietIsSaved` | likewise, and the exit handlers meet no save (`ExitRaces`) | a pasted mark may stay in memory |
| `LoansAreReturned` | a loan is returned before the next paste (`overlap`), the user does not copy in it (`user`), no paste is under way at exit (`exit`); and no access of the clipboard a loan depends on has failed since the user's last copy (`mishap`) | each race alone leaves a foreign text on the clipboard; after a read that failed the thread leaves the text there, and the exit handler puts the snapshot over a later copy (below) |
| `AcceptedIsSettled` | the writer thread lives, and the put came before it left | a failed batch insert kills the thread; a put after the check of `close` waits for nobody |

## Where code and documents disagree

| Run | What happens |
|---|---|
| `life_late_paste` | The cancellation guard tests the mark and then pastes; ESC, or the watchdog, marks the cycle in between, logs that it will not be pasted, and it is. |
| `res_failed_load` | `Recorder.recording` has no setter; both failure paths of a load assign to it, and the `AttributeError` leaves tray, notification and volume as they were. |
| `engine_idle` | The start worker of a dictation disarms the idle-unload deadline, reloads the engine, and the ritual of a successful load arms it again: a long recording loses its engine. |
| `supervisor_cleanup` | A reconnect stores its sender and then bumps the generation. The clean-up of the old connection in between finds its generation current and clears the new sender. |

`PROJECT.json` quotes the sentence each of them contradicts. The modules state more
properties the documents promise and the code does not keep; adding one to the
configuration of its component (`PROPERTY` or `INVARIANT`) gives the counterexample:

| Property | What happens |
|---|---|
| `EscCancels` | After an accepted stop the recorder is still recording. `cancel()` takes the branch for recordings, the worker takes the audio, `cancel()` finds nothing to discard and marks no cycle: the text is pasted (`server/recording_lifecycle.py:1095`). |
| `OneCycleAtATime` (engine fails) | Empty-result and clipboard-error paths lower the flag before the clean-up (`transcribe_step.py:484`, `paste_step.py:97`); the next dictation is accepted while this one is in flight, and its flag is then lowered by the clean-up. |
| `SessionsEnd` (calm) | A streaming session is started and published after its recording has been stopped and cleaned up; nothing ends it (`streaming_session_coordinator.py:132`). |
| `EscReaches` | The clean-up of a worker clears `_transcription_thread`, which may name the next one by then (`dictation_pipeline/orchestrator.py:337`): `cancel()` does nothing. |
| `BusyEnds` with `SlowJoin`, `MaxCycle = 3` | A watchdog that was told to stop, outlived its join, and has not ended is reused with its stop event set (`transcription_watchdog.py:216`); it ends, and a hung transcription stays busy for ever. |
| `NoStaleCallback` | `guarded_func` releases the lock before it calls the callback: one scheduled before a cancel starts after it (`timer_coordinator.py:69-72`). The lifecycle has it: `AutoStopCleared`. |
| `StaleHandlerBailsOut`, `MicrophoneCloses`, `OneMicrophone`, `LossIsHandled` | Once a detection crosses an end: a stale handler tears down the next recording's stream, a stream stays open, two are open, or a loss is skipped as handled already when nobody handles it (`recording/disconnect_handler.py:196-197`). |
| `RecordingIsWatched` | The health checker of the last recording is found alive and kept, and then stops as it was told to (`device_health.py:52-55`). |
| `NothingInFlightIsLost` | While it drains the ring the worker looks at its stop event every so many chunks, and leaves with chunks still in the ring (`capture_audio_worker.py:111-113`); its docstring says that the ring is drained fully (`50-55`). |
| `NoGaps` | The recording event is set (`recording_start.py:233`) before the worker's start clears the ring (`capture_audio_worker.py:170-175`): what was said in between goes, the pre-roll before it stays. |
| `MediaCancelsItsOwn` | A media window that gives up cancels the newest request, which may be a dictation's (`media_ingest/engine_loop.py:100-106`). |
| `AbortSparesOthers` | `abort_request` sets the one token of the engine (`worker/_ws_commands.py:165-167`). What the process is inferring then breaks off (`server/transcription_result.py:200-208`), and if it is another request it answers with the text of a part, unmarked. The docstring at `worker/_transcribe.py:246-247` says that "one abort cannot poison later work": only an inference that begins after it is safe. |
| `RefusedSendsNothing` | The frames before the one that did not fit are sent (`worker_client.py:278-281`). |
| `LiveSessionIsRegistered` | A superseded session that authenticates late registers its wake over its successor's (`worker_session.py:97-101`): a request waits out the heartbeat, which the comment at `107-110` means to rule out. |
| `LinkComesBack`, two faults and a suspend | A respawn that passed the gate before a suspend connects a new server during it; the server hangs, its heartbeat gives up, and the request is turned away because the host is suspended (`sidecar/supervisor.rs:222-226`: the "resume path owns recovery"). The heartbeat is over, and the resume finds `ws_tx` in place and does nothing (`:195-198`). Nobody looks at that link again. |
| `RequestsKillNoHealthy` | A request queued before a respawn is served after it, and kills the server it brought up (`sidecar/ws/respawn_scheduler.rs:2`, `:23`). |
| `GracefulMeansEnded` | The exit takes the report of an earlier server for that of its own, and skips the kill. |
| `SuspendedSpawnsNone` | A respawn past its check spawns after the suspend (`src-tauri/src/platform/power.rs:24-26`). |
| `WritesKeepOrder`, `DroppedNeverRuns`, `SentinelArrives` | What the writer puts back goes behind later writes; a closure whose caller was told that it was dropped runs; a put-back meets a full queue and the sentinel is lost. |
| `FileNamesTheUsers` | A restore whose fade reports failure leaves the volume low and forgets the saved one (`volume_ducker.py:361-371`), or the repair of a start fails (`:145`). The next duck saves the low level as the one before the duck, and overwrites the file that still named the user's (`:171-196`). |
| `MarksItsOwn` | With an overlapping cancelled cycle, its entry is the newest and is marked as pasted (`crash_recovery/_store.py:107`). |

Seen on the way, without a property: `get_active` keeps the registry's lock while it
waits for a load, so that a hotkey waits too, though `recording_lifecycle.py:217-221`
says that a recording starts at once; a load that returns False counts as a success;
a deferred change of the model unloads the new backend; a backend the breaker has disabled never returns; the
recency list touches the configured backend and not the fallback that served; an unload
waits for a hung inference without a time-out; `finished_callback`'s condition at
`disconnect_handler.py:202` is inverted; the offline queue of the worker client is never
drained (`ipc/lifecycle.py:403-405` says that it is); the fast shutdown clears the crash
file of the volume even if the restore timed out (`shutdown/cleanup.py:160-173`); a
clipboard that cannot be read counts as changed for the thread that returns a loan
(`clipboard/restore.py:86-89`) and as unchanged for the exit handler (`:26-31`), which
so puts the snapshot over what the user copied; a copy that fails without a snapshot
leaves an emptied clipboard on Windows (`clipboard/manager/_copy.py:33`, `:90-96`).

Two of them came out of proof attempts. `SupervisorLinkComesBack` holds of the budgets of
`connections` (two faults, a fault and a suspend, ...), and its safety half would not
become inductive: with two faults *and* a suspend TLC finds the forgotten link of the
table above. Without a heartbeat that gives up in a suspension the half is proved, for any
budgets.

`AudioFindsEngine` was first claimed of every
environment in which nothing fails, and TLC found it true of the runs' two dictations
with room for two engines. The invariant would not close: a *backend* asked for amid a
dictation is put off, but `set_active_backend` has configured it by then
(`model_manager/_change.py:442-463`), so `apply_pending_model_change` compares it with
itself and returns (`:297`, `:360-362`). The new engine is not created and the old one not
unloaded; it serves as the fallback while `busy_context` marks the configured backend.
With `models = 1` and two dictations, or `models = 2` and three, TLC finds the
transcription that is lost: the next load evicts the engine that serves, for its backend
is not marked, or a later switch finds an engine that is registered and not loaded. That
is now the trouble `"midway"`, and without it the property is proved.

## The proofs

Everything in this section holds for all values of the constants that the modules'
named assumptions allow (positive bounds and sizes, switches that are Booleans, disjoint
kinds of callers) and under the hypotheses named with a theorem. Every obligation is
proved by SMT, Zenon or LS4; the induction is always the same: an invariant that every
initial state satisfies and every action preserves, one step per action.

**TimerCoordinator_proofs.** `NothingEscapes`, `OnlyCurrentCleared` and
`OnlyStaleIsSuppressed` follow from one inductive invariant: the types,
`NothingEscapesCancel` itself, that a timer some canceller has taken from the list has an
old generation, that an unscheduled timer is in no list, and that a timer that ended
without its callback has an old generation too, unless the shutdown began.

**DictationLifecycle_proofs.**

- `TypeCorrect`: by entry, worker step, watchdog step and recovery step.
- `NeverStuckBusy` (`BusyHasWorker`, every environment). A worker leaves the in-flight
  places in one of three ways: it lowers the flag in the same step, or earlier on its own
  path, or it goes through `idle`, which lowers it. The flag rises only in `StopWith`,
  together with a worker.
- `EscReturnsIdle` (`EscLeavesIdle`, every environment). The step that frees the lock from
  a cancelled recording lowers the flag itself. For a cancelled transcription, the flag
  is low from `release` to the end of the recovery, because a stop, the only thing to
  raise it, needs the lock: that is the invariant `EscHolds`.
- `RecoveriesDoNotWaitInACircle` (`NoCircularJoin`, every environment), the safety half of
  `EntriesReturn`: a forced recovery joins the registered watchdog, `cancel()` with
  `_toggle_lock` held, and a watchdog that recovers may join its successor. The invariant
  adds that the registered thread joins nobody (`RegisteredIsFree`).
- `HungEngineIsWatched` (`BusyIsWatched`, when joins return in time), the safety half of
  `BusyEnds`: who holds the busy flag up finishes by itself, is being recovered from, or has
  a watchdog that nobody has told to stop.
- `FreshIsUnmarked` (`NewDictationUnmarked`, without time-outs and queued starts). A
  release or an auto-stop takes no new id, so it matters that the current one is not
  marked while a recording runs: `FreshMarks` says so, with the marks all at or below the
  current id and no forced recovery of `cancel()` under way during a recording.
  `QuietWatchdogs` says that without time-outs no watchdog recovers, and so marks.
- `SteadyIsDone` (`NotBusyMeansDone`, in *steady* environments: no ESC, time-outs or
  failing engine; starts may be queued). `SteadyInv`: at most one worker is in flight, the
  flag is up when one is, no watchdog recovers, and only a start holds the lock. The first
  is needed because `NotBusyMeansDone` alone says nothing of a second worker, whose end
  would lower the first one's flag.
- `CalmAudioInOnePlace`, `CalmPasteOnce`, `CalmKeepsContract` (calm environments: steady,
  without queued starts). `AudioInv` adds where the audio may be at each place of a worker:
  the buffer and a worker before its paste hold the newest recording or none, nobody
  holds one still to come, and nothing records between a worker's stop and its export.
  The refinement maps every step to a step of the contract or to a stutter
  (`ContractStep`).

**DictationResources_proofs.** `ResourcesRefine`: `ResourcesSpec => Spec`, by mapping each
action to the lifecycle action it contains. So every safety theorem above holds of the
larger system; `ResourcesNeverStuckBusy` states one. `ResourcesTypeCorrect` proves the
types. `VolumeGoesBack` (every environment): `VolumeFollows` says which thread still has
to restore the volume at each moment it is lowered, a recording, a start worker that
looks again after its duck, a worker or a recovery. `KeyboardGoesBack` and
`TrayGoesBack` (steady, no failing load): `FacesFollow` says the same of owner and tray,
on top of `SteadyInv`. `QueuedKeyboardGoesBack` and `QueuedTrayGoesBack` carry them over to
`PartsSpec`, the specification `resources` checks: a behaviour stays in the environment it
began in, and in that of queued starts it is one of `ResourcesSpec`.

**Recorder_proofs.** Device side: `DeviceIInv` is the types, `RecordingFollows`,
`LockFollows` and, while nothing has crossed, that what is marked and what is handled has
the present generation (`Current`), that there is one handler, which reopens within a
recording only (`Alone`), and where the open streams are (`Placed`). It gives
`LockIsTheHandlers` (always) and `DeviceHoldsItsStreams`. Capture side: `CaptureIInv` says
who has a chunk in hand, that sessions come in turn, that all chunks were captured before
now, that a chunk is in one place, that ring, hand, pre-roll and buffer together are in
the order of capture and, while no join has timed out, that one worker runs. It gives
`BufferHoldsTheRecording`. `OneWorkerListens` (always) is the safety half of
`StaleWorkerEnds`: of the threads that consume the ring exactly one has not been told to
end while a recording runs, its own, and none between recordings. `ServicesTypeCorrect`
is about the run of `services`, whose behaviours are each one of the three components.

**EngineManager_proofs.** `InferencesKeepTheirEngine` for any backends, requests and
environments. Besides the types the invariant needs that an engine is registered under
its own backend (`RegistryKeyed`), which threads can be where (`Places`), that whoever
loads has a backend and an engine at hand (`NameKnown`, `HeldKnown`), and that the recency
list has a backend once (`TouchedOnce`), which bounds its length.

`AudioAlwaysFindsItsEngine` (no trouble) has an invariant of its own, `Calm`. Its parts:
which places are reached when nothing fails (`CalmPlaces`); that hotkey, recording and
transcription take turns (`PhaseTurns`) and a change is alone but for a transcription
while it is yet to begin (`ChangeTurns`); which registered engine may be without its model
at each place of a change (`ChangesKeep`) and of the loader (`LoaderKeeps`); that when both
are at rest every registered engine serves, or nothing was begun yet (`SettledServes`);
and that who is past the wait for the loader finds what it left (`UsersFind`). The last is
why the look of a transcription must be followed by the wait for a live loader: without it
(`TranscriberOverlooks`) a cold first dictation is lost.

`NobodyWaitsInACircle` and `SomebodyAlwaysGoesOn` (every environment) are the safety half
of `CallersReturn`: the engine side has no deadlock. `WaitsFor(t, u)` lists what `t` may
be held up by, guard for guard: a look keeps the registry's lock while the engine it asks
is loading, an eviction that of the access times while its engine is busy, a start worker
`_lazy_init_lock` through a whole load, a change its two locks through an unload.
`LocksKept` says that whoever holds one of these is in the section that gives it back, and
`Rank` orders the places so that one always waits for a lower rank: loads and inferences,
then the thread that keeps the registry's lock, then the unloads and what asks only the
registry, then what waits for the access times, then what waits for the other locks or
for the loader. (TLC agreed on the instance of `engines`, for sets of threads at work;
that is too slow for a standing run.) `SomebodyAlwaysGoesOn` shows that `WaitsFor` misses no
guard: who is held back waits for some thread, and for one that is not held back itself.

**WorkerChannel_proofs.** `AnswersAreWhole`: the worker infers and answers whole requests,
or what an abort has cut short (`OnlyWhole`), because a connection's buffer dies with it. `ContractIsKept`:
`WorkerSpec => Contract!Safety`; each step is a step of `RequestContract` or a stutter.
It rests on `FuturesFollow`, that a future is pending just as long as its id is mapped
(also `SettledFuturesAreUnmapped`), and on `Progress` of the requesters.

**SidecarSupervisor_proofs.** `NothingOrphaned`, `ExitIsClean` and `FlagIsTheRespawns`.
`RespawnHasFlag`, that the flag is up just while a respawn is under way, is what lets a
server be in the hands of one respawn only; `CounterLeads` bounds the relaunches, and
`TeardownEmpties` says what an exit leaves in the slot. `TenNumbersSuffice`: a server, a
receiver, the sender, the generation, the actors and the tasks of ended connections name
ten servers at a time at most (`FewEnds`), so with more than ten numbers a spawn is never
held up by them. `ConnectionsTypeCorrect` needs that for the type invariant of
`connections`, in which `NumbersSuffice` is a part; that the run's own five suffice for
its budgets is TLC's finding.

`LinkIsNeverForgotten` is the safety half of `SupervisorLinkComesBack`, for any budgets:
`LinkIsTended` holds as long as no heartbeat gives up during a suspension
(`HeartbeatsWaitOutSuspensions`, without which it fails, see above). A *deserted* host has
no actor under way and no heartbeat. It got there by a suspend, by a respawn that ended
during one, or by a heartbeat that gave up and asked. The invariant follows each
(`TendedInv`): a sender has the writer of the newest connection or one about to be it
(`SenderHasWriter`), so that whatever clears the sender wakes a task that asks; while the
host is suspended the sender is gone or the suspend's task is yet to take it
(`DesertedWell`, `ResetIsWatched`), so that the resume asks or that task's end does; and
what waits in the queue was not overtaken by a newer connection, so that it is not turned
away. (TLC agreed for the budgets of two faults or of a fault and a restart, with a
suspend, and of a fault with two: 2,070,877 states.)

**Stores_proofs.**

- `LoansReturned` (no races; an access of the clipboard may fail, see `mishap`):
  `LoanIInv`: whoever is to bring a loan back has its snapshot (`Snapshots`), a paste not
  begun has no thread (`Unbegun`), and at most one loan is out, in one of six places that
  say what is on the clipboard (`OutOnce`).
- `DuckerTypeCorrect` (any environment), `VolumeGoesBackToTheUser` and
  `CrashFileNamesTheVolume` (no races). `VolumeInv` classifies every state into a
  *situation* of the volume (not started, full, overtaken, let down by a fault, skipping,
  lowered, by hand, raising), as long as somebody knows the user's level (`Known`), with
  what holds in it of saved state, file, fades and threads (`Situations`). Next to it:
  dictations come in turn, a restore's fade holds the lock, one fade runs at a time, and a
  saved volume has somebody who is yet to restore it (`RestoreIsDue`), unless a restore
  raised.
- `FlushedStaysOnDisk` (every environment). What a list *keeps* (its texts, and all once
  it is full) only grows, from the file to a copy being written to memory; an event in the
  queue has every earlier text covered by the file, by a save request before it or by a
  save under way (`PromisesKept`); after the stop the saver takes at most the item that was
  there (`ExitOrder`). `QuietMeansSaved` (no exit race) adds that, while the queue has lost
  nothing, a file that differs from memory has a save coming. The theorem is
  `[](~dropped => QuietIsSaved)`: a queue of another size than the instance's may drop the
  only save request in favour of a flush.
- `NothingAcceptedVanishes`, `ClosedMeansSettled`: the safety half of `AcceptedIsSettled`.
  Each accepted item is in the queue, in the batch, in hand, settled, or came late or
  belongs to a dead thread (`NothingAcceptedIsLost`); and when the writer has left, all
  that was accepted before is settled.
- `StoresAreEach`: a behaviour of `StoresSpec`, which `stores` checks, is one of each of the
  four components, so that their theorems are about that run; `StoresTypeCorrect` is its
  type invariant.

Only model-checked is what needs fairness, which is outside the prover's reach. Of most of
it a safety half is proved, the theorem that there is always somebody whose next step
leads on:

| Liveness, checked by TLC | Safety half, proved |
|---|---|
| `BusyEnds` | `HungEngineIsWatched` |
| `EntriesReturn` | `RecoveriesDoNotWaitInACircle` |
| `StaleWorkerEnds` | `OneWorkerListens` |
| `KeepsRequestContract` | `ContractIsKept` (the contract's safety part) |
| `FlagIsGivenBack` | `FlagIsTheRespawns` |
| `SupervisorLinkComesBack` | `LinkIsNeverForgotten` |
| `AcceptedIsSettled` | `NothingAcceptedVanishes`, `ClosedMeansSettled` |
| `CurrentCallbackRuns` | `OnlyStaleIsSuppressed` |
| `CallersReturn` | `NobodyWaitsInACircle`, `SomebodyAlwaysGoesOn` |
| `LossIsSettled`, `CallsReturn` | – |

## Abstractions and what is left out

- Sections under one lock, and statements that no other thread can tell apart, are one
  step.
- **Lifecycle.** Audio is the number of its recording, text is whether it was delivered.
  Text stages, history write, event publication, notifications, the waveform bubble and
  the level monitor are left out. The paste is one step. `Thread.start` does not fail, and
  no step of `_start_impl` after `recorder.start()` raises. (A failing start of the
  Transcription thread would leave the flag up: it is listed as a hazard.) A queued start
  is not refused and does not fail to open the microphone. `recorder.discard()` is one
  step; where it meets a stop in progress both outcomes for the buffer are allowed. The
  first reads of `cancel()` are one step. `Timeouts` says whether the watchdog's 90 seconds
  may run out. The registry of cancelled cycles is unbounded (the code evicts the oldest
  beyond its limit). Of a streaming session only its references and its end are modelled;
  of the volume, in `DictationResources`, only whether it is lowered. An ESC or a toggle
  that does nothing is not a step.
- **Recorder.** Resampling, voice detection, the silence auto-stop, the event worker and
  the choice among candidate devices are left out; a restart of the stream also empties
  ring and buffer, which the two modules, being apart, do not show.
- **Engines.** A model is its backend; one dictation follows the other; the time-out of a
  load and its grace, the look for a download, CUDA's fallback and the tray in the ritual
  of success are left out; touch and eviction of the recency list are one step; requests
  of the settings page are numbered in order. Whisper loads nothing in-process.
- **Worker.** A connection's stream is ordered, so a frame arrives when it is sent.
  Requests by file path, streaming frames, authentication and the offline queue are left
  out. Each frame stands for a part of the text: an inference that an abort cuts short has
  heard the first few, or all when it was past its last look at the token. `close()` sets the stop event
  outside its lock, so it may follow a later `set_port`: that is `CloseStops`.
- **Supervisor.** Compare and clear of a clean-up are one step, as is a kill; numbers of
  servers are used again; the kernel's kill-on-exit, adopted servers, panics and the table
  of the UI's pending requests are left out. What takes seconds (a back-off, the misses of a
  heartbeat, a suspension) ends only when the queue of requests has been looked at
  (`Prompt`), and a clean-up in the gap between a sender and its generation is counted as a
  fault (`HitsTheGap`).
- **Stores.** A fade is two steps; the platform backends and per-session volumes are left
  out, and so is a machine without any backend. All that fails in one step is one fault;
  a backend without steps of its own (a tool run as a process) sets the target at once. What
  the faults have done is kept in `damage`, for the properties only: after a restore that
  failed the volume is not the user's, and becomes so again by the next restore or the
  next start, unless a duck, or the user, has gone by what it was then (`lost`). The recovery file is replaced atomically; its encryption, expiry and the dialog are
  left out. Clipboard formats, the keystroke and the target checks are left out. Of the
  history database only the write queue is modelled, of a row only whose it is.

Components not modelled at all, with the reason for each, are listed in `PROJECT.json`:
numerical inference and pure functions on strings (not what a model checker is for),
I/O with little shared state (configuration, secrets, windows, renderer), and the parts
below that the plan still has.

## Plan

Done: timers; lifecycle, pipeline and watchdog; contract and refinement; resources;
recorder; engines; worker client and its contract; supervisor; volume, recovery file,
clipboard and history writer; the proofs above.

Next, in order of how much of the program depends on them:

1. Proofs: that the lifecycle's `auto` is an abstraction of `TimerCoordinator`, its
   `recording` and `buf` of the recorder, and `ducked` of `VolumeDucker`.
2. **Event bus** (queues at their limit, unsubscription in a delivery), **rate limiter** and
   drain of the IPC server.
3. **Downloads** (resume after a crash), **shutdown** (time budget against running
   dictations), the **microphone watcher**, which competes with the recorder.
4. `worker_supervisor.rs`, which has the shape of `SidecarSupervisor`.

Recursion over data (parsers, back-off tables) stays with TLC.

## How to run

    tlc -workers 2 -config Life_calm.cfg MCDictationLifecycle
    tlapm DictationLifecycle_proofs.tla

The proofs take from seconds (`TimerCoordinator_proofs`) to about seven minutes
(`Stores_proofs`).

`PROJECT.json` lists the runs (module, configuration, properties), for each property of a
passing run a mutated definition that breaks it (the *bug forms* in the modules), the
source lines each definition stands for, the hazards and the properties that cover them,
and the theorems.
