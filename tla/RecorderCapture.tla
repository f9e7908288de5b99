---------------------------- MODULE RecorderCapture ----------------------------
(***************************************************************************)
(* The way of the audio from PortAudio's callback to the array stop()      *)
(* returns: capture.py (callback dispatch), capture_audio_worker.py (the   *)
(* thread that drains the ring into the recording buffer), recorder.py     *)
(* (_start_audio_worker, _stop_audio_worker) and the parts of              *)
(* recording_start.py and recording_lifecycle.py that order them.          *)
(*                                                                         *)
(* Chunks are numbered in the order they are captured.  A worker that      *)
(* outlives the join of stop is left behind with its own stop event.       *)
(***************************************************************************)
EXTENDS Naturals, Sequences, SequencesExt

CONSTANTS
    MaxSessions,    \* bound on calls of start
    MaxChunks,      \* bound on chunks captured
    RingSize,       \* maxlen of _ring_buffer
    PrerollSize,    \* maxlen of _preroll_buffer
    DrainStop       \* _DRAIN_STOP_CHECK_INTERVAL

Sessions == 1..MaxSessions
NoWorker == 0

CaptureConstants ==
    {MaxSessions, MaxChunks, RingSize, PrerollSize, DrainStop} \subseteq Nat \ {0}
ASSUME CaptureAssumption == CaptureConstants

VARIABLES
    phase,      \* where the thread that starts and ends recordings is
    session,    \* the current session; its worker has the same number
    discarding, \* the session is being ended by discard
    active,     \* _recording_event
    heard,      \* chunks captured so far
    first,      \* first chunk captured by the stream of the session
    ring,       \* _ring_buffer
    preroll,    \* _preroll_buffer
    kept,       \* _audio_pipeline._buffer
    at,         \* where each worker thread is
    hand,       \* the chunk a worker is processing
    drained,    \* chunks a worker has taken since it last waited, modulo DrainStop
    stopSet,    \* the stop event each worker was given
    ref,        \* _worker_thread
    result,     \* what stop() returned for each session
    overflowed, \* the ring has dropped a chunk (_dropped_ring_chunks)
    stalled     \* a join has timed out, or a recording ended before its worker had
                \* begun (history)

callerVars  == <<phase, session, discarding, active, first, ref, result, stalled>>
workVars    == <<at, hand, drained>>
captureVars == <<callerVars, heard, ring, preroll, kept, workVars, stopSet, overflowed>>

Chunk == 1..MaxChunks

CaptureTypeOK ==
    /\ phase \in {"idle", "open", "recording", "rejoin", "live", "teardown", "signal", "join", "take"}
    /\ session \in 0..MaxSessions /\ discarding \in BOOLEAN /\ active \in BOOLEAN
    /\ heard \in 0..MaxChunks /\ first \in 1..(MaxChunks + 1)
    /\ ring \in Seq(Chunk) /\ Len(ring) <= RingSize
    /\ preroll \in Seq(Chunk) /\ Len(preroll) <= PrerollSize
    /\ kept \in Seq(Chunk)
    /\ at \in [Sessions -> {"off", "preroll", "drain", "busy", "over"}]
    /\ hand \in [Sessions -> 0..MaxChunks] /\ drained \in [Sessions -> 0..(DrainStop - 1)]
    /\ stopSet \in [Sessions -> BOOLEAN] /\ ref \in 0..MaxSessions
    /\ result \in [Sessions -> Seq(Chunk)]
    /\ overflowed \in BOOLEAN /\ stalled \in BOOLEAN

CaptureInit ==
    /\ phase = "idle" /\ session = 0 /\ discarding = FALSE /\ active = FALSE
    /\ heard = 0 /\ first = 1
    /\ ring = <<>> /\ preroll = <<>> /\ kept = <<>>
    /\ at = [w \in Sessions |-> "off"] /\ hand = [w \in Sessions |-> 0]
    /\ drained = [w \in Sessions |-> 0] /\ stopSet = [w \in Sessions |-> FALSE]
    /\ ref = NoWorker /\ result = [w \in Sessions |-> <<>>]
    /\ overflowed = FALSE /\ stalled = FALSE

Alive(w) == at[w] \notin {"off", "over"}

----------------------------------------------------------------------------
(* The PortAudio callback.                                                   *)

Streaming == phase \in {"open", "recording", "rejoin", "live", "teardown"}

\* A deque with a maxlen drops at the other end.
Push(queue, limit, x) ==
    IF Len(queue) = limit THEN Append(Tail(queue), x) ELSE Append(queue, x)

\* dispatch_callback_body: pre-roll until the recording is on, then the ring;
\* in the teardown of a recording the event is already cleared, and what still
\* comes is pre-roll again.
AudioCallback ==
    /\ Streaming /\ heard < MaxChunks
    /\ heard' = heard + 1
    /\ IF active
       THEN /\ ring' = Push(ring, RingSize, heard + 1)
            /\ overflowed' = (overflowed \/ Len(ring) = RingSize)
            /\ UNCHANGED preroll
       ELSE /\ preroll' = Push(preroll, PrerollSize, heard + 1)
            /\ UNCHANGED <<ring, overflowed>>
    /\ UNCHANGED <<callerVars, kept, workVars, stopSet>>

----------------------------------------------------------------------------
(* The caller.                                                               *)

\* reset_session_state, and the stream is opened.
StartSession ==
    /\ phase = "idle" /\ session < MaxSessions
    /\ phase' = "open"
    /\ session' = session + 1
    /\ discarding' = FALSE
    /\ first' = heard + 1
    /\ preroll' = <<>> /\ kept' = <<>>
    /\ overflowed' = FALSE
    /\ UNCHANGED <<active, heard, ring, workVars, stopSet, ref, result, stalled>>

SetRecording ==
    /\ phase = "open"
    /\ phase' = "recording"
    /\ active' = TRUE
    /\ UNCHANGED <<session, discarding, first, ref, result, stalled, heard, ring, preroll,
                   kept, workVars, stopSet, overflowed>>

RingAtStart == <<>>

\* start_audio_worker_body: the ring is emptied and a thread started with
\* events of its own.
StartWorker(w) ==
    /\ ring' = RingAtStart
    /\ at' = [at EXCEPT ![w] = "preroll"]
    /\ ref' = w
    /\ phase' = "live"
    /\ UNCHANGED <<session, discarding, active, first, result, heard, preroll, kept, hand,
                   drained, stopSet, overflowed>>

\* _start_audio_worker; a worker left behind is waited for first.
StartAudioWorker ==
    /\ phase = "recording"
    /\ IF ref # NoWorker /\ Alive(ref)
       THEN /\ phase' = "rejoin"
            /\ UNCHANGED <<session, discarding, active, first, ref, result, stalled, heard, ring,
                           preroll, kept, workVars, stopSet, overflowed>>
       ELSE StartWorker(session) /\ UNCHANGED stalled

StaleJoined ==
    /\ phase = "rejoin"
    /\ stalled' = (stalled \/ Alive(ref))
    /\ StartWorker(session)

\* stop and discard up to the teardown; the worker is signalled afterwards.
EndSession(discard) ==
    /\ phase = "live"
    /\ phase' = "teardown"
    /\ active' = FALSE
    /\ discarding' = discard
    /\ stalled' = (stalled \/ at[session] = "preroll")
    /\ UNCHANGED <<session, first, ref, result, heard, ring, preroll, kept, workVars,
                   stopSet, overflowed>>

TornDown ==
    /\ phase = "teardown"
    /\ phase' = "signal"
    /\ UNCHANGED <<session, discarding, active, first, ref, result, stalled, heard, ring,
                   preroll, kept, workVars, stopSet, overflowed>>

\* What stop_audio_worker_body leaves in the ring: drain=False empties it.
LeftInRing == IF discarding THEN <<>> ELSE ring

SignalWorker ==
    /\ phase = "signal"
    /\ phase' = "join"
    /\ ring' = LeftInRing
    /\ stopSet' = [stopSet EXCEPT ![ref] = TRUE]
    /\ UNCHANGED <<session, discarding, active, first, ref, result, stalled, heard, preroll,
                   kept, workVars, overflowed>>

\* The join returns when the worker has ended, or when its time is up.
JoinWorker ==
    /\ phase = "join"
    /\ phase' = "take"
    /\ IF Alive(ref)
       THEN stalled' = TRUE /\ UNCHANGED ref
       ELSE ref' = NoWorker /\ UNCHANGED stalled
    /\ UNCHANGED <<session, discarding, active, first, result, heard, ring, preroll, kept,
                   workVars, stopSet, overflowed>>

\* The buffer is swapped for a fresh one; discard throws the old one away.
TakeBuffer ==
    /\ phase = "take"
    /\ phase' = "idle"
    /\ result' = [result EXCEPT ![session] = IF discarding THEN <<>> ELSE kept]
    /\ kept' = <<>>
    /\ UNCHANGED <<session, discarding, active, first, ref, stalled, heard, ring, preroll,
                   workVars, stopSet, overflowed>>

----------------------------------------------------------------------------
(* The audio worker.                                                         *)

WorkerAt(w, from, to) ==
    /\ at[w] = from
    /\ at' = [at EXCEPT ![w] = to]

\* prepend_preroll_to_buffer.
PrependPreroll(w) ==
    /\ WorkerAt(w, "preroll", "drain")
    /\ kept' = preroll \o kept
    /\ preroll' = <<>>
    /\ UNCHANGED <<callerVars, heard, ring, hand, drained, stopSet, overflowed>>

\* Mutant of Stopping: the thread reads the recorder's current event.
StoppingNow(w) == session \in Sessions /\ stopSet[session]

Stopping(w) == stopSet[w]

\* Mutant of PopLeft: the newest chunk first.
PopRight == [chunk |-> Last(ring), rest |-> Front(ring)]

PopLeft == [chunk |-> Head(ring), rest |-> Tail(ring)]

TakeChunk(w) ==
    /\ ring # <<>>
    /\ WorkerAt(w, "drain", "busy")
    /\ hand' = [hand EXCEPT ![w] = PopLeft.chunk]
    /\ ring' = PopLeft.rest
    /\ UNCHANGED <<callerVars, heard, preroll, kept, drained, stopSet, overflowed>>

\* _process_audio_chunk appends; every DrainStop chunks a stopped worker
\* leaves at once, whatever is left in the ring.
ProcessChunk(w) ==
    LET taken == (drained[w] + 1) % DrainStop IN
    /\ WorkerAt(w, "busy", IF taken = 0 /\ Stopping(w) THEN "over" ELSE "drain")
    /\ kept' = Append(kept, hand[w])
    /\ hand' = [hand EXCEPT ![w] = 0]
    /\ drained' = [drained EXCEPT ![w] = taken]
    /\ UNCHANGED <<callerVars, heard, ring, preroll, stopSet, overflowed>>

\* The ring is empty: the count starts again and the worker waits, or ends.
RingEmpty(w) ==
    /\ ring = <<>> /\ (drained[w] # 0 \/ Stopping(w))
    /\ WorkerAt(w, "drain", IF Stopping(w) THEN "over" ELSE "drain")
    /\ drained' = [drained EXCEPT ![w] = 0]
    /\ UNCHANGED <<callerVars, heard, ring, preroll, kept, hand, stopSet, overflowed>>

WorkerSteps(w) == PrependPreroll(w) \/ TakeChunk(w) \/ ProcessChunk(w) \/ RingEmpty(w)

CallerStep ==
    \/ SetRecording \/ StartAudioWorker \/ StaleJoined
    \/ TornDown \/ SignalWorker \/ JoinWorker \/ TakeBuffer

CaptureNext ==
    \/ AudioCallback \/ StartSession \/ CallerStep
    \/ \E discard \in BOOLEAN : EndSession(discard)
    \/ \E w \in Sessions : WorkerSteps(w)

\* Threads that can go on do; a recording need not be started or ended.
CaptureSpec ==
    /\ CaptureInit /\ [][CaptureNext]_captureVars
    /\ WF_captureVars(CallerStep)
    /\ \A w \in Sessions : WF_captureVars(WorkerSteps(w))

----------------------------------------------------------------------------
(* Properties.                                                               *)

\* stop() returns the chunks in the order they were captured, as long as every
\* worker has begun before the end of its recording and ended before the join
\* timed out: a late pre-roll would be put in front, and two workers on one
\* ring overtake each other.
AudioInOrder ==
    ~stalled => \A s \in Sessions : \A i \in 1..(Len(result[s]) - 1) : result[s][i] < result[s][i + 1]

\* Nothing captured for an earlier recording, discarded ones included, gets
\* into the recording in progress (same condition).
OwnAudioOnly == ~stalled => \A i \in 1..Len(kept) : kept[i] >= first

\* With stalls and several workers on one ring a chunk may be late, but it is
\* never buffered twice.
BufferedOnce ==
    /\ IsInjective(kept)
    /\ \A w \in Sessions : Alive(w) /\ at[w] = "busy" => hand[w] \notin ToSet(kept) \cup ToSet(ring)

\* The buffer is the recording: in order and of this session alone while no worker
\* was left behind, and without a repetition even then.
BufferIsTheRecording == AudioInOrder /\ OwnAudioOnly /\ BufferedOnce

\* A worker that was left behind still ends: its stop event is its own, so a
\* new recording does not revive it as a second consumer.
StaleWorkerEnds == \A w \in Sessions : []<>(stopSet[w] => ~Alive(w))

\* audio_worker_loop: the ring is drained fully before the worker exits, so
\* stop() does not lose in-flight audio.
NothingInFlightIsLost == phase = "take" /\ ~discarding /\ ~stalled => ring = <<>>

\* Nothing said between the first and the last kept chunk is missing unless
\* the ring overflowed.
NoGaps ==
    \A s \in Sessions : ~overflowed /\ ~stalled =>
        \A i \in 1..(Len(result[s]) - 1) : result[s][i + 1] = result[s][i] + 1
=============================================================================
