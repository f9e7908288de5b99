----------------------------- MODULE WorkerChannel -----------------------------
(***************************************************************************)
(* The hop from the sidecar to the transcription worker process:           *)
(* server/worker_client.py (requests, futures, generations),               *)
(* worker_session.py (one session thread per generation) and the worker's  *)
(* end of a connection (worker/_ws_connection.py, _ws_commands.py).        *)
(*                                                                         *)
(* Requester threads queue the frames of a request one by one, ping the    *)
(* session and then register a Future; the thread of the current           *)
(* generation drains the queue into its connection and resolves futures by *)
(* id; timers expire them; a canceller aborts all of them; the host's      *)
(* relay repoints the client to a new worker.                              *)
(*                                                                         *)
(* The stream of one connection is ordered, so a frame is received when it *)
(* is sent: the delay is the time the frame spends in the client's queue.  *)
(***************************************************************************)
EXTENDS Naturals, Sequences, FiniteSets

CONSTANTS
    Dictations,    \* requests of WorkerBackedAsr
    Windows,       \* requests of the media loop's WorkerWindowBackend
    Chunks,        \* number of frames of each request (chunk_samples)
    QueueLimit,    \* _OUTBOUND_QUEUE_MAX
    MaxGen,        \* bound on calls of set_port
    Limits,        \* bounds of one behaviour: requests begun, later calls of set_port,
                   \* lost connections and calls of abort_all_outstanding together
    MayClose       \* whether close_shared_client is called (shutdown)

Requests == Dictations \cup Windows
Gens     == 1..MaxGen
Indices(r) == 1..Chunks[r]
NoGen    == 0
NoReq    == "no request"

WorkerConstants ==
    /\ Dictations \cap Windows = {} /\ NoReq \notin Requests
    /\ Chunks \in [Requests -> Nat \ {0}] /\ QueueLimit \in Nat \ {0}
    /\ MaxGen \in Nat \ {0}
    /\ Limits \subseteq [begun : Nat, moves : Nat, drops : Nat, aborts : Nat]
    /\ MayClose \in BOOLEAN
ASSUME WorkerAssumption == WorkerConstants

VARIABLES
    portKnown,   \* _port is not None
    gen,         \* _generation; close() bumps it as set_port does
    stopEvent,   \* _stop_event
    closing,     \* close() is between its critical section and _stop_event.set()
    outbound,    \* _outbound
    lastId,      \* the request that took the newest _request_seq
    pc,          \* where each requester thread is
    next,        \* the next chunk a requester will queue
    noted,       \* _current_request_id of a media window
    fut,         \* state of each request's Future
    resolvers,   \* keys of _resolvers
    toAbort,     \* ids abort_all_outstanding has still to abort
    aborts,      \* calls of abort_all_outstanding so far
    session,     \* where the session thread of each generation is
    registered,  \* the generation whose wake is in _session_wake
    wake,        \* the wake Event of each session
    drops,       \* lost connections so far
    buffers,     \* worker: chunks received per connection and request
    launched,    \* worker: inferences holding (the head) or waiting for inference_gate
    aborted,     \* worker: ids marked by abort_request
    down         \* results on their way back

clientVars  == <<portKnown, gen, stopEvent, closing, lastId, pc, next, noted>>
futureVars  == <<fut, resolvers, toAbort, aborts>>
sessionVars == <<session, registered, wake, drops>>
workerVars  == <<buffers, launched, aborted, down>>
vars == <<clientVars, outbound, futureVars, sessionVars, workerVars>>

Stages   == {"idle", "put", "register", "wait", "mediaAbort", "refused", "done"}
Outcomes == {"text", "error", "timeout", "aborted", "cancelled"}
Phases   == {"off", "connect", "auth", "top", "drain", "wait", "ended"}
Frames   == {f \in [req : Requests, kind : {"chunk", "abort"}, ix : Nat] :
                f.ix \in IF f.kind = "chunk" THEN Indices(f.req) ELSE {0}}
\* cut: an abort token made the inference stop before its end.
Tasks    == {t \in [req : Requests, heard : SUBSET Nat, cut : BOOLEAN] :
                t.heard \subseteq Indices(t.req)}
Replies  == {a \in [req : Requests, text : BOOLEAN, heard : SUBSET Nat, cut : BOOLEAN] :
                a.heard \subseteq Indices(a.req)}

ClientType ==
    /\ portKnown \in BOOLEAN /\ stopEvent \in BOOLEAN /\ closing \in BOOLEAN
    /\ gen \in 0..(MaxGen + 1) /\ lastId \in Requests \cup {NoReq}
    /\ pc \in [Requests -> Stages]
    /\ next \in [Requests -> Nat] /\ \A r \in Requests : next[r] \in 1..(Chunks[r] + 1)
    /\ noted \in [Windows -> Requests \cup {NoReq}]

OutboundType == outbound \in Seq(Frames) /\ Len(outbound) <= QueueLimit

FutureType ==
    /\ fut \in [Requests -> {"none", "pending"} \cup Outcomes]
    /\ resolvers \subseteq Requests /\ toAbort \subseteq Requests /\ aborts \in Nat

SessionType ==
    /\ session \in [Gens -> Phases] /\ registered \in Gens \cup {NoGen}
    /\ wake \in [Gens -> BOOLEAN] /\ drops \in Nat

ProcessType ==
    /\ buffers \in [Gens -> [Requests -> SUBSET Nat]]
    /\ \A g \in Gens, r \in Requests : buffers[g][r] \subseteq Indices(r)
    /\ launched \in [Gens -> Seq(Tasks)] /\ down \in [Gens -> Seq(Replies)]
    /\ aborted \in [Gens -> SUBSET Requests]

WorkerTypeOK == ClientType /\ OutboundType /\ FutureType /\ SessionType /\ ProcessType

WorkerInit ==
    /\ portKnown = FALSE /\ gen = 0 /\ stopEvent = FALSE /\ closing = FALSE
    /\ outbound = <<>> /\ lastId = NoReq
    /\ pc = [r \in Requests |-> "idle"] /\ next = [r \in Requests |-> 1]
    /\ noted = [r \in Windows |-> NoReq]
    /\ fut = [r \in Requests |-> "none"] /\ resolvers = {}
    /\ toAbort = {} /\ aborts = 0
    /\ session = [g \in Gens |-> "off"] /\ registered = NoGen
    /\ wake = [g \in Gens |-> FALSE] /\ drops = 0
    /\ buffers = [g \in Gens |-> [r \in Requests |-> {}]]
    /\ launched = [g \in Gens |-> <<>>]
    /\ aborted = [g \in Gens |-> {}] /\ down = [g \in Gens |-> <<>>]

----------------------------------------------------------------------------
(* The client object: set_port and close.                                    *)

Begun == Cardinality({r \in Requests : pc[r] # "idle"})
Moves == IF gen = 0 THEN 0 ELSE gen - 1

Within(begun, moves, lost, calls) ==
    \E l \in Limits : begun <= l.begun /\ moves <= l.moves
                      /\ lost <= l.drops /\ calls <= l.aborts

Current(g) == g = gen /\ ~stopEvent

\* The thread of the new generation is always started, whatever became of the
\* older ones.
SetPort ==
    /\ gen < MaxGen /\ Within(Begun, gen, drops, aborts)
    /\ portKnown' = TRUE /\ gen' = gen + 1 /\ stopEvent' = FALSE
    /\ session' = [session EXCEPT ![gen + 1] = "connect"]
    /\ UNCHANGED <<closing, lastId, pc, next, noted, outbound, futureVars,
                   registered, wake, drops, workerVars>>

\* close() sets the stop event after it has left the lock.
Close ==
    /\ MayClose /\ ~closing /\ ~stopEvent /\ gen \in 1..MaxGen /\ Within(Begun, gen, drops, aborts)
    /\ portKnown' = FALSE /\ gen' = gen + 1 /\ closing' = TRUE
    /\ UNCHANGED <<stopEvent, lastId, pc, next, noted, outbound, futureVars,
                   sessionVars, workerVars>>

CloseStops ==
    /\ closing
    /\ stopEvent' = TRUE /\ closing' = FALSE
    /\ UNCHANGED <<portKnown, gen, lastId, pc, next, noted, outbound, futureVars,
                   sessionVars, workerVars>>

----------------------------------------------------------------------------
(* A requester: request_samples, and around it WorkerBackedAsr or the media  *)
(* window.                                                                   *)

\* _next_id, then the port: nowhere to send it means refused.
Begin(r) ==
    /\ pc[r] = "idle" /\ Within(Begun + 1, Moves, drops, aborts)
    /\ lastId' = r
    /\ pc' = [pc EXCEPT ![r] = IF portKnown THEN "put" ELSE "refused"]
    /\ UNCHANGED <<portKnown, gen, stopEvent, closing, next, noted, outbound,
                   futureVars, sessionVars, workerVars>>

\* put_nowait of one frame of the loop.
PutChunk(r) ==
    /\ pc[r] = "put" /\ Len(outbound) < QueueLimit
    /\ outbound' = Append(outbound, [req |-> r, kind |-> "chunk", ix |-> next[r]])
    /\ next' = [next EXCEPT ![r] = @ + 1]
    /\ pc' = [pc EXCEPT ![r] = IF next[r] = Chunks[r] THEN "register" ELSE "put"]
    /\ UNCHANGED <<portKnown, gen, stopEvent, closing, lastId, noted, futureVars,
                   sessionVars, workerVars>>

\* queue.Full: the request is refused, what it queued stays queued.
PutFull(r) ==
    /\ pc[r] = "put" /\ Len(outbound) = QueueLimit
    /\ pc' = [pc EXCEPT ![r] = "refused"]
    /\ UNCHANGED <<portKnown, gen, stopEvent, closing, lastId, next, noted, outbound,
                   futureVars, sessionVars, workerVars>>

Woken == IF registered = NoGen THEN wake ELSE [wake EXCEPT ![registered] = TRUE]

\* The session is pinged, then the Future registered.  One step: a session that is
\* draining takes the frames, and may answer, before it as well.  The media window
\* then reads client._request_seq to learn its own id, which others advance from
\* their Begin on.
Register(r) ==
    /\ pc[r] = "register"
    /\ wake' = Woken
    /\ fut' = [fut EXCEPT ![r] = "pending"]
    /\ resolvers' = resolvers \cup {r}
    /\ noted' = [w \in Windows |-> IF w = r THEN lastId ELSE noted[w]]
    /\ pc' = [pc EXCEPT ![r] = "wait"]
    /\ UNCHANGED <<portKnown, gen, stopEvent, closing, lastId, next, outbound,
                   toAbort, aborts, session, registered, drops, workerVars>>

Failures == {"timeout", "aborted", "cancelled"}

\* future.result(timeout) returns, or raises what the Future holds.
WaitEnds(r) ==
    /\ pc[r] = "wait" /\ fut[r] \in Outcomes
    /\ pc' = [pc EXCEPT ![r] =
                IF r \in Windows /\ fut[r] \in Failures THEN "mediaAbort" ELSE "done"]
    /\ UNCHANGED <<portKnown, gen, stopEvent, closing, lastId, next, noted, outbound,
                   futureVars, sessionVars, workerVars>>

\* The waiter's own timeout runs out before the Timer's: same duration, two clocks.
WaitTimesOut(r) ==
    /\ pc[r] = "wait" /\ fut[r] = "pending"
    /\ pc' = [pc EXCEPT ![r] = IF r \in Windows THEN "mediaAbort" ELSE "done"]
    /\ UNCHANGED <<portKnown, gen, stopEvent, closing, lastId, next, noted, outbound,
                   futureVars, sessionVars, workerVars>>

AbortFrame(r) == [req |-> r, kind |-> "abort", ix |-> 0]

SendAbort(r) ==
    IF portKnown /\ Len(outbound) < QueueLimit
    THEN outbound' = Append(outbound, AbortFrame(r)) /\ wake' = Woken
    ELSE UNCHANGED <<outbound, wake>>

\* Mutant of Settle: the Future is set whether or not the id was still mapped.
SettleUnchecked(r, o) ==
    /\ resolvers' = resolvers \ {r}
    /\ fut' = IF fut[r] = "none" THEN fut ELSE [fut EXCEPT ![r] = o]

\* Whoever pops the id from _resolvers ends its Future, with outcome o.
Settle(r, o) ==
    /\ resolvers' = resolvers \ {r}
    /\ fut' = IF r \in resolvers THEN [fut EXCEPT ![r] = o] ELSE fut

\* WorkerWindowBackend.request_abort: send_abort(id), then cancel_request(id).
MediaAbort(r) ==
    /\ pc[r] = "mediaAbort"
    /\ SendAbort(noted[r])
    /\ Settle(noted[r], "cancelled")
    /\ pc' = [pc EXCEPT ![r] = "done"]
    /\ noted' = [noted EXCEPT ![r] = NoReq]
    /\ UNCHANGED <<portKnown, gen, stopEvent, closing, lastId, next,
                   toAbort, aborts, session, registered, drops, workerVars>>

----------------------------------------------------------------------------
(* Timers and the canceller.                                                 *)

Expire(r) ==
    /\ r \in resolvers
    /\ Settle(r, "timeout")
    /\ UNCHANGED <<clientVars, outbound, toAbort, aborts, sessionVars, workerVars>>

\* abort_all_outstanding: a snapshot of the ids, then for each of them the abort
\* frame and the failure of its Future, if a result has not ended it meanwhile.
AbortAll ==
    /\ Within(Begun, Moves, drops, aborts + 1) /\ toAbort = {}
    /\ aborts' = aborts + 1 /\ toAbort' = resolvers
    /\ UNCHANGED <<clientVars, outbound, fut, resolvers, sessionVars, workerVars>>

AbortOne(r) ==
    /\ r \in toAbort
    /\ SendAbort(r) /\ Settle(r, "aborted")
    /\ toAbort' = toAbort \ {r}
    /\ UNCHANGED <<clientVars, aborts, session, registered, drops, workerVars>>

----------------------------------------------------------------------------
(* The session thread of generation g.                                       *)

GoTo(g, phase) == session' = [session EXCEPT ![g] = phase]

\* The connection is up and the generation still current: a fresh connection
\* starts with no buffers, marks or inferences at the worker.
Connected(g) ==
    /\ session[g] = "connect" /\ Current(g)
    /\ GoTo(g, "auth")
    /\ UNCHANGED <<clientVars, outbound, futureVars, registered, wake, drops, workerVars>>

Superseded(g) ==
    /\ session[g] = "connect" /\ ~Current(g)
    /\ GoTo(g, "ended")
    /\ UNCHANGED <<clientVars, outbound, futureVars, registered, wake, drops, workerVars>>

\* The auth frame is sent; the session's wake is registered, replacing whichever
\* is there.
RegisterWake(g) ==
    /\ session[g] = "auth"
    /\ GoTo(g, "top")
    /\ registered' = g
    /\ wake' = [wake EXCEPT ![g] = FALSE]
    /\ UNCHANGED <<clientVars, outbound, futureVars, drops, workerVars>>

\* The finally clause clears only the session's own registration; its Event goes.
ClearRegistration(g) ==
    /\ registered' = IF registered = g THEN NoGen ELSE registered
    /\ wake' = [wake EXCEPT ![g] = FALSE]

\* What the worker keeps per connection dies with it.
ConnectionGone(g) ==
    /\ buffers' = [buffers EXCEPT ![g] = [r \in Requests |-> {}]]
    /\ launched' = [launched EXCEPT ![g] = <<>>]
    /\ aborted' = [aborted EXCEPT ![g] = {}]
    /\ down' = [down EXCEPT ![g] = <<>>]

AfterDrain(queue) == IF queue = <<>> THEN "wait" ELSE "drain"

\* The check at the head of pump's loop: drain while current ...
PumpCurrent(g) ==
    /\ session[g] = "top" /\ Current(g)
    /\ GoTo(g, AfterDrain(outbound))
    /\ UNCHANGED <<clientVars, outbound, futureVars, registered, wake, drops, workerVars>>

\* ... and leave, closing the connection, when not.
PumpLeaves(g) ==
    /\ session[g] = "top" /\ ~Current(g)
    /\ ClearRegistration(g) /\ ConnectionGone(g)
    /\ GoTo(g, "ended")
    /\ UNCHANGED <<clientVars, outbound, futureVars, drops>>

\* asyncio.wait returns because of the wake: clear it and drain again.
WaitWoken(g) ==
    /\ session[g] = "wait" /\ wake[g]
    /\ wake' = [wake EXCEPT ![g] = FALSE]
    /\ GoTo(g, "top")
    /\ UNCHANGED <<clientVars, outbound, futureVars, registered, drops, workerVars>>

\* A frame arrived; a wake that is set by then is cleared only if its task had
\* completed too.  The result resolves the Future of its id, if one is left.
WaitResult(g) ==
    /\ session[g] = "wait" /\ down[g] # <<>>
    /\ LET reply == Head(down[g]) IN
         Settle(reply.req, IF reply.text THEN "text" ELSE "error")
    /\ down' = [down EXCEPT ![g] = Tail(@)]
    /\ \E w \in {FALSE, wake[g]} : wake' = [wake EXCEPT ![g] = w]
    /\ GoTo(g, "top")
    /\ UNCHANGED <<clientVars, outbound, toAbort, aborts, registered, drops,
                   buffers, launched, aborted>>

\* A whole heartbeat interval with no traffic and no wake.
WaitQuiet(g) ==
    /\ session[g] = "wait" /\ down[g] = <<>> /\ ~wake[g]
    /\ GoTo(g, "top")
    /\ UNCHANGED <<clientVars, outbound, futureVars, registered, wake, drops, workerVars>>

\* The connection is lost, or the heartbeat budget is used up: back off and
\* reconnect while current.
Retry(g) == GoTo(g, IF Current(g) THEN "connect" ELSE "ended")

Drop(g) ==
    /\ session[g] \in {"auth", "wait"} /\ Within(Begun, Moves, drops + 1, aborts)
    /\ drops' = drops + 1
    /\ ClearRegistration(g) /\ ConnectionGone(g) /\ Retry(g)
    /\ UNCHANGED <<clientVars, outbound, futureVars>>

\* The frame in hand when ws.send fails is lost with the connection.
DrainLost(g) ==
    /\ session[g] = "drain" /\ outbound # <<>> /\ Within(Begun, Moves, drops + 1, aborts)
    /\ drops' = drops + 1
    /\ outbound' = Tail(outbound)
    /\ ClearRegistration(g) /\ ConnectionGone(g) /\ Retry(g)
    /\ UNCHANGED <<clientVars, futureVars>>

----------------------------------------------------------------------------
(* The worker's end of connection g.                                         *)

\* Mutant of IsComplete: one chunk short.
IsAlmostComplete(r, chunks) == Cardinality(chunks) + 1 >= Chunks[r]

IsComplete(r, chunks) == chunks = Indices(r)

\* handle_transcribe_samples: a chunk of an aborted id clears the mark and is
\* answered with an error; the last chunk launches the inference.
ReceiveChunk(g, f) ==
    IF f.req \in aborted[g]
    THEN /\ aborted' = [aborted EXCEPT ![g] = @ \ {f.req}]
         /\ buffers' = [buffers EXCEPT ![g][f.req] = {}]
         /\ down' = [down EXCEPT ![g] =
                       Append(@, [req |-> f.req, text |-> FALSE, heard |-> {}, cut |-> FALSE])]
         /\ UNCHANGED launched
    ELSE LET have == buffers[g][f.req] \cup {f.ix} IN
         /\ buffers' = [buffers EXCEPT ![g][f.req] = IF IsComplete(f.req, have) THEN {} ELSE have]
         /\ launched' = IF IsComplete(f.req, have)
                        THEN [launched EXCEPT ![g] =
                                Append(@, [req |-> f.req, heard |-> have, cut |-> FALSE])]
                        ELSE launched
         /\ UNCHANGED <<aborted, down>>

\* The inference that runs leaves its segment loop after the first k parts.
Shortened(tasks, k) ==
    IF tasks # <<>> /\ k < Chunks[Head(tasks).req]
    THEN [tasks EXCEPT ![1].heard = @ \cap (1..k), ![1].cut = TRUE]
    ELSE tasks

\* handle_abort_request: the partial buffer goes, the id is marked, and the engine's
\* one abort token is set.  Whatever the process is inferring then, for this id or
\* another, over this connection or another, breaks off at its next look at the token;
\* one that has not begun clears it, and one past its last look goes on to its end.
ReceiveAbort(g, f) ==
    /\ aborted' = [aborted EXCEPT ![g] = @ \cup {f.req}]
    /\ buffers' = [buffers EXCEPT ![g][f.req] = {}]
    /\ \E k \in [Gens -> UNION {0..Chunks[r] : r \in Requests}] :
         launched' = [h \in Gens |-> Shortened(launched[h], k[h])]
    /\ UNCHANGED down

DrainOne(g) ==
    /\ session[g] = "drain" /\ outbound # <<>>
    /\ LET f == Head(outbound) IN
         IF f.kind = "chunk" THEN ReceiveChunk(g, f) ELSE ReceiveAbort(g, f)
    /\ outbound' = Tail(outbound)
    /\ GoTo(g, AfterDrain(outbound'))
    /\ UNCHANGED <<clientVars, futureVars, registered, wake, drops>>

\* inference_gate: one inference of the connection at a time, in order; the head's
\* thread ends.  _complete: the result of an id that was aborted meanwhile is dropped, any
\* other is sent, be it a text or an error.
FinishInference(g) ==
    /\ launched[g] # <<>>
    /\ LET task == Head(launched[g]) IN
         IF task.req \in aborted[g]
         THEN aborted' = [aborted EXCEPT ![g] = @ \ {task.req}] /\ UNCHANGED down
         ELSE /\ down' = [down EXCEPT ![g] =
                            Append(@, [req |-> task.req, text |-> TRUE, heard |-> task.heard,
                                       cut |-> task.cut])]
              /\ UNCHANGED aborted
    /\ launched' = [launched EXCEPT ![g] = Tail(@)]
    /\ UNCHANGED <<clientVars, outbound, futureVars, sessionVars, buffers>>

----------------------------------------------------------------------------
Requester(r) ==
    \/ Begin(r) \/ PutChunk(r) \/ PutFull(r) \/ Register(r)
    \/ WaitEnds(r) \/ WaitTimesOut(r) \/ (r \in Windows /\ MediaAbort(r))

Session(g) ==
    \/ Connected(g) \/ Superseded(g) \/ RegisterWake(g)
    \/ PumpCurrent(g) \/ PumpLeaves(g) \/ DrainOne(g)
    \/ WaitWoken(g) \/ WaitResult(g) \/ WaitQuiet(g)

WorkerNext ==
    \/ SetPort \/ Close \/ CloseStops \/ AbortAll
    \/ \E r \in Requests : Requester(r) \/ Expire(r) \/ AbortOne(r)
    \/ \E g \in Gens : Session(g) \/ Drop(g) \/ DrainLost(g) \/ FinishInference(g)

RequesterGoesOn(r) == pc[r] # "idle" /\ Requester(r)

\* Threads that can run do run, timers fire and inferences end.  Nothing makes
\* the host relay a port, a user dictate or cancel, or a connection drop.
WorkerFairness ==
    /\ WF_vars(CloseStops)
    /\ \A r \in Requests :
         /\ WF_vars(RequesterGoesOn(r))
         /\ WF_vars(Expire(r)) /\ WF_vars(AbortOne(r))
    /\ \A g \in Gens : WF_vars(Session(g)) /\ WF_vars(FinishInference(g))

WorkerSpec == WorkerInit /\ [][WorkerNext]_vars /\ WorkerFairness

----------------------------------------------------------------------------
(* Properties.                                                               *)

\* A text the worker sends for a request was made from all of its audio: frames lost
\* with a connection, refused, or sent over two connections never yield a text of a
\* part.  The one thing that does is an abort while it was inferred, another request's
\* as well: the token is the process's, and the text of the part is sent as any other.
AnswerIsWhole ==
    \A g \in Gens : \A i \in 1..Len(down[g]) :
        down[g][i].text => \/ down[g][i].heard = Indices(down[g][i].req)
                           \/ down[g][i].cut

\* A Future that has an outcome is no longer in the map of resolvers ("entries are
\* popped on resolve, cancel, or timeout, so the map stays bounded by in-flight"),
\* whichever of the session, the timer, the canceller and the media loop ended it.
SettledIsUnmapped ==
    \A r \in Requests : fut[r] \in Outcomes => r \notin resolvers

\* RequestContract, of this client's Futures and callers: a result resolves at most one
\* waiter and an outcome is final, not replaced by a later expiry, abort or cancel; what
\* was refused is never answered; and every request that was begun ends for its caller.
Contract == INSTANCE RequestContract WITH
    stage <- [r \in Requests |->
                CASE pc[r] = "idle" -> "new" [] pc[r] = "refused" -> "refused"
                  [] pc[r] = "done" -> "ended" [] OTHER -> "open"],
    outcome <- [r \in Requests |-> IF fut[r] \in Outcomes THEN fut[r] ELSE "none"]
KeepsRequestContract == Contract!Spec

\* What request_samples and enqueue_frames promise: a request that was refused has
\* sent nothing (worker_client.py: "nothing is sent and None is returned").
RefusedSendsNothing ==
    \A r \in Requests : pc[r] = "refused" =>
        /\ \A i \in 1..Len(outbound) : outbound[i].req # r
        /\ \A g \in Gens : buffers[g][r] = {}

\* An abort ends its own request and no other: what is sent as the text of a request
\* was not cut short ("one abort cannot poison later work", worker/_transcribe.py).
AbortSparesOthers ==
    \A g \in Gens : \A i \in 1..Len(down[g]) : down[g][i].text => ~down[g][i].cut

\* A media window that gives up cancels its own request ("Drop one pending id
\* mapping"), not the Future of a dictation in flight.
MediaCancelsItsOwn ==
    \A d \in Dictations : fut[d] # "cancelled"

\* The wake registered is the one of the live session, so that a forward queued while
\* it sleeps does not wait out the heartbeat interval.
LiveSessionIsRegistered ==
    \A g \in Gens : session[g] = "wait" /\ Current(g) => registered = g
================================================================================
