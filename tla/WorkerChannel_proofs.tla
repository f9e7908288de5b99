------------------------- MODULE WorkerChannel_proofs -------------------------
(***************************************************************************)
(* Proofs about WorkerChannel for any set of requests, any lengths of      *)
(* them, queue limit and number of generations.  The inductive invariant   *)
(* adds to the types how far each requester is (Progress), that a Future   *)
(* is pending just as long as its id is mapped (FuturesFollow), and that   *)
(* the worker infers and answers whole requests, or what an abort cut      *)
(* short (OnlyWhole).                                                      *)
(***************************************************************************)
EXTENDS WorkerChannel, TLAPS

(* What a requester has done so far: it queues the frames in their order,    *)
(* its Future exists from Register on, is pending as long as its id is       *)
(* mapped, and a media window has noted some request by then.                *)
Progress ==
    \A r \in Requests :
        /\ pc[r] = "idle" => next[r] = 1
        /\ pc[r] = "put" => next[r] \in Indices(r)
        /\ pc[r] # "idle" => lastId \in Requests
        /\ r \in Windows /\ pc[r] \in {"wait", "mediaAbort"} => noted[r] \in Requests

FuturesFollow ==
    \A r \in Requests :
        /\ pc[r] \in {"idle", "put", "register", "refused"} => fut[r] = "none"
        /\ r \in resolvers <=> fut[r] = "pending"

(* The worker launches whole requests only, and what it infers and sends as  *)
(* a text stays whole unless an abort cut the inference.                     *)
WholeTasks   == {t \in Tasks : t.heard = Indices(t.req) \/ t.cut}
WholeReplies == {a \in Replies : a.text => a.heard = Indices(a.req) \/ a.cut}
OnlyWhole    == launched \in [Gens -> Seq(WholeTasks)] /\ down \in [Gens -> Seq(WholeReplies)]

LEMMA Constants ==
  /\ MaxGen \in Nat /\ MaxGen > 0 /\ QueueLimit \in Nat /\ QueueLimit > 0
  /\ Chunks \in [Requests -> Nat] /\ \A r \in Requests : Chunks[r] > 0
  /\ NoReq \notin Requests
  BY WorkerAssumption DEF WorkerConstants

LEMMA InitType == WorkerInit => WorkerTypeOK
  <1> SUFFICES ASSUME WorkerInit PROVE WorkerTypeOK
    OBVIOUS
  <1> USE WorkerAssumption DEF WorkerInit, WorkerConstants
  <1>1. ClientType
    <2>1. gen \in 0..(MaxGen + 1)
      OBVIOUS
    <2>2. \A r \in Requests : next[r] \in 1..(Chunks[r] + 1)
      BY Constants
    <2>3. pc \in [Requests -> Stages] /\ next \in [Requests -> Nat]
      BY DEF Stages
    <2> QED
      BY <2>1, <2>2, <2>3 DEF ClientType
  <1>2. OutboundType
    BY DEF OutboundType
  <1>3. FutureType
    BY DEF FutureType
  <1>4. SessionType
    BY DEF SessionType, Phases
  <1>5. ProcessType
    BY DEF ProcessType
  <1> QED
    BY <1>1, <1>2, <1>3, <1>4, <1>5 DEF WorkerTypeOK

-----------------------------------------------------------------------------
(* Types.                                                                    *)

LEMMA AbortFrameIsFrame == \A r \in Requests : AbortFrame(r) \in Frames
  BY DEF AbortFrame, Frames

LEMMA ChunkIsFrame ==
  \A r \in Requests : \A i \in Indices(r) : [req |-> r, kind |-> "chunk", ix |-> i] \in Frames
  BY Constants DEF Frames, Indices

LEMMA WokenType == SessionType => Woken \in [Gens -> BOOLEAN]
  BY DEF SessionType, Woken

LEMMA SendAbortType ==
  ASSUME OutboundType, SessionType, NEW r \in Requests, SendAbort(r)
  PROVE  OutboundType' /\ wake' \in [Gens -> BOOLEAN]
  <1>1. CASE portKnown /\ Len(outbound) < QueueLimit
    <2>1. outbound' = Append(outbound, AbortFrame(r)) /\ wake' = Woken
      BY <1>1 DEF SendAbort
    <2>2. outbound' \in Seq(Frames) /\ Len(outbound') = Len(outbound) + 1
      BY <2>1, AbortFrameIsFrame DEF OutboundType
    <2> QED
      BY <1>1, <2>1, <2>2, WokenType, Constants DEF OutboundType
  <1>2. CASE ~(portKnown /\ Len(outbound) < QueueLimit)
    BY <1>2 DEF SendAbort, OutboundType, SessionType
  <1> QED
    BY <1>1, <1>2

LEMMA TailType ==
  ASSUME NEW S, NEW s \in Seq(S), s # <<>>
  PROVE  Head(s) \in S /\ Tail(s) \in Seq(S) /\ Len(Tail(s)) = Len(s) - 1
  OBVIOUS

LEMMA AppendType ==
  ASSUME NEW S, NEW s \in Seq(S), NEW x \in S
  PROVE  Append(s, x) \in Seq(S) /\ Len(Append(s, x)) = Len(s) + 1
  OBVIOUS

LEMMA GenerationFits ==
  gen \in 0..(MaxGen + 1) /\ (gen < MaxGen \/ gen \in 1..MaxGen) => gen + 1 \in 0..(MaxGen + 1)
  BY Constants

LEMMA ClientStep ==
  ASSUME ClientType, FutureType, Progress, [WorkerNext]_vars
  PROVE  ClientType'
  <1> USE DEF ClientType, Stages, clientVars
  <1>1. CASE SetPort
    <2>1. gen' \in 0..(MaxGen + 1)
      BY <1>1, GenerationFits DEF SetPort
    <2>2. portKnown' \in BOOLEAN /\ stopEvent' \in BOOLEAN
          /\ UNCHANGED <<closing, lastId, pc, next, noted>>
      BY <1>1 DEF SetPort
    <2> QED
      BY <2>1, <2>2
  <1>2. CASE Close
    <2>1. gen' \in 0..(MaxGen + 1)
      BY <1>2, GenerationFits DEF Close
    <2>2. portKnown' \in BOOLEAN /\ closing' \in BOOLEAN
          /\ UNCHANGED <<stopEvent, lastId, pc, next, noted>>
      BY <1>2 DEF Close
    <2> QED
      BY <2>1, <2>2
  <1>3. CASE CloseStops
    BY <1>3 DEF CloseStops
  <1>4. ASSUME NEW r \in Requests, Requester(r) PROVE ClientType'
    <2>1. CASE Begin(r)
      BY <2>1 DEF Begin
    <2>2. CASE PutChunk(r)
      <3>1. pc' \in [Requests -> Stages]
        BY <2>2 DEF PutChunk
      <3>2. next[r] \in Nat /\ next[r] + 1 \in 1..(Chunks[r] + 1)
        <4>1. next[r] \in 1..Chunks[r]
          BY <2>2 DEF Progress, PutChunk, Indices
        <4>2. Chunks[r] \in Nat
          BY Constants
        <4> HIDE DEF ClientType
        <4> QED
          BY <4>1, <4>2
      <3>3. next' = [next EXCEPT ![r] = next[r] + 1]
        BY <2>2 DEF PutChunk
      <3>4. next' \in [Requests -> Nat] /\ \A q \in Requests : next'[q] \in 1..(Chunks[q] + 1)
        BY <3>2, <3>3
      <3>5. UNCHANGED <<portKnown, gen, stopEvent, closing, lastId, noted>>
        BY <2>2 DEF PutChunk
      <3> HIDE DEF Stages
      <3> QED
        BY <3>1, <3>4, <3>5
    <2>3. CASE PutFull(r)
      BY <2>3 DEF PutFull
    <2>4. CASE Register(r)
      BY <2>4 DEF Register
    <2>5. CASE WaitEnds(r)
      BY <2>5 DEF WaitEnds
    <2>6. CASE WaitTimesOut(r)
      BY <2>6 DEF WaitTimesOut
    <2>7. CASE r \in Windows /\ MediaAbort(r)
      BY <2>7 DEF MediaAbort
    <2> QED
      BY <1>4, <2>1, <2>2, <2>3, <2>4, <2>5, <2>6, <2>7 DEF Requester
  <1>5. ASSUME AbortAll \/ \E r \in Requests : Expire(r) \/ AbortOne(r) PROVE ClientType'
    BY <1>5 DEF AbortAll, Expire, AbortOne
  <1>6. ASSUME NEW g \in Gens, Session(g) \/ Drop(g) \/ DrainLost(g) \/ FinishInference(g)
         PROVE  UNCHANGED clientVars
    BY <1>6 DEF Session, Connected, Superseded, RegisterWake, PumpCurrent, PumpLeaves,
                DrainOne, WaitWoken, WaitResult, WaitQuiet, Drop, DrainLost, FinishInference
  <1>7. CASE UNCHANGED vars
    BY <1>7 DEF vars
  <1> QED
    BY <1>1, <1>2, <1>3, <1>4, <1>5, <1>6, <1>7 DEF WorkerNext

LEMMA OutboundStep ==
  ASSUME ClientType, OutboundType, FutureType, SessionType, Progress, [WorkerNext]_vars
  PROVE  OutboundType'
  <1>1. ASSUME NEW r \in Requests, PutChunk(r) PROVE OutboundType'
    <2>1. outbound' = Append(outbound, [req |-> r, kind |-> "chunk", ix |-> next[r]])
          /\ Len(outbound) < QueueLimit /\ next[r] \in Indices(r)
      BY <1>1 DEF PutChunk, Progress
    <2> QED
      BY <2>1, ChunkIsFrame, AppendType, Constants DEF OutboundType
  <1>2. ASSUME NEW r \in Windows, MediaAbort(r) PROVE OutboundType'
    <2>1. noted[r] \in Requests
      BY <1>2 DEF Progress, MediaAbort, Requests
    <2> QED
      BY <1>2, <2>1, SendAbortType DEF MediaAbort
  <1>3. ASSUME NEW r \in Requests, AbortOne(r) PROVE OutboundType'
    BY <1>3, SendAbortType DEF AbortOne
  <1>4. ASSUME NEW g \in Gens, DrainOne(g) \/ DrainLost(g) PROVE OutboundType'
    <2>1. outbound # <<>> /\ outbound' = Tail(outbound)
      BY <1>4 DEF DrainOne, DrainLost
    <2> QED
      BY <2>1, TailType, Constants DEF OutboundType
  <1>5. ASSUME NEW r \in Requests,
               \/ Begin(r) \/ PutFull(r) \/ Register(r) \/ WaitEnds(r)
               \/ WaitTimesOut(r) \/ Expire(r)
         PROVE  UNCHANGED outbound
    BY <1>5 DEF Begin, PutFull, Register, WaitEnds, WaitTimesOut, Expire
  <1>6. ASSUME NEW g \in Gens,
               \/ Connected(g) \/ Superseded(g) \/ RegisterWake(g) \/ PumpCurrent(g)
               \/ PumpLeaves(g) \/ WaitWoken(g) \/ WaitResult(g) \/ WaitQuiet(g)
               \/ Drop(g) \/ FinishInference(g)
         PROVE  UNCHANGED outbound
    BY <1>6 DEF Connected, Superseded, RegisterWake, PumpCurrent, PumpLeaves, WaitWoken,
                WaitResult, WaitQuiet, Drop, FinishInference
  <1>7. ASSUME SetPort \/ Close \/ CloseStops \/ AbortAll \/ UNCHANGED vars
         PROVE  UNCHANGED outbound
    BY <1>7 DEF SetPort, Close, CloseStops, AbortAll, vars
  <1>8. UNCHANGED outbound => OutboundType'
    BY DEF OutboundType
  <1> QED
    BY <1>1, <1>2, <1>3, <1>4, <1>5, <1>6, <1>7, <1>8 DEF WorkerNext, Requester, Session
LEMMA FutureStep ==
  ASSUME ClientType, FutureType, Progress, [WorkerNext]_vars
  PROVE  FutureType'
  <1> USE DEF FutureType, Outcomes, futureVars
  <1>1. ASSUME NEW r \in Requests, NEW q, NEW o \in Outcomes, Settle(q, o)
        PROVE  /\ fut' \in [Requests -> {"none", "pending"} \cup Outcomes]
               /\ resolvers' \subseteq Requests
    BY <1>1 DEF Settle
  <1>2. ASSUME NEW r \in Requests, Register(r) PROVE FutureType'
    BY <1>2 DEF Register
  <1>3. ASSUME NEW r \in Requests, Expire(r) PROVE FutureType'
    BY <1>3, <1>1 DEF Expire
  <1>4. CASE AbortAll
    BY <1>4 DEF AbortAll
  <1>5. ASSUME NEW r \in Requests, AbortOne(r) PROVE FutureType'
    BY <1>5, <1>1 DEF AbortOne
  <1>6. ASSUME NEW r \in Windows, MediaAbort(r) PROVE FutureType'
    BY <1>6, <1>1 DEF MediaAbort, Requests
  <1>7. ASSUME NEW g \in Gens, WaitResult(g) PROVE FutureType'
    BY <1>7 DEF WaitResult, Settle
  <1>8. ASSUME NEW r \in Requests,
               \/ Begin(r) \/ PutChunk(r) \/ PutFull(r) \/ WaitEnds(r) \/ WaitTimesOut(r)
         PROVE  UNCHANGED futureVars
    BY <1>8 DEF Begin, PutChunk, PutFull, WaitEnds, WaitTimesOut
  <1>9. ASSUME NEW g \in Gens,
               \/ Connected(g) \/ Superseded(g) \/ RegisterWake(g) \/ PumpCurrent(g)
               \/ PumpLeaves(g) \/ DrainOne(g) \/ WaitWoken(g) \/ WaitQuiet(g)
               \/ Drop(g) \/ DrainLost(g) \/ FinishInference(g)
         PROVE  UNCHANGED futureVars
    BY <1>9 DEF Connected, Superseded, RegisterWake, PumpCurrent, PumpLeaves, DrainOne,
                WaitWoken, WaitQuiet, Drop, DrainLost, FinishInference
  <1>10. ASSUME SetPort \/ Close \/ CloseStops \/ UNCHANGED vars
         PROVE  UNCHANGED futureVars
    BY <1>10 DEF SetPort, Close, CloseStops, vars
  <1> QED
    BY <1>2, <1>3, <1>4, <1>5, <1>6, <1>7, <1>8, <1>9, <1>10
    DEF WorkerNext, Requester, Session

LEMMA SessionStep ==
  ASSUME ClientType, OutboundType, FutureType, SessionType, Progress, [WorkerNext]_vars
  PROVE  SessionType'
  <1> USE DEF SessionType, Phases, sessionVars
  <1>1. CASE SetPort
    BY <1>1 DEF SetPort
  <1>2. ASSUME NEW r \in Requests, Register(r) PROVE SessionType'
    BY <1>2, WokenType DEF Register
  <1>3. ASSUME NEW r \in Windows, MediaAbort(r) PROVE SessionType'
    <2>1. noted[r] \in Requests
      BY <1>3 DEF Progress, MediaAbort, Requests
    <2> QED
      BY <1>3, <2>1, SendAbortType DEF MediaAbort
  <1>4. ASSUME NEW r \in Requests, AbortOne(r) PROVE SessionType'
    BY <1>4, SendAbortType DEF AbortOne
  <1>5. ASSUME NEW g \in Gens, Session(g) PROVE SessionType'
    <2>1. CASE Connected(g) \/ Superseded(g)
      BY <2>1 DEF Connected, Superseded, GoTo
    <2>2. CASE RegisterWake(g)
      BY <2>2 DEF RegisterWake, GoTo
    <2>3. CASE PumpCurrent(g)
      BY <2>3 DEF PumpCurrent, GoTo, AfterDrain
    <2>4. CASE PumpLeaves(g)
      BY <2>4 DEF PumpLeaves, GoTo, ClearRegistration
    <2>5. CASE DrainOne(g)
      BY <2>5 DEF DrainOne, GoTo, AfterDrain
    <2>6. CASE WaitWoken(g)
      BY <2>6 DEF WaitWoken, GoTo
    <2>7. CASE WaitResult(g)
      BY <2>7 DEF WaitResult, GoTo
    <2>8. CASE WaitQuiet(g)
      BY <2>8 DEF WaitQuiet, GoTo
    <2> QED
      BY <1>5, <2>1, <2>2, <2>3, <2>4, <2>5, <2>6, <2>7, <2>8 DEF Session
  <1>6. ASSUME NEW g \in Gens, Drop(g) PROVE SessionType'
    BY <1>6 DEF Drop, Retry, GoTo, ClearRegistration
  <1>7. ASSUME NEW g \in Gens, DrainLost(g) PROVE SessionType'
    BY <1>7 DEF DrainLost, Retry, GoTo, ClearRegistration
  <1>8. ASSUME NEW r \in Requests,
               \/ Begin(r) \/ PutChunk(r) \/ PutFull(r) \/ WaitEnds(r)
               \/ WaitTimesOut(r) \/ Expire(r)
         PROVE  UNCHANGED sessionVars
    BY <1>8 DEF Begin, PutChunk, PutFull, WaitEnds, WaitTimesOut, Expire
  <1>9. ASSUME \/ Close \/ CloseStops \/ AbortAll \/ UNCHANGED vars
               \/ \E g \in Gens : FinishInference(g)
         PROVE  UNCHANGED sessionVars
    BY <1>9 DEF Close, CloseStops, AbortAll, FinishInference, vars
  <1> QED
    BY <1>1, <1>2, <1>3, <1>4, <1>5, <1>6, <1>7, <1>8, <1>9 DEF WorkerNext, Requester

(* The loop of enqueue_frames: from the first frame on to the last.          *)
LEMMA IndicesGoOn ==
  ASSUME NEW r \in Requests
  PROVE  /\ 1 \in Indices(r)
         /\ \A i \in Indices(r) : i # Chunks[r] => i + 1 \in Indices(r)
  <1>1. Chunks[r] \in Nat /\ Chunks[r] > 0
    BY Constants
  <1> QED
    BY <1>1 DEF Indices

LEMMA ProgressStep ==
  ASSUME ClientType, FutureType, Progress, [WorkerNext]_vars
  PROVE  Progress'
  <1> USE DEF ClientType, Progress, clientVars
  <1>1. ASSUME NEW q \in Requests, Requester(q) PROVE Progress'
    <2>1. CASE Begin(q)
      BY <2>1, IndicesGoOn DEF Begin
    <2>2. CASE PutChunk(q)
      BY <2>2, IndicesGoOn DEF PutChunk
    <2>3. CASE PutFull(q)
      BY <2>3 DEF PutFull
    <2>4. CASE Register(q)
      BY <2>4 DEF Register
    <2>5. CASE WaitEnds(q)
      BY <2>5 DEF WaitEnds
    <2>6. CASE WaitTimesOut(q)
      BY <2>6 DEF WaitTimesOut
    <2>7. CASE q \in Windows /\ MediaAbort(q)
      BY <2>7 DEF MediaAbort
    <2> QED
      BY <1>1, <2>1, <2>2, <2>3, <2>4, <2>5, <2>6, <2>7 DEF Requester
  <1>2. CASE SetPort \/ Close \/ CloseStops
    BY <1>2 DEF SetPort, Close, CloseStops
  <1>3. ASSUME AbortAll \/ \E r \in Requests : Expire(r) \/ AbortOne(r)
         PROVE  UNCHANGED clientVars
    BY <1>3 DEF AbortAll, Expire, AbortOne
  <1>4. ASSUME NEW g \in Gens, Session(g) \/ Drop(g) \/ DrainLost(g) \/ FinishInference(g)
         PROVE  UNCHANGED clientVars
    BY <1>4 DEF Session, Connected, Superseded, RegisterWake, PumpCurrent, PumpLeaves,
                DrainOne, WaitWoken, WaitResult, WaitQuiet, Drop, DrainLost, FinishInference
  <1>5. CASE UNCHANGED vars
    BY <1>5 DEF vars
  <1> QED
    BY <1>1, <1>2, <1>3, <1>4, <1>5 DEF WorkerNext

-----------------------------------------------------------------------------
(* What the worker holds and sends.                                          *)

LEMMA FrameFields ==
  \A f \in Frames : f.req \in Requests /\ (f.kind = "chunk" => f.ix \in Indices(f.req))
  BY DEF Frames

LEMMA OneKept ==
  ASSUME NEW D, NEW S, NEW f \in [D -> S], NEW d \in D, NEW x \in S
  PROVE  [f EXCEPT ![d] = x] \in [D -> S]
  OBVIOUS

LEMMA GoneType ==
  ASSUME ProcessType, OnlyWhole, NEW g \in Gens, ConnectionGone(g)
  PROVE  ProcessType' /\ OnlyWhole'
  <1>1. <<>> \in Seq(Tasks) /\ <<>> \in Seq(Replies)
        /\ <<>> \in Seq(WholeTasks) /\ <<>> \in Seq(WholeReplies)
    OBVIOUS
  <1>2. launched' \in [Gens -> Seq(Tasks)] /\ launched' \in [Gens -> Seq(WholeTasks)]
    BY <1>1, OneKept DEF ConnectionGone, ProcessType, OnlyWhole
  <1>3. down' \in [Gens -> Seq(Replies)] /\ down' \in [Gens -> Seq(WholeReplies)]
    BY <1>1, OneKept DEF ConnectionGone, ProcessType, OnlyWhole
  <1>4. aborted' \in [Gens -> SUBSET Requests]
    BY OneKept DEF ConnectionGone, ProcessType
  <1>5. /\ buffers' \in [Gens -> [Requests -> SUBSET Nat]]
        /\ \A h \in Gens, r \in Requests : buffers'[h][r] \subseteq Indices(r)
    BY DEF ConnectionGone, ProcessType
  <1> QED
    BY <1>2, <1>3, <1>4, <1>5 DEF ProcessType, OnlyWhole

LEMMA BufferKept ==
  ASSUME ProcessType, NEW g \in Gens, NEW r \in Requests, NEW X \in SUBSET Indices(r),
         buffers' = [buffers EXCEPT ![g][r] = X]
  PROVE  /\ buffers' \in [Gens -> [Requests -> SUBSET Nat]]
         /\ \A h \in Gens, q \in Requests : buffers'[h][q] \subseteq Indices(q)
  <1>1. X \in SUBSET Nat
    BY Constants DEF Indices
  <1> QED
    BY <1>1 DEF ProcessType

LEMMA ReplyKept ==
  ASSUME ProcessType, OnlyWhole, NEW g \in Gens, NEW a \in WholeReplies,
         down' = [down EXCEPT ![g] = Append(@, a)]
  PROVE  down' \in [Gens -> Seq(Replies)] /\ down' \in [Gens -> Seq(WholeReplies)]
  <1>1. a \in Replies
    BY DEF WholeReplies
  <1>2. down[g] \in Seq(Replies) /\ down[g] \in Seq(WholeReplies)
    BY DEF ProcessType, OnlyWhole
  <1>3. Append(down[g], a) \in Seq(Replies) /\ Append(down[g], a) \in Seq(WholeReplies)
    BY <1>1, <1>2, AppendType
  <1> QED
    BY <1>3, OneKept DEF ProcessType, OnlyWhole

LEMMA TaskKept ==
  ASSUME ProcessType, OnlyWhole, NEW g \in Gens, NEW t \in WholeTasks,
         launched' = [launched EXCEPT ![g] = Append(@, t)]
  PROVE  launched' \in [Gens -> Seq(Tasks)] /\ launched' \in [Gens -> Seq(WholeTasks)]
  <1>1. t \in Tasks
    BY DEF WholeTasks
  <1>2. launched[g] \in Seq(Tasks) /\ launched[g] \in Seq(WholeTasks)
    BY DEF ProcessType, OnlyWhole
  <1>3. Append(launched[g], t) \in Seq(Tasks) /\ Append(launched[g], t) \in Seq(WholeTasks)
    BY <1>1, <1>2, AppendType
  <1> QED
    BY <1>3, OneKept DEF ProcessType, OnlyWhole

(* A frame received: of an aborted id, one that completes the request, or    *)
(* one that does not.                                                        *)
LEMMA ReceiveChunkType ==
  ASSUME ProcessType, OnlyWhole, NEW g \in Gens, NEW f \in Frames, f.kind = "chunk",
         ReceiveChunk(g, f)
  PROVE  ProcessType' /\ OnlyWhole'
  <1>1. f.req \in Requests /\ f.ix \in Indices(f.req)
    BY FrameFields
  <1>2. CASE f.req \in aborted[g]
    <2>1. /\ aborted' = [aborted EXCEPT ![g] = @ \ {f.req}]
          /\ buffers' = [buffers EXCEPT ![g][f.req] = {}]
          /\ down' = [down EXCEPT ![g] =
                  Append(@, [req |-> f.req, text |-> FALSE, heard |-> {}, cut |-> FALSE])]
          /\ UNCHANGED launched
      BY <1>2 DEF ReceiveChunk
    <2>2. [req |-> f.req, text |-> FALSE, heard |-> {}, cut |-> FALSE] \in WholeReplies
      BY <1>1 DEF WholeReplies, Replies
    <2>3. down' \in [Gens -> Seq(Replies)] /\ down' \in [Gens -> Seq(WholeReplies)]
      BY <2>1, <2>2, ReplyKept
    <2>4. aborted' \in [Gens -> SUBSET Requests]
      BY <2>1 DEF ProcessType
    <2> QED
      BY <1>1, <2>1, <2>3, <2>4, BufferKept DEF ProcessType, OnlyWhole
  <1>3. CASE f.req \notin aborted[g]
    <2> DEFINE have == buffers[g][f.req] \cup {f.ix}
    <2>1. have \subseteq Indices(f.req)
      BY <1>1 DEF ProcessType
    <2>2. CASE IsComplete(f.req, have)
      <3>1. /\ buffers' = [buffers EXCEPT ![g][f.req] = {}]
            /\ launched' = [launched EXCEPT ![g] =
                              Append(@, [req |-> f.req, heard |-> have, cut |-> FALSE])]
            /\ UNCHANGED <<aborted, down>>
        BY <1>3, <2>2 DEF ReceiveChunk
      <3>2. [req |-> f.req, heard |-> have, cut |-> FALSE] \in WholeTasks
        <4>1. have \in SUBSET Nat
          BY <2>1, Constants, <1>1 DEF Indices
        <4> QED
          BY <1>1, <2>1, <2>2, <4>1 DEF IsComplete, WholeTasks, Tasks
      <3>3. launched' \in [Gens -> Seq(Tasks)] /\ launched' \in [Gens -> Seq(WholeTasks)]
        <4> HIDE DEF have
        <4>1. launched' = [launched EXCEPT ![g] =
                             Append(@, [req |-> f.req, heard |-> have, cut |-> FALSE])]
          BY <3>1
        <4> QED
          BY <4>1, <3>2, TaskKept
      <3> QED
        BY <1>1, <3>1, <3>3, BufferKept DEF ProcessType, OnlyWhole
    <2>3. CASE ~IsComplete(f.req, have)
      <3>1. /\ buffers' = [buffers EXCEPT ![g][f.req] = have]
            /\ UNCHANGED <<launched, aborted, down>>
        BY <1>3, <2>3 DEF ReceiveChunk
      <3> HIDE DEF have
      <3>2. /\ buffers' \in [Gens -> [Requests -> SUBSET Nat]]
            /\ \A h \in Gens, q \in Requests : buffers'[h][q] \subseteq Indices(q)
        BY <1>1, <2>1, <3>1, BufferKept
      <3> QED
        BY <3>1, <3>2 DEF ProcessType, OnlyWhole
    <2> QED
      BY <2>2, <2>3
  <1> QED
    BY <1>2, <1>3

(* What an abort leaves of the inference that runs is marked as cut.         *)
LEMMA ShortenedType ==
  ASSUME NEW s \in Seq(WholeTasks), NEW k
  PROVE  Shortened(s, k) \in Seq(WholeTasks)
  <1>1. CASE s # <<>> /\ k < Chunks[Head(s).req]
    <2> DEFINE t == [s[1] EXCEPT !.heard = @ \cap (1..k), !.cut = TRUE]
    <2>1. s[1] \in WholeTasks /\ 1 \in 1..Len(s)
      BY <1>1
    <2>2. t \in WholeTasks
      BY <2>1 DEF WholeTasks, Tasks
    <2>3. Shortened(s, k) = [s EXCEPT ![1] = t]
      BY <1>1 DEF Shortened
    <2> HIDE DEF t
    <2> QED
      BY <2>1, <2>2, <2>3
  <1>2. CASE ~(s # <<>> /\ k < Chunks[Head(s).req])
    BY <1>2 DEF Shortened
  <1> QED
    BY <1>1, <1>2

LEMMA WholeAreTasks == ASSUME NEW s \in Seq(WholeTasks) PROVE s \in Seq(Tasks)
  BY DEF WholeTasks

LEMMA ReceiveAbortType ==
  ASSUME ProcessType, OnlyWhole, NEW g \in Gens, NEW f \in Frames, ReceiveAbort(g, f)
  PROVE  ProcessType' /\ OnlyWhole'
  <1>1. f.req \in Requests
    BY FrameFields
  <1>2. /\ buffers' = [buffers EXCEPT ![g][f.req] = {}]
        /\ UNCHANGED down
    BY DEF ReceiveAbort
  <1>3. aborted' \in [Gens -> SUBSET Requests]
    BY <1>1 DEF ReceiveAbort, ProcessType
  <1>4. PICK k : launched' = [h \in Gens |-> Shortened(launched[h], k[h])]
    BY DEF ReceiveAbort
  <1>5. \A h \in Gens : launched[h] \in Seq(WholeTasks)
    BY DEF OnlyWhole
  <1>6. \A h \in Gens : Shortened(launched[h], k[h]) \in Seq(WholeTasks)
    BY <1>5, ShortenedType
  <1>7. launched' \in [Gens -> Seq(WholeTasks)]
    BY <1>4, <1>6
  <1>8. launched' \in [Gens -> Seq(Tasks)]
    BY <1>4, <1>6, WholeAreTasks
  <1> QED
    BY <1>1, <1>2, <1>3, <1>7, <1>8, BufferKept DEF ProcessType, OnlyWhole

LEMMA FinishType ==
  ASSUME ProcessType, OnlyWhole, NEW g \in Gens, FinishInference(g)
  PROVE  ProcessType' /\ OnlyWhole'
  <1> DEFINE task == Head(launched[g])
  <1>1. launched[g] # <<>> /\ launched' = [launched EXCEPT ![g] = Tail(@)] /\ UNCHANGED buffers
    BY DEF FinishInference, sessionVars
  <1>2. launched[g] \in Seq(Tasks) /\ launched[g] \in Seq(WholeTasks)
    BY DEF ProcessType, OnlyWhole
  <1>3. /\ task \in WholeTasks
        /\ Tail(launched[g]) \in Seq(Tasks) /\ Tail(launched[g]) \in Seq(WholeTasks)
    BY <1>1, <1>2, TailType
  <1>4. launched' \in [Gens -> Seq(Tasks)] /\ launched' \in [Gens -> Seq(WholeTasks)]
    BY <1>1, <1>3, OneKept DEF ProcessType, OnlyWhole
  <1>5. CASE task.req \in aborted[g]
    <2>1. aborted' = [aborted EXCEPT ![g] = @ \ {task.req}] /\ UNCHANGED down
      BY <1>5 DEF FinishInference
    <2> QED
      BY <1>1, <1>4, <2>1 DEF ProcessType, OnlyWhole
  <1>6. CASE task.req \notin aborted[g]
    <2>1. /\ down' = [down EXCEPT ![g] =
                        Append(@, [req |-> task.req, text |-> TRUE, heard |-> task.heard,
                                   cut |-> task.cut])]
          /\ UNCHANGED aborted
      BY <1>6 DEF FinishInference
    <2>2. [req |-> task.req, text |-> TRUE, heard |-> task.heard, cut |-> task.cut]
             \in WholeReplies
      <3>1. /\ task.req \in Requests /\ task.heard \in SUBSET Nat /\ task.cut \in BOOLEAN
            /\ task.heard \subseteq Indices(task.req)
            /\ task.heard = Indices(task.req) \/ task.cut
        BY <1>3 DEF WholeTasks, Tasks
      <3> HIDE DEF task
      <3> QED
        BY <3>1 DEF WholeReplies, Replies
    <2>3. down' \in [Gens -> Seq(Replies)] /\ down' \in [Gens -> Seq(WholeReplies)]
      BY <2>1, <2>2, ReplyKept
    <2> QED
      BY <1>1, <1>4, <2>1, <2>3 DEF ProcessType, OnlyWhole
  <1> QED
    BY <1>5, <1>6

LEMMA ResultType ==
  ASSUME ProcessType, OnlyWhole, NEW g \in Gens, WaitResult(g)
  PROVE  ProcessType' /\ OnlyWhole'
  <1>1. /\ down[g] # <<>> /\ down' = [down EXCEPT ![g] = Tail(@)]
        /\ UNCHANGED <<buffers, launched, aborted>>
    BY DEF WaitResult
  <1>2. down[g] \in Seq(Replies) /\ down[g] \in Seq(WholeReplies)
    BY DEF ProcessType, OnlyWhole
  <1>3. Tail(down[g]) \in Seq(Replies) /\ Tail(down[g]) \in Seq(WholeReplies)
    BY <1>1, <1>2, TailType
  <1>4. down' \in [Gens -> Seq(Replies)] /\ down' \in [Gens -> Seq(WholeReplies)]
    BY <1>1, <1>3, OneKept DEF ProcessType, OnlyWhole
  <1> QED
    BY <1>1, <1>4 DEF ProcessType, OnlyWhole

LEMMA ProcessStep ==
  ASSUME OutboundType, ProcessType, OnlyWhole, [WorkerNext]_vars
  PROVE  ProcessType' /\ OnlyWhole'
  <1>1. ASSUME NEW g \in Gens, PumpLeaves(g) \/ Drop(g) \/ DrainLost(g)
        PROVE  ProcessType' /\ OnlyWhole'
    BY <1>1, GoneType DEF PumpLeaves, Drop, DrainLost
  <1>2. ASSUME NEW g \in Gens, DrainOne(g) PROVE ProcessType' /\ OnlyWhole'
    <2> DEFINE f == Head(outbound)
    <2>1. f \in Frames
      BY <1>2, TailType DEF DrainOne, OutboundType
    <2>2. CASE f.kind = "chunk"
      <3>1. ReceiveChunk(g, f)
        BY <1>2, <2>2 DEF DrainOne
      <3> HIDE DEF f
      <3> QED
        BY <2>1, <2>2, <3>1, ReceiveChunkType
    <2>3. CASE f.kind # "chunk"
      <3>1. ReceiveAbort(g, f)
        BY <1>2, <2>3 DEF DrainOne
      <3> HIDE DEF f
      <3> QED
        BY <2>1, <3>1, ReceiveAbortType
    <2> QED
      BY <2>2, <2>3
  <1>3. ASSUME NEW g \in Gens, WaitResult(g) PROVE ProcessType' /\ OnlyWhole'
    BY <1>3, ResultType
  <1>4. ASSUME NEW g \in Gens, FinishInference(g) PROVE ProcessType' /\ OnlyWhole'
    BY <1>4, FinishType
  <1>5. ASSUME NEW r \in Requests, Requester(r) \/ Expire(r) \/ AbortOne(r)
        PROVE  UNCHANGED workerVars
    BY <1>5 DEF Requester, Begin, PutChunk, PutFull, Register, WaitEnds, WaitTimesOut,
                MediaAbort, Expire, AbortOne
  <1>6. ASSUME NEW g \in Gens,
               \/ Connected(g) \/ Superseded(g) \/ RegisterWake(g) \/ PumpCurrent(g)
               \/ WaitWoken(g) \/ WaitQuiet(g)
        PROVE  UNCHANGED workerVars
    BY <1>6 DEF Connected, Superseded, RegisterWake, PumpCurrent, WaitWoken, WaitQuiet
  <1>7. ASSUME SetPort \/ Close \/ CloseStops \/ AbortAll \/ UNCHANGED vars
        PROVE  UNCHANGED workerVars
    BY <1>7 DEF SetPort, Close, CloseStops, AbortAll, vars
  <1>8. UNCHANGED workerVars => ProcessType' /\ OnlyWhole'
    BY DEF workerVars, ProcessType, OnlyWhole
  <1> QED
    BY <1>1, <1>2, <1>3, <1>4, <1>5, <1>6, <1>7, <1>8 DEF WorkerNext, Session

-----------------------------------------------------------------------------
(* Futures and the map of resolvers.                                         *)

LEMMA FuturesStep ==
  ASSUME ClientType, FutureType, FuturesFollow, [WorkerNext]_vars
  PROVE  FuturesFollow'
  <1> USE DEF ClientType, FutureType, FuturesFollow, Stages, Outcomes
  <1>1. ASSUME NEW q, NEW o \in Outcomes, Settle(q, o), UNCHANGED pc PROVE FuturesFollow'
    BY <1>1 DEF Settle
  <1>2. ASSUME NEW r \in Requests, Begin(r) PROVE FuturesFollow'
    BY <1>2 DEF Begin, futureVars
  <1>3. ASSUME NEW r \in Requests, PutChunk(r) PROVE FuturesFollow'
    BY <1>3 DEF PutChunk, futureVars
  <1>4. ASSUME NEW r \in Requests, PutFull(r) PROVE FuturesFollow'
    BY <1>4 DEF PutFull, futureVars
  <1>5. ASSUME NEW r \in Requests, Register(r) PROVE FuturesFollow'
    BY <1>5 DEF Register
  <1>6. ASSUME NEW r \in Requests, WaitEnds(r) PROVE FuturesFollow'
    BY <1>6 DEF WaitEnds, futureVars
  <1>7. ASSUME NEW r \in Requests, WaitTimesOut(r) PROVE FuturesFollow'
    BY <1>7 DEF WaitTimesOut, futureVars
  <1>8. ASSUME NEW r \in Windows, MediaAbort(r) PROVE FuturesFollow'
    BY <1>8 DEF MediaAbort, Settle, Requests
  <1>9. ASSUME NEW r \in Requests, Expire(r) PROVE FuturesFollow'
    BY <1>9, <1>1 DEF Expire, clientVars
  <1>10. ASSUME NEW r \in Requests, AbortOne(r) PROVE FuturesFollow'
    BY <1>10, <1>1 DEF AbortOne, clientVars
  <1>11. CASE AbortAll
    BY <1>11 DEF AbortAll, clientVars
  <1>12. ASSUME NEW g \in Gens, WaitResult(g) PROVE FuturesFollow'
    BY <1>12 DEF WaitResult, Settle, clientVars
  <1>13. ASSUME NEW g \in Gens,
               \/ Connected(g) \/ Superseded(g) \/ RegisterWake(g) \/ PumpCurrent(g)
               \/ PumpLeaves(g) \/ DrainOne(g) \/ WaitWoken(g) \/ WaitQuiet(g)
               \/ Drop(g) \/ DrainLost(g) \/ FinishInference(g)
         PROVE  UNCHANGED <<pc, fut, resolvers>>
    BY <1>13 DEF Connected, Superseded, RegisterWake, PumpCurrent, PumpLeaves, DrainOne,
                 WaitWoken, WaitQuiet, Drop, DrainLost, FinishInference, clientVars,
                 futureVars
  <1>14. ASSUME SetPort \/ Close \/ CloseStops \/ UNCHANGED vars
         PROVE  UNCHANGED <<pc, fut, resolvers>>
    BY <1>14 DEF SetPort, Close, CloseStops, vars, clientVars, futureVars
  <1> QED
    BY <1>2, <1>3, <1>4, <1>5, <1>6, <1>7, <1>8, <1>9, <1>10, <1>11, <1>12, <1>13, <1>14
    DEF WorkerNext, Requester, Session

-----------------------------------------------------------------------------
(* The inductive invariant and the theorems.                                 *)

IInv == WorkerTypeOK /\ Progress /\ FuturesFollow /\ OnlyWhole

LEMMA InitInv == WorkerInit => IInv
  <1> SUFFICES ASSUME WorkerInit PROVE IInv
    OBVIOUS
  <1>1. Progress /\ FuturesFollow
    BY DEF WorkerInit, Progress, FuturesFollow
  <1>2. OnlyWhole
    BY DEF WorkerInit, OnlyWhole
  <1> QED
    BY InitType, <1>1, <1>2 DEF IInv

LEMMA StepInv == IInv /\ [WorkerNext]_vars => IInv'
  <1> SUFFICES ASSUME IInv, [WorkerNext]_vars PROVE IInv'
    OBVIOUS
  <1> USE DEF IInv, WorkerTypeOK
  <1>1. ClientType' /\ FutureType' /\ Progress' /\ FuturesFollow'
    BY ClientStep, FutureStep, ProgressStep, FuturesStep
  <1>2. OutboundType' /\ SessionType'
    BY OutboundStep, SessionStep
  <1>3. ProcessType' /\ OnlyWhole'
    BY ProcessStep
  <1> QED
    BY <1>1, <1>2, <1>3

(* What the proofs below rest on, in every reachable state: no step of the   *)
(* callers, the sessions or the worker breaks the inductive invariant.       *)
THEOREM InvariantHolds == WorkerSpec => []IInv
  BY InitInv, StepInv, PTL DEF WorkerSpec

(* Every variable of the client, of its sessions and of the worker's end of  *)
(* a connection keeps its type: in particular a frame queued or an inference *)
(* launched is always one of a request that was begun, whatever the ports,   *)
(* connections and aborts did in between.                                    *)
THEOREM WorkerTypeCorrect == WorkerSpec => []WorkerTypeOK
  <1>1. IInv => WorkerTypeOK
    BY DEF IInv
  <1> QED
    BY <1>1, InvariantHolds, PTL

LEMMA WholeIsWhole == ProcessType /\ OnlyWhole => AnswerIsWhole
  <1> SUFFICES ASSUME ProcessType, OnlyWhole, NEW g \in Gens, NEW i \in 1..Len(down[g]),
                      down[g][i].text
               PROVE  down[g][i].heard = Indices(down[g][i].req) \/ down[g][i].cut
    BY DEF AnswerIsWhole
  <1>1. down[g] \in Seq(WholeReplies)
    BY DEF OnlyWhole
  <1>2. down[g][i] \in WholeReplies
    BY <1>1
  <1> QED
    BY <1>2 DEF WholeReplies

(* A text on its way back was made from all the frames of its request: the   *)
(* frames of a request that were lost with a connection, refused by a full   *)
(* queue or split over two connections never yield one.  The only text of a  *)
(* part is that of an inference an abort stopped, of this or of another      *)
(* request.                                                                  *)
THEOREM AnswersAreWhole == WorkerSpec => []AnswerIsWhole
  <1>1. IInv => AnswerIsWhole
    BY WholeIsWhole DEF IInv, WorkerTypeOK
  <1> QED
    BY <1>1, InvariantHolds, PTL

(* A Future that has an outcome is not in the map of resolvers, whichever of *)
(* the session, the timer, the canceller and the media loop ended it.        *)
THEOREM SettledFuturesAreUnmapped == WorkerSpec => []SettledIsUnmapped
  <1>1. IInv => SettledIsUnmapped
    BY DEF IInv, FuturesFollow, SettledIsUnmapped, Outcomes
  <1> QED
    BY <1>1, InvariantHolds, PTL

-----------------------------------------------------------------------------
(* The refinement of RequestContract: what each step is in the contract.     *)

LEMMA ContractInit == WorkerInit => Contract!Init
  BY DEF WorkerInit, Contract!Init, Outcomes

LEMMA Stutters == ASSUME UNCHANGED <<pc, fut>> PROVE UNCHANGED Contract!vars
  BY DEF Contract!vars

StageOf   == [r \in Requests |->
                CASE pc[r] = "idle" -> "new" [] pc[r] = "refused" -> "refused"
                  [] pc[r] = "done" -> "ended" [] OTHER -> "open"]
OutcomeOf == [r \in Requests |-> IF fut[r] \in Outcomes THEN fut[r] ELSE "none"]

(* A requester that moves within "open" stutters in the contract; one that   *)
(* leaves a stage moves on there.                                            *)
LEMMA StageMoves ==
  ASSUME ClientType, NEW r \in Requests, NEW s \in Stages, pc' = [pc EXCEPT ![r] = s]
  PROVE  StageOf' = [StageOf EXCEPT ![r] =
                CASE s = "idle" -> "new" [] s = "refused" -> "refused"
                  [] s = "done" -> "ended" [] OTHER -> "open"]
  BY DEF ClientType, StageOf, Stages

LEMMA SettleAnswers ==
  ASSUME FutureType, FuturesFollow, NEW r, NEW o \in Outcomes, Settle(r, o)
  PROVE  \/ OutcomeOf' = OutcomeOf
         \/ /\ r \in Requests /\ pc[r] \notin {"idle", "put", "register", "refused"}
            /\ OutcomeOf[r] = "none"
            /\ OutcomeOf' = [OutcomeOf EXCEPT ![r] = o]
  BY DEF FutureType, FuturesFollow, Settle, OutcomeOf, Outcomes

LEMMA SettleIsAnswer ==
  ASSUME ClientType, FutureType, FuturesFollow, NEW r, NEW o \in Outcomes,
         Settle(r, o), UNCHANGED pc
  PROVE  [Contract!Next]_(Contract!vars)
  <1>1. UNCHANGED StageOf
    BY DEF StageOf
  <1>2. CASE OutcomeOf' = OutcomeOf
    BY <1>1, <1>2 DEF Contract!vars, StageOf, OutcomeOf
  <1>3. CASE OutcomeOf' # OutcomeOf
    <2>1. /\ r \in Requests /\ pc[r] \notin {"idle", "put", "register", "refused"}
          /\ OutcomeOf[r] = "none"
          /\ OutcomeOf' = [OutcomeOf EXCEPT ![r] = o]
      BY <1>3, SettleAnswers
    <2>2. StageOf[r] \in {"open", "ended"}
      BY <2>1 DEF StageOf, ClientType, Stages
    <2>3. Contract!Answer(r)
      BY <1>1, <2>1, <2>2 DEF Contract!Answer, Contract!Answered, StageOf, OutcomeOf
    <2> QED
      BY <2>1, <2>3 DEF Contract!Next
  <1> QED
    BY <1>2, <1>3

LEMMA BeginRefines ==
  ASSUME ClientType, NEW r \in Requests, Begin(r)
  PROVE  Contract!Next
  <1>1. pc[r] = "idle" /\ UNCHANGED fut
    BY DEF Begin, futureVars
  <1>2. StageOf[r] = "new" /\ UNCHANGED OutcomeOf
    BY <1>1 DEF StageOf, OutcomeOf
  <1>3. CASE portKnown
    <2>1. pc' = [pc EXCEPT ![r] = "put"]
      BY <1>3 DEF Begin
    <2>2. StageOf' = [StageOf EXCEPT ![r] = "open"]
      BY <2>1, StageMoves DEF Stages
    <2>3. Contract!Open(r)
      BY <1>2, <2>2 DEF Contract!Open, Contract!Go, StageOf, OutcomeOf
    <2> QED
      BY <2>3 DEF Contract!Next
  <1>4. CASE ~portKnown
    <2>1. pc' = [pc EXCEPT ![r] = "refused"]
      BY <1>4 DEF Begin
    <2>2. StageOf' = [StageOf EXCEPT ![r] = "refused"]
      BY <2>1, StageMoves DEF Stages
    <2>3. Contract!Refuse(r)
      BY <1>2, <2>2 DEF Contract!Refuse, Contract!Go, StageOf, OutcomeOf
    <2> QED
      BY <2>3 DEF Contract!Next
  <1> QED
    BY <1>3, <1>4

LEMMA PutFullRefines ==
  ASSUME ClientType, NEW r \in Requests, PutFull(r)
  PROVE  Contract!Next
  <1>1. pc[r] = "put" /\ pc' = [pc EXCEPT ![r] = "refused"] /\ UNCHANGED fut
    BY DEF PutFull, futureVars
  <1>2. StageOf[r] = "open" /\ UNCHANGED OutcomeOf
    BY <1>1 DEF StageOf, OutcomeOf
  <1>3. StageOf' = [StageOf EXCEPT ![r] = "refused"]
    BY <1>1, StageMoves DEF Stages
  <1>4. Contract!Refuse(r)
    BY <1>2, <1>3 DEF Contract!Refuse, Contract!Go, StageOf, OutcomeOf
  <1> QED
    BY <1>4 DEF Contract!Next

(* The frames are queued and the Future registered while the request is open. *)
LEMMA QueuingStutters ==
  ASSUME ClientType, FutureType, FuturesFollow, NEW r \in Requests, PutChunk(r) \/ Register(r)
  PROVE  UNCHANGED Contract!vars
  <1>1. StageOf[r] = "open" /\ fut[r] = "none"
    BY DEF PutChunk, Register, StageOf, FuturesFollow
  <1>2. PICK s \in {"put", "register", "wait"} : pc' = [pc EXCEPT ![r] = s]
    <2>1. CASE PutChunk(r)
      BY <2>1 DEF PutChunk
    <2>2. CASE Register(r)
      BY <2>2 DEF Register
    <2> QED
      BY <2>1, <2>2
  <1>3. StageOf' = [StageOf EXCEPT ![r] = "open"]
    BY <1>2, StageMoves DEF Stages
  <1>4. UNCHANGED StageOf
    BY <1>1, <1>3 DEF StageOf
  <1>5. UNCHANGED fut \/ fut' = [fut EXCEPT ![r] = "pending"]
    BY DEF PutChunk, Register, futureVars
  <1>6. UNCHANGED OutcomeOf
    BY <1>1, <1>5 DEF OutcomeOf, Outcomes, FutureType
  <1> QED
    BY <1>4, <1>6 DEF Contract!vars, StageOf, OutcomeOf

(* Whoever waited goes on to the end, or first to its abort.                 *)
LEMMA WaitRefines ==
  ASSUME ClientType, NEW r \in Requests, WaitEnds(r) \/ WaitTimesOut(r)
  PROVE  [Contract!Next]_(Contract!vars)
  <1>1. pc[r] = "wait" /\ UNCHANGED fut
    BY DEF WaitEnds, WaitTimesOut, futureVars
  <1>2. StageOf[r] = "open" /\ UNCHANGED OutcomeOf
    BY <1>1 DEF StageOf, OutcomeOf
  <1>3. PICK s \in {"mediaAbort", "done"} : pc' = [pc EXCEPT ![r] = s]
    BY DEF WaitEnds, WaitTimesOut
  <1>4. CASE s = "done"
    <2>1. StageOf' = [StageOf EXCEPT ![r] = "ended"]
      BY <1>3, <1>4, StageMoves DEF Stages
    <2>2. Contract!End(r)
      BY <1>2, <2>1 DEF Contract!End, Contract!Go, StageOf, OutcomeOf
    <2> QED
      BY <2>2 DEF Contract!Next
  <1>5. CASE s = "mediaAbort"
    <2>1. StageOf' = [StageOf EXCEPT ![r] = "open"]
      BY <1>3, <1>5, StageMoves DEF Stages
    <2>2. UNCHANGED StageOf
      BY <1>2, <2>1 DEF StageOf
    <2> QED
      BY <1>2, <2>2 DEF Contract!vars, StageOf, OutcomeOf
  <1> QED
    BY <1>4, <1>5

(* A window that gives up ends, and cancels what it noted: its own request,  *)
(* or one that was begun between its Begin and its Register.                 *)
LEMMA MediaAbortRefines ==
  ASSUME ClientType, FutureType, FuturesFollow, NEW r \in Windows, MediaAbort(r)
  PROVE  Contract!Next
  <1>1. r \in Requests /\ pc[r] = "mediaAbort" /\ pc' = [pc EXCEPT ![r] = "done"]
        /\ Settle(noted[r], "cancelled")
    BY DEF MediaAbort, Requests
  <1>2. StageOf[r] = "open" /\ StageOf' = [StageOf EXCEPT ![r] = "ended"]
    BY <1>1, StageMoves DEF StageOf, Stages
  <1>3. CASE OutcomeOf' = OutcomeOf
    <2>1. Contract!End(r)
      BY <1>2, <1>3 DEF Contract!End, Contract!Go, StageOf, OutcomeOf
    <2> QED
      BY <1>1, <2>1 DEF Contract!Next
  <1>4. CASE OutcomeOf' # OutcomeOf
    <2>1. "cancelled" \in Outcomes
      BY DEF Outcomes
    <2>2. PICK q \in Requests :
             /\ pc[q] \notin {"idle", "put", "register", "refused"}
             /\ OutcomeOf[q] = "none"
             /\ OutcomeOf' = [OutcomeOf EXCEPT ![q] = "cancelled"]
      BY <1>1, <1>4, <2>1, SettleAnswers
    <2>3. StageOf[q] \in {"open", "ended"}
      BY <2>2 DEF StageOf, ClientType, Stages
    <2>4. Contract!Answered(q)
      BY <2>1, <2>2, <2>3 DEF Contract!Answered, StageOf, OutcomeOf
    <2>5. Contract!Withdraw(r)
      BY <1>2, <2>4 DEF Contract!Withdraw, StageOf
    <2> QED
      BY <1>1, <2>5 DEF Contract!Next
  <1> QED
    BY <1>3, <1>4

LEMMA ContractStep ==
  ASSUME IInv, [WorkerNext]_vars
  PROVE  [Contract!Next]_(Contract!vars)
  <1> USE DEF IInv, WorkerTypeOK
  <1>1. ASSUME NEW r \in Requests, Requester(r) PROVE [Contract!Next]_(Contract!vars)
    BY <1>1, BeginRefines, PutFullRefines, QueuingStutters, WaitRefines, MediaAbortRefines
    DEF Requester
  <1>2. ASSUME NEW r \in Requests, Expire(r) PROVE [Contract!Next]_(Contract!vars)
    BY <1>2, SettleIsAnswer DEF Expire, clientVars, Outcomes
  <1>3. ASSUME NEW r \in Requests, AbortOne(r) PROVE [Contract!Next]_(Contract!vars)
    BY <1>3, SettleIsAnswer DEF AbortOne, clientVars, Outcomes
  <1>4. ASSUME NEW g \in Gens, WaitResult(g) PROVE [Contract!Next]_(Contract!vars)
    <2>1. PICK o \in {"text", "error"} : Settle(Head(down[g]).req, o)
      BY <1>4 DEF WaitResult
    <2>2. UNCHANGED pc /\ o \in Outcomes
      BY <1>4 DEF WaitResult, clientVars, Outcomes
    <2> QED
      BY <2>1, <2>2, SettleIsAnswer
  <1>5. ASSUME NEW g \in Gens,
               \/ Connected(g) \/ Superseded(g) \/ RegisterWake(g) \/ PumpCurrent(g)
               \/ PumpLeaves(g) \/ DrainOne(g) \/ WaitWoken(g) \/ WaitQuiet(g)
               \/ Drop(g) \/ DrainLost(g) \/ FinishInference(g)
         PROVE  UNCHANGED <<pc, fut>>
    BY <1>5 DEF Connected, Superseded, RegisterWake, PumpCurrent, PumpLeaves, DrainOne,
                WaitWoken, WaitQuiet, Drop, DrainLost, FinishInference, clientVars,
                futureVars
  <1>6. ASSUME SetPort \/ Close \/ CloseStops \/ AbortAll \/ UNCHANGED vars
         PROVE  UNCHANGED <<pc, fut>>
    BY <1>6 DEF SetPort, Close, CloseStops, AbortAll, vars, clientVars, futureVars
  <1> QED
    BY <1>1, <1>2, <1>3, <1>4, <1>5, <1>6, Stutters DEF WorkerNext, Session

(* The client implements the safety of RequestContract: a request that was   *)
(* refused is never answered, an answer is given once and stays, and what    *)
(* ended stays ended, under every order of results, expiries, aborts,        *)
(* cancels and changes of port.                                              *)
THEOREM ContractIsKept == WorkerSpec => Contract!Safety
  <1>1. IInv /\ [WorkerNext]_vars => [Contract!Next]_(Contract!vars)
    BY ContractStep
  <1> QED
    BY ContractInit, <1>1, InvariantHolds, PTL DEF WorkerSpec, Contract!Safety
=============================================================================
