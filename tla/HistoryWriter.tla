----------------------------- MODULE HistoryWriter -----------------------------
(***************************************************************************)
(* The write queue of the history database and the one thread that serves  *)
(* it: history_db_internals/writer.py, writer_submit.py, writer_inserts.py *)
(* and the callers' side of crud_writes.py and lifecycle.py.               *)
(*                                                                         *)
(* A saver puts a transcription and goes on; an asker puts a closure with  *)
(* a Future (delete, restore, clear, favourite, flush) and waits; the      *)
(* closer puts the checkpoint, waits, and puts the sentinel.  Everybody    *)
(* does so once, so that a caller's name is also its item's.  Nothing      *)
(* holds a lock from one queue operation to the next.                      *)
(***************************************************************************)
EXTENDS Naturals, Sequences, FiniteSets

CONSTANTS
    Savers,        \* callers of add_transcription
    Askers,        \* callers of _submit_write that wait
    Clears,        \* those of the Askers whose closure is clear_all
    WritesLimit,   \* _WRITE_QUEUE_MAXSIZE
    BatchCap,      \* _BATCH_INSERT_CAP
    WriteFaults    \* bound: failures of the database

Closer   == "closer"
Sentinel == "sentinel"
Nothing  == "nothing"

HistoryConstants ==
    /\ {WritesLimit, BatchCap} \subseteq Nat \ {0} /\ WriteFaults \in Nat
    /\ Clears \subseteq Askers /\ Savers \cap Askers = {}
    /\ {Closer, Sentinel, Nothing} \cap (Savers \cup Askers) = {}
ASSUME HistoryAssumption == HistoryConstants

Waiters == Askers \cup {Closer}
Callers == Savers \cup Waiters
Items   == Callers \cup {Sentinel}

VARIABLES
    writes,     \* _queue
    closing,    \* _shutdown
    call,       \* where each caller is
    future,     \* the Future of each waiter
    mode,       \* what the writer thread is doing
    draining,   \* it is in _drain_remaining
    batch,      \* the inserts it has collected
    held,       \* the other item it holds
    rows,       \* the table of transcriptions
    accepted,   \* the savers that were told their write is queued
    settled,    \* savers whose row was inserted, or given up for a known cause (history)
    late,       \* savers whose put came when the thread was gone (history)
    faulted     \* failures so far

historyVars_ == <<writes, closing, call, future, mode, draining, batch, held, rows,
                  accepted, settled, late, faulted>>

WriterGone == mode \in {"closed", "dead"}

HistoryTypeOK ==
    /\ writes \in Seq(Items) /\ Len(writes) <= WritesLimit
    /\ closing \in BOOLEAN /\ draining \in BOOLEAN
    /\ call \in [Callers -> {"idle", "put", "drop", "restore", "retry", "wait",
                             "sentinel", "refit", "fit", "join", "over"}]
    /\ future \in [Waiters -> {"open", "done", "error"}]
    /\ mode \in {"get", "collect", "back", "insert", "run", "closed", "dead"}
    /\ batch \in Seq(Savers) /\ Len(batch) <= BatchCap
    /\ held \in Waiters \cup {Sentinel, Nothing}
    /\ {rows, accepted, settled, late} \subseteq SUBSET Savers
    /\ faulted \in 0..WriteFaults

HistoryInit ==
    /\ writes = <<>> /\ closing = FALSE
    /\ call = [c \in Callers |-> "idle"]
    /\ future = [w \in Waiters |-> "open"]
    /\ mode = "get" /\ draining = FALSE /\ batch = <<>> /\ held = Nothing
    /\ rows = {} /\ accepted = {} /\ settled = {} /\ late = {}
    /\ faulted = 0

----------------------------------------------------------------------------
(* The callers.                                                              *)

Is(c, stage)    == call[c] = stage
Moves(c, stage) == call' = [call EXCEPT ![c] = stage]
Room            == Len(writes) < WritesLimit

\* Sets the futures of `some` that nobody has set before.
Resolve(some, result) ==
    future' = [w \in Waiters |-> IF w \in some /\ future[w] = "open" THEN result ELSE future[w]]

writerVars == <<mode, draining, batch, held, rows, faulted>>

\* The refusals: the thread is gone, or close() has begun.
Calls(c) ==
    /\ c # Closer /\ Is(c, "idle")
    /\ Moves(c, IF WriterGone \/ closing THEN "over" ELSE "put")
    /\ UNCHANGED <<writes, closing, future, writerVars, accepted, settled, late>>

CloseBegins ==
    /\ Is(Closer, "idle")
    /\ closing' = TRUE
    /\ Moves(Closer, IF WriterGone THEN "sentinel" ELSE "put")
    /\ UNCHANGED <<writes, future, writerVars, accepted, settled, late>>

\* The item is queued: a saver is done, the others wait for their Future.
Queues(c) ==
    /\ writes' = Append(writes, c)
    /\ Moves(c, IF c \in Savers THEN "over" ELSE "wait")
    /\ accepted' = IF c \in Savers THEN accepted \cup {c} ELSE accepted
    /\ late' = IF c \in Savers /\ WriterGone THEN late \cup {c} ELSE late

Puts(c) ==
    /\ Is(c, "put")
    /\ IF Room
       THEN Queues(c)
       ELSE Moves(c, "drop") /\ UNCHANGED <<writes, accepted, late>>
    /\ UNCHANGED <<closing, future, writerVars, settled>>

\* What is dropped is told so, if it can be told.
Dropped(item) ==
    /\ Resolve({item}, "error")
    /\ settled' = IF item \in Savers THEN settled \cup {item} ELSE settled

\* _drop_oldest_for_overflow takes the oldest item out; the sentinel goes back.
DropsOldest(c) ==
    /\ Is(c, "drop")
    /\ IF writes = <<>>
       THEN Moves(c, "retry") /\ UNCHANGED <<writes, future, settled>>
       ELSE /\ writes' = Tail(writes)
            /\ Moves(c, IF Head(writes) = Sentinel THEN "restore" ELSE "retry")
            /\ Dropped(Head(writes))
    /\ UNCHANGED <<closing, writerVars, accepted, late>>

\* If somebody was faster the sentinel is lost.
RestoresSentinel(c) ==
    /\ Is(c, "restore")
    /\ writes' = IF Room THEN Append(writes, Sentinel) ELSE writes
    /\ Resolve({c}, "error")
    /\ Moves(c, "retry")
    /\ UNCHANGED <<closing, writerVars, accepted, settled, late>>

PutsAgain(c) ==
    /\ Is(c, "retry")
    /\ IF Room
       THEN Queues(c) /\ UNCHANGED future
       ELSE /\ Resolve({c}, "error")
            /\ Moves(c, IF c \in Savers THEN "over" ELSE "wait")
            /\ UNCHANGED <<writes, accepted, late>>
    /\ UNCHANGED <<closing, writerVars, settled>>

AfterWait(c) == IF c = Closer THEN "sentinel" ELSE "over"

Returns(c) ==
    /\ Is(c, "wait") /\ future[c] # "open"
    /\ Moves(c, AfterWait(c))
    /\ UNCHANGED <<writes, closing, future, writerVars, accepted, settled, late>>

\* Mutant of Patient: only a dead thread ends the wait.
PatientWithTheLiving(c) == ~WriterGone

\* The total deadline ends any wait, the death of the thread ends it earlier.
Patient(c) == FALSE

GivesUp(c) ==
    /\ Is(c, "wait") /\ future[c] = "open" /\ ~Patient(c)
    /\ Moves(c, AfterWait(c))
    /\ UNCHANGED <<writes, closing, future, writerVars, accepted, settled, late>>

PutsSentinel ==
    /\ Is(Closer, "sentinel")
    /\ writes' = IF Room THEN Append(writes, Sentinel) ELSE writes
    /\ Moves(Closer, IF Room THEN "join" ELSE "refit")
    /\ UNCHANGED <<closing, future, writerVars, accepted, settled, late>>

\* One item goes for the sentinel; an empty queue ends the loop without it.
RefitDrops ==
    /\ Is(Closer, "refit")
    /\ IF writes = <<>>
       THEN Moves(Closer, "join") /\ UNCHANGED <<writes, future, settled>>
       ELSE /\ writes' = Tail(writes)
            /\ Moves(Closer, "fit")
            /\ Dropped(Head(writes))
    /\ UNCHANGED <<closing, writerVars, accepted, late>>

RefitPuts ==
    /\ Is(Closer, "fit")
    /\ writes' = IF Room THEN Append(writes, Sentinel) ELSE writes
    /\ Moves(Closer, IF Room THEN "join" ELSE "refit")
    /\ UNCHANGED <<closing, future, writerVars, accepted, settled, late>>

\* The join has a time-out.
Joins ==
    /\ Is(Closer, "join")
    /\ Moves(Closer, "over")
    /\ UNCHANGED <<writes, closing, future, writerVars, accepted, settled, late>>

----------------------------------------------------------------------------
(* The writer thread.                                                        *)

callVars == <<closing, call, accepted, late>>

\* Mutant of AfterSentinel: the thread leaves when it meets the sentinel.
LeavesAtSentinel == "closed"

\* What was queued behind the sentinel is still written.
AfterSentinel == "get"

WriterTakes ==
    /\ mode = "get" /\ writes # <<>>
    /\ writes' = Tail(writes)
    /\ LET item == Head(writes)
       IN  /\ mode' = IF item = Sentinel THEN AfterSentinel
                      ELSE IF item \in Savers THEN "collect" ELSE "run"
           /\ draining' = (draining \/ item = Sentinel)
           /\ batch' = IF item \in Savers THEN <<item>> ELSE <<>>
           /\ held' = IF item \in Waiters THEN item ELSE Nothing
    /\ UNCHANGED <<callVars, future, rows, settled, faulted>>

WriterLeaves ==
    /\ mode = "get" /\ draining /\ writes = <<>>
    /\ mode' = "closed"
    /\ UNCHANGED <<writes, callVars, future, draining, batch, held, rows, settled, faulted>>

\* Inserts are collected up to the cap; what is not one is taken out as well.
WriterCollects ==
    /\ mode = "collect"
    /\ IF writes = <<>> \/ Len(batch) = BatchCap
       THEN mode' = "insert" /\ UNCHANGED <<writes, batch, held>>
       ELSE /\ writes' = Tail(writes)
            /\ IF Head(writes) \in Savers
               THEN batch' = Append(batch, Head(writes)) /\ UNCHANGED <<mode, held>>
               ELSE held' = Head(writes) /\ mode' = "back" /\ UNCHANGED batch
    /\ UNCHANGED <<callVars, future, draining, rows, settled, faulted>>

\* It goes to the other end of the queue, and is lost when that is full again.
WriterPutsBack ==
    /\ mode = "back"
    /\ writes' = IF Room THEN Append(writes, held) ELSE writes
    /\ held' = Nothing
    /\ mode' = "insert"
    /\ UNCHANGED <<callVars, future, draining, batch, rows, settled, faulted>>

Collected == {batch[i] : i \in DOMAIN batch}

WriterInserts ==
    /\ mode = "insert"
    /\ rows' = rows \cup Collected
    /\ settled' = settled \cup Collected
    /\ mode' = "get" /\ batch' = <<>>
    /\ UNCHANGED <<writes, callVars, future, draining, held, faulted>>

\* The batch is lost, and the thread with it unless it is draining.
InsertFails ==
    /\ mode = "insert" /\ faulted < WriteFaults
    /\ faulted' = faulted + 1
    /\ settled' = settled \cup Collected
    /\ mode' = IF draining THEN "get" ELSE "dead"
    /\ batch' = <<>>
    /\ UNCHANGED <<writes, callVars, future, draining, held, rows>>

WriterRuns ==
    /\ mode = "run"
    /\ \/ /\ rows' = IF held \in Clears THEN {} ELSE rows
          /\ Resolve({held}, "done")
          /\ UNCHANGED faulted
       \/ /\ faulted < WriteFaults
          /\ faulted' = faulted + 1
          /\ Resolve({held}, "error")
          /\ UNCHANGED rows
    /\ mode' = "get" /\ held' = Nothing
    /\ UNCHANGED <<writes, callVars, draining, batch, settled>>

----------------------------------------------------------------------------
CallerSteps(c) ==
    \/ Puts(c) \/ DropsOldest(c) \/ RestoresSentinel(c) \/ PutsAgain(c)
    \/ c \in Waiters /\ (Returns(c) \/ GivesUp(c))

CloserSteps == PutsSentinel \/ RefitDrops \/ RefitPuts \/ Joins

WriterSteps ==
    \/ WriterTakes \/ WriterLeaves \/ WriterCollects \/ WriterPutsBack
    \/ WriterInserts \/ InsertFails \/ WriterRuns

HistoryNext ==
    \/ \E c \in Callers : Calls(c) \/ CallerSteps(c)
    \/ CloseBegins \/ CloserSteps \/ WriterSteps

\* Every thread that has something to do goes on; nobody has to call.
HistoryFairness ==
    /\ \A c \in Callers : WF_historyVars_(CallerSteps(c))
    /\ WF_historyVars_(CloserSteps) /\ WF_historyVars_(WriterSteps)

HistorySpec == HistoryInit /\ [][HistoryNext]_historyVars_ /\ HistoryFairness

----------------------------------------------------------------------------
(* Properties.                                                               *)

\* A transcription whose caller was told that it is queued is written, or is
\* given up where the log says so (dropped for room, failed with its batch),
\* also when close() runs meanwhile; the exceptions are a dead thread, and a
\* put that comes after the thread has left.
AcceptedIsSettled == []<>(accepted \ late \subseteq settled \/ mode = "dead")

\* Every caller returns, whatever became of its item: a dead thread, an item
\* that was dropped, or one that was lost on its way back into the queue.
CallsReturn == []<>(\A c \in Callers : call[c] \in {"idle", "over"})

\* The items in the order in which they were put, the one on its way back first.
Line == IF mode = "back" THEN <<held>> \o writes ELSE writes

Precedes(a, b, line) ==
    \E i, j \in DOMAIN line : i < j /\ line[i] = a /\ line[j] = b

\* writer_submit.py's flush: the queue is first in, first out.
WritesKeepOrder ==
    [][\A a, b \in Waiters \cup Savers :
          Precedes(a, b, Line) => ~Precedes(b, a, Line')]_historyVars_

\* writer_submit.py: a caller that was told "new write dropped" has not written.
DroppedNeverRuns ==
    [][mode = "run" /\ mode' = "get" => future[held] = "open"]_historyVars_

\* The sentinel, once put, ends the thread.
SentinelArrives == Is(Closer, "join") ~> WriterGone
=============================================================================
