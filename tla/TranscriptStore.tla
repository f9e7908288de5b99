---------------------------- MODULE TranscriptStore ----------------------------
(***************************************************************************)
(* The crash-recovery buffer of transcripts (crash_recovery/): a short     *)
(* list in memory, a file, a bounded queue of save requests and the thread *)
(* that serves it.  A dictation adds its text, waits for the queue to be   *)
(* worked off, pastes, and marks the newest entry as pasted; a quit flushes*)
(* the queue, stops the thread and saves twice more.                       *)
(*                                                                         *)
(* A save takes _save_lock, copies the list and writes the file: two steps,*)
(* since the list may change in between.  The file is replaced atomically. *)
(***************************************************************************)
EXTENDS Naturals, Sequences

CONSTANTS
    Texts,       \* bound: dictations 1 .. Texts, each with one text
    Late,        \* those whose cycle was cancelled: they only add, at any time
    Keep,        \* MAX_RECOVERY_ENTRIES
    QueueSize,   \* _SAVE_QUEUE_MAXSIZE
    Troubles,    \* bound: crashes of the process and failed writes of the file
    ExitRaces    \* whether the exit handlers may meet a save

StoreConstants ==
    /\ {Texts, Keep, QueueSize} \subseteq Nat \ {0} /\ Troubles \in Nat
    /\ Late \subseteq 1 .. Texts /\ ExitRaces \in BOOLEAN
ASSUME StoreAssumption == StoreConstants

Dictated == 1 .. Texts
Quitter  == 0             \* the thread that shuts the process down
Saver    == Texts + 1     \* crash-recovery-saver
Flushers == 0 .. Texts
Actors   == 0 .. Texts + 1
Free     == Texts + 2

SaveRequest == Texts + 1
StopRequest == Texts + 2
Entries     == [text : Dictated, pasted : BOOLEAN]

VARIABLES
    entries,  \* _entries
    disk,     \* recovery.json
    queue,    \* _save_queue: requests, the sentinel, and the flushers' events
    event,    \* the waiting flushers whose event is set
    holder,   \* _save_lock
    image,    \* the copy each actor is writing
    stopped,  \* _stopped
    final,    \* _final_save_done
    step,     \* where each actor is
    phase,    \* which of its calls an actor is in
    flushed,  \* history: the texts whose flush came back with True
    failed,   \* history: the last write of the file failed
    dropped,  \* history: a full queue has lost its oldest item
    left      \* troubles left

memory    == <<entries, event, stopped, final>>
storeVars == <<memory, disk, queue, holder, image, step, phase, flushed, failed, dropped, left>>

StoreTypeOK ==
    /\ entries \in Seq(Entries) /\ disk \in Seq(Entries) /\ image \in [Actors -> Seq(Entries)]
    /\ Len(entries) <= Keep /\ Len(disk) <= Keep
    /\ queue \in Seq({SaveRequest, StopRequest} \cup Flushers) /\ Len(queue) <= QueueSize
    /\ event \subseteq Flushers /\ holder \in Actors \cup {Free}
    /\ stopped \in BOOLEAN /\ final \in BOOLEAN
    /\ step \in [Actors -> {"idle", "enqueue", "retry", "save", "write", "flush", "reflush", "wait",
                            "paste", "over", "get", "gone", "stop", "join", "flag", "ended"}]
    /\ phase \in [Flushers -> {"add", "mark", "flush", "fast", "shutdown", "atexit"}]
    /\ flushed \subseteq Dictated /\ failed \in BOOLEAN /\ dropped \in BOOLEAN
    /\ left \in 0 .. Troubles

StoreInit ==
    /\ entries = <<>> /\ disk = <<>> /\ image = [a \in Actors |-> <<>>] /\ queue = <<>> /\ event = {}
    /\ holder = Free /\ stopped = FALSE /\ final = FALSE
    /\ step = [a \in Actors |-> IF a = Saver THEN "get" ELSE "idle"]
    /\ phase = [a \in Flushers |-> "add"]
    /\ flushed = {} /\ failed = FALSE /\ dropped = FALSE
    /\ left = Troubles

Goes(a, where) == step' = [step EXCEPT ![a] = where]
HasRoom        == Len(queue) < QueueSize
Newest(list)   == SubSeq(list, IF Len(list) > Keep THEN 2 ELSE 1, Len(list))
HasTo(a, what) == step[a] = what /\ step[Quitter] # "ended"

\* Bug: the queue has no limit.
PutsUnbounded(a, item, then, otherwise) ==
    queue' = Append(queue, item) /\ Goes(a, then) /\ UNCHANGED dropped

(* An item is queued; a full queue loses its oldest item first.              *)
Offers(a, item, then, otherwise) ==
    IF HasRoom THEN queue' = Append(queue, item) /\ Goes(a, then) /\ UNCHANGED dropped
            ELSE queue' = Tail(queue) /\ Goes(a, otherwise) /\ dropped' = TRUE

(* Where an actor goes on after a save or a request for one.                 *)
After(a) ==
    IF a = Saver THEN IF stopped THEN "gone" ELSE "get"
    ELSE IF a = Quitter THEN IF phase[a] = "shutdown" THEN "idle" ELSE "flag"
    ELSE IF phase[a] = "add" /\ a \notin Late THEN "flush" ELSE "over"

------------------------------------------------------------------------------
(* The dictations.  They come one after the other, but the thread of a       *)
(* cancelled one may add its text at any time.                               *)

Adds(d) ==
    /\ HasTo(d, "idle")
    /\ d \in Late \/ \A e \in 1 .. d - 1 : e \in Late \/ step[e] = "over"
    /\ entries' = Newest(Append(entries, [text |-> d, pasted |-> FALSE]))
    /\ Goes(d, "enqueue")
    /\ UNCHANGED <<disk, queue, event, holder, image, stopped, final, phase, flushed, failed, dropped, left>>

(* _enqueue_save after the thread has been stopped saves in place, and undoes*)
(* the mark the exit handlers left.                                          *)
FinalOnAdd == FALSE

Enqueues(d) ==
    /\ d \in Dictated /\ HasTo(d, "enqueue")
    /\ IF stopped
       THEN final' = FinalOnAdd /\ Goes(d, "save") /\ UNCHANGED <<queue, dropped>>
       ELSE Offers(d, SaveRequest, After(d), "retry") /\ UNCHANGED final
    /\ UNCHANGED <<entries, event, stopped, disk, holder, image, phase, flushed, failed, left>>

(* Somebody may have filled the place that was made: the request is dropped. *)
EnqueuesAgain(d) ==
    /\ HasTo(d, "retry")
    /\ queue' = IF HasRoom THEN Append(queue, SaveRequest) ELSE queue
    /\ Goes(d, After(d))
    /\ UNCHANGED <<memory, disk, holder, image, phase, flushed, failed, dropped, left>>

(* mark_latest_pasted                                                        *)
NewestMarked(list) ==
    [i \in 1 .. Len(list) |-> [text |-> list[i].text, pasted |-> list[i].pasted \/ i = Len(list)]]

(* The text was pasted, or was not; the newest entry is marked.              *)
Pastes(d) ==
    /\ HasTo(d, "paste")
    /\ phase' = [phase EXCEPT ![d] = "mark"]
    /\ \/ Goes(d, "over") /\ UNCHANGED entries
       \/ /\ Goes(d, "enqueue")
          /\ entries' = NewestMarked(entries)
    /\ UNCHANGED <<event, stopped, final, disk, queue, holder, image, flushed, failed, dropped, left>>

------------------------------------------------------------------------------
(* flush(): an event travels through the queue.                              *)

Gives(a) == IF a # Quitter THEN "paste" ELSE IF phase[a] = "fast" THEN "ended" ELSE "stop"

Flushes(a) ==
    /\ HasTo(a, "flush")
    /\ Offers(a, a, "wait", "reflush")
    /\ UNCHANGED <<memory, disk, holder, image, phase, flushed, failed, left>>

FlushesAgain(a) ==
    /\ HasTo(a, "reflush")
    /\ IF HasRoom THEN queue' = Append(queue, a) /\ Goes(a, "wait")
               ELSE Goes(a, Gives(a)) /\ UNCHANGED queue
    /\ UNCHANGED <<memory, disk, holder, image, phase, flushed, failed, dropped, left>>

\* Bug: a flush that timed out counts as one that was answered.
AnsweredAnyway(a) == TRUE

(* flush() is True if its event was set, False after the timeout.            *)
Answered(a) == a \in event

FlushReturns(a) ==
    /\ HasTo(a, "wait")
    /\ flushed' = IF Answered(a) /\ a # Quitter THEN flushed \cup {a} ELSE flushed
    /\ event' = event \ {a}
    /\ Goes(a, Gives(a))
    /\ UNCHANGED <<entries, stopped, final, disk, queue, holder, image, phase, failed, dropped, left>>

------------------------------------------------------------------------------
(* _save_sync                                                                *)

(* The save of the exit handler sets the mark.  Unless ExitRaces, no         *)
(* dictation is then between clearing the mark and its own save.             *)
Finally(a) == a = Quitter /\ phase[a] = "atexit"
NobodySavesInPlace == ExitRaces \/ \A d \in Dictated : step[d] # "save"

SaveBeginsWith(a) ==
    IF final
    THEN Goes(a, After(a)) /\ UNCHANGED <<holder, image>>
    ELSE Goes(a, "write") /\ holder' = a /\ image' = [image EXCEPT ![a] = entries]

\* Bug: nobody waits for the lock.
SaveBeginsUnlocked(a) ==
    /\ HasTo(a, "save") /\ SaveBeginsWith(a)
    /\ UNCHANGED <<memory, disk, queue, phase, flushed, failed, dropped, left>>

SaveBegins(a) ==
    /\ HasTo(a, "save") /\ holder = Free /\ SaveBeginsWith(a)
    /\ UNCHANGED <<memory, disk, queue, phase, flushed, failed, dropped, left>>

SaveEnds(a) ==
    /\ HasTo(a, "write") /\ (Finally(a) => NobodySavesInPlace)
    /\ holder' = Free /\ image' = [image EXCEPT ![a] = <<>>]
    /\ Goes(a, After(a))
    /\ \/ /\ disk' = image[a] /\ failed' = FALSE /\ UNCHANGED left
          /\ final' = (final \/ Finally(a))
       \/ /\ left > 0 /\ left' = left - 1 /\ failed' = TRUE
          /\ UNCHANGED <<disk, final>>
    /\ UNCHANGED <<entries, event, stopped, queue, phase, flushed, dropped>>

(* The thread: requests are saved, events set, the sentinel ends it.         *)
SaverTakes ==
    /\ HasTo(Saver, "get") /\ queue # <<>>
    /\ queue' = Tail(queue)
    /\ LET item == Head(queue)
       IN  /\ event' = IF item \in Flushers /\ step[item] = "wait" THEN event \cup {item} ELSE event
           /\ Goes(Saver, IF item = SaveRequest THEN "save"
                          ELSE IF item = StopRequest THEN "gone" ELSE After(Saver))
    /\ UNCHANGED <<entries, stopped, final, disk, holder, image, phase, flushed, failed, dropped, left>>

------------------------------------------------------------------------------
(* Shutting down: teardown_crash_recovery and the exit handler, or the fast  *)
(* clean-up of a logoff, which only flushes.                                 *)

QuitBegins ==
    /\ step[Quitter] = "idle" /\ phase[Quitter] = "add"
    /\ \E way \in {"flush", "fast"} : phase' = [phase EXCEPT ![Quitter] = way]
    /\ Goes(Quitter, "flush")
    /\ UNCHANGED <<memory, disk, queue, holder, image, flushed, failed, dropped, left>>

Stops ==
    /\ step[Quitter] = "stop"
    /\ stopped' = TRUE
    /\ queue' = IF HasRoom THEN Append(queue, StopRequest) ELSE queue
    /\ Goes(Quitter, "join")
    /\ UNCHANGED <<entries, event, final, disk, holder, image, phase, flushed, failed, dropped, left>>

(* The thread is gone, or a second is over; then the last save of shutdown().*)
JoinsSaver ==
    /\ step[Quitter] = "join"
    /\ phase' = [phase EXCEPT ![Quitter] = "shutdown"]
    /\ Goes(Quitter, "save")
    /\ UNCHANGED <<memory, disk, queue, holder, image, flushed, failed, dropped, left>>

AtExit ==
    /\ step[Quitter] = "idle" /\ phase[Quitter] = "shutdown"
    /\ phase' = [phase EXCEPT ![Quitter] = "atexit"]
    /\ Goes(Quitter, "save")
    /\ UNCHANGED <<memory, disk, queue, holder, image, flushed, failed, dropped, left>>

(* _atexit_flush_all sets the mark once more, without a lock.                *)
Flags ==
    /\ step[Quitter] = "flag"
    /\ NobodySavesInPlace
    /\ final' = TRUE
    /\ phase' = [phase EXCEPT ![Quitter] = "flush"]
    /\ Goes(Quitter, "idle")
    /\ UNCHANGED <<entries, event, stopped, disk, queue, holder, image, flushed, failed, dropped, left>>

Quits ==
    /\ step[Quitter] = "idle" /\ phase[Quitter] = "flush"
    /\ Goes(Quitter, "ended")
    /\ UNCHANGED <<memory, disk, queue, holder, image, phase, flushed, failed, dropped, left>>

TextsOf(list) == {list[i].text : i \in 1 .. Len(list)}

(* The process dies; the next one loads the file before it listens.          *)
Crash ==
    /\ left > 0 /\ left' = left - 1
    /\ entries' = disk /\ queue' = <<>> /\ event' = {} /\ holder' = Free
    /\ stopped' = FALSE /\ final' = FALSE
    /\ step' = [a \in Actors |-> IF a = Saver THEN "get"
                                 ELSE IF a = Quitter \/ step[a] = "idle" THEN "idle" ELSE "over"]
    /\ phase' = [phase EXCEPT ![Quitter] = "add"]
    /\ image' = [a \in Actors |-> <<>>]
    /\ flushed' = IF failed THEN flushed \cap TextsOf(disk) ELSE flushed
    /\ failed' = FALSE
    /\ UNCHANGED <<disk, dropped>>

StoreNext ==
    \/ \E d \in Dictated : Adds(d) \/ Enqueues(d) \/ EnqueuesAgain(d) \/ Pastes(d)
    \/ \E a \in Flushers : Flushes(a) \/ FlushesAgain(a) \/ FlushReturns(a)
    \/ \E a \in Actors : SaveBegins(a) \/ SaveEnds(a)
    \/ SaverTakes
    \/ QuitBegins \/ Stops \/ JoinsSaver \/ AtExit \/ Flags \/ Quits
    \/ Crash

StoreSpec == StoreInit /\ [][StoreNext]_storeVars

------------------------------------------------------------------------------
(* FlushedIsOnDisk: once flush() has told a dictation that its text is       *)
(* saved, the text stays in the file, through crashes and an exit, until     *)
(* Keep texts have pushed it out; no late writer brings an older list back.  *)
(* Excepted are a queue that was full, and a write that failed, which flush()*)
(* does not notice: the next write that succeeds makes up for it.            *)
FlushedIsOnDisk ==
    ~failed /\ ~dropped => \A d \in flushed : d \in TextsOf(disk) \/ Len(disk) = Keep

(* QuietIsSaved: when nobody is about to ask for a save or to make one, the  *)
(* file is the list: no request that was dropped from the queue, no change   *)
(* after the last copy, no entry that came while the process was going down  *)
(* is left out.                                                              *)
Quiet ==
    /\ \A d \in Dictated : step[d] \in {"idle", "flush", "wait", "paste", "over"}
    /\ step[Quitter] = "idle"
    /\ step[Saver] = "gone" \/ (step[Saver] = "get" /\ queue = <<>>)
QuietIsSaved == ~failed /\ Quiet => disk = entries

(* MarksItsOwn: the text of a cancelled cycle, which was never pasted, is    *)
(* not marked as pasted.                                                     *)
MarksItsOwn == \A i \in 1 .. Len(entries) : entries[i].pasted => entries[i].text \notin Late
=============================================================================
