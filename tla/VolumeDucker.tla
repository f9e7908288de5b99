----------------------------- MODULE VolumeDucker -----------------------------
(***************************************************************************)
(* The system volume during dictations.  The start worker of a dictation   *)
(* lowers it (duck), whoever ends the dictation brings it back (restore),  *)
(* and when nothing was playing at the start a monitor thread lowers it    *)
(* later (smart duck).  duck and the monitor fade outside _lock, restore   *)
(* fades under it.  A small file names the volume to bring back, should    *)
(* the process die meanwhile.                                              *)
(*                                                                         *)
(* A fade is two steps, one to a level in between and one to its target;   *)
(* whoever writes the volume last wins.  Reads and writes of one section   *)
(* under _lock are one step.                                               *)
(*                                                                         *)
(* Backend and file may fail.  A level that cannot be read is none; a      *)
(* write of the volume is lost without a word, as in the many small writes *)
(* of a fade in the process, or it is reported (False), as by a tool run   *)
(* as a process of its own, which may have set the volume all the same; or *)
(* it raises.  A file that cannot be written or deleted stays as it was.   *)
(* All that fails in one step is one fault.                                *)
(***************************************************************************)
EXTENDS Naturals

CONSTANTS
    Dictations,   \* bound: dictations 1 .. Dictations
    Crashes,      \* bound: crashes of the process
    Faults,       \* bound: steps in which the backend or the file fails
    VolumeRaces   \* the timing assumptions below that may be broken

DuckerConstants ==
    /\ Dictations \in Nat \ {0} /\ Crashes \in Nat /\ Faults \in Nat
    /\ VolumeRaces \subseteq {"duck", "monitor", "user", "overlap"}
ASSUME DuckerAssumption == DuckerConstants

Sessions  == 1 .. Dictations
Restorers == {"starter", "ender"}   \* who calls restore() for a dictation
NoLevel   == "none"
NoOne     == 0
Levels    == {"full", "mid", "low", "other"}

VARIABLES
    volume,      \* what the backend would report
    wanted,      \* ghost: the level the user last chose
    stale,       \* duck_crash_recovery.json: the level it names, or none
    session,     \* the newest dictation
    recording,   \* recorder.recording
    initialized, \* _initialized
    saved,       \* _saved_state
    ducked,      \* _actually_ducked
    fades,       \* _duck_fades_in_flight
    restorer,    \* _lock while a restore fades under it
    dpc,         \* the start worker of each dictation
    mine,        \* its saved_state, a local
    first,       \* its is_first_duck
    rpc,         \* the calls of restore()
    goal,        \* their target
    mpc,         \* the monitor thread each dictation started
    monitor,     \* _monitor_thread
    mstop,       \* _monitor_stop
    damage,      \* ghost: what the faults have done, see below
    chances      \* crashes and faults left

levelVars   == <<volume, wanted, stale>>
stateVars   == <<initialized, saved, ducked, fades, restorer>>
duckVars    == <<dpc, mine, first>>
restoreVars == <<rpc, goal>>
monitorVars == <<mpc, monitor, mstop>>
duckerVars  == <<levelVars, session, recording, stateVars, duckVars, restoreVars, monitorVars,
                 damage, chances>>

DuckerTypeOK ==
    /\ {volume, wanted} \subseteq Levels /\ stale \in Levels \cup {NoLevel}
    /\ session \in 0 .. Dictations /\ recording \in BOOLEAN /\ initialized \in BOOLEAN
    /\ saved \in Levels \cup {NoLevel} /\ ducked \in BOOLEAN /\ fades \in 0 .. Dictations
    /\ restorer \in {<<>>} \cup (Sessions \X Restorers)
    /\ dpc \in [Sessions -> {"idle", "start", "duck", "fade", "lower", "settle", "recheck", "done"}]
    /\ mine \in [Sessions -> Levels \cup {NoLevel}] /\ first \in [Sessions -> BOOLEAN]
    /\ rpc \in [Sessions \X Restorers -> {"idle", "restore", "fade", "set", "done"}]
    /\ goal \in [Sessions \X Restorers -> Levels \cup {NoLevel}]
    /\ mpc \in [Sessions -> {"off", "wait", "asked", "fade", "lower", "settle", "failed", "done"}]
    /\ monitor \in Sessions \cup {NoOne} /\ mstop \in BOOLEAN
    /\ chances \in [crashes : 0 .. Crashes, faults : 0 .. Faults]
    /\ damage \in {"none", "unsaved", "kept", "lost"}

DuckerInit ==
    /\ volume = "full" /\ wanted = "full" /\ stale = NoLevel
    /\ session = 0 /\ recording = FALSE /\ initialized = FALSE
    /\ saved = NoLevel /\ ducked = FALSE /\ fades = 0 /\ restorer = <<>>
    /\ dpc = [s \in Sessions |-> "idle"] /\ mine = [s \in Sessions |-> NoLevel]
    /\ first = [s \in Sessions |-> FALSE]
    /\ rpc = [x \in Sessions \X Restorers |-> "idle"] /\ goal = [x \in Sessions \X Restorers |-> NoLevel]
    /\ mpc = [s \in Sessions |-> "off"] /\ monitor = NoOne /\ mstop = FALSE
    /\ chances = [crashes |-> Crashes, faults |-> Faults] /\ damage = "none"

LockFree == restorer = <<>>

(* What the faults have done.  "unsaved": the volume is being lowered and no *)
(* file names the user's.  "kept": something failed, and no restore has come *)
(* through nor has the process been restarted since; the file still names    *)
(* the user's level.  "lost": nothing does any more.                         *)
Spoils ==
    /\ chances.faults > 0
    /\ chances' = [chances EXCEPT !.faults = @ - 1]
Might(fails) == IF fails THEN Spoils ELSE UNCHANGED chances
Harm         == IF damage # "lost" /\ stale' = wanted THEN "kept" ELSE "lost"
Mended       == IF damage = "lost" THEN "lost" ELSE "none"

(* A section takes a level for the user's that is not, after a fault.        *)
Misled(level) == damage = "kept" /\ level # wanted
(* DuckCrashRecovery.save: the file names the level, or stays as it was.     *)
Saves(level, fails) ==
    /\ stale' = IF fails THEN stale ELSE level
    /\ damage' = IF Misled(level) THEN "lost"
                 ELSE IF damage \in {"kept", "lost"} THEN damage
                 ELSE IF fails THEN "unsaved" ELSE "none"

Lowers(pc) == pc \in {"fade", "lower"}
(* Timing assumptions, each unless in VolumeRaces: the process does not die  *)
(* between a restore and the repair by the start worker whose fade it        *)
(* overlapped.  No restore begins in the fifth of a second a monitor takes   *)
(* to lower the volume.  The user does not touch the volume while it is      *)
(* being changed or about to be, while a monitor waits to lower it, or       *)
(* before the next start has repaired that of a crash.  A dictation starts   *)
(* when the fade of the start worker before is over, and if before its       *)
(* restore, the user has not touched the volume.                             *)
NoFadeOutlivesRestore ==
    "duck" \notin VolumeRaces =>
        \A s \in Sessions : dpc[s] \in {"fade", "lower", "settle"} => saved # NoLevel
MonitorFadesAreOver ==
    "monitor" \notin VolumeRaces =>
        \A s \in Sessions : mpc[s] \notin {"fade", "lower", "settle", "failed"}
NobodyChangesIt ==
    /\ \A s \in Sessions : /\ dpc[s] \notin {"fade", "lower", "settle"}
                           /\ mpc[s] \notin {"asked", "fade", "lower", "settle", "failed"}
    /\ \A x \in Sessions \X Restorers : rpc[x] \notin {"fade", "set"}
NobodyIsAboutTo ==
    \A s \in Sessions : dpc[s] \in {"idle", "done"} /\ rpc[<<s, "starter">>] \in {"idle", "done"}
UserMayTouch ==
    "user" \notin VolumeRaces =>
        /\ NobodyChangesIt /\ NobodyIsAboutTo
        /\ \A s \in 1 .. session - 1 : rpc[<<s, "ender">>] # "restore"
        /\ saved # NoLevel \/ stale # NoLevel => ducked \/ damage = "kept"
LastOneIsOver ==
    "overlap" \notin VolumeRaces /\ session > 0 =>
        /\ dpc[session] \in {"recheck", "done"}
        /\ wanted = "full" \/ rpc[<<session, "ender">>] \in {"idle", "done"}

------------------------------------------------------------------------------
(* The dictations and the user, as the ducker sees them.                     *)

RecordingStarts ==
    /\ ~recording /\ session < Dictations /\ LastOneIsOver
    /\ session' = session + 1 /\ recording' = TRUE
    /\ dpc' = [dpc EXCEPT ![session'] = "start"]
    /\ UNCHANGED <<levelVars, stateVars, mine, first, restoreVars, monitorVars, damage, chances>>

RecordingEnds ==
    /\ recording /\ recording' = FALSE
    /\ rpc' = [rpc EXCEPT ![<<session, "ender">>] = "restore"]
    /\ UNCHANGED <<levelVars, session, stateVars, duckVars, goal, monitorVars, damage, chances>>

(* A volume that a failed restore left low may be turned up by hand: what    *)
(* is saved, or in the file, is no longer the user's.                        *)
UserSets ==
    /\ wanted = "full" /\ UserMayTouch
    /\ volume' = "other" /\ wanted' = "other"
    /\ damage' = IF damage = "kept" THEN "lost" ELSE damage
    /\ UNCHANGED <<stale, session, recording, stateVars, duckVars, restoreVars, monitorVars, chances>>

(* The process dies; its threads with it.  The next one finds the file, if   *)
(* it was written.  What the file names counts as the user's choice.         *)
AppCrashes ==
    /\ chances.crashes > 0 /\ NoFadeOutlivesRestore
    /\ chances' = [chances EXCEPT !.crashes = @ - 1]
    /\ wanted' = IF stale = NoLevel THEN wanted ELSE stale
    /\ damage' = IF damage = "unsaved" THEN "lost" ELSE Mended
    /\ recording' = FALSE /\ initialized' = FALSE
    /\ saved' = NoLevel /\ ducked' = FALSE /\ fades' = 0 /\ restorer' = <<>>
    /\ dpc' = [s \in Sessions |-> IF s > session THEN "idle" ELSE "done"]
    /\ rpc' = [x \in Sessions \X Restorers |-> IF x[1] > session THEN "idle" ELSE "done"]
    /\ mpc' = [s \in Sessions |-> IF s > session THEN "off" ELSE "done"]
    /\ monitor' = NoOne /\ mstop' = FALSE
    /\ UNCHANGED <<volume, stale, session, mine, first, goal>>

------------------------------------------------------------------------------
(* The start worker: _duck_volume, then the compensation for a dictation     *)
(* that ended meanwhile.                                                     *)

Recovers == ~initialized /\ stale # NoLevel

(* initialize() is idempotent; its first call repairs the volume a crashed   *)
(* process left behind, and deletes the file.                                *)
Initializes(s) ==
    /\ dpc[s] = "start"
    /\ dpc' = [dpc EXCEPT ![s] = IF recording THEN "duck" ELSE "done"]
    /\ initialized' = (initialized \/ recording)
    /\ volume' = IF recording /\ Recovers THEN stale ELSE volume
    /\ stale' = IF recording /\ ~initialized THEN NoLevel ELSE stale
    /\ UNCHANGED <<wanted, session, recording, saved, ducked, fades, restorer, mine, first,
                   restoreVars, monitorVars, damage, chances>>

(* The backend is not ready, or raises in the repair: _initialized is set,   *)
(* and the repair never tried again.  A write that reports its failure is    *)
(* not noticed, and the file is deleted; or that fails.                      *)
InitializeFails(s) ==
    /\ dpc[s] = "start" /\ recording /\ ~initialized /\ Spoils
    /\ initialized' = TRUE
    /\ \/ UNCHANGED <<volume, stale>> /\ dpc' = [dpc EXCEPT ![s] = "recheck"]
       \/ /\ Recovers /\ dpc' = [dpc EXCEPT ![s] = "duck"]
          /\ \/ stale' = NoLevel /\ UNCHANGED volume
             \/ volume' = stale /\ UNCHANGED stale
    /\ damage' = IF Recovers THEN Harm ELSE damage
    /\ UNCHANGED <<wanted, session, recording, saved, ducked, fades, restorer, mine, first,
                   restoreVars, monitorVars>>

(* Nothing is playing: the state is saved, and a monitor waits for sound.    *)
StartsMonitor(s) ==
    IF monitor # NoOne /\ mpc[monitor] # "done"
    THEN UNCHANGED monitorVars
    ELSE /\ mstop' = FALSE /\ monitor' = s
         /\ mpc' = [mpc EXCEPT ![s] = "wait"]

DuckSkips(s) ==
    /\ dpc[s] = "duck" /\ LockFree /\ saved = NoLevel
    /\ saved' = volume /\ ducked' = FALSE
    /\ damage' = IF Misled(volume) THEN "lost" ELSE damage
    /\ StartsMonitor(s)
    /\ dpc' = [dpc EXCEPT ![s] = "recheck"]
    /\ UNCHANGED <<levelVars, session, recording, initialized, fades, restorer, mine, first,
                   restoreVars, chances>>

(* The volume cannot be read, and is not lowered.                            *)
DuckReadsNothing(s) ==
    /\ dpc[s] = "duck" /\ LockFree /\ saved = NoLevel /\ Spoils
    /\ dpc' = [dpc EXCEPT ![s] = "recheck"]
    /\ UNCHANGED <<levelVars, session, recording, stateVars, mine, first, restoreVars, monitorVars,
                   damage>>

(* Lowered even if the file cannot be written.                               *)
DuckBegins(s, fails) ==
    /\ dpc[s] = "duck" /\ LockFree /\ saved = NoLevel /\ Might(fails)
    /\ saved' = volume /\ Saves(volume, fails) /\ fades' = fades + 1
    /\ mine' = [mine EXCEPT ![s] = volume] /\ first' = [first EXCEPT ![s] = TRUE]
    /\ dpc' = [dpc EXCEPT ![s] = "fade"]
    /\ UNCHANGED <<volume, wanted, session, recording, initialized, ducked, restorer,
                   restoreVars, monitorVars>>

(* The dictation before has not been restored yet: only the level is updated.*)
DuckAgain(s) ==
    /\ dpc[s] = "duck" /\ LockFree /\ saved # NoLevel
    /\ IF ducked
       THEN /\ fades' = fades + 1
            /\ mine' = [mine EXCEPT ![s] = saved] /\ first' = [first EXCEPT ![s] = FALSE]
            /\ dpc' = [dpc EXCEPT ![s] = "fade"]
       ELSE /\ dpc' = [dpc EXCEPT ![s] = "recheck"]
            /\ UNCHANGED <<fades, mine, first>>
    /\ UNCHANGED <<levelVars, session, recording, initialized, saved, ducked, restorer,
                   restoreVars, monitorVars, damage, chances>>

DuckFades(s) ==
    /\ Lowers(dpc[s])
    /\ volume' = IF dpc[s] = "fade" THEN "mid" ELSE "low"
    /\ dpc' = [dpc EXCEPT ![s] = IF @ = "fade" THEN "lower" ELSE "settle"]
    /\ UNCHANGED <<wanted, stale, session, recording, stateVars, mine, first, restoreVars,
                   monitorVars, damage, chances>>

(* The fade reports its failure, or its last write is lost: duck goes on as  *)
(* if the volume were low.                                                   *)
Stuck == IF volume' \in {"low", wanted} THEN damage ELSE Harm
DuckFadeFails(s) ==
    /\ Lowers(dpc[s]) /\ Spoils
    /\ volume' = volume \/ (dpc[s] = "fade" /\ volume' = "low")
    /\ dpc' = [dpc EXCEPT ![s] = "settle"]
    /\ UNCHANGED <<wanted, stale>> /\ damage' = Stuck
    /\ UNCHANGED <<session, recording, stateVars, mine, first, restoreVars, monitorVars>>

(* After the fade: if a restore came in between, the fade may have undone    *)
(* it, and is undone itself.                                                 *)
Interrupted == saved = NoLevel

\* Bug: The fade of a start worker trusts that no restore ran meanwhile.
DuckSettlesUnrepaired(s, fails) ==
    /\ dpc[s] = "settle" /\ LockFree /\ ~fails
    /\ ducked' = (ducked \/ (first[s] /\ ~Interrupted)) /\ fades' = fades - 1
    /\ dpc' = [dpc EXCEPT ![s] = "recheck"]
    /\ UNCHANGED <<levelVars, session, recording, initialized, saved, restorer, mine, first,
                   restoreVars, monitorVars, damage, chances>>

DuckSettles(s, fails) ==
    /\ dpc[s] = "settle" /\ LockFree /\ (fails => Interrupted) /\ Might(fails)
    /\ volume' = IF Interrupted /\ ~fails THEN mine[s] ELSE volume
    /\ ducked' = (ducked \/ (first[s] /\ ~Interrupted))
    /\ fades' = fades - 1
    /\ dpc' = [dpc EXCEPT ![s] = "recheck"]
    /\ UNCHANGED <<wanted, stale>> /\ damage' = IF fails THEN Harm ELSE damage
    /\ UNCHANGED <<session, recording, initialized, saved, restorer, mine, first,
                   restoreVars, monitorVars>>

(* The fade raises.  The volume is repaired and the file deleted, unless     *)
(* that fails as well.                                                       *)
DuckRaises(s, repairs, clears) ==
    /\ Lowers(dpc[s]) /\ LockFree /\ MonitorFadesAreOver /\ Spoils
    /\ saved' = NoLevel /\ ducked' = FALSE /\ fades' = fades - 1
    /\ stale' = IF clears THEN NoLevel ELSE stale
    /\ volume' = IF repairs THEN mine[s] ELSE volume
    /\ damage' = IF repairs /\ clears THEN Mended ELSE Harm
    /\ dpc' = [dpc EXCEPT ![s] = "recheck"]
    /\ UNCHANGED <<wanted, session, recording, initialized, restorer, mine, first,
                   restoreVars, monitorVars>>

\* Bug: The start worker does not look at the recording again.
RechecksNothing(s) ==
    /\ dpc[s] = "recheck"
    /\ dpc' = [dpc EXCEPT ![s] = "done"]
    /\ UNCHANGED <<levelVars, session, recording, stateVars, mine, first, restoreVars, monitorVars,
                   damage, chances>>

(* The dictation may have ended, and restored the volume, before the duck.   *)
Rechecks(s) ==
    /\ dpc[s] = "recheck"
    /\ dpc' = [dpc EXCEPT ![s] = "done"]
    /\ rpc' = IF recording THEN rpc ELSE [rpc EXCEPT ![<<s, "starter">>] = "restore"]
    /\ UNCHANGED <<levelVars, session, recording, stateVars, mine, first, goal, monitorVars, damage,
                   chances>>

------------------------------------------------------------------------------
(* restore()                                                                 *)

StopsMonitor ==
    /\ monitor' = NoOne /\ mstop' = (mstop \/ monitor # NoOne)
    /\ UNCHANGED mpc

(* Not ducked at all, or a smart duck that has not lowered anything.         *)
NothingToRestore == saved = NoLevel \/ (~ducked /\ fades = 0)

RestoreEasy(x) ==
    /\ rpc[x] = "restore" /\ LockFree /\ MonitorFadesAreOver /\ NothingToRestore
    /\ StopsMonitor
    /\ saved' = NoLevel /\ ducked' = IF saved = NoLevel THEN ducked ELSE FALSE
    /\ rpc' = [rpc EXCEPT ![x] = "done"]
    /\ UNCHANGED <<levelVars, session, recording, initialized, fades, restorer, duckVars, goal,
                   damage, chances>>

(* With no fade in flight, a volume that is not the ducked one was set by    *)
(* hand and stays.                                                           *)
Target == IF ducked /\ fades = 0 /\ volume # "low" THEN volume ELSE saved

(* A volume that cannot be read counts as not set by hand.                   *)
RestoreBegins(x, blind) ==
    /\ rpc[x] = "restore" /\ LockFree /\ MonitorFadesAreOver /\ ~NothingToRestore
    /\ (blind => ducked) /\ Might(blind)
    /\ StopsMonitor
    /\ restorer' = x /\ goal' = [goal EXCEPT ![x] = IF blind THEN saved ELSE Target]
    /\ damage' = IF Misled(goal'[x]) \/ (blind /\ saved # wanted) THEN "lost" ELSE damage
    /\ rpc' = [rpc EXCEPT ![x] = "fade"]
    /\ UNCHANGED <<levelVars, session, recording, initialized, saved, ducked, fades, duckVars>>

RestoreFades(x) ==
    /\ rpc[x] = "fade"
    /\ volume' = "mid"
    /\ rpc' = [rpc EXCEPT ![x] = "set"]
    /\ UNCHANGED <<wanted, stale, session, recording, stateVars, duckVars, goal, monitorVars,
                   damage, chances>>

(* A last write that is lost is not noticed: the file is deleted.            *)
RestoreEnds(x, sets, clears) ==
    /\ rpc[x] = "set" /\ Might(~(sets /\ clears))
    /\ volume' = IF sets THEN goal[x] ELSE volume
    /\ stale' = IF clears THEN NoLevel ELSE stale
    /\ damage' = IF sets /\ clears THEN Mended ELSE Harm
    /\ saved' = NoLevel /\ ducked' = FALSE /\ restorer' = <<>>
    /\ rpc' = [rpc EXCEPT ![x] = "done"]
    /\ UNCHANGED <<wanted, session, recording, initialized, fades, duckVars, goal, monitorVars>>

(* The fade reports its failure: what was saved is forgotten all the same,   *)
(* and only the file still knows it.                                         *)
RestoreFails(x) ==
    /\ rpc[x] = "fade" /\ Spoils
    /\ volume' \in {volume, goal[x]}
    /\ UNCHANGED <<wanted, stale>> /\ damage' = Harm
    /\ saved' = NoLevel /\ ducked' = FALSE /\ restorer' = <<>>
    /\ rpc' = [rpc EXCEPT ![x] = "done"]
    /\ UNCHANGED <<session, recording, initialized, fades, duckVars, goal, monitorVars>>

(* The backend raises: nothing is forgotten, and nobody tries again before   *)
(* the end of the next dictation.                                            *)
RestoreRaises(x) ==
    /\ rpc[x] \in {"fade", "set"} /\ Spoils
    /\ volume' = volume \/ (rpc[x] = "set" /\ volume' = goal[x])
    /\ UNCHANGED <<wanted, stale>> /\ damage' = Harm
    /\ restorer' = <<>>
    /\ rpc' = [rpc EXCEPT ![x] = "done"]
    /\ UNCHANGED <<session, recording, initialized, saved, ducked, fades, duckVars, goal, monitorVars>>

------------------------------------------------------------------------------
(* The monitor: _smart_duck_monitor_loop                                     *)

MonitorLeaves(s) ==
    /\ mpc[s] = "wait"
    /\ mstop \/ (LockFree /\ (saved = NoLevel \/ ducked))
    /\ mpc' = [mpc EXCEPT ![s] = "done"]
    /\ UNCHANGED <<levelVars, session, recording, stateVars, duckVars, restoreVars, monitor, mstop,
                   damage, chances>>

(* Its check under the lock has passed, and something is playing now.        *)
MonitorHears(s) ==
    /\ mpc[s] = "wait" /\ ~mstop /\ LockFree /\ saved # NoLevel /\ ~ducked
    /\ mpc' = [mpc EXCEPT ![s] = "asked"]
    /\ UNCHANGED <<levelVars, session, recording, stateVars, duckVars, restoreVars, monitor, mstop,
                   damage, chances>>

(* The same check again, since the lock was released in between.             *)
StillSkipping == saved # NoLevel /\ ~ducked

MonitorDucks(s, fails) ==
    /\ mpc[s] = "asked" /\ LockFree /\ (fails => StillSkipping) /\ Might(fails)
    /\ IF StillSkipping THEN Saves(saved, fails) ELSE UNCHANGED <<stale, damage>>
    /\ mpc' = [mpc EXCEPT ![s] = IF StillSkipping THEN "fade" ELSE "done"]
    /\ UNCHANGED <<volume, wanted, session, recording, stateVars, duckVars, restoreVars,
                   monitor, mstop>>

MonitorFades(s) ==
    /\ Lowers(mpc[s])
    /\ volume' = IF mpc[s] = "fade" THEN "mid" ELSE "low"
    /\ mpc' = [mpc EXCEPT ![s] = IF @ = "fade" THEN "lower" ELSE "settle"]
    /\ UNCHANGED <<wanted, stale, session, recording, stateVars, duckVars, restoreVars,
                   monitor, mstop, damage, chances>>

(* The fade reports its failure, or its last write is lost.                  *)
MonitorFadeFails(s) ==
    /\ Lowers(mpc[s]) /\ Spoils
    /\ volume' = volume \/ (mpc[s] = "fade" /\ volume' = "low")
    /\ mpc' = [mpc EXCEPT ![s] = IF @ = "fade" THEN "failed" ELSE "settle"]
    /\ UNCHANGED <<wanted, stale>> /\ damage' = Stuck
    /\ UNCHANGED <<session, recording, stateVars, duckVars, restoreVars, monitor, mstop>>

(* The fade raises, and with it ends the thread.                             *)
MonitorRaises(s) ==
    /\ Lowers(mpc[s]) /\ Spoils
    /\ mpc' = [mpc EXCEPT ![s] = "done"]
    /\ UNCHANGED levelVars /\ damage' = Harm
    /\ UNCHANGED <<session, recording, stateVars, duckVars, restoreVars, monitor, mstop>>

MonitorSettles(s) ==
    /\ mpc[s] = "settle" /\ LockFree
    /\ ducked' = (ducked \/ saved # NoLevel)
    /\ mpc' = [mpc EXCEPT ![s] = "done"]
    /\ UNCHANGED <<levelVars, session, recording, initialized, saved, fades, restorer, duckVars,
                   restoreVars, monitor, mstop, damage, chances>>

(* After a failure that was reported it polls again.  The file stays.        *)
MonitorTriesAgain(s) ==
    /\ mpc[s] = "failed" /\ LockFree
    /\ mpc' = [mpc EXCEPT ![s] = IF saved = NoLevel THEN "done" ELSE "wait"]
    /\ UNCHANGED levelVars /\ damage' = IF StillSkipping THEN Harm ELSE damage
    /\ UNCHANGED <<session, recording, stateVars, duckVars, restoreVars, monitor, mstop, chances>>

DuckerNext ==
    \/ RecordingStarts \/ RecordingEnds \/ UserSets \/ AppCrashes
    \/ \E s \in Sessions :
          \/ Initializes(s) \/ InitializeFails(s) \/ DuckSkips(s) \/ DuckReadsNothing(s)
          \/ DuckAgain(s) \/ DuckFades(s) \/ DuckFadeFails(s) \/ Rechecks(s)
          \/ \E fails \in BOOLEAN : DuckBegins(s, fails) \/ DuckSettles(s, fails)
          \/ \E repairs, clears \in BOOLEAN : DuckRaises(s, repairs, clears)
          \/ MonitorLeaves(s) \/ MonitorHears(s) \/ \E fails \in BOOLEAN : MonitorDucks(s, fails)
          \/ MonitorFades(s) \/ MonitorFadeFails(s) \/ MonitorRaises(s)
          \/ MonitorSettles(s) \/ MonitorTriesAgain(s)
    \/ \E x \in Sessions \X Restorers :
          \/ RestoreEasy(x) \/ RestoreFades(x) \/ RestoreFails(x) \/ RestoreRaises(x)
          \/ \E blind \in BOOLEAN : RestoreBegins(x, blind)
          \/ \E sets, clears \in BOOLEAN : RestoreEnds(x, sets, clears)

DuckerSpec == DuckerInit /\ [][DuckerNext]_duckerVars

------------------------------------------------------------------------------
Untouched ==
    /\ ~recording
    /\ \A s \in Sessions : dpc[s] \in {"idle", "done"} /\ mpc[s] \in {"off", "wait", "done"}
    /\ \A x \in Sessions \X Restorers : rpc[x] \in {"idle", "done"}

(* VolumeIsBack: once no dictation is being recorded and no thread is at     *)
(* work on the volume, it is what the user last chose: a fade that outlives  *)
(* a restore is undone, a restore that comes too early is repeated, a saved  *)
(* volume is never one in the middle of somebody's fade, and a level set by  *)
(* hand stays.  No file is left that would undo the user's next choice.      *)
(* So it is, too, after a fade that raised, a volume that could not be read  *)
(* or lowered, a file that could not be written; but after a restore, a      *)
(* repair or a monitor that failed only from the next restore or restart on, *)
(* if nothing has gone by the wrong level until then.                        *)
VolumeIsBack ==
    Untouched /\ initialized /\ damage \in {"none", "unsaved"} => volume = wanted /\ stale = NoLevel

(* LoweredIsRecorded: whenever no fade is under way, a volume that is not    *)
(* the user's is named in the file, so that a crash at that moment leaves    *)
(* the next process something to bring back (docs/ARCHITECTURE.md); after a  *)
(* restore that failed as well, until a duck takes the low volume for the    *)
(* user's.                                                                   *)
LoweredIsRecorded ==
    NobodyChangesIt /\ damage \in {"none", "kept"} /\ volume # wanted => stale = wanted

(* A crash file names the user's level, until the user chooses another: a    *)
(* duck saves what it reads, and that is to be the volume "pre-duck"         *)
(* (volume_ducker.py, restore).                                              *)
FileNamesTheUsers ==
    wanted = "full" => stale \in {NoLevel, wanted}

=============================================================================
