-------------------------- MODULE SidecarSupervisor --------------------------
(***************************************************************************)
(* The desktop host's supervision of the Python server process:            *)
(* supervisor.rs, ws.rs, ws/reader.rs, ws/writer.rs, ws/heartbeat.rs,      *)
(* ws/respawn_scheduler.rs, shutdown.rs, lifecycle.rs, the cold start of   *)
(* spawn.rs, and the restart and shutdown commands.                        *)
(*                                                                         *)
(* Two actors bring a server up, the cold start and the respawn (at most   *)
(* one at a time, by respawn_in_progress).  Reader, writer and heartbeat   *)
(* tasks of a connection ask for respawns through a queue that one thread  *)
(* serves; the user and a resume ask directly.  A server and the one       *)
(* connection made to it share a number, which also stands for the         *)
(* generation of the connection; numbers nobody refers to are used again.  *)
(***************************************************************************)
EXTENDS Naturals, Sequences, FiniteSets

CONSTANTS
    Attempts,       \* SUPERVISOR_BACKOFF_MS.len()
    MaxRelaunches,  \* MAX_RESTART_ATTEMPTS
    QueueSize,      \* the bound of the request queue
    Server,         \* numbers of the servers that matter at one time
    Budgets         \* bounds of one behaviour: faults, user restarts, suspends, exits

None   == 0
Actors == {"cold", "respawn"}
Ends   == {"reader", "writer"}

SupervisorConstants ==
    /\ {Attempts, MaxRelaunches, QueueSize} \subseteq Nat \ {0}
    /\ Server \subseteq Nat \ {None}
    /\ Budgets \subseteq [faults : Nat, restarts : Nat, suspends : Nat, exits : Nat]
ASSUME SupervisorAssumption == SupervisorConstants

VARIABLES
    shutting,    \* shutting_down
    suspended,   \* power_suspended
    inProgress,  \* respawn_in_progress
    counter,     \* restart_counter.json
    gaveUp,      \* supervisor_failed was emitted
    child,       \* the handle in state.child
    process,     \* per server: dead, up, hung, or told to shut down
    broken,      \* no server can be started any more
    exitOf,      \* the server whose end child_exit_rx reports
    tx,          \* ws_tx
    current,     \* the connection of the newest ws_generation
    ends,        \* the reader and writer task of each connection
    heartbeat,   \* the heartbeat task runs
    queue,       \* the requests: expected_generation is none, the newest or an older one
    actor,       \* per actor: where it is, its server
    attempt,     \* the respawn's attempt
    asker,       \* who asked for the respawn
    power,       \* the suspend task, and whether a resume task waits
    leaving,     \* the teardown of the exit, the receiver it took
    used,        \* faults, restarts, suspends and exits so far
    relaunches,  \* relaunches of the host since a respawn last succeeded (history)
    lateInstall, \* the cold start installed a server after shutting_down (history)
    mistaken     \* a teardown took another server's end for its own one's (history)

hostVars    == <<shutting, suspended, inProgress, counter, gaveUp>>
serverVars  == <<child, process, broken, exitOf>>
linkVars    == <<tx, current, ends, heartbeat>>
askVars     == <<queue, asker>>
actorVars   == <<actor, attempt>>
taskVars    == <<power, leaving>>
historyVars == <<used, relaunches, lateInstall, mistaken>>
supervisorVars == <<hostVars, serverVars, linkVars, askVars, actorVars, taskVars, historyVars>>

Stations == {"idle", "backoff", "kill", "spawn", "check", "install", "rotate", "connect",
             "bump", "auth", "clear", "drop", "reset", "exhausted", "restart"}

Number == Server \cup {None}
Live   == {s \in Server : process[s] # "dead"}

\* The numbers somebody still refers to.
Referenced ==
    Live \cup {child, exitOf, tx, current, leaving.rx} \cup {actor[a].server : a \in Actors}
    \cup {s \in Server : \E e \in Ends : ends[<<e, s>>] # "off"}

FlagType ==
    /\ shutting \in BOOLEAN /\ suspended \in BOOLEAN /\ inProgress \in BOOLEAN
    /\ gaveUp \in BOOLEAN /\ broken \in BOOLEAN /\ heartbeat \in BOOLEAN
    /\ lateInstall \in BOOLEAN /\ mistaken \in BOOLEAN

\* The breaker bounds both.
CounterType == counter \in 0..MaxRelaunches /\ relaunches \in 0..(MaxRelaunches - 1)

ServerType ==
    /\ child \in Number /\ exitOf \in Number /\ tx \in Number /\ current \in Number
    /\ process \in [Server -> {"dead", "up", "hung", "told"}]
    /\ ends \in [Ends \X Server -> {"off", "on"}]

Asked == {"none", "newest", "older"}
QueueType == queue \in Seq(Asked) /\ Len(queue) <= QueueSize

ActorType ==
    /\ actor \in [Actors -> [at : Stations, server : Number]]
    /\ attempt \in 1..Attempts
    /\ asker \in {"nobody", "queue", "user", "resume", "cold"}

TaskType ==
    /\ power \in [stop : {"off", "wait", "clear"}, resume : BOOLEAN]
    /\ leaving \in [at : {"no", "wait", "take", "done"}, rx : Number,
                    graceful : BOOLEAN, again : BOOLEAN]

SupervisorTypeOK ==
    FlagType /\ CounterType /\ ServerType /\ QueueType /\ ActorType /\ TaskType

\* One of the numbers is free: where it always holds, Server bounds nothing.
NumbersSuffice == ~(Server \subseteq Referenced)

Idle    == [at |-> "idle", server |-> None]
Staying == [at |-> "no", rx |-> None, graceful |-> FALSE, again |-> FALSE]
Spent   == [faults |-> 0, restarts |-> 0, suspends |-> 0, exits |-> 0]

SupervisorInit ==
    /\ shutting = FALSE /\ suspended = FALSE /\ inProgress = FALSE /\ gaveUp = FALSE
    /\ counter = 0
    /\ child = None /\ exitOf = None /\ broken = FALSE
    /\ process = [s \in Server |-> "dead"]
    /\ tx = None /\ current = None
    /\ ends = [e \in Ends \X Server |-> "off"] /\ heartbeat = FALSE
    /\ queue = <<>> /\ asker = "nobody"
    /\ actor = [a \in Actors |-> IF a = "cold" THEN [Idle EXCEPT !.at = "spawn"] ELSE Idle]
    /\ attempt = 1
    /\ power = [stop |-> "off", resume |-> FALSE]
    /\ leaving = Staying
    /\ used = Spent /\ relaunches = 0 /\ lateInstall = FALSE /\ mistaken = FALSE

----------------------------------------------------------------------------
(* Requests and the gate of respawn.                                         *)

May(what) ==
    \E b \in Budgets :
       \A k \in DOMAIN Spent : used[k] + (IF k = what THEN 1 ELSE 0) <= b[k]
Use(what) == used' = [used EXCEPT ![what] = @ + 1]

At(a, stage)   == actor[a].at = stage
Goes(a, stage) == actor' = [actor EXCEPT ![a].at = stage]

Answers(server)   == server \in {s \in Server : process[s] = "up"}

\* The comparison of a task's generation with the newest.
IsCurrent(server) == current = server

\* Kills the server and its process tree.
Kill(server) == process' = [process EXCEPT ![server] = "dead"]

\* Takes the handle and kills what it names.
KillsChild ==
    /\ child' = None
    /\ process' = [s \in Server |-> IF s = child THEN "dead" ELSE process[s]]

\* A full queue drops the request.
Asks(gen) ==
    queue' = IF Len(queue) < QueueSize
             THEN Append(queue, gen)
             ELSE queue

StandsDown == suspended \/ inProgress \/ shutting

\* The gate of respawn, for a request of a caller that goes on as `freed`:
\* what becomes of the flag, the breaker's event and the respawn.
Respawn(by, freed) ==
    IF StandsDown
    THEN /\ actor' = freed
         /\ UNCHANGED <<inProgress, gaveUp, attempt, asker>>
    ELSE IF counter >= MaxRelaunches
    THEN /\ actor' = freed
         /\ gaveUp' = TRUE
         /\ UNCHANGED <<inProgress, attempt, asker>>
    ELSE /\ inProgress' = TRUE
         /\ actor' = [freed EXCEPT !["respawn"].at = "backoff"]
         /\ attempt' = 1
         /\ asker' = by
         /\ UNCHANGED gaveUp

\* Mutant of RespawnEnds: the flag stays up.
RespawnKeepsFlag ==
    /\ actor' = [actor EXCEPT !["respawn"] = Idle]
    /\ asker' = "nobody"
    /\ UNCHANGED <<inProgress, attempt>>

RespawnEnds ==
    /\ inProgress' = FALSE
    /\ actor' = [actor EXCEPT !["respawn"] = Idle]
    /\ asker' = "nobody"
    /\ UNCHANGED attempt

NextAttempt ==
    /\ IF attempt < Attempts
       THEN /\ attempt' = attempt + 1
            /\ Goes("respawn", "backoff")
       ELSE /\ UNCHANGED attempt
            /\ Goes("respawn", "exhausted")
    /\ UNCHANGED <<inProgress, asker>>

\* What takes seconds (a back-off, the misses of a heartbeat, a suspension) ends
\* when the thread has looked at the requests that waited, unless a respawn keeps it.
Prompt == queue = <<>> \/ asker = "queue"

Outdated(request) == request = "older"

\* The long-lived thread takes the next request; one that names a generation
\* is dropped when a newer connection owns the link.
SupervisorDequeues ==
    /\ queue # <<>> /\ asker # "queue"
    /\ queue' = Tail(queue)
    /\ IF Outdated(Head(queue))
       THEN UNCHANGED <<inProgress, gaveUp, actor, attempt, asker>>
       ELSE Respawn("queue", actor)
    /\ UNCHANGED <<shutting, suspended, counter, serverVars, linkVars, taskVars, historyVars>>

UserRestarts ==
    /\ ~shutting /\ May("restarts")
    /\ Use("restarts")
    /\ Respawn("user", actor)
    /\ UNCHANGED <<shutting, suspended, counter, serverVars, linkVars, queue, taskVars,
                   relaunches, lateInstall, mistaken>>

----------------------------------------------------------------------------
(* Bringing a server up.                                                     *)

\* The flag is read before, during and after the sleep and while the spawn
\* waits for the server's handshake.
RespawnStandsDown ==
    /\ At("respawn", "backoff") \/ At("respawn", "spawn")
    /\ shutting
    /\ RespawnEnds
    /\ UNCHANGED <<shutting, suspended, counter, gaveUp, serverVars, linkVars, queue,
                   taskVars, historyVars>>

BackoffEnds ==
    /\ At("respawn", "backoff") /\ ~shutting /\ Prompt
    /\ Goes("respawn", "kill")
    /\ UNCHANGED <<hostVars, serverVars, linkVars, askVars, attempt, taskVars, historyVars>>

RespawnKillsOld ==
    /\ At("respawn", "kill")
    /\ KillsChild
    /\ Goes("respawn", "spawn")
    /\ UNCHANGED <<hostVars, broken, exitOf, linkVars, askVars, attempt, taskVars, historyVars>>

Fresh == CHOOSE s \in Server : s \notin Referenced

Spawns(a) ==
    /\ At(a, "spawn") /\ ~shutting /\ ~broken /\ NumbersSuffice
    /\ process' = [process EXCEPT ![Fresh] = "up"]
    /\ actor' = [actor EXCEPT ![a] = [at |-> IF a = "cold" THEN "check" ELSE "install",
                                      server |-> Fresh]]
    /\ UNCHANGED <<hostVars, child, broken, exitOf, linkVars, askVars, attempt, taskVars,
                   historyVars>>

\* A failed cold start goes on as a respawn.
ColdFalls == Respawn("cold", [actor EXCEPT !["cold"] = Idle])

SpawnFails(a) ==
    /\ At(a, "spawn")
    /\ \/ ~shutting /\ May("faults") /\ Use("faults")
       \/ ~shutting /\ broken /\ UNCHANGED used
       \/ a = "cold" /\ shutting /\ UNCHANGED used
    /\ IF a = "cold" THEN ColdFalls
       ELSE NextAttempt /\ UNCHANGED gaveUp
    /\ UNCHANGED <<shutting, suspended, counter, serverVars, linkVars, queue, taskVars,
                   relaunches, lateInstall, mistaken>>

\* The cold start looks at the flag before it takes the lock.
ColdChecks ==
    /\ At("cold", "check")
    /\ IF shutting
       THEN /\ Kill(actor["cold"].server)
            /\ actor' = [actor EXCEPT !["cold"] = Idle]
       ELSE /\ Goes("cold", "install")
            /\ UNCHANGED process
    /\ UNCHANGED <<hostVars, child, broken, exitOf, linkVars, askVars, attempt, taskVars,
                   historyVars>>

\* Mutant of Replaces: the handle that was in the slot is lost.
ReplacesUnkilled(server) == child' = server /\ UNCHANGED process

\* The handle that was in the slot is killed, or dropped, which kills too.
Replaces(server) ==
    /\ child' = server
    /\ process' = [s \in Server |-> IF s = child THEN "dead" ELSE process[s]]

ColdInstalls ==
    /\ At("cold", "install")
    /\ Replaces(actor["cold"].server)
    /\ Goes("cold", "rotate")
    /\ lateInstall' = (lateInstall \/ shutting)
    /\ UNCHANGED <<hostVars, broken, exitOf, linkVars, askVars, attempt, taskVars, used,
                   relaunches, mistaken>>

\* Mutant of InstallRefused: shutting_down is not read again under the lock.
InstallNotRefused == FALSE

InstallRefused == shutting

\* The respawn looks at the flag under the lock.
RespawnInstalls ==
    /\ At("respawn", "install")
    /\ LET server == actor["respawn"].server
       IN  IF InstallRefused
           THEN /\ Kill(server)
                /\ RespawnEnds
                /\ UNCHANGED child
           ELSE /\ Replaces(server)
                /\ Goes("respawn", "rotate")
                /\ UNCHANGED <<inProgress, attempt, asker>>
    /\ UNCHANGED <<shutting, suspended, counter, gaveUp, broken, exitOf, linkVars, queue,
                   taskVars, historyVars>>

RotatesReceiver(a) ==
    /\ At(a, "rotate")
    /\ exitOf' = actor[a].server
    /\ Goes(a, "connect")
    /\ UNCHANGED <<hostVars, child, process, broken, linkVars, askVars, attempt, taskVars,
                   historyVars>>

----------------------------------------------------------------------------
(* reconnect_ws.                                                             *)

\* The sender is stored, then the generation is bumped.
Connects(a) ==
    /\ At(a, "connect") /\ actor[a].server \in Live
    /\ tx' = actor[a].server
    /\ Goes(a, "bump")
    /\ UNCHANGED <<hostVars, serverVars, current, ends, heartbeat, askVars, attempt, taskVars,
                   historyVars>>

\* A task of an ended connection has nothing left to do once it is outdated,
\* so it goes with this step.
BumpsGeneration(a) ==
    /\ At(a, "bump")
    /\ current' = actor[a].server
    /\ ends' = [e \in Ends \X Server |->
                  IF e = <<"writer", actor[a].server>> THEN "on"
                  ELSE IF ends[e] = "on" /\ e[2] \notin Live THEN "off" ELSE ends[e]]
    /\ queue' = [i \in DOMAIN queue |->
                   IF queue[i] = "newest" THEN "older" ELSE queue[i]]
    /\ Goes(a, "auth")
    /\ UNCHANGED <<hostVars, serverVars, tx, heartbeat, asker, attempt, taskVars, historyVars>>

\* The reader starts, and the heartbeat in place of the one that ran.
Authenticates(a) ==
    /\ At(a, "auth") /\ Answers(actor[a].server)
    /\ ends' = [ends EXCEPT ![<<"reader", actor[a].server>>] = "on"]
    /\ heartbeat' = TRUE
    /\ actor' = [actor EXCEPT ![a] = IF a = "respawn" THEN [@ EXCEPT !.at = "reset"] ELSE Idle]
    /\ UNCHANGED <<hostVars, serverVars, tx, current, askVars, attempt, taskVars, historyVars>>

\* What a failed reconnect comes to.
ReconnectFails(a) ==
    IF a = "cold" THEN ColdFalls
    ELSE Goes(a, "drop") /\ UNCHANGED <<inProgress, gaveUp, attempt, asker>>

ConnectFails(a) ==
    /\ At(a, "connect") /\ ~Answers(actor[a].server)
    /\ ReconnectFails(a)
    /\ UNCHANGED <<shutting, suspended, counter, serverVars, linkVars, queue, taskVars,
                   historyVars>>

\* Refused, closed or timed out: the clean-up is for the current connection
\* only, the request for a respawn is made in any case and names none.
AuthFails(a) ==
    /\ At(a, "auth")
    /\ \/ ~Answers(actor[a].server) /\ UNCHANGED used
       \/ May("faults") /\ Use("faults")
    /\ IF IsCurrent(actor[a].server)
       THEN /\ Goes(a, "clear")
            /\ UNCHANGED <<queue, inProgress, gaveUp, attempt, asker>>
       ELSE /\ Asks("none")
            /\ ReconnectFails(a)
    /\ UNCHANGED <<shutting, suspended, counter, serverVars, linkVars, taskVars, relaunches,
                   lateInstall, mistaken>>

AuthClears(a) ==
    /\ At(a, "clear")
    /\ tx' = None
    /\ Asks("none")
    /\ ReconnectFails(a)
    /\ UNCHANGED <<shutting, suspended, counter, serverVars, current, ends, heartbeat,
                   taskVars, historyVars>>

RespawnDrops ==
    /\ At("respawn", "drop")
    /\ KillsChild
    /\ NextAttempt
    /\ UNCHANGED <<shutting, suspended, counter, gaveUp, broken, exitOf, linkVars, queue,
                   taskVars, historyVars>>

\* The counter is reset before the flag is given back.
RespawnSucceeds ==
    /\ At("respawn", "reset")
    /\ counter' = 0
    /\ relaunches' = 0
    /\ RespawnEnds
    /\ UNCHANGED <<shutting, suspended, gaveUp, serverVars, linkVars, queue, taskVars, used,
                   lateInstall, mistaken>>

\* Mutant of Counted: the relaunch is not written to the file.
NotCounted(n) == n

Counted(n) == n + 1

RespawnExhausted ==
    /\ At("respawn", "exhausted")
    /\ counter' = Counted(counter)
    /\ IF counter' >= MaxRelaunches
       THEN /\ gaveUp' = TRUE
            /\ RespawnEnds
            /\ UNCHANGED shutting
       ELSE /\ shutting' = TRUE
            /\ inProgress' = FALSE
            /\ actor' = [actor EXCEPT !["respawn"] = [Idle EXCEPT !.at = "restart"]]
            /\ UNCHANGED <<gaveUp, attempt, asker>>
    /\ UNCHANGED <<suspended, serverVars, linkVars, queue, taskVars, historyVars>>

\* app.restart(), by an exhausted respawn or after the user's relaunch: a new
\* host process; only the file survives, and the old one's servers end with it.
HostRelaunches ==
    /\ \/ At("respawn", "restart") /\ relaunches' = relaunches + 1
       \/ leaving.at = "done" /\ leaving.again /\ UNCHANGED relaunches
    /\ shutting' = FALSE /\ suspended' = FALSE /\ inProgress' = FALSE /\ gaveUp' = FALSE
    /\ child' = None /\ exitOf' = None
    /\ process' = [s \in Server |-> "dead"]
    /\ tx' = None /\ current' = None
    /\ ends' = [e \in Ends \X Server |-> "off"] /\ heartbeat' = FALSE
    /\ queue' = <<>> /\ asker' = "nobody"
    /\ actor' = [a \in Actors |-> IF a = "cold" THEN [Idle EXCEPT !.at = "spawn"] ELSE Idle]
    /\ attempt' = 1
    /\ power' = [stop |-> "off", resume |-> FALSE]
    /\ leaving' = Staying
    /\ UNCHANGED <<counter, broken, used, lateInstall, mistaken>>

----------------------------------------------------------------------------
(* The tasks of a connection.                                                *)

Hears(end, server) ==
    \/ server \notin Live
    \/ end = "writer" /\ tx # server

\* The clean-up between the store of a new sender and the bump of the generation.
HitsTheGap(server) == IsCurrent(server) /\ tx \notin {server, None}

\* The task ends, the reader with the stream and the writer also when the last
\* sender is dropped.  If its generation is the newest (compared again at every
\* part of the clean-up, with no wait between the parts), it clears the sender
\* and asks for a respawn.  Bound: a hit of the gap counts as a fault.
EndCleansUp(end, server) ==
    /\ ends[<<end, server>>] = "on" /\ Hears(end, server)
    /\ IF HitsTheGap(server) THEN May("faults") /\ Use("faults") ELSE UNCHANGED used
    /\ ends' = [ends EXCEPT ![<<end, server>>] = "off"]
    /\ tx' = IF IsCurrent(server) THEN None ELSE tx
    /\ IF IsCurrent(server) /\ ~shutting THEN Asks("newest") ELSE UNCHANGED queue
    /\ UNCHANGED <<hostVars, serverVars, current, heartbeat, asker, actorVars, taskVars,
                   relaunches, lateInstall, mistaken>>

\* Mutant of HeartbeatFails: a link without a sender is not a miss.
HeartbeatFailsOnSilence == tx # None /\ ~Answers(tx)

\* The dispatches of the heartbeat fail: nobody to send to, or no answer.
HeartbeatFails == ~Answers(tx)

\* HEARTBEAT_MAX_MISSES intervals take 20 seconds or more: the respawn that made
\* the connection is over by then.
HeartbeatGivesUp ==
    /\ heartbeat /\ ~shutting /\ HeartbeatFails
    /\ Prompt /\ ~At("respawn", "reset")
    /\ Asks("none")
    /\ heartbeat' = FALSE
    /\ UNCHANGED <<hostVars, serverVars, tx, current, ends, asker, actorVars, taskVars,
                   historyVars>>

----------------------------------------------------------------------------
(* Suspend, resume and exit.                                                 *)

\* The shutdown frame reaches a server through the sender there is.
Tells ==
    process' = [s \in Server |-> IF s = tx /\ process[s] = "up" THEN "told" ELSE process[s]]

\* The flag, and the task that ends the heartbeat, tells the server and takes
\* the receiver to wait on.  Bound: not before the end of the cold start.
SystemSuspends ==
    /\ ~suspended /\ ~shutting /\ power.stop = "off" /\ May("suspends")
    /\ At("cold", "idle")
    /\ Use("suspends")
    /\ suspended' = TRUE
    /\ power' = [power EXCEPT !.stop = "wait"]
    /\ heartbeat' = FALSE
    /\ Tells
    /\ exitOf' = None
    /\ UNCHANGED <<shutting, inProgress, counter, gaveUp, child, broken, tx, current, ends,
                   askVars, actorVars, leaving, relaunches, lateInstall, mistaken>>

SuspendKills ==
    /\ power.stop = "wait"
    /\ KillsChild
    /\ power' = [power EXCEPT !.stop = "clear"]
    /\ UNCHANGED <<hostVars, broken, exitOf, linkVars, askVars, actorVars, leaving, historyVars>>

SuspendClears ==
    /\ power.stop = "clear"
    /\ tx' = None
    /\ power' = [power EXCEPT !.stop = "off"]
    /\ UNCHANGED <<hostVars, serverVars, current, ends, heartbeat, askVars, actorVars, leaving,
                   historyVars>>

\* A suspension outlasts the milliseconds from a connection to the end of its respawn.
SystemResumes ==
    /\ suspended /\ Prompt /\ ~At("respawn", "reset")
    /\ suspended' = FALSE
    /\ power' = [power EXCEPT !.resume = TRUE]
    /\ UNCHANGED <<shutting, inProgress, counter, gaveUp, serverVars, linkVars, askVars,
                   actorVars, leaving, historyVars>>

ResumeEnsures ==
    /\ power.resume
    /\ power' = [power EXCEPT !.resume = FALSE]
    /\ IF tx = None
       THEN Respawn("resume", actor)
       ELSE UNCHANGED <<inProgress, gaveUp, actor, attempt, asker>>
    /\ UNCHANGED <<shutting, suspended, counter, serverVars, linkVars, queue, leaving,
                   historyVars>>

\* begin_shutdown of the first teardown; the user's relaunch clears the file
\* before.
LeaveBegins ==
    /\ ~shutting /\ May("exits")
    /\ Use("exits")
    /\ \E again \in BOOLEAN :
          /\ leaving' = [at |-> "wait", rx |-> exitOf, graceful |-> FALSE, again |-> again]
          /\ counter' = IF again THEN 0 ELSE counter
          /\ relaunches' = IF again THEN 0 ELSE relaunches
    /\ shutting' = TRUE
    /\ heartbeat' = FALSE
    /\ Tells
    /\ exitOf' = None
    /\ UNCHANGED <<suspended, inProgress, gaveUp, child, broken, tx, current, ends, askVars,
                   actorVars, power, lateInstall, mistaken>>

\* The wait ends with the event of the receiver, or without a receiver by
\* probing the handle, or with the time-out.
LeaveWaits ==
    /\ leaving.at = "wait"
    /\ LET awaited == IF leaving.rx # None THEN leaving.rx ELSE child
       IN  leaving' = [leaving EXCEPT !.at = "take", !.rx = None, !.graceful = awaited \notin Live]
    /\ UNCHANGED <<hostVars, serverVars, linkVars, askVars, actorVars, power, historyVars>>

\* The handle is taken; it is killed with its tree unless the wait saw the
\* end, else dropped, which kills the process itself.
LeaveTakes ==
    /\ leaving.at = "take"
    /\ KillsChild
    /\ mistaken' = (mistaken \/ (leaving.graceful /\ child \in Live))
    /\ leaving' = [leaving EXCEPT !.at = "done"]
    /\ UNCHANGED <<hostVars, broken, exitOf, linkVars, askVars, actorVars, power, used,
                   relaunches, lateInstall>>

----------------------------------------------------------------------------
(* The servers.                                                              *)

ServerObeys ==
    /\ \E s \in Server : process[s] = "told" /\ Kill(s)
    /\ UNCHANGED <<hostVars, child, broken, exitOf, linkVars, askVars, actorVars, taskVars,
                   historyVars>>

\* A server ends or hangs, or the installation is damaged.
ServerFails ==
    /\ May("faults") /\ Use("faults")
    /\ \/ /\ \E s \in Server, fate \in {"dead", "hung"} :
                process[s] = "up" /\ process' = [process EXCEPT ![s] = fate]
          /\ UNCHANGED broken
       \/ /\ broken' = TRUE
          /\ UNCHANGED process
    /\ UNCHANGED <<hostVars, child, exitOf, linkVars, askVars, actorVars, taskVars, relaunches,
                   lateInstall, mistaken>>

----------------------------------------------------------------------------
ActorSteps(a) ==
    \/ Spawns(a) \/ SpawnFails(a) \/ RotatesReceiver(a)
    \/ Connects(a) \/ ConnectFails(a) \/ BumpsGeneration(a)
    \/ Authenticates(a) \/ AuthFails(a) \/ AuthClears(a)

ColdSteps == ActorSteps("cold") \/ ColdChecks \/ ColdInstalls

RespawnSteps ==
    \/ ActorSteps("respawn") \/ RespawnStandsDown \/ BackoffEnds \/ RespawnKillsOld
    \/ RespawnInstalls \/ RespawnDrops \/ RespawnSucceeds \/ RespawnExhausted

PowerSteps == SuspendKills \/ SuspendClears

LeaveSteps == LeaveWaits \/ LeaveTakes

SupervisorNext ==
    \/ ColdSteps \/ RespawnSteps \/ HostRelaunches
    \/ SupervisorDequeues \/ UserRestarts
    \/ \E end \in Ends, server \in Server : EndCleansUp(end, server)
    \/ HeartbeatGivesUp
    \/ SystemSuspends \/ PowerSteps \/ SystemResumes \/ ResumeEnsures
    \/ LeaveBegins \/ LeaveSteps
    \/ ServerObeys \/ ServerFails

\* Every task the host's runtime has started is run, and every wait of theirs
\* has a time-out; nothing is asked of the user, the power events and the server.
SupervisorFairness ==
    /\ WF_supervisorVars(ColdSteps) /\ WF_supervisorVars(RespawnSteps)
    /\ WF_supervisorVars(HostRelaunches) /\ WF_supervisorVars(SupervisorDequeues)
    /\ \A end \in Ends, server \in Server : WF_supervisorVars(EndCleansUp(end, server))
    /\ WF_supervisorVars(HeartbeatGivesUp)
    /\ WF_supervisorVars(PowerSteps) /\ WF_supervisorVars(ResumeEnsures)
    /\ WF_supervisorVars(LeaveSteps)

SupervisorSpec == SupervisorInit /\ [][SupervisorNext]_supervisorVars /\ SupervisorFairness

----------------------------------------------------------------------------
(* Properties.                                                               *)

InHand(a) == IF actor[a].at \in {"check", "install"} THEN {actor[a].server} ELSE {}

\* No server is orphaned (supervisor.rs: a handle that is overwritten or
\* forgotten leaves a process that holds the microphone and its port): every
\* process that runs is the installed one or in the hands of who started it.
NoOrphans == Live \subseteq {child} \cup InHand("cold") \cup InHand("respawn")

\* After the teardown of the exit no respawn leaves a server behind, however
\* the teardown met the spawn (shutting_down is read again under the lock of
\* state.child); the cold start, which reads it before it takes the lock, may.
ExitLeavesNone ==
    leaving.at = "done" /\ ~inProgress /\ At("cold", "idle") /\ ~lateInstall => Live = {}

\* respawn_in_progress is always given back: a flag left up would turn every
\* later request into a no-op.
FlagIsGivenBack == []<>~inProgress

Served  == Answers(tx) /\ ends[<<"reader", tx>>] = "on"
Excused == shutting \/ suspended \/ gaveUp

\* Whatever was lost and in whatever order the tasks noticed it (a request is
\* dropped for a respawn under way, a full queue, the suspend), the host comes
\* to be connected to a server that answers, unless it leaves, is suspended or
\* has given up.
\* It needs heartbeats that outlive suspensions: the request of one that gives
\* up meanwhile is turned away, and the resume relies on the sender.
LinkComesBack == []<>(Served \/ Excused)

\* C-WS-3 of respawn_scheduler.rs: the request of a task for a respawn never
\* kills a server that is connected and answers, as one that a newer respawn
\* brought up since the failure does.
RequestsKillNoHealthy ==
    [][At("respawn", "kill") /\ ~At("respawn", "kill")' /\ asker = "queue"
         => ~(Served /\ child = tx)]_supervisorVars

\* C-WS-3 of reader.rs: the clean-up of a connection never takes the sender of
\* a newer one.
CleanupsClearTheirOwn ==
    [][\A end \in Ends, s \in Server :
          EndCleansUp(end, s) /\ tx' # tx => tx = s]_supervisorVars

\* The teardown skips the kill of the process tree only for a server that has
\* ended (shutdown.rs).
GracefulMeansEnded == ~mistaken

\* No server is started while the system is suspended (power.rs).
SuspendedSpawnsNone == [][~(Live' \subseteq Live) => ~suspended]_supervisorVars
=============================================================================
