----------------------- MODULE SidecarSupervisor_proofs -----------------------
(***************************************************************************)
(* Proofs about SidecarSupervisor for any number of servers, attempts,     *)
(* relaunches and faults, and about the run of both connections.  The      *)
(* inductive invariant adds to the types who holds a server (NoOrphans),   *)
(* that a respawn under way holds the flag, what the breaker's counter     *)
(* bounds, what an exit leaves, and that few connections have tasks left.  *)
(* A second one, TendedInv, says who will ask for the next server.         *)
(***************************************************************************)
EXTENDS MCConnections, WorkerChannel_proofs, FiniteSetTheorems

(* A respawn that is under way has respawn_in_progress up: nobody else can   *)
(* begin a second one and lose the server that is in its hands.  Conversely  *)
(* the flag is up for nothing else, so whoever ends a respawn gives it back. *)
RespawnHasFlag == actor["respawn"].at \notin {"idle", "restart"} <=> inProgress

(* The counter of the file is ahead of the relaunches it has allowed, and a  *)
(* respawn is only begun below the limit.                                    *)
CounterLeads ==
    /\ relaunches <= counter
    /\ inProgress => counter < MaxRelaunches
    /\ At("respawn", "restart") => shutting /\ relaunches < counter /\ counter < MaxRelaunches

(* The teardown runs with shutting_down set; what it leaves in the slot can  *)
(* only be the late install of a cold start.                                 *)
TeardownEmpties ==
    /\ leaving.at # "no" => shutting
    /\ leaving.at = "done" /\ ~lateInstall => child = None

(* Three servers have reader or writer tasks at most, those that ran or were *)
(* started when the generation was bumped last, and whoever authenticates    *)
(* does so with one of them.                                                 *)
EndsOf(p, q, r) ==
    /\ \A e \in Ends, s \in Server : ends[<<e, s>>] # "off" => s \in {p, q, r}
    /\ \A a \in Actors : At(a, "auth") => actor[a].server \in {p, q, r}
FewEnds == \E p, q, r \in Number : EndsOf(p, q, r)

SupervisorIInv ==
    /\ SupervisorTypeOK /\ NoOrphans /\ RespawnHasFlag /\ CounterLeads /\ TeardownEmpties
    /\ FewEnds

-----------------------------------------------------------------------------
(* Types.                                                                    *)

LEMMA SupervisorInitType == SupervisorInit => SupervisorTypeOK
  <1> SUFFICES ASSUME SupervisorInit PROVE SupervisorTypeOK
    OBVIOUS
  <1> USE SupervisorAssumption DEF SupervisorInit, SupervisorConstants, Number
  <1>1. FlagType
    BY DEF FlagType
  <1>2. CounterType
    BY DEF CounterType
  <1>3. ServerType
    BY DEF ServerType
  <1>4. QueueType
    BY DEF QueueType
  <1>5. ActorType
    BY DEF ActorType, Idle, Stations
  <1>6. TaskType
    BY DEF TaskType, Staying
  <1> QED
    BY <1>1, <1>2, <1>3, <1>4, <1>5, <1>6 DEF SupervisorTypeOK

(* A number that is free to be used, where there is one.                     *)
LEMMA FreshIsFree == NumbersSuffice => Fresh \in Server /\ Fresh \notin Referenced
  BY DEF NumbersSuffice, Fresh

(* What a request through the gate may change.                               *)
LEMMA RespawnType ==
  ASSUME ActorType, NEW by \in {"queue", "user", "resume", "cold"},
         NEW freed \in [Actors -> [at : Stations, server : Number]], Respawn(by, freed)
  PROVE  ActorType'
  BY SupervisorAssumption DEF ActorType, Respawn, SupervisorConstants, Stations, Actors

LEMMA RespawnFlags ==
  ASSUME FlagType, NEW by, NEW freed, Respawn(by, freed)
  PROVE  inProgress' \in BOOLEAN /\ gaveUp' \in BOOLEAN
  BY DEF FlagType, Respawn

LEMMA ColdFallsType == ActorType /\ ColdFalls => ActorType'
  <1> SUFFICES ASSUME ActorType, ColdFalls PROVE ActorType'
    OBVIOUS
  <1>1. [actor EXCEPT !["cold"] = Idle] \in [Actors -> [at : Stations, server : Number]]
    BY DEF ActorType, Idle, Stations, Number, Actors
  <1> QED
    BY <1>1, RespawnType DEF ColdFalls

LEMMA GoesType ==
  ASSUME ActorType, NEW a \in Actors, NEW stage \in Stations, Goes(a, stage)
  PROVE  actor' \in [Actors -> [at : Stations, server : Number]]
  BY DEF ActorType, Goes

LEMMA RespawnEndsType == ActorType /\ RespawnEnds => ActorType'
  BY DEF ActorType, RespawnEnds, Idle, Stations, Number, Actors

LEMMA NextAttemptType == ActorType /\ NextAttempt => ActorType'
  BY SupervisorAssumption, GoesType
  DEF ActorType, NextAttempt, SupervisorConstants, Stations, Actors

LEMMA AsksType ==
  ASSUME QueueType, NEW request \in Asked, Asks(request)
  PROVE  QueueType'
  BY SupervisorAssumption DEF QueueType, Asks, SupervisorConstants

LEMMA KillType ==
  ASSUME ServerType, KillsChild
  PROVE  child' \in Number /\ process' \in [Server -> {"dead", "up", "hung", "told"}]
  BY DEF ServerType, KillsChild, Number

(* The steps, part by part of the types.                                     *)
LEMMA FlagStep ==
  ASSUME FlagType, [SupervisorNext]_supervisorVars
  PROVE  FlagType'
  <1> USE DEF supervisorVars, hostVars, serverVars, linkVars, askVars, actorVars, taskVars,
              historyVars, FlagType, ColdFalls, RespawnEnds, NextAttempt, Replaces,
              ReconnectFails
  <1>1. ASSUME NEW a \in Actors, ActorSteps(a) PROVE FlagType'
    <2>1. CASE \/ Spawns(a) \/ RotatesReceiver(a) \/ Connects(a) \/ BumpsGeneration(a)
               \/ Authenticates(a)
      <3>1. CASE Spawns(a)
        BY <1>1, RespawnFlags, <3>1 DEF Spawns
      <3>2. CASE RotatesReceiver(a)
        BY <1>1, RespawnFlags, <3>2 DEF RotatesReceiver
      <3>3. CASE Connects(a)
        BY <1>1, RespawnFlags, <3>3 DEF Connects
      <3>4. CASE BumpsGeneration(a)
        BY <1>1, RespawnFlags, <3>4 DEF BumpsGeneration
      <3>5. CASE Authenticates(a)
        BY <1>1, RespawnFlags, <3>5 DEF Authenticates
      <3> QED
        BY <2>1, <3>1, <3>2, <3>3, <3>4, <3>5
    <2>2. CASE SpawnFails(a)
      BY <1>1, <2>2, RespawnFlags DEF SpawnFails
    <2>3. CASE ConnectFails(a)
      BY <1>1, <2>3, RespawnFlags DEF ConnectFails
    <2>4. CASE AuthFails(a)
      BY <1>1, <2>4, RespawnFlags DEF AuthFails
    <2>5. CASE AuthClears(a)
      BY <1>1, <2>5, RespawnFlags DEF AuthClears
    <2> QED
      BY <1>1, <2>1, <2>2, <2>3, <2>4, <2>5 DEF ActorSteps
  <1>2. CASE ColdChecks \/ ColdInstalls
    BY <1>2, RespawnFlags DEF ColdChecks, ColdInstalls
  <1>3. CASE \/ RespawnStandsDown \/ BackoffEnds \/ RespawnKillsOld \/ RespawnDrops
             \/ RespawnSucceeds \/ RespawnExhausted
    <2>1. CASE RespawnStandsDown
      BY RespawnFlags, <2>1 DEF RespawnStandsDown
    <2>2. CASE BackoffEnds
      BY RespawnFlags, <2>2 DEF BackoffEnds
    <2>3. CASE RespawnKillsOld
      BY RespawnFlags, <2>3 DEF RespawnKillsOld
    <2>4. CASE RespawnDrops
      BY RespawnFlags, <2>4 DEF RespawnDrops
    <2>5. CASE RespawnSucceeds
      BY RespawnFlags, <2>5 DEF RespawnSucceeds
    <2>6. CASE RespawnExhausted
      BY RespawnFlags, <2>6 DEF RespawnExhausted
    <2> QED
      BY <1>3, <2>1, <2>2, <2>3, <2>4, <2>5, <2>6
  <1>4. CASE RespawnInstalls
    BY <1>4, RespawnFlags DEF RespawnInstalls
  <1>5. CASE HostRelaunches
    BY <1>5, RespawnFlags DEF HostRelaunches
  <1>6. CASE SupervisorDequeues \/ UserRestarts
    BY <1>6, RespawnFlags DEF SupervisorDequeues, UserRestarts
  <1>7. ASSUME NEW end \in Ends, NEW server \in Server, EndCleansUp(end, server)
         PROVE  FlagType'
    BY <1>7, RespawnFlags DEF EndCleansUp
  <1>8. CASE HeartbeatGivesUp
    BY <1>8, RespawnFlags DEF HeartbeatGivesUp
  <1>9. CASE SystemSuspends \/ PowerSteps \/ SystemResumes \/ ResumeEnsures
    <2>1. CASE SystemSuspends
      BY RespawnFlags, <2>1 DEF SystemSuspends
    <2>2. CASE PowerSteps
      BY RespawnFlags, <2>2 DEF PowerSteps, SuspendKills, SuspendClears
    <2>3. CASE SystemResumes
      BY RespawnFlags, <2>3 DEF SystemResumes
    <2>4. CASE ResumeEnsures
      BY RespawnFlags, <2>4 DEF ResumeEnsures
    <2> QED
      BY <1>9, <2>1, <2>2, <2>3, <2>4
  <1>10. CASE LeaveBegins \/ LeaveSteps
    <2>1. CASE LeaveBegins
      BY RespawnFlags, <2>1 DEF LeaveBegins
    <2>2. CASE LeaveSteps
      BY RespawnFlags, <2>2 DEF LeaveSteps, LeaveWaits, LeaveTakes
    <2> QED
      BY <1>10, <2>1, <2>2
  <1>11. CASE ServerObeys \/ ServerFails
    <2>1. CASE ServerObeys
      BY RespawnFlags, <2>1 DEF ServerObeys
    <2>2. CASE ServerFails
      BY RespawnFlags, <2>2 DEF ServerFails
    <2> QED
      BY <1>11, <2>1, <2>2
  <1>12. CASE UNCHANGED supervisorVars
    BY <1>12, RespawnFlags
  <1> QED
    BY <1>1, <1>2, <1>3, <1>4, <1>5, <1>6, <1>7, <1>8, <1>9, <1>10, <1>11, <1>12
    DEF SupervisorNext, ColdSteps, RespawnSteps, Actors

LEMMA ServerStep ==
  ASSUME ServerType, ActorType, [SupervisorNext]_supervisorVars
  PROVE  ServerType'
  <1> USE DEF supervisorVars, hostVars, serverVars, linkVars, askVars, actorVars, taskVars,
              historyVars, ServerType, ActorType, Number, Kill, Replaces, Tells, Actors,
              Stations, Ends
  <1>1. ASSUME NEW a \in Actors, ActorSteps(a) PROVE ServerType'
    <2>1. CASE Spawns(a)
      BY <1>1, KillType, FreshIsFree, <2>1 DEF ActorSteps, Spawns
    <2>2. CASE SpawnFails(a)
      BY <1>1, KillType, FreshIsFree, <2>2 DEF ActorSteps, SpawnFails
    <2>3. CASE RotatesReceiver(a)
      BY <1>1, KillType, FreshIsFree, <2>3 DEF ActorSteps, RotatesReceiver
    <2>4. CASE Connects(a)
      BY <1>1, KillType, FreshIsFree, <2>4 DEF ActorSteps, Connects
    <2>5. CASE ConnectFails(a)
      BY <1>1, KillType, FreshIsFree, <2>5 DEF ActorSteps, ConnectFails
    <2>6. CASE BumpsGeneration(a)
      BY <1>1, KillType, FreshIsFree, <2>6 DEF ActorSteps, BumpsGeneration
    <2>7. CASE Authenticates(a)
      BY <1>1, KillType, FreshIsFree, <2>7 DEF ActorSteps, Authenticates
    <2>8. CASE AuthFails(a)
      BY <1>1, KillType, FreshIsFree, <2>8 DEF ActorSteps, AuthFails
    <2>9. CASE AuthClears(a)
      BY <1>1, KillType, FreshIsFree, <2>9 DEF ActorSteps, AuthClears
    <2> QED
      BY <1>1, <2>1, <2>2, <2>3, <2>4, <2>5, <2>6, <2>7, <2>8, <2>9 DEF ActorSteps
  <1>2. CASE ColdChecks \/ ColdInstalls
    BY <1>2, KillType, FreshIsFree DEF ColdChecks, ColdInstalls
  <1>3. CASE \/ RespawnStandsDown \/ BackoffEnds \/ RespawnKillsOld \/ RespawnDrops
             \/ RespawnSucceeds \/ RespawnExhausted
    BY <1>3, KillType, FreshIsFree
    DEF RespawnStandsDown, BackoffEnds, RespawnKillsOld, RespawnDrops, RespawnSucceeds,
        RespawnExhausted
  <1>4. CASE RespawnInstalls
    BY <1>4, KillType, FreshIsFree DEF RespawnInstalls
  <1>5. CASE HostRelaunches
    BY <1>5, KillType, FreshIsFree DEF HostRelaunches
  <1>6. CASE SupervisorDequeues \/ UserRestarts
    BY <1>6, KillType, FreshIsFree DEF SupervisorDequeues, UserRestarts
  <1>7. ASSUME NEW end \in Ends, NEW server \in Server, EndCleansUp(end, server)
         PROVE  ServerType'
    BY <1>7, KillType, FreshIsFree DEF EndCleansUp
  <1>8. CASE HeartbeatGivesUp
    BY <1>8, KillType, FreshIsFree DEF HeartbeatGivesUp
  <1>9. CASE SystemSuspends \/ PowerSteps \/ SystemResumes \/ ResumeEnsures
    BY <1>9, KillType, FreshIsFree
    DEF SystemSuspends, PowerSteps, SuspendKills, SuspendClears, SystemResumes,
        ResumeEnsures
  <1>10. CASE LeaveBegins \/ LeaveSteps
    BY <1>10, KillType, FreshIsFree DEF LeaveBegins, LeaveSteps, LeaveWaits, LeaveTakes
  <1>11. CASE ServerObeys \/ ServerFails
    BY <1>11, KillType, FreshIsFree DEF ServerObeys, ServerFails
  <1>12. CASE UNCHANGED supervisorVars
    BY <1>12, KillType, FreshIsFree
  <1> QED
    BY <1>1, <1>2, <1>3, <1>4, <1>5, <1>6, <1>7, <1>8, <1>9, <1>10, <1>11, <1>12
    DEF SupervisorNext, ColdSteps, RespawnSteps, Actors

LEMMA QueueStep ==
  ASSUME QueueType, [SupervisorNext]_supervisorVars
  PROVE  QueueType'
  <1> USE SupervisorAssumption
      DEF supervisorVars, hostVars, serverVars, linkVars, askVars, actorVars, taskVars,
          historyVars, QueueType, Asked, SupervisorConstants
  <1>1. ASSUME NEW a \in Actors, ActorSteps(a) PROVE QueueType'
    BY <1>1, AsksType DEF ActorSteps, Spawns, SpawnFails, RotatesReceiver, Connects,
                          ConnectFails, BumpsGeneration, Authenticates, AuthFails,
                          AuthClears
  <1>2. CASE ColdChecks \/ ColdInstalls
    BY <1>2, AsksType DEF ColdChecks, ColdInstalls
  <1>3. CASE \/ RespawnStandsDown \/ BackoffEnds \/ RespawnKillsOld \/ RespawnDrops
             \/ RespawnSucceeds \/ RespawnExhausted
    BY <1>3, AsksType DEF RespawnStandsDown, BackoffEnds, RespawnKillsOld, RespawnDrops,
                          RespawnSucceeds, RespawnExhausted
  <1>4. CASE RespawnInstalls
    BY <1>4, AsksType DEF RespawnInstalls
  <1>5. CASE HostRelaunches
    BY <1>5, AsksType DEF HostRelaunches
  <1>6. CASE SupervisorDequeues \/ UserRestarts
    <2>1. CASE SupervisorDequeues
      BY AsksType, <2>1 DEF SupervisorDequeues
    <2>2. CASE UserRestarts
      BY AsksType, <2>2 DEF UserRestarts
    <2> QED
      BY <1>6, <2>1, <2>2
  <1>7. ASSUME NEW end \in Ends, NEW server \in Server, EndCleansUp(end, server)
         PROVE  QueueType'
    BY <1>7, AsksType DEF EndCleansUp
  <1>8. CASE HeartbeatGivesUp
    BY <1>8, AsksType DEF HeartbeatGivesUp
  <1>9. CASE SystemSuspends \/ PowerSteps \/ SystemResumes \/ ResumeEnsures
    BY <1>9, AsksType DEF SystemSuspends, PowerSteps, SuspendKills, SuspendClears,
                          SystemResumes, ResumeEnsures
  <1>10. CASE LeaveBegins \/ LeaveSteps
    BY <1>10, AsksType DEF LeaveBegins, LeaveSteps, LeaveWaits, LeaveTakes
  <1>11. CASE ServerObeys \/ ServerFails
    BY <1>11, AsksType DEF ServerObeys, ServerFails
  <1>12. CASE UNCHANGED supervisorVars
    BY <1>12, AsksType
  <1> QED
    BY <1>1, <1>2, <1>3, <1>4, <1>5, <1>6, <1>7, <1>8, <1>9, <1>10, <1>11, <1>12
    DEF SupervisorNext, ColdSteps, RespawnSteps, Actors

LEMMA ActorStep ==
  ASSUME ActorType, ServerType, [SupervisorNext]_supervisorVars
  PROVE  ActorType'
  <1> USE SupervisorAssumption
      DEF supervisorVars, hostVars, serverVars, linkVars, askVars, actorVars, taskVars,
          historyVars, ActorType, Stations, Actors, Number, Idle, ReconnectFails,
          SupervisorConstants
  <1>1. ASSUME NEW a \in Actors, ActorSteps(a) PROVE ActorType'
    BY <1>1, GoesType, RespawnType, RespawnEndsType, NextAttemptType, ColdFallsType,
       FreshIsFree
    DEF ActorSteps, Spawns, SpawnFails, RotatesReceiver, Connects, ConnectFails,
        BumpsGeneration, Authenticates, AuthFails, AuthClears
  <1>2. CASE ColdChecks \/ ColdInstalls
    BY <1>2, GoesType, RespawnType, RespawnEndsType, NextAttemptType, ColdFallsType,
       FreshIsFree
    DEF ColdChecks, ColdInstalls
  <1>3. CASE \/ RespawnStandsDown \/ BackoffEnds \/ RespawnKillsOld \/ RespawnDrops
             \/ RespawnSucceeds \/ RespawnExhausted
    BY <1>3, GoesType, RespawnType, RespawnEndsType, NextAttemptType, ColdFallsType,
       FreshIsFree
    DEF RespawnStandsDown, BackoffEnds, RespawnKillsOld, RespawnDrops, RespawnSucceeds,
        RespawnExhausted
  <1>4. CASE RespawnInstalls
    <2>1. CASE InstallRefused
      BY <1>4, <2>1, GoesType, RespawnType, RespawnEndsType, NextAttemptType, ColdFallsType,
         FreshIsFree
      DEF RespawnInstalls
    <2>2. CASE ~InstallRefused
      BY <1>4, <2>2, GoesType, RespawnType, RespawnEndsType, NextAttemptType, ColdFallsType,
         FreshIsFree
      DEF RespawnInstalls
    <2> QED
      BY <2>1, <2>2
  <1>5. CASE HostRelaunches
    BY <1>5, GoesType, RespawnType, RespawnEndsType, NextAttemptType, ColdFallsType,
       FreshIsFree
    DEF HostRelaunches
  <1>6. CASE SupervisorDequeues \/ UserRestarts
    BY <1>6, GoesType, RespawnType, RespawnEndsType, NextAttemptType, ColdFallsType,
       FreshIsFree
    DEF SupervisorDequeues, UserRestarts
  <1>7. ASSUME NEW end \in Ends, NEW server \in Server, EndCleansUp(end, server)
         PROVE  ActorType'
    BY <1>7, GoesType, RespawnType, RespawnEndsType, NextAttemptType, ColdFallsType,
       FreshIsFree
    DEF EndCleansUp
  <1>8. CASE HeartbeatGivesUp
    BY <1>8, GoesType, RespawnType, RespawnEndsType, NextAttemptType, ColdFallsType,
       FreshIsFree
    DEF HeartbeatGivesUp
  <1>9. CASE SystemSuspends \/ PowerSteps \/ SystemResumes \/ ResumeEnsures
    BY <1>9, GoesType, RespawnType, RespawnEndsType, NextAttemptType, ColdFallsType,
       FreshIsFree
    DEF SystemSuspends, PowerSteps, SuspendKills, SuspendClears, SystemResumes,
        ResumeEnsures
  <1>10. CASE LeaveBegins \/ LeaveSteps
    BY <1>10, GoesType, RespawnType, RespawnEndsType, NextAttemptType, ColdFallsType,
       FreshIsFree
    DEF LeaveBegins, LeaveSteps, LeaveWaits, LeaveTakes
  <1>11. CASE ServerObeys \/ ServerFails
    BY <1>11, GoesType, RespawnType, RespawnEndsType, NextAttemptType, ColdFallsType,
       FreshIsFree
    DEF ServerObeys, ServerFails
  <1>12. CASE UNCHANGED supervisorVars
    BY <1>12, GoesType, RespawnType, RespawnEndsType, NextAttemptType, ColdFallsType,
       FreshIsFree
  <1> QED
    BY <1>1, <1>2, <1>3, <1>4, <1>5, <1>6, <1>7, <1>8, <1>9, <1>10, <1>11, <1>12
    DEF SupervisorNext, ColdSteps, RespawnSteps, Actors

LEMMA TaskStep ==
  ASSUME TaskType, ServerType, [SupervisorNext]_supervisorVars
  PROVE  TaskType'
  <1> USE DEF supervisorVars, hostVars, serverVars, linkVars, askVars, actorVars, taskVars,
              historyVars, TaskType, ServerType, Number, Staying
  <1>1. ASSUME NEW a \in Actors, ActorSteps(a) PROVE TaskType'
    BY <1>1 DEF ActorSteps, Spawns, SpawnFails, RotatesReceiver, Connects, ConnectFails,
                BumpsGeneration, Authenticates, AuthFails, AuthClears
  <1>2. CASE ColdChecks \/ ColdInstalls
    BY <1>2 DEF ColdChecks, ColdInstalls
  <1>3. CASE \/ RespawnStandsDown \/ BackoffEnds \/ RespawnKillsOld \/ RespawnDrops
             \/ RespawnSucceeds \/ RespawnExhausted
    BY <1>3 DEF RespawnStandsDown, BackoffEnds, RespawnKillsOld, RespawnDrops,
                RespawnSucceeds, RespawnExhausted
  <1>4. CASE RespawnInstalls
    BY <1>4 DEF RespawnInstalls
  <1>5. CASE HostRelaunches
    BY <1>5 DEF HostRelaunches
  <1>6. CASE SupervisorDequeues \/ UserRestarts
    BY <1>6 DEF SupervisorDequeues, UserRestarts
  <1>7. ASSUME NEW end \in Ends, NEW server \in Server, EndCleansUp(end, server)
         PROVE  TaskType'
    BY <1>7 DEF EndCleansUp
  <1>8. CASE HeartbeatGivesUp
    BY <1>8 DEF HeartbeatGivesUp
  <1>9. CASE SystemSuspends \/ PowerSteps \/ SystemResumes \/ ResumeEnsures
    <2>1. CASE SystemSuspends
      BY <1>9, <2>1 DEF SystemSuspends
    <2>2. CASE SuspendKills \/ SuspendClears
      BY <1>9, <2>2 DEF SuspendKills, SuspendClears
    <2>3. CASE SystemResumes
      BY <1>9, <2>3 DEF SystemResumes
    <2>4. CASE ResumeEnsures
      BY <1>9, <2>4 DEF ResumeEnsures
    <2> QED
      BY <1>9, <2>1, <2>2, <2>3, <2>4 DEF PowerSteps
  <1>10. CASE LeaveBegins \/ LeaveSteps
    <2>1. CASE LeaveBegins
      BY <1>10, <2>1 DEF LeaveBegins
    <2>2. CASE LeaveWaits
      BY <1>10, <2>2 DEF LeaveWaits
    <2>3. CASE LeaveTakes
      BY <1>10, <2>3 DEF LeaveTakes
    <2> QED
      BY <1>10, <2>1, <2>2, <2>3 DEF LeaveSteps
  <1>11. CASE ServerObeys \/ ServerFails
    BY <1>11 DEF ServerObeys, ServerFails
  <1>12. CASE UNCHANGED supervisorVars
    BY <1>12
  <1> QED
    BY <1>1, <1>2, <1>3, <1>4, <1>5, <1>6, <1>7, <1>8, <1>9, <1>10, <1>11, <1>12
    DEF SupervisorNext, ColdSteps, RespawnSteps, Actors

LEMMA CounterStep ==
  ASSUME CounterType, CounterLeads, RespawnHasFlag, FlagType, ActorType, [SupervisorNext]_supervisorVars
  PROVE  CounterType'
  <1> USE SupervisorAssumption
      DEF supervisorVars, hostVars, serverVars, linkVars, askVars, actorVars, taskVars,
          historyVars, CounterLeads, RespawnHasFlag, CounterType, FlagType, At, Counted,
          SupervisorConstants
  <1>1. ASSUME NEW a \in Actors, ActorSteps(a) PROVE CounterType'
    BY <1>1 DEF ActorSteps, Spawns, SpawnFails, RotatesReceiver, Connects, ConnectFails,
                BumpsGeneration, Authenticates, AuthFails, AuthClears
  <1>2. CASE ColdChecks \/ ColdInstalls
    BY <1>2 DEF ColdChecks, ColdInstalls
  <1>3. CASE \/ RespawnStandsDown \/ BackoffEnds \/ RespawnKillsOld \/ RespawnDrops
             \/ RespawnSucceeds \/ RespawnExhausted
    BY <1>3 DEF RespawnStandsDown, BackoffEnds, RespawnKillsOld, RespawnDrops,
                RespawnSucceeds, RespawnExhausted
  <1>4. CASE RespawnInstalls
    BY <1>4 DEF RespawnInstalls
  <1>5. CASE HostRelaunches
    BY <1>5 DEF HostRelaunches
  <1>6. CASE SupervisorDequeues \/ UserRestarts
    BY <1>6 DEF SupervisorDequeues, UserRestarts
  <1>7. ASSUME NEW end \in Ends, NEW server \in Server, EndCleansUp(end, server)
         PROVE  CounterType'
    BY <1>7 DEF EndCleansUp
  <1>8. CASE HeartbeatGivesUp
    BY <1>8 DEF HeartbeatGivesUp
  <1>9. CASE SystemSuspends \/ PowerSteps \/ SystemResumes \/ ResumeEnsures
    BY <1>9 DEF SystemSuspends, PowerSteps, SuspendKills, SuspendClears, SystemResumes,
                ResumeEnsures
  <1>10. CASE LeaveBegins \/ LeaveSteps
    BY <1>10 DEF LeaveBegins, LeaveSteps, LeaveWaits, LeaveTakes
  <1>11. CASE ServerObeys \/ ServerFails
    BY <1>11 DEF ServerObeys, ServerFails
  <1>12. CASE UNCHANGED supervisorVars
    BY <1>12
  <1> QED
    BY <1>1, <1>2, <1>3, <1>4, <1>5, <1>6, <1>7, <1>8, <1>9, <1>10, <1>11, <1>12
    DEF SupervisorNext, ColdSteps, RespawnSteps, Actors

-----------------------------------------------------------------------------
(* The other parts of the invariant.                                         *)
LEMMA RespawnHasFlagStep ==
  ASSUME RespawnHasFlag, ActorType, FlagType, [SupervisorNext]_supervisorVars
  PROVE  RespawnHasFlag'
  <1> USE DEF supervisorVars, hostVars, serverVars, linkVars, askVars, actorVars, taskVars,
              historyVars, RespawnHasFlag, ActorType, FlagType, Actors, At, Goes, Respawn,
              ColdFalls, RespawnEnds, NextAttempt, ReconnectFails, StandsDown, Idle
  <1>1. ASSUME NEW a \in Actors, ActorSteps(a) PROVE RespawnHasFlag'
    BY <1>1 DEF ActorSteps, Spawns, SpawnFails, RotatesReceiver, Connects, ConnectFails,
                BumpsGeneration, Authenticates, AuthFails, AuthClears
  <1>2. CASE ColdChecks \/ ColdInstalls
    BY <1>2 DEF ColdChecks, ColdInstalls
  <1>3. CASE \/ RespawnStandsDown \/ BackoffEnds \/ RespawnKillsOld \/ RespawnDrops
             \/ RespawnSucceeds \/ RespawnExhausted
    BY <1>3 DEF RespawnStandsDown, BackoffEnds, RespawnKillsOld, RespawnDrops,
                RespawnSucceeds, RespawnExhausted
  <1>4. CASE RespawnInstalls
    <2>1. CASE InstallRefused
      BY <1>4, <2>1 DEF RespawnInstalls
    <2>2. CASE ~InstallRefused
      BY <1>4, <2>2 DEF RespawnInstalls
    <2> QED
      BY <2>1, <2>2
  <1>5. CASE HostRelaunches
    BY <1>5 DEF HostRelaunches
  <1>6. CASE SupervisorDequeues \/ UserRestarts
    BY <1>6 DEF SupervisorDequeues, UserRestarts
  <1>7. ASSUME NEW end \in Ends, NEW server \in Server, EndCleansUp(end, server)
         PROVE  RespawnHasFlag'
    BY <1>7 DEF EndCleansUp
  <1>8. CASE HeartbeatGivesUp
    BY <1>8 DEF HeartbeatGivesUp
  <1>9. CASE SystemSuspends \/ PowerSteps \/ SystemResumes \/ ResumeEnsures
    BY <1>9 DEF SystemSuspends, PowerSteps, SuspendKills, SuspendClears, SystemResumes,
                ResumeEnsures
  <1>10. CASE LeaveBegins \/ LeaveSteps
    BY <1>10 DEF LeaveBegins, LeaveSteps, LeaveWaits, LeaveTakes
  <1>11. CASE ServerObeys \/ ServerFails
    BY <1>11 DEF ServerObeys, ServerFails
  <1>12. CASE UNCHANGED supervisorVars
    BY <1>12
  <1> QED
    BY <1>1, <1>2, <1>3, <1>4, <1>5, <1>6, <1>7, <1>8, <1>9, <1>10, <1>11, <1>12
    DEF SupervisorNext, ColdSteps, RespawnSteps, Actors

LEMMA CounterLeadsStep ==
  ASSUME CounterLeads, CounterType, RespawnHasFlag, FlagType, ActorType, [SupervisorNext]_supervisorVars
  PROVE  CounterLeads'
  <1> USE SupervisorAssumption
      DEF supervisorVars, hostVars, serverVars, linkVars, askVars, actorVars, taskVars,
          historyVars, CounterLeads, CounterType, RespawnHasFlag, FlagType, ActorType,
          Actors, Counted, SupervisorConstants, At, Goes, Respawn, ColdFalls, RespawnEnds,
          NextAttempt, ReconnectFails, StandsDown, Idle
  <1>1. ASSUME NEW a \in Actors, ActorSteps(a) PROVE CounterLeads'
    BY <1>1 DEF ActorSteps, Spawns, SpawnFails, RotatesReceiver, Connects, ConnectFails,
                BumpsGeneration, Authenticates, AuthFails, AuthClears
  <1>2. CASE ColdChecks \/ ColdInstalls
    BY <1>2 DEF ColdChecks, ColdInstalls
  <1>3. CASE \/ RespawnStandsDown \/ BackoffEnds \/ RespawnKillsOld \/ RespawnDrops
             \/ RespawnSucceeds \/ RespawnExhausted
    <2>1. CASE RespawnStandsDown \/ BackoffEnds
      BY <1>3, <2>1 DEF RespawnStandsDown, BackoffEnds
    <2>2. CASE RespawnKillsOld \/ RespawnDrops
      BY <1>3, <2>2 DEF RespawnKillsOld, RespawnDrops
    <2>3. CASE RespawnSucceeds
      BY <1>3, <2>3 DEF RespawnSucceeds
    <2>4. CASE RespawnExhausted
      BY <1>3, <2>4 DEF RespawnExhausted
    <2> QED
      BY <1>3, <2>1, <2>2, <2>3, <2>4
  <1>4. CASE RespawnInstalls
    <2>1. CASE InstallRefused
      BY <1>4, <2>1 DEF RespawnInstalls
    <2>2. CASE ~InstallRefused
      BY <1>4, <2>2 DEF RespawnInstalls
    <2> QED
      BY <2>1, <2>2
  <1>5. CASE HostRelaunches
    BY <1>5 DEF HostRelaunches
  <1>6. CASE SupervisorDequeues \/ UserRestarts
    BY <1>6 DEF SupervisorDequeues, UserRestarts
  <1>7. ASSUME NEW end \in Ends, NEW server \in Server, EndCleansUp(end, server)
         PROVE  CounterLeads'
    BY <1>7 DEF EndCleansUp
  <1>8. CASE HeartbeatGivesUp
    BY <1>8 DEF HeartbeatGivesUp
  <1>9. CASE SystemSuspends \/ PowerSteps \/ SystemResumes \/ ResumeEnsures
    BY <1>9 DEF SystemSuspends, PowerSteps, SuspendKills, SuspendClears, SystemResumes,
                ResumeEnsures
  <1>10. CASE LeaveBegins \/ LeaveSteps
    BY <1>10 DEF LeaveBegins, LeaveSteps, LeaveWaits, LeaveTakes
  <1>11. CASE ServerObeys \/ ServerFails
    BY <1>11 DEF ServerObeys, ServerFails
  <1>12. CASE UNCHANGED supervisorVars
    BY <1>12
  <1> QED
    BY <1>1, <1>2, <1>3, <1>4, <1>5, <1>6, <1>7, <1>8, <1>9, <1>10, <1>11, <1>12
    DEF SupervisorNext, ColdSteps, RespawnSteps, Actors

(* A server leaves the hands of its actor only into the slot, or killed; what *)
(* was in the slot is killed before it is overwritten.                       *)
LEMMA NoOrphansStep ==
  ASSUME NoOrphans, RespawnHasFlag, ActorType, ServerType, FlagType, [SupervisorNext]_supervisorVars
  PROVE  NoOrphans'
  <1> USE DEF supervisorVars, hostVars, serverVars, linkVars, askVars, actorVars, taskVars,
              historyVars, NoOrphans, Live, InHand, RespawnHasFlag, FlagType, ActorType,
              ServerType, Number, Actors, Kill, KillsChild, Replaces, Tells, At, Goes,
              Respawn, ColdFalls, RespawnEnds, NextAttempt, ReconnectFails, StandsDown, Idle
  <1>1. ASSUME NEW a \in Actors, ActorSteps(a) PROVE NoOrphans'
    BY <1>1 DEF ActorSteps, Spawns, SpawnFails, RotatesReceiver, Connects, ConnectFails,
                BumpsGeneration, Authenticates, AuthFails, AuthClears
  <1>2. CASE ColdChecks \/ ColdInstalls
    BY <1>2 DEF ColdChecks, ColdInstalls
  <1>3. CASE \/ RespawnStandsDown \/ BackoffEnds \/ RespawnKillsOld \/ RespawnDrops
             \/ RespawnSucceeds \/ RespawnExhausted
    <2>1. CASE RespawnStandsDown \/ BackoffEnds
      BY <1>3, <2>1 DEF RespawnStandsDown, BackoffEnds
    <2>2. CASE RespawnKillsOld \/ RespawnDrops
      BY <1>3, <2>2 DEF RespawnKillsOld, RespawnDrops
    <2>3. CASE RespawnSucceeds
      BY <1>3, <2>3 DEF RespawnSucceeds
    <2>4. CASE RespawnExhausted
      BY <1>3, <2>4 DEF RespawnExhausted
    <2> QED
      BY <1>3, <2>1, <2>2, <2>3, <2>4
  <1>4. CASE RespawnInstalls
    <2>1. CASE InstallRefused
      BY <1>4, <2>1 DEF RespawnInstalls
    <2>2. CASE ~InstallRefused
      BY <1>4, <2>2 DEF RespawnInstalls
    <2> QED
      BY <2>1, <2>2
  <1>5. CASE HostRelaunches
    BY <1>5 DEF HostRelaunches
  <1>6. CASE SupervisorDequeues \/ UserRestarts
    BY <1>6 DEF SupervisorDequeues, UserRestarts
  <1>7. ASSUME NEW end \in Ends, NEW server \in Server, EndCleansUp(end, server)
         PROVE  NoOrphans'
    BY <1>7 DEF EndCleansUp
  <1>8. CASE HeartbeatGivesUp
    BY <1>8 DEF HeartbeatGivesUp
  <1>9. CASE SystemSuspends \/ PowerSteps \/ SystemResumes \/ ResumeEnsures
    <2>1. CASE SystemSuspends
      BY <1>9, <2>1 DEF SystemSuspends
    <2>2. CASE SuspendKills \/ SuspendClears
      BY <1>9, <2>2 DEF SuspendKills, SuspendClears
    <2>3. CASE SystemResumes
      BY <1>9, <2>3 DEF SystemResumes
    <2>4. CASE ResumeEnsures
      BY <1>9, <2>4 DEF ResumeEnsures
    <2> QED
      BY <1>9, <2>1, <2>2, <2>3, <2>4 DEF PowerSteps
  <1>10. CASE LeaveBegins \/ LeaveSteps
    BY <1>10 DEF LeaveBegins, LeaveSteps, LeaveWaits, LeaveTakes
  <1>11. CASE ServerObeys \/ ServerFails
    BY <1>11 DEF ServerObeys, ServerFails
  <1>12. CASE UNCHANGED supervisorVars
    BY <1>12
  <1> QED
    BY <1>1, <1>2, <1>3, <1>4, <1>5, <1>6, <1>7, <1>8, <1>9, <1>10, <1>11, <1>12
    DEF SupervisorNext, ColdSteps, RespawnSteps, Actors

LEMMA TeardownEmptiesStep ==
  ASSUME TeardownEmpties, TaskType, FlagType, ServerType, [SupervisorNext]_supervisorVars
  PROVE  TeardownEmpties'
  <1> USE DEF supervisorVars, hostVars, serverVars, linkVars, askVars, actorVars, taskVars,
              historyVars, TeardownEmpties, TaskType, FlagType, ServerType, At, Replaces,
              KillsChild, InstallRefused, Staying
  <1>1. ASSUME NEW a \in Actors, ActorSteps(a) PROVE TeardownEmpties'
    BY <1>1 DEF ActorSteps, Spawns, SpawnFails, RotatesReceiver, Connects, ConnectFails,
                BumpsGeneration, Authenticates, AuthFails, AuthClears
  <1>2. CASE ColdChecks \/ ColdInstalls
    BY <1>2 DEF ColdChecks, ColdInstalls
  <1>3. CASE \/ RespawnStandsDown \/ BackoffEnds \/ RespawnKillsOld \/ RespawnDrops
             \/ RespawnSucceeds \/ RespawnExhausted
    BY <1>3 DEF RespawnStandsDown, BackoffEnds, RespawnKillsOld, RespawnDrops,
                RespawnSucceeds, RespawnExhausted
  <1>4. CASE RespawnInstalls
    BY <1>4 DEF RespawnInstalls
  <1>5. CASE HostRelaunches
    BY <1>5 DEF HostRelaunches
  <1>6. CASE SupervisorDequeues \/ UserRestarts
    BY <1>6 DEF SupervisorDequeues, UserRestarts
  <1>7. ASSUME NEW end \in Ends, NEW server \in Server, EndCleansUp(end, server)
         PROVE  TeardownEmpties'
    BY <1>7 DEF EndCleansUp
  <1>8. CASE HeartbeatGivesUp
    BY <1>8 DEF HeartbeatGivesUp
  <1>9. CASE SystemSuspends \/ PowerSteps \/ SystemResumes \/ ResumeEnsures
    BY <1>9 DEF SystemSuspends, PowerSteps, SuspendKills, SuspendClears, SystemResumes,
                ResumeEnsures
  <1>10. CASE LeaveBegins \/ LeaveSteps
    <2>1. CASE LeaveBegins
      BY <1>10, <2>1 DEF LeaveBegins
    <2>2. CASE LeaveWaits
      BY <1>10, <2>2 DEF LeaveWaits
    <2>3. CASE LeaveTakes
      BY <1>10, <2>3 DEF LeaveTakes
    <2> QED
      BY <1>10, <2>1, <2>2, <2>3 DEF LeaveSteps
  <1>11. CASE ServerObeys \/ ServerFails
    BY <1>11 DEF ServerObeys, ServerFails
  <1>12. CASE UNCHANGED supervisorVars
    BY <1>12
  <1> QED
    BY <1>1, <1>2, <1>3, <1>4, <1>5, <1>6, <1>7, <1>8, <1>9, <1>10, <1>11, <1>12
    DEF SupervisorNext, ColdSteps, RespawnSteps, Actors

LEMMA EndsShrink ==
  ASSUME FewEnds,
         \A e \in Ends, s \in Server : ends'[<<e, s>>] # "off" =>
            \/ ends[<<e, s>>] # "off"
            \/ \E a \in Actors : At(a, "auth") /\ s = actor[a].server,
         \A a \in Actors : At(a, "auth")' => At(a, "auth") /\ actor'[a].server = actor[a].server
  PROVE  FewEnds'
  <1>1. PICK p, q, r \in Number : EndsOf(p, q, r)
    BY DEF FewEnds
  <1>2. EndsOf(p, q, r)'
    BY <1>1 DEF EndsOf, At
  <1> QED
    BY <1>2 DEF FewEnds, Number

LEMMA FewEndsStep ==
  ASSUME FewEnds, NoOrphans, ActorType, ServerType, [SupervisorNext]_supervisorVars
  PROVE  FewEnds'
  <1> USE DEF supervisorVars, hostVars, serverVars, linkVars, askVars, actorVars, taskVars,
              historyVars, ActorType, Actors, At, Goes, Respawn,
              ColdFalls, RespawnEnds, NextAttempt, ReconnectFails, Idle
  <1> DEFINE OthersKeep == \A a \in Actors : At(a, "auth")' => At(a, "auth") /\ actor'[a].server = actor[a].server
  <1>0. ASSUME UNCHANGED ends, OthersKeep PROVE FewEnds'
    BY <1>0, EndsShrink
  <1>1. ASSUME NEW a \in Actors, ActorSteps(a) PROVE FewEnds'
    <2>1. CASE BumpsGeneration(a)
      <3> DEFINE p == child
                 q == actor["cold"].server
                 r == actor["respawn"].server
      <3>1. p \in Number /\ q \in Number /\ r \in Number
        BY DEF ServerType
      <3>2. Live \subseteq {p, q, r}
        BY DEF NoOrphans, InHand
      <3>3. \A e \in Ends, s \in Server : ends'[<<e, s>>] # "off" => s \in {p, q, r}
        BY <2>1, <3>2 DEF BumpsGeneration, ServerType
      <3>4. \A b \in Actors : actor'[b].server \in {p, q, r}
        BY <2>1 DEF BumpsGeneration
      <3> HIDE DEF p, q, r
      <3>5. PICK x, y, z \in Number : x = p /\ y = q /\ z = r
        BY <3>1
      <3>6. EndsOf(x, y, z)'
        BY <3>3, <3>4, <3>5 DEF EndsOf
      <3> QED
        BY <3>6 DEF FewEnds, Number
    <2>2. CASE Authenticates(a)
      <3>1. OthersKeep
        BY <2>2 DEF Authenticates
      <3>2. \A e \in Ends, s \in Server : ends'[<<e, s>>] # "off" =>
               ends[<<e, s>>] # "off" \/ s = actor[a].server
        BY <2>2 DEF Authenticates, ServerType
      <3>3. At(a, "auth")
        BY <2>2 DEF Authenticates
      <3> QED
        BY <3>1, <3>2, <3>3, EndsShrink
    <2>3. CASE \/ Spawns(a) \/ RotatesReceiver(a) \/ Connects(a) \/ ConnectFails(a) \/ SpawnFails(a)
      BY <1>0, <2>3 DEF Spawns, RotatesReceiver, Connects, ConnectFails, SpawnFails
    <2>4. CASE AuthFails(a) \/ AuthClears(a)
      BY <1>0, <2>4 DEF AuthFails, AuthClears
    <2> QED
      BY <1>1, <2>1, <2>2, <2>3, <2>4 DEF ActorSteps
  <1>2. CASE ColdChecks \/ ColdInstalls
    BY <1>0, <1>2 DEF ColdChecks, ColdInstalls
  <1>3. CASE \/ RespawnStandsDown \/ BackoffEnds \/ RespawnKillsOld \/ RespawnDrops
             \/ RespawnSucceeds \/ RespawnExhausted
    BY <1>0, <1>3 DEF RespawnStandsDown, BackoffEnds, RespawnKillsOld, RespawnDrops,
                RespawnSucceeds, RespawnExhausted
  <1>4. CASE RespawnInstalls
    BY <1>0, <1>4 DEF RespawnInstalls
  <1>5. CASE HostRelaunches
    BY <1>5, EndsShrink DEF HostRelaunches
  <1>6. CASE SupervisorDequeues \/ UserRestarts
    BY <1>0, <1>6 DEF SupervisorDequeues, UserRestarts
  <1>7. ASSUME NEW end \in Ends, NEW server \in Server, EndCleansUp(end, server)
         PROVE  FewEnds'
    <2>1. OthersKeep
      BY <1>7 DEF EndCleansUp
    <2>2. \A e \in Ends, s \in Server : ends'[<<e, s>>] # "off" => ends[<<e, s>>] # "off"
      BY <1>7 DEF EndCleansUp, ServerType
    <2> QED
      BY <2>1, <2>2, EndsShrink
  <1>8. CASE HeartbeatGivesUp
    BY <1>0, <1>8 DEF HeartbeatGivesUp
  <1>9. CASE SystemSuspends \/ PowerSteps \/ SystemResumes \/ ResumeEnsures
    BY <1>0, <1>9 DEF SystemSuspends, PowerSteps, SuspendKills, SuspendClears, SystemResumes,
                ResumeEnsures
  <1>10. CASE LeaveBegins \/ LeaveSteps
    BY <1>0, <1>10 DEF LeaveBegins, LeaveSteps, LeaveWaits, LeaveTakes
  <1>11. CASE ServerObeys \/ ServerFails
    BY <1>0, <1>11 DEF ServerObeys, ServerFails
  <1>12. CASE UNCHANGED supervisorVars
    BY <1>0, <1>12
  <1> QED
    BY <1>1, <1>2, <1>3, <1>4, <1>5, <1>6, <1>7, <1>8, <1>9, <1>10, <1>11, <1>12
    DEF SupervisorNext, ColdSteps, RespawnSteps

-----------------------------------------------------------------------------
LEMMA SupervisorInitially == SupervisorInit => SupervisorIInv
  <1> SUFFICES ASSUME SupervisorInit PROVE SupervisorIInv
    OBVIOUS
  <1> USE DEF SupervisorInit
  <1>1. SupervisorTypeOK
    BY SupervisorInitType
  <1>2. NoOrphans
    BY DEF NoOrphans, Live
  <1>3. RespawnHasFlag
    BY DEF RespawnHasFlag, Idle, Actors
  <1>4. CounterLeads
    BY SupervisorAssumption DEF CounterLeads, SupervisorConstants, At, Idle, Actors
  <1>5. TeardownEmpties
    BY DEF TeardownEmpties, Staying
  <1>6. EndsOf(None, None, None)
    BY DEF EndsOf, At, Idle, Actors
  <1>7. FewEnds
    BY <1>6 DEF FewEnds, Number
  <1> QED
    BY <1>1, <1>2, <1>3, <1>4, <1>5, <1>7 DEF SupervisorIInv

LEMMA SupervisorInduction ==
  SupervisorIInv /\ [SupervisorNext]_supervisorVars => SupervisorIInv'
  BY FlagStep, ServerStep, QueueStep, ActorStep, TaskStep, CounterStep, RespawnHasFlagStep,
     CounterLeadsStep, NoOrphansStep, TeardownEmptiesStep, FewEndsStep
  DEF SupervisorIInv, SupervisorTypeOK

LEMMA SupervisorInvariance == SupervisorSpec => []SupervisorIInv
  BY SupervisorInitially, SupervisorInduction, PTL DEF SupervisorSpec

(* The supervisor's variables keep their types; with them the breaker: the   *)
(* counter of the file, and the relaunches since a respawn last succeeded,   *)
(* stay within MAX_RESTART_ATTEMPTS however cold starts, respawns and        *)
(* relaunches of the host follow each other.                                 *)
THEOREM SupervisorTypeCorrect == SupervisorSpec => []SupervisorTypeOK
  BY SupervisorInvariance, PTL DEF SupervisorIInv

(* No server is orphaned: whatever the cold start, the respawn, the suspend, *)
(* the exit and the failures of servers do at once, a process that runs is   *)
(* the one in state.child or in the hands of who started it.                 *)
THEOREM NothingOrphaned == SupervisorSpec => []NoOrphans
  BY SupervisorInvariance, PTL DEF SupervisorIInv

(* When the teardown of the exit is over and no start is under way, no       *)
(* server runs, unless a cold start installed one after the flag was up.     *)
THEOREM ExitIsClean == SupervisorSpec => []ExitLeavesNone
  <1>1. SupervisorIInv => ExitLeavesNone
    <2> SUFFICES ASSUME SupervisorIInv, leaving.at = "done", ~inProgress, At("cold", "idle"), ~lateInstall
                 PROVE  Live = {}
      BY DEF ExitLeavesNone
    <2>1. child = None
      BY DEF SupervisorIInv, TeardownEmpties
    <2>2. InHand("cold") = {} /\ InHand("respawn") = {}
      BY DEF SupervisorIInv, RespawnHasFlag, InHand, At
    <2>3. Live \subseteq {None} /\ Live \subseteq Server /\ None \notin Server
      BY <2>1, <2>2, SupervisorAssumption DEF SupervisorIInv, NoOrphans, Live, SupervisorConstants
    <2> QED
      BY <2>3
  <1> QED
    BY <1>1, SupervisorInvariance, PTL

(* respawn_in_progress is up exactly while a respawn is under way: whichever *)
(* of its ways out a respawn takes (stood down, refused by the exit, failed  *)
(* for good, succeeded), the flag goes with it, so what keeps later requests *)
(* out is always a respawn that runs, never a flag that was left up.         *)
THEOREM FlagIsTheRespawns == SupervisorSpec => []RespawnHasFlag
  BY SupervisorInvariance, PTL DEF SupervisorIInv

-----------------------------------------------------------------------------
(* How many numbers a behaviour can need.                                    *)

ManyServers == IsFiniteSet(Server) => Cardinality(Server) > 10

AtMost(S, n) == IsFiniteSet(S) /\ Cardinality(S) <= n

LEMMA OneMore ==
  ASSUME NEW S, NEW T, NEW x, T \subseteq S \cup {x},
         NEW n \in Nat, NEW m \in Nat, m = n + 1, AtMost(S, n)
  PROVE  AtMost(T, m)
  <1>1. IsFiniteSet(S) /\ Cardinality(S) \in Nat /\ Cardinality(S) <= n
    BY FS_CardinalityType DEF AtMost
  <1>2. /\ IsFiniteSet(S \cup {x})
        /\ Cardinality(S \cup {x}) = IF x \in S THEN Cardinality(S) ELSE Cardinality(S) + 1
    BY <1>1, FS_AddElement
  <1>3. IsFiniteSet(T) /\ Cardinality(T) <= Cardinality(S \cup {x})
    BY <1>2, FS_Subset
  <1>4. Cardinality(T) \in Nat
    BY <1>3, FS_CardinalityType
  <1> QED
    BY <1>1, <1>2, <1>3, <1>4 DEF AtMost

LEMMA FiveMore ==
  ASSUME NEW S, NEW T, NEW a, NEW b, NEW c, NEW d, NEW e, T \subseteq S \cup {a, b, c, d, e},
         NEW n \in Nat, NEW m \in Nat, m = n + 5, AtMost(S, n)
  PROVE  AtMost(T, m)
  <1> DEFINE A == S \cup {a}
             B == A \cup {b}
             C == B \cup {c}
             D == C \cup {d}
  <1>1. PICK i, j, k, l \in Nat : i = n + 1 /\ j = i + 1 /\ k = j + 1 /\ l = k + 1
    OBVIOUS
  <1>2. m = l + 1
    BY <1>1
  <1>3. A \subseteq S \cup {a} /\ B \subseteq A \cup {b} /\ C \subseteq B \cup {c} /\ D \subseteq C \cup {d}
    OBVIOUS
  <1>4. T \subseteq D \cup {e}
    OBVIOUS
  <1> HIDE DEF A, B, C, D
  <1>5. AtMost(A, i)
    BY <1>1, <1>3, OneMore, Zenon
  <1>6. AtMost(B, j)
    BY <1>1, <1>3, <1>5, OneMore, Zenon
  <1>7. AtMost(C, k)
    BY <1>1, <1>3, <1>6, OneMore, Zenon
  <1>8. AtMost(D, l)
    BY <1>1, <1>3, <1>7, OneMore, Zenon
  <1> QED
    BY <1>2, <1>4, <1>8, OneMore, ZenonT(60)

(* A set of that many numbers is not one of ten members.                     *)
LEMMA TenAreFew ==
  ASSUME ManyServers, NEW a, NEW b, NEW c, NEW d, NEW e, NEW f, NEW g, NEW h, NEW i, NEW j
  PROVE  ~(Server \subseteq {a, b, c, d, e, f, g, h, i, j})
  <1>1. PICK Five, Ten : /\ Five \subseteq {} \cup {a, b, c, d, e}
                         /\ Ten \subseteq Five \cup {f, g, h, i, j}
                         /\ Ten = {a, b, c, d, e, f, g, h, i, j}
    <2>1. {a, b, c, d, e, f, g, h, i, j} \subseteq {a, b, c, d, e} \cup {f, g, h, i, j}
      OBVIOUS
    <2>2. {a, b, c, d, e} \subseteq {} \cup {a, b, c, d, e}
      OBVIOUS
    <2> QED
      BY <2>1, <2>2
  <1>2. AtMost({}, 0)
    BY FS_EmptySet DEF AtMost
  <1>4. AtMost(Five, 5)
    <2>1. Five \subseteq {} \cup {a, b, c, d, e}
      BY <1>1
    <2>2. 0 \in Nat /\ 5 \in Nat /\ 5 = 0 + 5
      OBVIOUS
    <2> QED
      BY <1>2, <2>1, <2>2, FiveMore, ZenonT(60)
  <1>5. AtMost(Ten, 10)
    <2>1. Ten \subseteq Five \cup {f, g, h, i, j}
      BY <1>1
    <2>2. 5 \in Nat /\ 10 \in Nat /\ 10 = 5 + 5
      OBVIOUS
    <2> QED
      BY <1>4, <2>1, <2>2, FiveMore, ZenonT(60)
  <1>6. IsFiniteSet(Ten) /\ Cardinality(Ten) <= 10
    BY <1>5 DEF AtMost
  <1> SUFFICES ASSUME Server \subseteq Ten PROVE FALSE
    BY <1>1
  <1>7. IsFiniteSet(Server) /\ Cardinality(Server) <= Cardinality(Ten)
    BY <1>6, FS_Subset
  <1>8. Cardinality(Server) \in Nat /\ Cardinality(Ten) \in Nat
    BY <1>6, <1>7, FS_CardinalityType
  <1> QED
    BY <1>6, <1>7, <1>8 DEF ManyServers

LEMMA TenAreReferenced ==
  ASSUME SupervisorIInv, ManyServers
  PROVE  NumbersSuffice
  <1>1. PICK p, q, r \in Number : EndsOf(p, q, r)
    BY DEF SupervisorIInv, FewEnds
  <1>2. Live \subseteq {child, actor["cold"].server, actor["respawn"].server}
    BY DEF SupervisorIInv, NoOrphans, InHand
  <1>3. {s \in Server : \E e \in Ends : ends[<<e, s>>] # "off"} \subseteq {p, q, r}
    BY <1>1 DEF EndsOf
  <1>4. {actor[a].server : a \in Actors} = {actor["cold"].server, actor["respawn"].server}
    BY DEF Actors
  <1>5. Referenced \subseteq {p, q, r, child, exitOf, tx, current, leaving.rx,
                             actor["cold"].server, actor["respawn"].server}
    BY <1>2, <1>3, <1>4 DEF Referenced
  <1> QED
    BY <1>5, TenAreFew DEF NumbersSuffice

(* Server bounds nothing when it has more than ten members: however many     *)
(* servers are started and lost, the handle, the receivers, the sender, the  *)
(* generation, the actors and the tasks of ended connections name ten of     *)
(* them at a time at most, so a number is always free for the next one.      *)
THEOREM TenNumbersSuffice ==
  ASSUME ManyServers
  PROVE  SupervisorSpec => []NumbersSuffice
  <1>1. SupervisorIInv => NumbersSuffice
    BY TenAreReferenced
  <1> QED
    BY <1>1, SupervisorInvariance, PTL

-----------------------------------------------------------------------------
(* Who tends the link to the server.                                         *)

(* Nobody brings a server up and no heartbeat runs, and the host neither     *)
(* leaves nor has given up: it is then up to the requests, the tasks of the  *)
(* connection and those of the power events.                                 *)
Deserted ==
    /\ ~heartbeat /\ At("cold", "idle") /\ At("respawn", "idle")
    /\ ~shutting /\ ~gaveUp

Requested == \E i \in DOMAIN queue : queue[i] # "older"
WriterOn  == current # None /\ ends[<<"writer", current>>] = "on"

(* A request that will be served waits, the suspend has yet to take the      *)
(* sender, a resume will miss the sender, or the writer of the newest        *)
(* connection does and will ask for a respawn.                               *)
SomebodyWillAsk ==
    \/ Requested
    \/ power.stop # "off" /\ tx # None
    \/ power.resume /\ tx = None
    \/ WriterOn /\ tx = None

LinkIsTended == Deserted => suspended \/ SomebodyWillAsk

(* Whoever asked for a respawn is forgotten with it, and the power events    *)
(* wait for the end of the cold start.                                       *)
AskerFollows   == At("respawn", "idle") => asker = "nobody"
PowerAfterCold == suspended \/ power.stop # "off" => At("cold", "idle")

(* A sender has the writer of the newest connection, or one that is about to *)
(* become the newest.                                                        *)
SenderHasWriter ==
    /\ \A a \in Actors : At(a, "bump") => actor[a].server # None
    /\ tx # None => WriterOn \/ \E a \in Actors : At(a, "bump")

(* Only a suspend ends the heartbeat of a respawn that is not over, ...      *)
ResetIsWatched ==
    At("respawn", "reset") /\ ~heartbeat /\ ~shutting
      => suspended /\ (tx = None \/ power.stop # "off")

(* ... its task takes the sender before a resume can rely on it, and no      *)
(* request that waits was overtaken by a connection.                         *)
DesertedWell ==
    Deserted => /\ suspended => tx = None \/ power.stop # "off"
                /\ ~suspended => /\ \A i \in DOMAIN queue : queue[i] # "older"
                                 /\ SomebodyWillAsk

TendedInv ==
    /\ AskerFollows /\ PowerAfterCold /\ SenderHasWriter /\ ResetIsWatched /\ DesertedWell

LEMMA AskerFollowsStep ==
  ASSUME AskerFollows, RespawnHasFlag, ActorType, FlagType, [SupervisorNext]_supervisorVars
  PROVE  AskerFollows'
  <1> USE DEF supervisorVars, hostVars, serverVars, linkVars, askVars, actorVars, taskVars,
              historyVars, AskerFollows, RespawnHasFlag, ActorType, FlagType, Actors, At, Goes,
              Respawn, ColdFalls, RespawnEnds, NextAttempt, ReconnectFails, StandsDown, Idle
  <1>1. ASSUME NEW a \in Actors, ActorSteps(a) PROVE AskerFollows'
    BY <1>1 DEF ActorSteps, Spawns, SpawnFails, RotatesReceiver, Connects, ConnectFails,
                BumpsGeneration, Authenticates, AuthFails, AuthClears
  <1>2. CASE ColdChecks \/ ColdInstalls
    BY <1>2 DEF ColdChecks, ColdInstalls
  <1>3. CASE \/ RespawnStandsDown \/ BackoffEnds \/ RespawnKillsOld \/ RespawnDrops
             \/ RespawnSucceeds \/ RespawnExhausted
    BY <1>3 DEF RespawnStandsDown, BackoffEnds, RespawnKillsOld, RespawnDrops,
                RespawnSucceeds, RespawnExhausted
  <1>4. CASE RespawnInstalls
    <2>1. CASE InstallRefused
      BY <1>4, <2>1 DEF RespawnInstalls
    <2>2. CASE ~InstallRefused
      BY <1>4, <2>2 DEF RespawnInstalls
    <2> QED
      BY <2>1, <2>2
  <1>5. CASE HostRelaunches
    BY <1>5 DEF HostRelaunches
  <1>6. CASE SupervisorDequeues \/ UserRestarts
    BY <1>6 DEF SupervisorDequeues, UserRestarts
  <1>7. ASSUME NEW end \in Ends, NEW server \in Server, EndCleansUp(end, server)
         PROVE  AskerFollows'
    BY <1>7 DEF EndCleansUp
  <1>8. CASE HeartbeatGivesUp
    BY <1>8 DEF HeartbeatGivesUp
  <1>9. CASE SystemSuspends \/ PowerSteps \/ SystemResumes \/ ResumeEnsures
    BY <1>9 DEF SystemSuspends, PowerSteps, SuspendKills, SuspendClears, SystemResumes,
                ResumeEnsures
  <1>10. CASE LeaveBegins \/ LeaveSteps
    BY <1>10 DEF LeaveBegins, LeaveSteps, LeaveWaits, LeaveTakes
  <1>11. CASE ServerObeys \/ ServerFails
    BY <1>11 DEF ServerObeys, ServerFails
  <1>12. CASE UNCHANGED supervisorVars
    BY <1>12
  <1> QED
    BY <1>1, <1>2, <1>3, <1>4, <1>5, <1>6, <1>7, <1>8, <1>9, <1>10, <1>11, <1>12
    DEF SupervisorNext, ColdSteps, RespawnSteps, Actors

LEMMA PowerAfterColdStep ==
  ASSUME PowerAfterCold, ActorType, TaskType, [SupervisorNext]_supervisorVars
  PROVE  PowerAfterCold'
  <1> USE DEF supervisorVars, hostVars, serverVars, linkVars, askVars, actorVars, taskVars,
              historyVars, PowerAfterCold, ActorType, TaskType, Actors, At, Goes,
              Respawn, ColdFalls, RespawnEnds, NextAttempt, ReconnectFails, Idle
  <1>1. ASSUME NEW a \in Actors, ActorSteps(a) PROVE PowerAfterCold'
    BY <1>1 DEF ActorSteps, Spawns, SpawnFails, RotatesReceiver, Connects, ConnectFails,
                BumpsGeneration, Authenticates, AuthFails, AuthClears
  <1>2. CASE ColdChecks \/ ColdInstalls
    BY <1>2 DEF ColdChecks, ColdInstalls
  <1>3. CASE \/ RespawnStandsDown \/ BackoffEnds \/ RespawnKillsOld \/ RespawnDrops
             \/ RespawnSucceeds \/ RespawnExhausted
    BY <1>3 DEF RespawnStandsDown, BackoffEnds, RespawnKillsOld, RespawnDrops,
                RespawnSucceeds, RespawnExhausted
  <1>4. CASE RespawnInstalls
    BY <1>4 DEF RespawnInstalls
  <1>5. CASE HostRelaunches
    BY <1>5 DEF HostRelaunches
  <1>6. CASE SupervisorDequeues \/ UserRestarts
    BY <1>6 DEF SupervisorDequeues, UserRestarts
  <1>7. ASSUME NEW end \in Ends, NEW server \in Server, EndCleansUp(end, server)
         PROVE  PowerAfterCold'
    BY <1>7 DEF EndCleansUp
  <1>8. CASE HeartbeatGivesUp
    BY <1>8 DEF HeartbeatGivesUp
  <1>9. CASE SystemSuspends \/ PowerSteps \/ SystemResumes \/ ResumeEnsures
    BY <1>9 DEF SystemSuspends, PowerSteps, SuspendKills, SuspendClears, SystemResumes,
                ResumeEnsures
  <1>10. CASE LeaveBegins \/ LeaveSteps
    BY <1>10 DEF LeaveBegins, LeaveSteps, LeaveWaits, LeaveTakes
  <1>11. CASE ServerObeys \/ ServerFails
    BY <1>11 DEF ServerObeys, ServerFails
  <1>12. CASE UNCHANGED supervisorVars
    BY <1>12
  <1> QED
    BY <1>1, <1>2, <1>3, <1>4, <1>5, <1>6, <1>7, <1>8, <1>9, <1>10, <1>11, <1>12
    DEF SupervisorNext, ColdSteps, RespawnSteps, Actors

LEMMA SenderHasWriterStep ==
  ASSUME SenderHasWriter, RespawnHasFlag, ActorType, ServerType, [SupervisorNext]_supervisorVars
  PROVE  SenderHasWriter'
  <1> USE SupervisorAssumption
      DEF supervisorVars, hostVars, serverVars, linkVars, askVars, actorVars, taskVars,
          historyVars, SenderHasWriter, WriterOn, RespawnHasFlag, ActorType, ServerType, Number,
          Actors, Ends, At, Goes, Respawn, ColdFalls, RespawnEnds, NextAttempt, ReconnectFails,
          StandsDown, Idle, SupervisorConstants
  <1>1. ASSUME NEW a \in Actors, ActorSteps(a) PROVE SenderHasWriter'
    <2>1. CASE Spawns(a) \/ SpawnFails(a) \/ RotatesReceiver(a)
      BY <1>1, <2>1 DEF Spawns, SpawnFails, RotatesReceiver
    <2>2. CASE Connects(a)
      BY <1>1, <2>2 DEF Connects, Live
    <2>3. CASE BumpsGeneration(a)
      <3>1. /\ actor[a].server \in Server /\ current' = actor[a].server
            /\ ends'[<<"writer", actor[a].server>>] = "on"
        BY <2>3 DEF BumpsGeneration
      <3>2. WriterOn'
        BY <3>1
      <3>3. \A b \in Actors : At(b, "bump")' => At(b, "bump") /\ actor'[b].server = actor[b].server
        BY <2>3 DEF BumpsGeneration
      <3> QED
        BY <3>2, <3>3
    <2>4. CASE Authenticates(a)
      BY <1>1, <2>4 DEF Authenticates
    <2>5. CASE ConnectFails(a) \/ AuthFails(a) \/ AuthClears(a)
      BY <1>1, <2>5 DEF ConnectFails, AuthFails, AuthClears
    <2> QED
      BY <1>1, <2>1, <2>2, <2>3, <2>4, <2>5 DEF ActorSteps
  <1>2. CASE ColdChecks \/ ColdInstalls
    BY <1>2 DEF ColdChecks, ColdInstalls
  <1>3. CASE \/ RespawnStandsDown \/ BackoffEnds \/ RespawnKillsOld \/ RespawnDrops
             \/ RespawnSucceeds \/ RespawnExhausted
    BY <1>3 DEF RespawnStandsDown, BackoffEnds, RespawnKillsOld, RespawnDrops,
                RespawnSucceeds, RespawnExhausted
  <1>4. CASE RespawnInstalls
    <2>1. CASE InstallRefused
      BY <1>4, <2>1 DEF RespawnInstalls
    <2>2. CASE ~InstallRefused
      BY <1>4, <2>2 DEF RespawnInstalls
    <2> QED
      BY <2>1, <2>2
  <1>5. CASE HostRelaunches
    BY <1>5 DEF HostRelaunches
  <1>6. CASE SupervisorDequeues \/ UserRestarts
    <2>1. /\ UNCHANGED <<tx, current, ends>>
          /\ actor' = actor \/ \E by \in {"queue", "user"} : Respawn(by, actor)
      BY <1>6 DEF SupervisorDequeues, UserRestarts
    <2>2. \A a \in Actors :
             actor'[a].server = actor[a].server /\ (At(a, "bump")' <=> At(a, "bump"))
      BY <2>1
    <2> QED
      BY <2>1, <2>2
  <1>7. ASSUME NEW end \in Ends, NEW server \in Server, EndCleansUp(end, server)
         PROVE  SenderHasWriter'
    BY <1>7 DEF EndCleansUp, IsCurrent
  <1>8. CASE HeartbeatGivesUp
    BY <1>8 DEF HeartbeatGivesUp
  <1>9. CASE SystemSuspends \/ PowerSteps \/ SystemResumes \/ ResumeEnsures
    <2>1. CASE SystemSuspends
      BY <2>1 DEF SystemSuspends
    <2>2. CASE PowerSteps
      BY <2>2 DEF PowerSteps, SuspendKills, SuspendClears
    <2>3. CASE SystemResumes
      BY <2>3 DEF SystemResumes
    <2>4. CASE ResumeEnsures
      BY <2>4 DEF ResumeEnsures
    <2> QED
      BY <1>9, <2>1, <2>2, <2>3, <2>4
  <1>10. CASE LeaveBegins \/ LeaveSteps
    BY <1>10 DEF LeaveBegins, LeaveSteps, LeaveWaits, LeaveTakes
  <1>11. CASE ServerObeys \/ ServerFails
    BY <1>11 DEF ServerObeys, ServerFails
  <1>12. CASE UNCHANGED supervisorVars
    BY <1>12
  <1> QED
    BY <1>1, <1>2, <1>3, <1>4, <1>5, <1>6, <1>7, <1>8, <1>9, <1>10, <1>11, <1>12
    DEF SupervisorNext, ColdSteps, RespawnSteps, Actors

LEMMA ResetIsWatchedStep ==
  ASSUME ResetIsWatched, PowerAfterCold, RespawnHasFlag, ActorType, FlagType, TaskType,
         [SupervisorNext]_supervisorVars
  PROVE  ResetIsWatched'
  <1> USE DEF supervisorVars, hostVars, serverVars, linkVars, askVars, actorVars, taskVars,
              historyVars, ResetIsWatched, PowerAfterCold, RespawnHasFlag, ActorType, FlagType,
              TaskType, Actors, At, Goes, Respawn, ColdFalls, RespawnEnds, NextAttempt,
              ReconnectFails, StandsDown, Idle
  <1>1. ASSUME NEW a \in Actors, ActorSteps(a) PROVE ResetIsWatched'
    <2>1. CASE Spawns(a) \/ SpawnFails(a) \/ RotatesReceiver(a)
      BY <1>1, <2>1 DEF Spawns, SpawnFails, RotatesReceiver
    <2>2. CASE Connects(a) \/ BumpsGeneration(a)
      BY <1>1, <2>2 DEF Connects, BumpsGeneration
    <2>3. CASE Authenticates(a)
      BY <1>1, <2>3 DEF Authenticates
    <2>4. CASE ConnectFails(a) \/ AuthFails(a) \/ AuthClears(a)
      BY <1>1, <2>4 DEF ConnectFails, AuthFails, AuthClears
    <2> QED
      BY <1>1, <2>1, <2>2, <2>3, <2>4 DEF ActorSteps
  <1>2. CASE ColdChecks \/ ColdInstalls
    BY <1>2 DEF ColdChecks, ColdInstalls
  <1>3. CASE \/ RespawnStandsDown \/ BackoffEnds \/ RespawnKillsOld \/ RespawnDrops
             \/ RespawnSucceeds \/ RespawnExhausted
    BY <1>3 DEF RespawnStandsDown, BackoffEnds, RespawnKillsOld, RespawnDrops,
                RespawnSucceeds, RespawnExhausted
  <1>4. CASE RespawnInstalls
    <2>1. CASE InstallRefused
      BY <1>4, <2>1 DEF RespawnInstalls
    <2>2. CASE ~InstallRefused
      BY <1>4, <2>2 DEF RespawnInstalls
    <2> QED
      BY <2>1, <2>2
  <1>5. CASE HostRelaunches
    BY <1>5 DEF HostRelaunches
  <1>6. CASE SupervisorDequeues \/ UserRestarts
    BY <1>6 DEF SupervisorDequeues, UserRestarts
  <1>7. ASSUME NEW end \in Ends, NEW server \in Server, EndCleansUp(end, server)
         PROVE  ResetIsWatched'
    BY <1>7 DEF EndCleansUp
  <1>8. CASE HeartbeatGivesUp
    BY <1>8 DEF HeartbeatGivesUp
  <1>9. CASE SystemSuspends \/ PowerSteps \/ SystemResumes \/ ResumeEnsures
    <2>1. CASE SystemSuspends
      BY <2>1 DEF SystemSuspends
    <2>2. CASE PowerSteps
      BY <2>2 DEF PowerSteps, SuspendKills, SuspendClears
    <2>3. CASE SystemResumes
      BY <2>3 DEF SystemResumes
    <2>4. CASE ResumeEnsures
      BY <2>4 DEF ResumeEnsures
    <2> QED
      BY <1>9, <2>1, <2>2, <2>3, <2>4
  <1>10. CASE LeaveBegins \/ LeaveSteps
    BY <1>10 DEF LeaveBegins, LeaveSteps, LeaveWaits, LeaveTakes
  <1>11. CASE ServerObeys \/ ServerFails
    BY <1>11 DEF ServerObeys, ServerFails
  <1>12. CASE UNCHANGED supervisorVars
    BY <1>12
  <1> QED
    BY <1>1, <1>2, <1>3, <1>4, <1>5, <1>6, <1>7, <1>8, <1>9, <1>10, <1>11, <1>12
    DEF SupervisorNext, ColdSteps, RespawnSteps, Actors

(* A request that was not overtaken is served, and one that finds the queue  *)
(* full finds such a one in it.                                              *)
LEMMA AskedIsRequested ==
  ASSUME QueueType, \A i \in DOMAIN queue : queue[i] # "older",
         NEW asked \in {"none", "newest"}, Asks(asked)
  PROVE  Requested' /\ \A i \in DOMAIN queue' : queue'[i] # "older"
  <1>1. queue \in Seq(Asked) /\ asked \in Asked /\ asked # "older" /\ QueueSize \in Nat \ {0}
    BY SupervisorAssumption DEF QueueType, Asked, SupervisorConstants
  <1>2. CASE Len(queue) < QueueSize
    <2>1. /\ queue' = Append(queue, asked) /\ Len(queue') = Len(queue) + 1
          /\ DOMAIN queue' = 1..(Len(queue) + 1) /\ DOMAIN queue = 1..Len(queue)
          /\ queue'[Len(queue) + 1] = asked
          /\ \A i \in DOMAIN queue : queue'[i] = queue[i]
      BY <1>1, <1>2 DEF Asks
    <2>2. \A i \in DOMAIN queue' : queue'[i] # "older"
      <3> SUFFICES ASSUME NEW i \in DOMAIN queue' PROVE queue'[i] # "older"
        OBVIOUS
      <3>1. CASE i = Len(queue) + 1
        BY <1>1, <2>1, <3>1
      <3>2. CASE i # Len(queue) + 1
        <4>1. i \in DOMAIN queue
          BY <1>1, <2>1, <3>2
        <4> QED
          BY <2>1, <4>1
      <3> QED
        BY <3>1, <3>2
    <2>3. Len(queue) + 1 \in DOMAIN queue'
      BY <1>1, <2>1
    <2> QED
      BY <1>1, <2>1, <2>2, <2>3 DEF Requested
  <1>3. CASE ~(Len(queue) < QueueSize)
    <2>1. queue' = queue /\ 1 \in DOMAIN queue
      BY <1>1, <1>3 DEF Asks, QueueType
    <2> QED
      BY <2>1 DEF Requested
  <1> QED
    BY <1>2, <1>3

LEMMA DesertedWellStep ==
  ASSUME TendedInv, SupervisorIInv, [SupervisorNext]_supervisorVars,
         ~(suspended /\ HeartbeatGivesUp)
  PROVE  DesertedWell'
  <1>1. /\ AskerFollows /\ PowerAfterCold /\ SenderHasWriter /\ ResetIsWatched /\ DesertedWell
        /\ ActorType /\ FlagType /\ ServerType /\ QueueType /\ TaskType
        /\ RespawnHasFlag /\ CounterLeads /\ CounterType
    BY DEF TendedInv, SupervisorIInv, SupervisorTypeOK
  <1> USE <1>1
      DEF supervisorVars, hostVars, serverVars, linkVars, askVars, actorVars, taskVars,
          historyVars, ActorType, FlagType, RespawnHasFlag, Actors, At, Goes, Deserted
  <1>2. ASSUME NEW by, NEW freed \in [Actors -> [at : Stations, server : Number]],
               Respawn(by, freed), ~suspended \/ freed["respawn"].at # "idle", UNCHANGED <<suspended, shutting, heartbeat>>,
               freed["respawn"] = actor["respawn"]
        PROVE  ~Deserted'
    BY <1>2 DEF Respawn, StandsDown, CounterLeads
  <1>3. ASSUME UNCHANGED <<shutting, suspended, gaveUp, heartbeat, actor, tx, power, queue>>,
               WriterOn => WriterOn'
        PROVE  DesertedWell'
    BY <1>3 DEF DesertedWell, SomebodyWillAsk, Requested
  <1>4. ASSUME NEW a \in Actors, ActorSteps(a) PROVE DesertedWell'
    <2>1. ~At(a, "idle")
      BY <1>4 DEF ActorSteps, Spawns, SpawnFails, RotatesReceiver, Connects, ConnectFails,
                BumpsGeneration, Authenticates, AuthFails, AuthClears
    <2>2. CASE ColdFalls /\ a = "cold" /\ UNCHANGED <<suspended, shutting, heartbeat>>
      <3>1. ~suspended
        BY <2>1, <2>2 DEF PowerAfterCold
      <3>2. [actor EXCEPT !["cold"] = Idle] \in [Actors -> [at : Stations, server : Number]]
        BY DEF Idle, Stations, Number
      <3> QED
        BY <1>2, <2>2, <3>1, <3>2 DEF ColdFalls, DesertedWell
    <2>3. CASE heartbeat'
      BY <2>3 DEF DesertedWell
    <2>4. CASE actor'[a].at # "idle"
      BY <2>4 DEF DesertedWell
    <2>5. \/ ColdFalls /\ a = "cold" /\ UNCHANGED <<suspended, shutting, heartbeat>>
          \/ heartbeat'
          \/ actor'[a].at # "idle"
      <3>1. CASE Spawns(a) \/ RotatesReceiver(a) \/ Connects(a) \/ BumpsGeneration(a)
        BY <3>1 DEF Spawns, RotatesReceiver, Connects, BumpsGeneration
      <3>2. CASE SpawnFails(a)
        BY <3>2 DEF SpawnFails, NextAttempt
      <3>3. CASE Authenticates(a)
        BY <3>3 DEF Authenticates
      <3>4. CASE ConnectFails(a) \/ AuthClears(a)
        BY <3>4 DEF ConnectFails, AuthClears, ReconnectFails
      <3>5. CASE AuthFails(a)
        BY <3>5 DEF AuthFails, ReconnectFails
      <3> QED
        BY <1>4, <3>1, <3>2, <3>3, <3>4, <3>5 DEF ActorSteps
    <2> QED
      BY <2>2, <2>3, <2>4, <2>5
  <1>5. CASE ColdChecks \/ ColdInstalls
    BY <1>5 DEF ColdChecks, ColdInstalls, DesertedWell, Idle
  <1>6. CASE \/ RespawnStandsDown \/ BackoffEnds \/ RespawnKillsOld \/ RespawnDrops
             \/ RespawnExhausted
    BY <1>6 DEF RespawnStandsDown, BackoffEnds, RespawnKillsOld, RespawnDrops,
                RespawnExhausted, RespawnEnds, NextAttempt, DesertedWell, Idle
  <1>7. CASE RespawnSucceeds
    BY <1>7 DEF RespawnSucceeds, RespawnEnds, ResetIsWatched, DesertedWell, Idle
  <1>8. CASE RespawnInstalls
    <2>1. CASE InstallRefused
      BY <1>8, <2>1 DEF RespawnInstalls, InstallRefused, DesertedWell
    <2>2. CASE ~InstallRefused
      BY <1>8, <2>2 DEF RespawnInstalls, DesertedWell
    <2> QED
      BY <2>1, <2>2
  <1>9. CASE HostRelaunches
    BY <1>9 DEF HostRelaunches, DesertedWell, Idle
  <1>10. CASE SupervisorDequeues
    <2>1. CASE suspended
      <3>1. UNCHANGED <<suspended, shutting, heartbeat, gaveUp, actor, tx, power>>
        BY <1>10, <2>1 DEF SupervisorDequeues, Respawn, StandsDown
      <3> QED
        BY <2>1, <3>1 DEF DesertedWell
    <2>2. CASE ~suspended /\ ~Outdated(Head(queue))
      BY <1>2, <1>10, <2>2 DEF SupervisorDequeues, DesertedWell
    <2>3. CASE ~suspended /\ Outdated(Head(queue))
      <3>1. 1 \in DOMAIN queue /\ queue[1] = "older"
        BY <1>10, <2>3 DEF SupervisorDequeues, Outdated, QueueType
      <3>2. UNCHANGED <<suspended, shutting, heartbeat, gaveUp, actor>>
        BY <1>10, <2>3 DEF SupervisorDequeues
      <3> QED
        BY <2>3, <3>1, <3>2 DEF DesertedWell
    <2> QED
      BY <2>1, <2>2, <2>3
  <1>11. CASE UserRestarts
    <2>1. CASE suspended
      <3>1. UNCHANGED <<suspended, shutting, heartbeat, gaveUp, actor, tx, power>>
        BY <1>11, <2>1 DEF UserRestarts, Respawn, StandsDown
      <3> QED
        BY <2>1, <3>1 DEF DesertedWell
    <2>2. CASE ~suspended
      BY <1>2, <1>11, <2>2 DEF UserRestarts, DesertedWell
    <2> QED
      BY <2>1, <2>2
  <1>12. ASSUME NEW end \in Ends, NEW server \in Server, EndCleansUp(end, server)
         PROVE  DesertedWell'
    <2>1. UNCHANGED <<shutting, suspended, gaveUp, heartbeat, actor, power, current>>
      BY <1>12 DEF EndCleansUp
    <2>2. CASE IsCurrent(server) /\ ~shutting /\ Deserted /\ ~suspended
      <3>1. Asks("newest") /\ tx' = None
        BY <1>12, <2>2 DEF EndCleansUp
      <3>2. Requested' /\ \A i \in DOMAIN queue' : queue'[i] # "older"
        BY <2>2, <3>1, AskedIsRequested DEF DesertedWell
      <3> QED
        BY <2>1, <2>2, <3>1, <3>2 DEF DesertedWell, SomebodyWillAsk
    <2>3. CASE Deserted /\ suspended
      <3>1. tx' = None \/ tx' = tx
        BY <1>12 DEF EndCleansUp
      <3> QED
        BY <2>1, <2>3, <3>1 DEF DesertedWell
    <2>4. CASE ~IsCurrent(server)
      <3>1. /\ tx' = tx /\ queue' = queue
            /\ ends' = [ends EXCEPT ![<<end, server>>] = "off"] /\ server # current
        BY <1>12, <2>4 DEF EndCleansUp, IsCurrent
      <3>2. WriterOn => WriterOn'
        BY <2>1, <3>1 DEF WriterOn, ServerType, Ends, Number
      <3> QED
        BY <1>3, <2>1, <3>1, <3>2
    <2>5. CASE ~Deserted
      BY <2>1, <2>5 DEF DesertedWell
    <2> QED
      BY <2>2, <2>3, <2>4, <2>5
  <1>13. CASE HeartbeatGivesUp
    <2> SUFFICES ASSUME Deserted' PROVE DesertedWell'
      BY DEF DesertedWell
    <2>1. /\ ~suspended /\ Prompt /\ Asks("none")
          /\ UNCHANGED <<suspended, tx, power, current, ends, actor>>
      BY <1>13 DEF HeartbeatGivesUp
    <2>2. queue = <<>>
      BY <2>1 DEF Prompt, AskerFollows
    <2>3. Requested' /\ \A i \in DOMAIN queue' : queue'[i] # "older"
      BY <2>1, <2>2, AskedIsRequested
    <2> QED
      BY <2>1, <2>3 DEF DesertedWell, SomebodyWillAsk
  <1>14. CASE SystemSuspends
    BY <1>14 DEF SystemSuspends, DesertedWell, TaskType
  <1>15. CASE SuspendKills
    <2>1. /\ UNCHANGED <<shutting, suspended, gaveUp, heartbeat, actor, tx, queue, current, ends>>
          /\ power'.stop # "off" /\ power'.resume = power.resume
      BY <1>15 DEF SuspendKills, TaskType
    <2> QED
      BY <2>1 DEF DesertedWell, SomebodyWillAsk, Requested, WriterOn
  <1>16. CASE SuspendClears
    <2>1. /\ UNCHANGED <<shutting, suspended, gaveUp, heartbeat, actor, queue, current, ends>>
          /\ tx' = None /\ power'.resume = power.resume
      BY <1>16 DEF SuspendClears, TaskType
    <2>2. Deserted => tx = None \/ WriterOn
      BY DEF SenderHasWriter
    <2> QED
      BY <2>1, <2>2 DEF DesertedWell, SomebodyWillAsk, Requested, WriterOn
  <1>17. CASE SystemResumes
    <2> SUFFICES ASSUME Deserted' PROVE DesertedWell'
      BY DEF DesertedWell
    <2>1. /\ suspended /\ ~suspended' /\ Prompt /\ Deserted
          /\ UNCHANGED <<tx, queue, actor>>
          /\ power'.resume /\ power'.stop = power.stop
      BY <1>17 DEF SystemResumes, TaskType
    <2>2. queue = <<>>
      BY <2>1 DEF Prompt, AskerFollows
    <2> QED
      BY <2>1, <2>2 DEF DesertedWell, SomebodyWillAsk
  <1>18. CASE ResumeEnsures
    <2>1. /\ UNCHANGED <<shutting, suspended, heartbeat, tx, queue, current, ends>>
          /\ power'.stop = power.stop
      BY <1>18 DEF ResumeEnsures, TaskType
    <2>2. CASE tx = None /\ ~suspended
      BY <1>2, <1>18, <2>1, <2>2 DEF ResumeEnsures, DesertedWell
    <2>3. CASE tx = None /\ suspended
      BY <2>1, <2>3 DEF DesertedWell
    <2>4. CASE tx # None
      <3>1. UNCHANGED <<gaveUp, actor>>
        BY <1>18, <2>4 DEF ResumeEnsures
      <3> QED
        BY <2>1, <2>4, <3>1 DEF DesertedWell, SomebodyWillAsk, Requested, WriterOn
    <2> QED
      BY <2>2, <2>3, <2>4
  <1>19. CASE LeaveBegins
    BY <1>19 DEF LeaveBegins, DesertedWell
  <1>20. CASE LeaveSteps \/ ServerObeys \/ ServerFails
    <2>1. UNCHANGED <<shutting, suspended, gaveUp, heartbeat, actor, tx, power, queue, current, ends>>
      BY <1>20 DEF LeaveSteps, LeaveWaits, LeaveTakes, ServerObeys, ServerFails
    <2> QED
      BY <1>3, <2>1 DEF WriterOn
  <1>21. CASE UNCHANGED supervisorVars
    BY <1>3, <1>21 DEF WriterOn
  <1> QED
    BY <1>4, <1>5, <1>6, <1>7, <1>8, <1>9, <1>10, <1>11, <1>12, <1>13, <1>14, <1>15, <1>16,
       <1>17, <1>18, <1>19, <1>20, <1>21
    DEF SupervisorNext, ColdSteps, RespawnSteps, PowerSteps

(* Heartbeats outlive suspensions: none comes to its last miss in one.       *)
HeartbeatsWaitOutSuspensions == [][~(suspended /\ HeartbeatGivesUp)]_supervisorVars

(* The host never forgets the link to its server: whatever was lost, in      *)
(* whatever order its tasks noticed it and however many of their requests    *)
(* were dropped (for a respawn under way, a full queue, a newer connection,  *)
(* a suspension), a server is being brought up, or a heartbeat watches, or   *)
(* somebody is yet to ask for a respawn that will not be turned away, unless *)
(* the host leaves, is suspended or has given up (the safety half of         *)
(* SupervisorLinkComesBack; the writer task's clean-up in ws/writer.rs is    *)
(* what a resume that meets the old sender relies on).                       *)
THEOREM LinkIsNeverForgotten ==
  SupervisorSpec /\ HeartbeatsWaitOutSuspensions => []LinkIsTended
  <1>1. SupervisorInit => TendedInv
    <2> SUFFICES ASSUME SupervisorInit PROVE TendedInv
      OBVIOUS
    <2> USE DEF SupervisorInit, At, Idle, Actors
    <2>1. AskerFollows /\ PowerAfterCold /\ SenderHasWriter /\ ResetIsWatched /\ DesertedWell
      BY DEF AskerFollows, PowerAfterCold, SenderHasWriter, ResetIsWatched, DesertedWell, Deserted
    <2> QED
      BY <2>1 DEF TendedInv
  <1>2. ASSUME TendedInv, SupervisorIInv, [SupervisorNext]_supervisorVars,
               [~(suspended /\ HeartbeatGivesUp)]_supervisorVars
        PROVE  TendedInv'
    <2>1. AskerFollows' /\ PowerAfterCold' /\ SenderHasWriter' /\ ResetIsWatched'
      BY <1>2, AskerFollowsStep, PowerAfterColdStep, SenderHasWriterStep, ResetIsWatchedStep
      DEF TendedInv, SupervisorIInv, SupervisorTypeOK
    <2>2. DesertedWell'
      <3>1. CASE ~(suspended /\ HeartbeatGivesUp)
        BY <1>2, <3>1, DesertedWellStep
      <3>2. CASE UNCHANGED supervisorVars
        <4>1. ~HeartbeatGivesUp
          BY <3>2 DEF HeartbeatGivesUp, supervisorVars, linkVars
        <4> QED
          BY <1>2, <4>1, DesertedWellStep
      <3> QED
        BY <1>2, <3>1, <3>2
    <2> QED
      BY <2>1, <2>2 DEF TendedInv
  <1>3. TendedInv => LinkIsTended
    BY DEF TendedInv, DesertedWell, LinkIsTended
  <1> QED
    BY <1>1, <1>2, <1>3, SupervisorInvariance, PTL
    DEF SupervisorSpec, HeartbeatsWaitOutSuspensions

-----------------------------------------------------------------------------
(* The run of both connections: a behaviour of it is one of each component.  *)

LEMMA ConnectionsInitially == ConnectionsInit => IInv /\ SupervisorIInv
  BY InitInv, SupervisorInitially DEF ConnectionsInit

LEMMA ConnectionsStep ==
  [ConnectionsNext]_allParts => [WorkerNext]_vars /\ [SupervisorNext]_supervisorVars
  BY DEF ConnectionsNext, allParts, OnlyWorker, OnlySupervisor

(* In the run that checks the worker's channel and the supervision of the    *)
(* server together, every variable of both keeps its type, and a number is   *)
(* always free for the next server.                                          *)
THEOREM ConnectionsTypeCorrect ==
  ASSUME ManyServers
  PROVE  ConnectionsSpec => []ConnectionsTypeOK
  <1>1. IInv /\ SupervisorIInv => ConnectionsTypeOK
    BY TenAreReferenced DEF ConnectionsTypeOK, IInv, SupervisorIInv
  <1> QED
    BY <1>1, ConnectionsInitially, ConnectionsStep, StepInv, SupervisorInduction, PTL
    DEF ConnectionsSpec
=============================================================================
