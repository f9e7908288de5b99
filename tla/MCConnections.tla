--------------------------- MODULE MCConnections ---------------------------
(***************************************************************************)
(* The channel to the ML worker and the supervision of the server process, *)
(* each on its own, in one run: a behaviour is one of one of them, and the *)
(* variables of the other stay at their initial values.                    *)
(***************************************************************************)
EXTENDS WorkerChannel, SidecarSupervisor

CONSTANTS d1,   \* a dictation of three frames, more than the queue holds
          m1    \* a window of the media loop, of one frame

MCDictations == {d1}
MCWindows    == {m1}
MCChunks     == [r \in {d1, m1} |-> IF r = m1 THEN 1 ELSE 3]
MCLimits     == {[begun |-> 1, moves |-> 1, drops |-> 1, aborts |-> 1],
                 [begun |-> 2, moves |-> 0, drops |-> 1, aborts |-> 0]}

MCServer == 1 .. 5

\* Two faults, a fault and a suspend, a fault and an exit, or a restart by the user.
MCBudgets ==
    {[faults |-> 2, restarts |-> 0, suspends |-> 0, exits |-> 0],
     [faults |-> 1, restarts |-> 0, suspends |-> 1, exits |-> 0],
     [faults |-> 1, restarts |-> 0, suspends |-> 0, exits |-> 1],
     [faults |-> 0, restarts |-> 1, suspends |-> 0, exits |-> 0]}

VARIABLE part   \* the component this behaviour is one of

ConnectionsInit ==
    /\ part \in {"worker", "supervisor"}
    /\ WorkerInit
    /\ SupervisorInit

allParts == <<part, vars, supervisorVars>>

OnlyWorker     == part = "worker" /\ UNCHANGED <<part, supervisorVars>>
OnlySupervisor == part = "supervisor" /\ UNCHANGED <<part, vars>>

ConnectionsNext ==
    \/ OnlyWorker /\ WorkerNext
    \/ OnlySupervisor /\ SupervisorNext

(* The fairness of each component (see there), of its behaviours only.       *)
ConnectionsFairness ==
    /\ WF_allParts(OnlyWorker /\ CloseStops)
    /\ \A r \in Requests :
         /\ WF_allParts(OnlyWorker /\ RequesterGoesOn(r))
         /\ WF_allParts(OnlyWorker /\ Expire(r))
         /\ WF_allParts(OnlyWorker /\ AbortOne(r))
    /\ \A g \in Gens :
         /\ WF_allParts(OnlyWorker /\ Session(g))
         /\ WF_allParts(OnlyWorker /\ FinishInference(g))
    /\ WF_allParts(OnlySupervisor /\ ColdSteps)
    /\ WF_allParts(OnlySupervisor /\ RespawnSteps)
    /\ WF_allParts(OnlySupervisor /\ HostRelaunches)
    /\ WF_allParts(OnlySupervisor /\ SupervisorDequeues)
    /\ WF_allParts(OnlySupervisor /\ HeartbeatGivesUp)
    /\ WF_allParts(OnlySupervisor /\ PowerSteps)
    /\ WF_allParts(OnlySupervisor /\ ResumeEnsures)
    /\ WF_allParts(OnlySupervisor /\ LeaveSteps)
    /\ \A end \in Ends, server \in Server :
         /\ WF_allParts(OnlySupervisor /\ EndCleansUp(end, server))

ConnectionsSpec == ConnectionsInit /\ [][ConnectionsNext]_allParts /\ ConnectionsFairness

-----------------------------------------------------------------------------
(* The properties have the names they have in the components; one is of the  *)
(* behaviours of its component only.                                         *)
SupervisorLinkComesBack == []<>(part = "worker" \/ Served \/ Excused)
ConnectionsTypeOK == WorkerTypeOK /\ SupervisorTypeOK /\ NumbersSuffice
=============================================================================
