--------------------------- MODULE RequestContract ---------------------------
(***************************************************************************)
(* What the callers of worker_client.py are promised about a request that  *)
(* the worker is to transcribe, whatever becomes of ports, connections and *)
(* the worker process: it is refused, and then nothing is ever answered to *)
(* it, or it ends; it is answered at most once; and every request ends.    *)
(***************************************************************************)
CONSTANTS
    Requests,
    Outcomes   \* what a Future may hold in the end

VARIABLES
    stage,     \* "new", "open", "refused" or "ended"
    outcome    \* what was answered: one of Outcomes, or "none"

vars == <<stage, outcome>>

Init ==
    /\ stage = [r \in Requests |-> "new"]
    /\ outcome = [r \in Requests |-> "none"]

Go(r, from, to) ==
    stage[r] \in from /\ stage' = [stage EXCEPT ![r] = to] /\ UNCHANGED outcome

Open(r)   == Go(r, {"new"}, "open")
Refuse(r) == Go(r, {"new", "open"}, "refused")
End(r)    == Go(r, {"open"}, "ended")

\* An answer may come late: a caller that gave up has ended already.
Answered(r) ==
    /\ stage[r] \in {"open", "ended"} /\ outcome[r] = "none"
    /\ \E o \in Outcomes : outcome' = [outcome EXCEPT ![r] = o]

Answer(r) == Answered(r) /\ UNCHANGED stage

\* A caller gives up and takes back its request, or the one it takes for its own.
Withdraw(r) ==
    /\ stage[r] = "open" /\ stage' = [stage EXCEPT ![r] = "ended"]
    /\ \E other \in Requests : Answered(other)

Next == \E r \in Requests : Open(r) \/ Refuse(r) \/ End(r) \/ Answer(r) \/ Withdraw(r)

\* No request stays open for ever.
EveryRequestEnds == []<>(\A r \in Requests : stage[r] # "open")

Safety == Init /\ [][Next]_vars
Spec == Safety /\ EveryRequestEnds
=============================================================================
