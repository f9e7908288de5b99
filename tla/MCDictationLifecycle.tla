------------------------ MODULE MCDictationLifecycle ------------------------
(* DictationLifecycle for TLC.  The configurations differ in the environment *)
(* they allow (the switches) and in the bounds.                              *)
EXTENDS DictationLifecycle

(* Bound: the queued start comes when the cycle ids are used up, and is not   *)
(* stopped: the dictations are two of the user, or one and its queued start. *)
QueuedStartIsLast ==
    /\ recordings' # recordings /\ cycle' = cycle => cycle = MaxCycle
    /\ wcycle[1] = MaxCycle => \A w \in Workers \ {1} : tpc'[w] = "none"
=============================================================================
