--------------------------- MODULE MCEngineManager ---------------------------
(* EngineManager for TLC, in several environments at once.                   *)
EXTENDS EngineManager

(* Two dictations and two changes with nothing amiss, with room for one      *)
(* model or two, and with the backend changed amid a dictation; one of each  *)
(* with loads and locks that fail and the idle time, with both models on     *)
(* disk or one; a hanging inference with three changes; and a change that    *)
(* overtakes a start.                                                        *)
Calm == [starts |-> 2, changes |-> 2, installed |-> Backend, models |-> 2, troubles |-> {}]
Single == [Calm EXCEPT !.starts = 1, !.changes = 1, !.models = 1]
MCEnvironments ==
    {Calm, [Calm EXCEPT !.models = 1], [Calm EXCEPT !.troubles = {"midway"}],
     [Single EXCEPT !.troubles = {"raises", "refuses", "false", "slow", "idle", "midway"}],
     [Single EXCEPT !.installed = Backend \ {Whisper}, !.troubles = {"refuses", "idle", "midway"}],
     [Calm EXCEPT !.starts = 1, !.changes = 3, !.troubles = {"hangs", "midway"}],
     [Single EXCEPT !.installed = {Whisper}, !.troubles = {"races", "midway"}]}

(* One dictation, and the idle time runs out when it pleases.                *)
IdleEnvironments == {[Single EXCEPT !.changes = 0, !.troubles = {"idle"}]}
==============================================================================
