---------------------------- MODULE MCResources ----------------------------
(***************************************************************************)
(* DictationResources in four environments: that of the configuration,     *)
(* which is steady, with dictations that were queued while an engine       *)
(* loaded; failing engines; failing loads; and ESC with failing loads, for *)
(* one press of the toggle.                                                *)
(***************************************************************************)
EXTENDS DictationResources

VARIABLE part   \* the environment this behaviour is one of

Engines == INSTANCE DictationResources WITH
    LoadMayFail <- FALSE, EngineMayFail <- TRUE, SlowJoin <- FALSE, Timeouts <- FALSE,
    EscEnabled <- FALSE, AutoStops <- FALSE, QueuedStarts <- FALSE
Loads == INSTANCE DictationResources WITH
    LoadMayFail <- TRUE, EngineMayFail <- FALSE, SlowJoin <- FALSE, Timeouts <- FALSE,
    EscEnabled <- FALSE, AutoStops <- FALSE, QueuedStarts <- FALSE
Escapes == INSTANCE DictationResources WITH MaxCycle <- 1,
    LoadMayFail <- TRUE, EngineMayFail <- FALSE, SlowJoin <- FALSE, Timeouts <- FALSE,
    EscEnabled <- TRUE, AutoStops <- FALSE, QueuedStarts <- FALSE

(* Each behaviour is one of one environment.                                 *)
Parts == {"queued", "engines", "loads", "escapes"}

PartsInit == part \in Parts /\ ResourcesInit

OnlyQueued == part = "queued" /\ UNCHANGED part
OnlyEngines == part = "engines" /\ UNCHANGED part
OnlyLoads == part = "loads" /\ UNCHANGED part
OnlyEscapes == part = "escapes" /\ UNCHANGED part

PartsNext ==
    \/ OnlyQueued /\ ResourcesNext
    \/ OnlyEngines /\ Engines!ResourcesNext
    \/ OnlyLoads /\ Loads!ResourcesNext
    \/ OnlyEscapes /\ Escapes!ResourcesNext

PartsSpec == PartsInit /\ [][PartsNext]_<<part, allVars>>

-----------------------------------------------------------------------------
(* Keyboard and tray are promised to steady environments only: after a       *)
(* failed load the tray may go on showing a dictation, and when dictations   *)
(* overlap a start may commit over a recording that is gone.                 *)
SteadyKeyboardComesBack == part = "queued" => KeyboardComesBack
SteadyTrayComesBack == part = "queued" => TrayComesBack
=============================================================================
