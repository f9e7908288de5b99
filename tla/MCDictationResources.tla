------------------------- MODULE MCDictationResources -------------------------
(* DictationResources for TLC.  As with DictationLifecycle, the              *)
(* configurations choose the environment and the bounds.                     *)
EXTENDS DictationResources
=============================================================================
