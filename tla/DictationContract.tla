--------------------------- MODULE DictationContract ---------------------------
(***************************************************************************)
(* What a user of the dictation server is promised when nothing goes wrong:*)
(* recordings are taken one at a time, each is either dropped or handed to *)
(* one transcription, and its text is delivered at most once, before the   *)
(* next recording begins.                                                  *)
(***************************************************************************)
EXTENDS Naturals

CONSTANT MaxRecordings  \* bound: recordings started

VARIABLES
    phase,      \* "idle", "recording" or "transcribing"
    newest,     \* the number of the newest recording
    delivered   \* the recordings whose text was delivered

vars == <<phase, newest, delivered>>

Init == phase = "idle" /\ newest = 0 /\ delivered = {}

Go(from, to) == phase = from /\ phase' = to

Begin   == Go("idle", "recording") /\ newest < MaxRecordings /\ newest' = newest + 1 /\ UNCHANGED delivered
Drop    == Go("recording", "idle") /\ UNCHANGED <<newest, delivered>>
Stop    == Go("recording", "transcribing") /\ UNCHANGED <<newest, delivered>>
Settle  == Go("transcribing", "idle") /\ UNCHANGED <<newest, delivered>>
Deliver ==
    /\ phase = "transcribing"
    /\ newest \notin delivered
    /\ delivered' = delivered \cup {newest}
    /\ UNCHANGED <<phase, newest>>

Next == Begin \/ Drop \/ Stop \/ Deliver \/ Settle
Spec == Init /\ [][Next]_vars
=============================================================================
