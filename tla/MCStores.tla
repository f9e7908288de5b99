------------------------------ MODULE MCStores ------------------------------
(***************************************************************************)
(* What a dictation changes outside the program or leaves behind: the      *)
(* system volume, the transcripts kept for a crash, the clipboard and the  *)
(* history, each on its own, in one run.                                   *)
(***************************************************************************)
EXTENDS VolumeDucker, TranscriptStore, ClipboardLoan, HistoryWriter

CONSTANTS a1, a2,  \* callers that save a transcription
          q1       \* a caller that clears the history

MCSavers == {a1, a2}
MCAskers == {q1}
MCLate   == {2}

VARIABLE part   \* the component this behaviour is one of

(* Each behaviour is one of one component; the variables of the others stay  *)
(* as they are.                                                              *)
Parts == {"volume", "transcripts", "clipboard", "history"}

StoresInit ==
    /\ part \in Parts
    /\ DuckerInit
    /\ StoreInit
    /\ LoanInit
    /\ HistoryInit

allParts == <<part, duckerVars, storeVars, loanVars, historyVars_>>

OnlyVolume == part = "volume" /\ UNCHANGED <<part, storeVars, loanVars, historyVars_>>
OnlyTranscripts == part = "transcripts" /\ UNCHANGED <<part, duckerVars, loanVars, historyVars_>>
OnlyClipboard == part = "clipboard" /\ UNCHANGED <<part, duckerVars, storeVars, historyVars_>>
OnlyHistory == part = "history" /\ UNCHANGED <<part, duckerVars, storeVars, loanVars>>

StoresNext ==
    \/ OnlyVolume /\ DuckerNext
    \/ OnlyTranscripts /\ StoreNext
    \/ OnlyClipboard /\ LoanNext
    \/ OnlyHistory /\ HistoryNext

(* The fairness of each component (see there), of its behaviours only.       *)
StoresFairness ==
    /\ \A c \in Callers :
         /\ WF_allParts(OnlyHistory /\ CallerSteps(c))
    /\ WF_allParts(OnlyHistory /\ CloserSteps)
    /\ WF_allParts(OnlyHistory /\ WriterSteps)

StoresSpec == StoresInit /\ [][StoresNext]_allParts /\ StoresFairness

-----------------------------------------------------------------------------
(* The properties of the components have their names already, but for the    *)
(* types.                                                                    *)
StoresTypeOK == DuckerTypeOK /\ StoreTypeOK /\ LoanTypeOK /\ HistoryTypeOK
=============================================================================
