---------------------------- MODULE ClipboardLoan ----------------------------
(***************************************************************************)
(* A paste borrows the clipboard of the user (clipboard/): copy() keeps a  *)
(* snapshot of its content and puts the text in its place, paste() enters  *)
(* the loan in a list and sends the keystroke, and a thread brings the     *)
(* snapshot back a little later, or the exit handler does.  Whoever takes  *)
(* a loan out of the list is to bring it back.  Every access of the        *)
(* platform's clipboard may fail; the code logs that and goes on.          *)
(***************************************************************************)
EXTENDS Naturals, Sequences, SequencesExt

CONSTANTS
    MaxPastes,  \* bound: pastes 1 .. MaxPastes
    Pending,    \* _MAX_PENDING_RESTORES
    LoanRaces   \* the timing assumptions below that may be broken

LoanConstants ==
    /\ {MaxPastes, Pending} \subseteq Nat \ {0}
    /\ LoanRaces \subseteq {"overlap", "user", "exit"}
ASSUME LoanAssumption == LoanConstants

Loans  == 1 .. MaxPastes
Old    == "old"       \* what the user had copied at first
Fresh  == "fresh"     \* what the user copies later
Cleared == "nothing"  \* a clipboard that was emptied, and not filled
NoShot == "none"
Content == {<<Old>>, <<Fresh>>, <<Cleared>>} \cup {<<"text", d>> : d \in Loans}
Text(d) == <<"text", d>>
Empty   == <<Cleared>>
None    == <<NoShot>>

VARIABLES
    clipboard,  \* the content of the clipboard
    copied,     \* ghost: what the user last put there, or was told is there
    mishap,     \* ghost: since then, an access failed that the loans depend on
    shot,       \* the snapshot of each paste
    pending,    \* _pending_restores
    stage,      \* where each paste is
    daemon,     \* its clipboard-restore thread
    exiting,    \* where the exit handler is
    items       \* the loans it has taken

loanVars == <<clipboard, copied, mishap, shot, pending, stage, daemon, exiting, items>>

LoanTypeOK ==
    /\ clipboard \in Content /\ copied \in Content /\ mishap \in BOOLEAN
    /\ shot \in [Loans -> Content \cup {None}]
    /\ pending \in Seq(Loans) /\ Len(pending) <= Pending /\ items \in Seq(Loans)
    /\ stage \in [Loans -> {"idle", "register", "dispatch", "over"}]
    /\ daemon \in [Loans -> {"off", "sleep", "compare", "restore", "over"}]
    /\ exiting \in {"no", "restore", "ended"}

LoanInit ==
    /\ clipboard = <<Old>> /\ copied = <<Old>> /\ mishap = FALSE
    /\ shot = [d \in Loans |-> None] /\ pending = <<>> /\ items = <<>>
    /\ stage = [d \in Loans |-> "idle"] /\ daemon = [d \in Loans |-> "off"]
    /\ exiting = "no"

Lent(d) == stage[d] \in {"register", "dispatch"} \/ daemon[d] \in {"sleep", "compare", "restore"}
(* Timing assumptions, each unless in LoanRaces: a paste begins when the loan*)
(* of the one before has been returned, a sixth of a second after it.  The   *)
(* user does not copy between the copy and the keystroke, nor between the    *)
(* last look at the clipboard and its restore.  The exit handler does not    *)
(* run in the middle of a paste, and the process does not end there, in the  *)
(* middle of a restore, or with a loan entered after the handler has looked. *)
LastOneIsReturned == "overlap" \notin LoanRaces => items = <<>> /\ \A d \in Loans : ~Lent(d)
UserMayCopy == "user" \notin LoanRaces =>
    \A d \in Loans : stage[d] \in {"idle", "over"} /\ daemon[d] # "restore"
NobodyPastes == "exit" \notin LoanRaces => \A d \in Loans : stage[d] \in {"idle", "over"}
NothingIsOut == "exit" \notin LoanRaces =>
    pending = <<>> /\ \A d \in Loans : daemon[d] \notin {"compare", "restore"}
Runs == exiting # "ended"

------------------------------------------------------------------------------
UserCopies ==
    /\ copied # <<Fresh>> /\ UserMayCopy
    /\ clipboard' = <<Fresh>> /\ copied' = <<Fresh>> /\ mishap' = FALSE
    /\ UNCHANGED <<shot, pending, stage, daemon, exiting, items>>

(* Writing the clipboard.  A write that fails leaves what was there or, on a *)
(* platform where it is emptied first, nothing; restore() then returns False *)
(* or raises, and copy() logs that it could not verify the text.             *)
Fills(content) ==
    \/ clipboard' = content /\ UNCHANGED mishap
    \/ clipboard' \in {clipboard, Empty} /\ mishap' = TRUE

(* copy(): without a snapshot the text is there to stay.  A copy that raises *)
(* brings the snapshot back at once; without one, or when that fails too,    *)
(* what the copy has left there stays.                                       *)
Copies(d) ==
    /\ Runs /\ stage[d] = "idle" /\ LastOneIsReturned
    /\ \/ /\ clipboard # Empty /\ shot' = [shot EXCEPT ![d] = clipboard] /\ Fills(Text(d))
          /\ stage' = [stage EXCEPT ![d] = "register"] /\ UNCHANGED copied
       \/ /\ Fills(Text(d)) /\ copied' = Text(d)
          /\ stage' = [stage EXCEPT ![d] = "register"] /\ UNCHANGED shot
       \/ /\ clipboard' \in {clipboard, Empty, Text(d)}
          /\ mishap' = (mishap \/ clipboard' # clipboard)
          /\ stage' = [stage EXCEPT ![d] = "over"] /\ UNCHANGED <<copied, shot>>
    /\ UNCHANGED <<pending, daemon, exiting, items>>

(* _register_pending_restore: a full list gives its oldest loan back.        *)
Registers(d) ==
    /\ Runs /\ stage[d] = "register"
    /\ stage' = [stage EXCEPT ![d] = "dispatch"]
    /\ IF shot[d] = None
       THEN UNCHANGED <<pending, clipboard, mishap>>
       ELSE IF Len(pending) < Pending
       THEN pending' = Append(pending, d) /\ UNCHANGED <<clipboard, mishap>>
       ELSE pending' = Append(Tail(pending), d) /\ Fills(shot[Head(pending)])
    /\ UNCHANGED <<copied, shot, daemon, exiting, items>>

(* list.remove, with its ValueError suppressed.                              *)
Withdraws(d) ==
    IF Contains(pending, d)
    THEN \E i \in DOMAIN pending : pending[i] = d /\ pending' = RemoveAt(pending, i)
    ELSE UNCHANGED pending

(* The gates of paste(): on Windows a changed clipboard is copied again.     *)
(* Then the keystroke; the thread is started, or, when the keystroke was     *)
(* refused or may not have arrived, the text is left for a manual paste.     *)
(* When the thread cannot be started, the loan is forgotten.                 *)
Sends(d) ==
    /\ Runs /\ stage[d] = "dispatch"
    /\ clipboard' \in {clipboard, Text(d), Empty}
    /\ stage' = [stage EXCEPT ![d] = "over"]
    /\ \/ /\ daemon' = [daemon EXCEPT ![d] = IF shot[d] = None THEN @ ELSE "sleep"]
          /\ mishap' = (mishap \/ clipboard' = Empty)
          /\ UNCHANGED <<pending, copied>>
       \/ /\ Withdraws(d)
          /\ mishap' = (mishap \/ clipboard' = Empty)
          /\ copied' = clipboard' /\ UNCHANGED daemon
       \/ /\ shot[d] # None /\ Withdraws(d)
          /\ mishap' = TRUE
          /\ UNCHANGED <<copied, daemon>>
    /\ UNCHANGED <<shot, exiting, items>>

------------------------------------------------------------------------------
(* _delayed_restore_impl                                                     *)

Claims(d) ==
    /\ Runs /\ daemon[d] = "sleep"
    /\ daemon' = [daemon EXCEPT ![d] = IF Contains(pending, d) THEN "compare" ELSE "over"]
    /\ Withdraws(d)
    /\ UNCHANGED <<clipboard, copied, mishap, shot, stage, exiting, items>>

\* Bug: the content is brought back whatever is on the clipboard now.
Whatever(d) == TRUE

(* What the user copied meanwhile is not overwritten.                        *)
StillOurs(d) == clipboard = Text(d)

(* A read that fails is as if the clipboard had changed.                     *)
Compares(d) ==
    /\ Runs /\ daemon[d] = "compare"
    /\ \/ /\ daemon' = [daemon EXCEPT ![d] = IF StillOurs(d) THEN "restore" ELSE "over"]
          /\ UNCHANGED mishap
       \/ /\ daemon' = [daemon EXCEPT ![d] = "over"]
          /\ mishap' = (mishap \/ StillOurs(d))
    /\ UNCHANGED <<clipboard, copied, shot, pending, stage, exiting, items>>

Restores(d) ==
    /\ Runs /\ daemon[d] = "restore"
    /\ Fills(shot[d])
    /\ daemon' = [daemon EXCEPT ![d] = "over"]
    /\ UNCHANGED <<copied, shot, pending, stage, exiting, items>>

------------------------------------------------------------------------------
(* _force_restore_pending_at_exit                                            *)

ExitClaims ==
    /\ exiting = "no" /\ NobodyPastes /\ exiting' = "restore"
    /\ items' = pending /\ pending' = <<>>
    /\ UNCHANGED <<clipboard, copied, mishap, shot, stage, daemon>>

(* Here a read that fails is as if the text were still there, and the loan   *)
(* is returned over whatever is.                                             *)
ExitRestores ==
    /\ exiting = "restore" /\ items # <<>>
    /\ items' = Tail(items)
    /\ LET d == Head(items) IN
         \/ StillOurs(d) /\ Fills(shot[d])
         \/ ~StillOurs(d) /\ UNCHANGED <<clipboard, mishap>>
         \/ ~StillOurs(d) /\ clipboard' \in {shot[d], clipboard, Empty} /\ mishap' = TRUE
    /\ UNCHANGED <<copied, shot, pending, stage, daemon, exiting>>

Exits ==
    /\ exiting = "restore" /\ items = <<>> /\ NobodyPastes /\ NothingIsOut
    /\ exiting' = "ended"
    /\ UNCHANGED <<clipboard, copied, mishap, shot, pending, stage, daemon, items>>

LoanNext ==
    \/ UserCopies
    \/ \E d \in Loans : \/ Copies(d) \/ Registers(d) \/ Sends(d)
                        \/ Claims(d) \/ Compares(d) \/ Restores(d)
    \/ ExitClaims \/ ExitRestores \/ Exits

LoanSpec == LoanInit /\ [][LoanNext]_loanVars

------------------------------------------------------------------------------
(* LoansAreReturned: when no paste is under way and no loan is waiting to be *)
(* returned, or the process has ended, the clipboard holds what the user put *)
(* there last, or a text that could not be delivered: every loan is returned *)
(* by the thread or the exit handler, never over a later copy of the user,   *)
(* unless since that copy a read, a write or the start of the thread failed  *)
(* (mishap).  After one that did, the text stays, or, at exit, the snapshot  *)
(* is put over what the user copied.                                         *)
LoansAreReturned ==
    ~mishap /\ (~Runs \/ (exiting = "no" /\ \A d \in Loans : ~Lent(d))) => clipboard = copied
=============================================================================
