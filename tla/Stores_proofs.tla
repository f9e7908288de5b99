----------------------------- MODULE Stores_proofs -----------------------------
(***************************************************************************)
(* What holds, for every value of the constants, of the things a dictation *)
(* changes outside the program or leaves behind.  First ClipboardLoan: the *)
(* types, and that the clipboard comes back; then VolumeDucker: the types, *)
(* and that the volume comes back; then TranscriptStore: what a flush has  *)
(* promised, and that a quiet program has saved everything; last           *)
(* HistoryWriter: that nothing accepted is lost; and the run of the four.  *)
(***************************************************************************)
EXTENDS MCStores, FiniteSetTheorems, SequenceTheorems, TLAPS

----------------------------------------------------------------------------
(* The clipboard: its types, in every environment.                           *)

LEMMA LoanBounds == MaxPastes \in Nat \ {0} /\ Pending \in Nat \ {0}
  BY LoanAssumption DEF LoanConstants

LEMMA Contents ==
  /\ \A d \in Loans : Text(d) \in Content /\ Text(d) # <<Fresh>> /\ Text(d) # Empty
  /\ <<Old>> \in Content /\ <<Fresh>> \in Content /\ Empty \in Content /\ None \notin Content
  <1>1. \A d \in Loans : Text(d) \in Content
    BY DEF Content, Text
  <1>2. /\ \A d : Len(<<"text", d>>) = 2
        /\ Len(<<Fresh>>) = 1 /\ Len(None) = 1 /\ Len(<<Old>>) = 1 /\ Len(Empty) = 1
    BY DEF None, Empty
  <1>3. None # <<Old>> /\ None # <<Fresh>> /\ None # Empty
    <2>1. NoShot # Old /\ NoShot # Fresh /\ NoShot # Cleared
      BY DEF NoShot, Old, Fresh, Cleared
    <2>2. /\ None[1] = NoShot /\ <<Old>>[1] = Old /\ <<Fresh>>[1] = Fresh
          /\ Empty[1] = Cleared
      BY DEF None, Empty
    <2> QED
      BY <2>1, <2>2
  <1>4. \A d : Text(d) # <<Fresh>> /\ Text(d) # None /\ Text(d) # Empty
    BY <1>2 DEF Text
  <1>5. <<Old>> \in Content /\ <<Fresh>> \in Content /\ Empty \in Content
    BY DEF Content, Empty
  <1>6. None \notin Content
    BY <1>3, <1>4 DEF Content, Text, Empty
  <1> QED
    BY <1>1, <1>4, <1>5, <1>6

(* Lists of loans.                                                           *)
LEMMA EmptyHas == \A d : ~Contains(<<>>, d)
  BY DEF Contains

LEMMA OneHas ==
  ASSUME NEW d \in Loans
  PROVE  /\ \A e : Contains(<<d>>, e) <=> e = d
         /\ Len(<<d>>) = 1 /\ Head(<<d>>) = d /\ Tail(<<d>>) = <<>>
  BY DEF Contains

LEMMA Small == ASSUME NEW n \in Nat, n <= 1, n # 1 PROVE n = 0
  OBVIOUS

LEMMA ShortList ==
  ASSUME NEW q \in Seq(Loans), Len(q) <= 1
  PROVE  q = <<>> \/ \E d \in Loans : q = <<d>>
  <1>1. Len(q) \in Nat
    BY LenProperties
  <1>2. CASE Len(q) = 1
    <2> DEFINE one == <<q[1]>>
    <2>1. q[1] \in Loans
      BY <1>2, ElementOfSeq
    <2>2. one \in Seq(Loans) /\ Len(one) = 1 /\ one[1] = q[1]
      BY <2>1
    <2> HIDE DEF one
    <2>3. \A i \in 1..Len(q) : q[i] = one[i]
      BY <1>2, <2>2
    <2>4. q = one
      BY <1>2, <2>2, <2>3, SeqEqual
    <2> QED
      BY <2>1, <2>4 DEF one
  <1>3. CASE Len(q) # 1
    <2>1. Len(q) = 0
      BY <1>1, <1>3, Small
    <2> QED
      BY <2>1, EmptySeq
  <1> QED
    BY <1>2, <1>3

LEMMA Cut ==
  ASSUME NEW q \in Seq(Loans), NEW m \in Nat \ {0}, NEW n \in Nat, n <= Len(q), m <= n + 1
  PROVE  /\ SubSeq(q, m, n) \in Seq(Loans) /\ Len(SubSeq(q, m, n)) = (n - m) + 1
         /\ \A j \in 1..((n - m) + 1) : SubSeq(q, m, n)[j] = q[m + j - 1]
  <1>1. Len(q) \in Nat /\ \A j \in 1..Len(q) : q[j] \in Loans
    BY ElementOfSeq, LenProperties
  <1>2. \A j \in m..n : q[j] \in Loans
    BY <1>1
  <1>3. m \in Int /\ n \in Int
    OBVIOUS
  <1>4. /\ SubSeq(q, m, n) \in Seq(Loans)
        /\ Len(SubSeq(q, m, n)) = IF m <= n THEN n - m + 1 ELSE 0
        /\ \A j \in 1 .. n - m + 1 : SubSeq(q, m, n)[j] = q[m + j - 1]
    BY <1>2, <1>3, SubSeqProperties
  <1>5. (IF m <= n THEN n - m + 1 ELSE 0) = (n - m) + 1
    OBVIOUS
  <1> QED
    BY <1>4, <1>5

LEMMA RemovedAt ==
  ASSUME NEW q \in Seq(Loans), NEW i \in 1..Len(q)
  PROVE  /\ RemoveAt(q, i) \in Seq(Loans) /\ Len(RemoveAt(q, i)) = Len(q) - 1
         /\ \A d : Contains(RemoveAt(q, i), d) => Contains(q, d)
  <1> DEFINE a == SubSeq(q, 1, i - 1)
             b == SubSeq(q, i + 1, Len(q))
             r == RemoveAt(q, i)
  <1>1. Len(q) \in Nat /\ i \in Nat \ {0} /\ i <= Len(q)
    BY LenProperties
  <1>2. /\ a \in Seq(Loans) /\ Len(a) = i - 1
        /\ \A j \in 1..(i - 1) : a[j] = q[j]
    <2>1. i - 1 \in Nat /\ 1 \in Nat \ {0} /\ i - 1 <= Len(q) /\ 1 <= (i - 1) + 1
      BY <1>1
    <2>2. /\ a \in Seq(Loans) /\ Len(a) = ((i - 1) - 1) + 1
          /\ \A j \in 1..(((i - 1) - 1) + 1) : a[j] = q[1 + j - 1]
      BY <2>1, Cut
    <2> HIDE DEF a
    <2>3. ((i - 1) - 1) + 1 = i - 1 /\ \A j \in Nat : 1 + j - 1 = j
      BY <1>1
    <2> QED
      BY <2>2, <2>3
  <1>3. /\ b \in Seq(Loans) /\ Len(b) = Len(q) - i
        /\ \A j \in 1..(Len(q) - i) : b[j] = q[i + j]
    <2>1. i + 1 \in Nat \ {0} /\ Len(q) <= Len(q) /\ i + 1 <= Len(q) + 1
      BY <1>1
    <2>2. /\ b \in Seq(Loans) /\ Len(b) = (Len(q) - (i + 1)) + 1
          /\ \A j \in 1..((Len(q) - (i + 1)) + 1) : b[j] = q[(i + 1) + j - 1]
      BY <1>1, <2>1, Cut
    <2> HIDE DEF b
    <2>3. (Len(q) - (i + 1)) + 1 = Len(q) - i
      BY <1>1
    <2>4. \A j \in 1..(Len(q) - i) : (i + 1) + j - 1 = i + j
      BY <1>1
    <2>5. b \in Seq(Loans) /\ Len(b) = Len(q) - i
      BY <2>2, <2>3
    <2>6. ASSUME NEW j \in 1..(Len(q) - i) PROVE b[j] = q[i + j]
      <3>1. b[j] = q[(i + 1) + j - 1]
        BY <2>2, <2>3
      <3> QED
        BY <2>4, <3>1
    <2> QED
      BY <2>5, <2>6
  <1>4. r = a \o b
    BY DEF RemoveAt
  <1> HIDE DEF a, b, r
  <1>5. /\ r \in Seq(Loans) /\ Len(r) = Len(q) - 1
        /\ \A j \in 1..(Len(q) - 1) : r[j] = IF j <= i - 1 THEN a[j] ELSE b[j - (i - 1)]
    <2>1. /\ r \in Seq(Loans) /\ Len(r) = Len(a) + Len(b)
          /\ \A j \in 1..(Len(a) + Len(b)) :
                r[j] = IF j <= Len(a) THEN a[j] ELSE b[j - Len(a)]
      BY <1>2, <1>3, <1>4, ConcatProperties
    <2>2. Len(a) + Len(b) = Len(q) - 1
      BY <1>1, <1>2, <1>3
    <2> QED
      BY <1>2, <2>1, <2>2
  <1>6. ASSUME NEW d, Contains(r, d) PROVE Contains(q, d)
    <2>1. PICK j \in 1..(Len(q) - 1) : r[j] = d
      BY <1>5, <1>6 DEF Contains
    <2>2. CASE j <= i - 1
      <3>1. r[j] = a[j]
        BY <1>5, <2>1, <2>2
      <3> QED
        BY <1>1, <1>2, <2>1, <2>2, <3>1 DEF Contains
    <2>3. CASE j > i - 1
      <3>1. r[j] = b[j - (i - 1)]
        BY <1>1, <1>5, <2>1, <2>3
      <3>2. j - (i - 1) \in 1..(Len(q) - i) /\ i + (j - (i - 1)) \in 1..Len(q)
        BY <1>1, <2>1, <2>3
      <3> QED
        BY <1>3, <2>1, <3>1, <3>2 DEF Contains
    <2> QED
      BY <1>1, <2>1, <2>2, <2>3
  <1> QED
    BY <1>5, <1>6 DEF r

LEMMA Withdrawn ==
  ASSUME pending \in Seq(Loans), Len(pending) <= Pending, NEW d \in Loans, Withdraws(d)
  PROVE  /\ pending' \in Seq(Loans) /\ Len(pending') <= Pending
         /\ \A e : Contains(pending', e) => Contains(pending, e)
         /\ Contains(pending, d) /\ Len(pending) <= 1 => pending' = <<>>
         /\ ~Contains(pending, d) => pending' = pending
  <1>1. CASE Contains(pending, d)
    <2>1. PICK i \in 1..Len(pending) : pending' = RemoveAt(pending, i)
      BY <1>1 DEF Withdraws
    <2>2. /\ pending' \in Seq(Loans) /\ Len(pending') = Len(pending) - 1
          /\ \A e : Contains(pending', e) => Contains(pending, e)
      BY <2>1, RemovedAt
    <2>3. Len(pending) \in Nat /\ Len(pending') \in Nat
      BY <2>2
    <2>4. Len(pending') <= Pending
      BY <2>2, <2>3, LoanBounds
    <2>5. Len(pending) <= 1 => pending' = <<>>
      BY <2>2, <2>3
    <2> QED
      BY <1>1, <2>2, <2>4, <2>5
  <1>2. CASE ~Contains(pending, d)
    BY <1>2 DEF Withdraws
  <1> QED
    BY <1>1, <1>2

LEMMA AddedTo ==
  ASSUME NEW q \in Seq(Loans), NEW d \in Loans
  PROVE  /\ Append(q, d) \in Seq(Loans) /\ Len(Append(q, d)) = Len(q) + 1
         /\ \A e : Contains(Append(q, d), e) => Contains(q, e) \/ e = d
  <1>1. /\ Append(q, d) \in Seq(Loans) /\ Len(Append(q, d)) = Len(q) + 1 /\ Len(q) \in Nat
        /\ \A i \in 1..Len(q) : Append(q, d)[i] = q[i]
        /\ Append(q, d)[Len(q) + 1] = d
    OBVIOUS
  <1>2. \A i \in 1..(Len(q) + 1) : i \in 1..Len(q) \/ i = Len(q) + 1
    BY <1>1
  <1> QED
    BY <1>1, <1>2 DEF Contains

LEMMA TailOf ==
  ASSUME NEW q \in Seq(Loans), q # <<>>
  PROVE  /\ Tail(q) \in Seq(Loans) /\ Len(Tail(q)) = Len(q) - 1
         /\ Head(q) \in Loans /\ Contains(q, Head(q))
         /\ \A e : Contains(Tail(q), e) => Contains(q, e)
  <1>1. /\ Tail(q) \in Seq(Loans) /\ Len(Tail(q)) = Len(q) - 1 /\ Len(q) \in Nat \ {0}
        /\ \A i \in 1..(Len(q) - 1) : Tail(q)[i] = q[i + 1]
        /\ Head(q) = q[1] /\ Head(q) \in Loans
    OBVIOUS
  <1>2. Contains(q, Head(q))
    BY <1>1 DEF Contains
  <1>3. \A i \in 1..(Len(q) - 1) : i + 1 \in 1..Len(q)
    BY <1>1
  <1> QED
    BY <1>1, <1>2, <1>3 DEF Contains

(* A loan has a snapshot, from the copy on.                                  *)
Snapshots ==
    /\ \A d \in Loans : daemon[d] # "off" => shot[d] # None
    /\ \A d \in Loans : Contains(pending, d) \/ Contains(items, d) => shot[d] # None
    /\ \A d \in Loans : stage[d] = "idle" => shot[d] = None

Where ==
    /\ stage \in [Loans -> {"idle", "register", "dispatch", "over"}]
    /\ daemon \in [Loans -> {"off", "sleep", "compare", "restore", "over"}]
    /\ exiting \in {"no", "restore", "ended"}
Board ==
    /\ clipboard \in Content /\ copied \in Content /\ mishap \in BOOLEAN
    /\ shot \in [Loans -> Content \cup {None}]
Books == pending \in Seq(Loans) /\ Len(pending) <= Pending /\ items \in Seq(Loans)

LEMMA LoanKinds == LoanTypeOK <=> Where /\ Board /\ Books
  BY DEF LoanTypeOK, Where, Board, Books

LEMMA WhereStep == Where /\ [LoanNext]_loanVars => Where'
  <1> SUFFICES ASSUME Where, [LoanNext]_loanVars PROVE Where'
    OBVIOUS
  <1> USE DEF Where, loanVars
  <1>1. CASE UserCopies \/ ExitClaims \/ ExitRestores \/ Exits \/ UNCHANGED loanVars
    BY <1>1 DEF UserCopies, ExitClaims, ExitRestores, Exits
  <1>2. ASSUME NEW d \in Loans, Copies(d) \/ Registers(d) PROVE Where'
    BY <1>2 DEF Copies, Registers
  <1>3. ASSUME NEW d \in Loans, Sends(d) PROVE Where'
    BY <1>3 DEF Sends
  <1>4. ASSUME NEW d \in Loans, Claims(d) PROVE Where'
    BY <1>4 DEF Claims
  <1>5. ASSUME NEW d \in Loans, Compares(d) \/ Restores(d) PROVE Where'
    BY <1>5 DEF Compares, Restores
  <1> QED
    BY <1>1, <1>2, <1>3, <1>4, <1>5 DEF LoanNext

LEMMA BooksStep == Books /\ [LoanNext]_loanVars => Books'
  <1> SUFFICES ASSUME Books, [LoanNext]_loanVars PROVE Books'
    OBVIOUS
  <1> USE DEF loanVars
  <1>1. CASE UserCopies \/ Exits \/ UNCHANGED loanVars
    BY <1>1 DEF UserCopies, Exits, Books
  <1>2. CASE ExitClaims
    BY <1>2, LoanBounds DEF ExitClaims, Books
  <1>3. CASE ExitRestores
    BY <1>3, TailOf DEF ExitRestores, Books
  <1>4. ASSUME NEW d \in Loans, Copies(d) \/ Compares(d) \/ Restores(d) PROVE Books'
    BY <1>4 DEF Copies, Compares, Restores, Books
  <1>5. ASSUME NEW d \in Loans, Registers(d) PROVE Books'
    <2>1. items' = items
      BY <1>5 DEF Registers
    <2>2. CASE pending' = pending
      BY <2>1, <2>2 DEF Books
    <2>3. CASE Len(pending) < Pending /\ pending' = Append(pending, d)
      BY <2>1, <2>3, AddedTo, LoanBounds DEF Books
    <2>4. CASE Len(pending) >= Pending /\ pending' = Append(Tail(pending), d)
      <3>1. pending # <<>>
        BY <2>4, LoanBounds
      <3>2. Tail(pending) \in Seq(Loans) /\ Len(Tail(pending)) = Len(pending) - 1
        BY <3>1, TailOf DEF Books
      <3>3. Append(Tail(pending), d) \in Seq(Loans) /\ Len(Append(Tail(pending), d)) = Len(pending)
        BY <3>2, AddedTo DEF Books
      <3> QED
        BY <2>1, <2>4, <3>3 DEF Books
    <2>5. Len(pending) < Pending \/ Len(pending) >= Pending
      BY LoanBounds DEF Books
    <2> QED
      BY <1>5, <2>2, <2>3, <2>4, <2>5 DEF Registers
  <1>6. ASSUME NEW d \in Loans, Sends(d) \/ Claims(d) PROVE Books'
    <2>1. items' = items /\ (pending' = pending \/ Withdraws(d))
      BY <1>6 DEF Sends, Claims
    <2> QED
      BY <2>1, Withdrawn DEF Books
  <1> QED
    BY <1>1, <1>2, <1>3, <1>4, <1>5, <1>6 DEF LoanNext

LEMMA SnapshotStep ==
  ASSUME LoanTypeOK, Snapshots, [LoanNext]_loanVars
  PROVE  Snapshots'
  <1> USE DEF loanVars
  <1>0. Where /\ Board /\ Books
    BY LoanKinds
  <1>1. ASSUME UNCHANGED <<stage, shot>>,
               \A d \in Loans : daemon'[d] # "off" =>
                   daemon[d] # "off" \/ Contains(pending, d) \/ Contains(items, d),
               \A d \in Loans : Contains(pending', d) \/ Contains(items', d) =>
                   Contains(pending, d) \/ Contains(items, d)
        PROVE  Snapshots'
    BY <1>1 DEF Snapshots
  <1>2. CASE UserCopies \/ Exits \/ UNCHANGED loanVars
    BY <1>1, <1>2 DEF UserCopies, Exits
  <1>3. CASE ExitClaims
    BY <1>1, <1>3, EmptyHas DEF ExitClaims
  <1>4. CASE ExitRestores
    BY <1>0, <1>1, <1>4, TailOf DEF ExitRestores, Books
  <1>5. ASSUME NEW d \in Loans, Copies(d) PROVE Snapshots'
    <2>1. /\ stage[d] = "idle" /\ stage' \in {[stage EXCEPT ![d] = "register"],
                                              [stage EXCEPT ![d] = "over"]}
          /\ UNCHANGED <<pending, daemon, items>>
          /\ shot' = shot \/ shot' = [shot EXCEPT ![d] = clipboard]
      BY <1>5 DEF Copies
    <2>2. clipboard # None
      BY <1>0, Contents DEF Board
    <2>3. \A e \in Loans : /\ shot[e] # None => shot'[e] # None
                           /\ stage'[e] = "idle" => stage[e] = "idle" /\ shot'[e] = shot[e]
      BY <1>0, <2>1, <2>2 DEF Where, Board
    <2> QED
      BY <2>1, <2>3 DEF Snapshots
  <1>6. ASSUME NEW d \in Loans, Registers(d) PROVE Snapshots'
    <2>1. /\ stage' = [stage EXCEPT ![d] = "dispatch"] /\ UNCHANGED <<shot, daemon, items>>
          /\ \/ pending' = pending
             \/ /\ shot[d] # None
                /\ \/ pending' = Append(pending, d)
                   \/ Len(pending) >= Pending /\ pending' = Append(Tail(pending), d)
      BY <1>6, LoanBounds, <1>0 DEF Registers, Books
    <2>2. \A e \in Loans : Contains(pending', e) =>
              Contains(pending, e) \/ (e = d /\ shot[d] # None)
      <3>1. CASE pending' = pending
        BY <3>1
      <3>2. CASE shot[d] # None /\ pending' = Append(pending, d)
        BY <1>0, <3>2, AddedTo DEF Books
      <3>3. CASE /\ shot[d] # None
                 /\ Len(pending) >= Pending /\ pending' = Append(Tail(pending), d)
        <4>1. pending # <<>>
          BY <3>3, LoanBounds
        <4> QED
          BY <1>0, <3>3, <4>1, TailOf, AddedTo DEF Books
      <3> QED
        BY <2>1, <3>1, <3>2, <3>3
    <2>3. \A e \in Loans : stage'[e] = "idle" => stage[e] = "idle"
      BY <1>0, <2>1 DEF Where
    <2> QED
      BY <2>1, <2>2, <2>3 DEF Snapshots
  <1>7. ASSUME NEW d \in Loans, Sends(d) PROVE Snapshots'
    <2>1. /\ stage' = [stage EXCEPT ![d] = "over"] /\ UNCHANGED <<shot, items>>
          /\ pending' = pending \/ Withdraws(d)
          /\ \/ daemon' = daemon
             \/ shot[d] # None /\ daemon' = [daemon EXCEPT ![d] = "sleep"]
      <3>1. CASE shot[d] = None
        <4>1. [daemon EXCEPT ![d] = daemon[d]] = daemon
          BY <1>0 DEF Where
        <4> QED
          BY <1>7, <3>1, <4>1 DEF Sends
      <3>2. CASE shot[d] # None
        BY <1>7, <3>2 DEF Sends
      <3> QED
        BY <3>1, <3>2
    <2>2. \A e : Contains(pending', e) => Contains(pending, e)
      BY <1>0, <2>1, Withdrawn DEF Books
    <2>3. \A e \in Loans : /\ stage'[e] = "idle" => stage[e] = "idle"
                           /\ daemon'[e] # "off" => daemon[e] # "off" \/ shot[e] # None
      BY <1>0, <2>1 DEF Where
    <2> QED
      BY <2>1, <2>2, <2>3 DEF Snapshots
  <1>8. ASSUME NEW d \in Loans, Claims(d) PROVE Snapshots'
    <2>1. /\ UNCHANGED <<stage, shot, items>> /\ Withdraws(d) /\ daemon[d] = "sleep"
          /\ \E to \in {"compare", "over"} : daemon' = [daemon EXCEPT ![d] = to]
      BY <1>8 DEF Claims
    <2>2. \A e : Contains(pending', e) => Contains(pending, e)
      BY <1>0, <2>1, Withdrawn DEF Books
    <2>3. \A e \in Loans : daemon'[e] # "off" => daemon[e] # "off"
      BY <1>0, <2>1 DEF Where
    <2> QED
      BY <1>1, <2>1, <2>2, <2>3
  <1>9. ASSUME NEW d \in Loans, Compares(d) \/ Restores(d) PROVE Snapshots'
    <2>1. /\ UNCHANGED <<stage, shot, items, pending>> /\ daemon[d] # "off"
          /\ \E to \in {"restore", "over"} : daemon' = [daemon EXCEPT ![d] = to]
      BY <1>9 DEF Compares, Restores
    <2>2. \A e \in Loans : daemon'[e] # "off" => daemon[e] # "off"
      BY <1>0, <2>1 DEF Where
    <2> QED
      BY <1>1, <2>1, <2>2
  <1> QED
    BY <1>2, <1>3, <1>4, <1>5, <1>6, <1>7, <1>8, <1>9 DEF LoanNext

LEMMA BoardStep ==
  ASSUME LoanTypeOK, Snapshots, [LoanNext]_loanVars
  PROVE  Board'
  <1> USE DEF loanVars
  <1>0. Where /\ Board /\ Books
    BY LoanKinds
  <1>1. ASSUME clipboard' \in Content, copied' \in {copied, clipboard'}, mishap' \in BOOLEAN,
               shot' = shot
        PROVE  Board'
    BY <1>0, <1>1 DEF Board
  <1>2. \A d \in Loans : shot[d] # None => shot[d] \in Content
    BY <1>0 DEF Board
  <1>3. /\ clipboard \in Content /\ Empty \in Content /\ mishap \in BOOLEAN
        /\ \A d \in Loans : Text(d) \in Content
    BY <1>0, Contents DEF Board
  <1>12. ASSUME NEW content \in Content, Fills(content)
          PROVE  clipboard' \in Content /\ mishap' \in BOOLEAN
    BY <1>3, <1>12, Contents DEF Fills
  <1>4. CASE UserCopies
    BY <1>1, <1>4, Contents DEF UserCopies
  <1>5. CASE ExitClaims \/ Exits \/ UNCHANGED loanVars
    BY <1>1, <1>3, <1>5 DEF ExitClaims, Exits
  <1>6. CASE ExitRestores
    <2>1. Head(items) \in Loans /\ Contains(items, Head(items))
      BY <1>0, <1>6, TailOf DEF ExitRestores, Books
    <2>2. shot[Head(items)] \in Content
      BY <1>2, <2>1 DEF Snapshots
    <2>3. clipboard' \in Content /\ mishap' \in BOOLEAN
      BY <1>3, <1>6, <1>12, <2>2 DEF ExitRestores
    <2> QED
      BY <1>1, <1>6, <2>3 DEF ExitRestores
  <1>7. ASSUME NEW d \in Loans, Copies(d) PROVE Board'
    <2>1. /\ copied' \in {copied, Text(d)}
          /\ shot' = shot \/ shot' = [shot EXCEPT ![d] = clipboard]
      BY <1>7 DEF Copies
    <2>2. clipboard' \in Content /\ mishap' \in BOOLEAN
      BY <1>3, <1>7, <1>12 DEF Copies
    <2> QED
      BY <1>0, <1>3, <2>1, <2>2 DEF Board
  <1>8. ASSUME NEW d \in Loans, Registers(d) PROVE Board'
    <2>1. /\ copied' = copied /\ shot' = shot
          /\ \/ UNCHANGED <<clipboard, mishap>>
             \/ Len(pending) >= Pending /\ Fills(shot[Head(pending)])
      BY <1>0, <1>8, LoanBounds DEF Registers, Books
    <2>2. Len(pending) >= Pending => shot[Head(pending)] \in Content
      <3> SUFFICES ASSUME Len(pending) >= Pending PROVE shot[Head(pending)] \in Content
        OBVIOUS
      <3>1. pending # <<>>
        BY LoanBounds
      <3>2. Head(pending) \in Loans /\ Contains(pending, Head(pending))
        BY <1>0, <3>1, TailOf DEF Books
      <3> QED
        BY <1>2, <3>2 DEF Snapshots
    <2> QED
      BY <1>1, <1>3, <1>12, <2>1, <2>2
  <1>9. ASSUME NEW d \in Loans, Sends(d) PROVE Board'
    BY <1>1, <1>3, <1>9 DEF Sends
  <1>10. ASSUME NEW d \in Loans, Claims(d) \/ Compares(d) PROVE Board'
    BY <1>1, <1>3, <1>10 DEF Claims, Compares
  <1>11. ASSUME NEW d \in Loans, Restores(d) PROVE Board'
    <2>1. shot[d] \in Content
      BY <1>2, <1>11 DEF Restores, Snapshots
    <2> QED
      BY <1>1, <1>11, <1>12, <2>1 DEF Restores
  <1> QED
    BY <1>4, <1>5, <1>6, <1>7, <1>8, <1>9, <1>10, <1>11 DEF LoanNext

LEMMA LoanTypeStep ==
  LoanTypeOK /\ Snapshots /\ [LoanNext]_loanVars => LoanTypeOK' /\ Snapshots'
  <1> SUFFICES ASSUME LoanTypeOK, Snapshots, [LoanNext]_loanVars
               PROVE  LoanTypeOK' /\ Snapshots'
    OBVIOUS
  <1>1. Where' /\ Board' /\ Books'
    BY LoanKinds, WhereStep, BoardStep, BooksStep
  <1> QED
    BY <1>1, SnapshotStep DEF LoanTypeOK, Where, Board, Books

LEMMA LoanTypeInitially == LoanInit => LoanTypeOK /\ Snapshots
  <1> SUFFICES ASSUME LoanInit PROVE LoanTypeOK /\ Snapshots
    OBVIOUS
  <1>1. LoanTypeOK
    <2>1. Where /\ Board
      BY Contents DEF LoanInit, Where, Board
    <2>2. Books
      BY LoanBounds DEF LoanInit, Books
    <2> QED
      BY <2>1, <2>2, LoanKinds
  <1>2. Snapshots
    BY EmptyHas DEF LoanInit, Snapshots
  <1> QED
    BY <1>1, <1>2

(* In every environment the clipboard's content is one of the user's or of a *)
(* paste, and the list of pending restores stays within its limit            *)
(* (_MAX_PENDING_RESTORES).                                                  *)
THEOREM LoanTypeCorrect == LoanSpec => []LoanTypeOK
  BY LoanTypeInitially, LoanTypeStep, PTL DEF LoanSpec

----------------------------------------------------------------------------
(* The loans, when pastes do not overlap and the user and the exit keep      *)
(* clear of them (LoanRaces = {}): one loan is out at a time, and it is in   *)
(* one of these places.  What is on the clipboard there is known as long as  *)
(* no access has failed.                                                     *)

NoLists == pending = <<>> /\ items = <<>>
(* The text of d is on the clipboard, and its snapshot is what the user has. *)
Borrowed(d) == clipboard = Text(d) /\ copied = shot[d]
(* The user copied something else meanwhile.                                 *)
Overwritten == clipboard = <<Fresh>> /\ copied = <<Fresh>>

Home == NoLists /\ (mishap \/ clipboard = copied) /\ \A d \in Loans : ~Lent(d)

Pasting(d) ==
    /\ stage[d] \in {"register", "dispatch"} /\ daemon[d] = "off" /\ items = <<>>
    /\ pending = IF stage[d] = "dispatch" /\ shot[d] # None THEN <<d>> ELSE <<>>
    /\ \/ mishap
       \/ clipboard = Text(d) /\ copied = IF shot[d] = None THEN Text(d) ELSE shot[d]
Waiting(d) ==
    /\ stage[d] = "over" /\ daemon[d] = "sleep" /\ pending = <<d>> /\ items = <<>>
    /\ mishap \/ Borrowed(d) \/ Overwritten
Looking(d) ==
    /\ stage[d] = "over" /\ daemon[d] = "compare" /\ NoLists
    /\ mishap \/ Borrowed(d) \/ Overwritten
Returning(d) ==
    stage[d] = "over" /\ daemon[d] = "restore" /\ NoLists /\ (mishap \/ Borrowed(d))
(* The exit handler has it; the thread, if it still sleeps, will find that.  *)
Taken(d) ==
    /\ stage[d] = "over" /\ daemon[d] \in {"sleep", "over"} /\ exiting = "restore"
    /\ items = <<d>> /\ pending = <<>> /\ (mishap \/ Borrowed(d) \/ Overwritten)
Settled(d) ==
    stage[d] = "over" /\ daemon[d] = "sleep" /\ NoLists /\ (mishap \/ clipboard = copied)

Only(d) == \A e \in Loans : Lent(e) => e = d
OutOnce ==
    \/ Home
    \/ \E d \in Loans :
         /\ Only(d)
         /\ \/ Settled(d)
            \/ Runs /\ (Pasting(d) \/ Waiting(d) \/ Looking(d) \/ Returning(d) \/ Taken(d))
Unbegun == \A d \in Loans : stage[d] = "idle" => daemon[d] = "off"
LoanIInv == LoanTypeOK /\ Snapshots /\ Unbegun /\ OutOnce

LEMMA PlaceOf ==
  ASSUME OutOnce, NEW d \in Loans, Lent(d)
  PROVE  /\ Only(d)
         /\ \/ Settled(d)
            \/ Runs /\ (Pasting(d) \/ Waiting(d) \/ Looking(d) \/ Returning(d) \/ Taken(d))
  BY DEF OutOnce, Home, Only

LEMMA OthersStay ==
  ASSUME NEW d \in Loans, Only(d),
         \A e \in Loans : e # d => stage'[e] = stage[e] /\ daemon'[e] = daemon[e]
  PROVE  Only(d)' /\ (~Lent(d)' => \A e \in Loans : ~Lent(e)')
  BY DEF Only, Lent

LEMMA SameLent ==
  ASSUME UNCHANGED <<stage, daemon>>
  PROVE  /\ \A e \in Loans : Lent(e)' = Lent(e)
         /\ \A d \in Loans : Only(d) => Only(d)'
  BY DEF Only, Lent

LEMMA UnbegunStep ==
  ASSUME LoanTypeOK, Unbegun, [LoanNext]_loanVars
  PROVE  Unbegun'
  <1> USE DEF loanVars, Unbegun
  <1>0. Where
    BY LoanKinds
  <1>1. CASE UserCopies \/ ExitClaims \/ ExitRestores \/ Exits \/ UNCHANGED loanVars
    BY <1>1 DEF UserCopies, ExitClaims, ExitRestores, Exits
  <1>2. ASSUME NEW d \in Loans, Copies(d) \/ Registers(d) \/ Sends(d) PROVE Unbegun'
    <2>1. \E to \in {"register", "dispatch", "over"} : stage' = [stage EXCEPT ![d] = to]
      BY <1>2 DEF Copies, Registers, Sends
    <2>2. \A e \in Loans : e # d => daemon'[e] = daemon[e]
      BY <1>0, <1>2 DEF Copies, Registers, Sends, Where
    <2> QED
      BY <1>0, <2>1, <2>2 DEF Where
  <1>3. ASSUME NEW d \in Loans, Claims(d) \/ Compares(d) \/ Restores(d) PROVE Unbegun'
    <2>1. stage' = stage /\ daemon[d] # "off" /\ \A e \in Loans : e # d => daemon'[e] = daemon[e]
      BY <1>0, <1>3 DEF Claims, Compares, Restores, Where
    <2> QED
      BY <1>0, <2>1 DEF Where
  <1> QED
    BY <1>1, <1>2, <1>3 DEF LoanNext

LEMMA UserStep ==
  ASSUME LoanRaces = {}, LoanIInv, UserCopies
  PROVE  OutOnce'
  <1>1. /\ clipboard' = <<Fresh>> /\ copied' = <<Fresh>>
        /\ UNCHANGED <<shot, pending, stage, daemon, exiting, items>>
        /\ \A d \in Loans : stage[d] \in {"idle", "over"} /\ daemon[d] # "restore"
    BY DEF UserCopies, UserMayCopy
  <1>2. CASE Home
    BY <1>1, <1>2, SameLent DEF Home, NoLists, OutOnce
  <1>3. ASSUME NEW d \in Loans, Only(d), Settled(d) PROVE OutOnce'
    BY <1>1, <1>3, SameLent DEF Settled, NoLists, OutOnce
  <1>4. ASSUME NEW d \in Loans, Only(d), Runs,
               Pasting(d) \/ Waiting(d) \/ Looking(d) \/ Returning(d) \/ Taken(d)
        PROVE  OutOnce'
    <2>1. Only(d)' /\ Runs' /\ Overwritten'
      BY <1>1, <1>4, SameLent DEF Runs, Overwritten
    <2>2. Waiting(d) \/ Looking(d) \/ Taken(d)
      BY <1>1, <1>4 DEF Pasting, Returning
    <2>3. Waiting(d)' \/ Looking(d)' \/ Taken(d)'
      BY <1>1, <2>1, <2>2 DEF Waiting, Looking, Taken, NoLists
    <2> QED
      BY <2>1, <2>3 DEF OutOnce
  <1> QED
    BY <1>2, <1>3, <1>4 DEF LoanIInv, OutOnce

LEMMA CopyStep ==
  ASSUME LoanRaces = {}, LoanIInv, NEW d \in Loans, Copies(d)
  PROVE  OutOnce'
  <1>0. Where /\ Board
    BY LoanKinds DEF LoanIInv
  <1>1. /\ Runs /\ stage[d] = "idle" /\ items = <<>> /\ \A e \in Loans : ~Lent(e)
        /\ UNCHANGED <<pending, daemon, exiting, items>>
    BY DEF Copies, LastOneIsReturned
  <1>2. shot[d] = None /\ daemon[d] = "off"
    BY <1>1 DEF LoanIInv, Snapshots, Unbegun
  <1>3. Home
    BY <1>1 DEF LoanIInv, OutOnce, Settled, Pasting, Waiting, Looking, Returning, Taken, Lent, NoLists
  <1>4. Only(d)
    BY <1>1 DEF Only
  <1>5. CASE stage' = [stage EXCEPT ![d] = "register"] /\ Fills(Text(d))
    <2>1. /\ \A e \in Loans : e # d => stage'[e] = stage[e] /\ daemon'[e] = daemon[e]
          /\ stage'[d] = "register" /\ daemon'[d] = "off"
      BY <1>0, <1>1, <1>2, <1>5 DEF Where
    <2>2. Only(d)' /\ Runs'
      BY <1>1, <1>4, <2>1, OthersStay DEF Runs
    <2>3. mishap' \/ copied' = IF shot'[d] = None THEN Text(d) ELSE shot'[d]
      <3>1. CASE shot' = [shot EXCEPT ![d] = clipboard] /\ copied' = copied
        <4>1. shot'[d] = clipboard /\ clipboard # None
          BY <1>0, <3>1, Contents DEF Board
        <4> QED
          BY <1>3, <1>5, <3>1, <4>1 DEF Home, Fills
      <3>2. CASE shot' = shot /\ copied' = Text(d)
        BY <1>2, <3>2
      <3>3. stage' # [stage EXCEPT ![d] = "over"]
        <4>1. [stage EXCEPT ![d] = "over"][d] = "over"
          BY <1>0 DEF Where
        <4> QED
          BY <2>1, <4>1
      <3> QED
        BY <3>1, <3>2, <3>3 DEF Copies
    <2>4. mishap' \/ clipboard' = Text(d)
      BY <1>5 DEF Fills
    <2>5. Pasting(d)'
      BY <1>1, <1>3, <2>1, <2>3, <2>4 DEF Pasting, Home, NoLists
    <2> QED
      BY <2>2, <2>5 DEF OutOnce
  <1>6. CASE /\ stage' = [stage EXCEPT ![d] = "over"] /\ UNCHANGED <<copied, shot>>
             /\ mishap' = (mishap \/ clipboard' # clipboard)
    <2>1. /\ \A e \in Loans : e # d => stage'[e] = stage[e] /\ daemon'[e] = daemon[e]
          /\ stage'[d] = "over" /\ daemon'[d] = "off"
      BY <1>0, <1>1, <1>2, <1>6 DEF Where
    <2>2. \A e \in Loans : ~Lent(e)'
      BY <1>4, <2>1, OthersStay DEF Lent
    <2> QED
      BY <1>1, <1>3, <1>6, <2>2 DEF OutOnce, Home, NoLists
  <1> QED
    BY <1>5, <1>6 DEF Copies

LEMMA RegisterStep ==
  ASSUME LoanRaces = {}, LoanIInv, NEW d \in Loans, Registers(d)
  PROVE  OutOnce'
  <1>0. Where
    BY LoanKinds DEF LoanIInv
  <1>1. /\ Runs /\ stage[d] = "register" /\ stage' = [stage EXCEPT ![d] = "dispatch"]
        /\ UNCHANGED <<copied, shot, daemon, exiting, items>>
    BY DEF Registers
  <1>2. Only(d) /\ Pasting(d)
    BY <1>1, PlaceOf DEF LoanIInv, Lent, Settled, Waiting, Looking, Returning, Taken
  <1>3. /\ \A e \in Loans : e # d => stage'[e] = stage[e] /\ daemon'[e] = daemon[e]
        /\ stage'[d] = "dispatch" /\ daemon'[d] = "off"
    BY <1>0, <1>1, <1>2 DEF Where, Pasting
  <1>4. pending = <<>> /\ Len(pending) < Pending /\ Append(pending, d) = <<d>>
    BY <1>1, <1>2, LoanBounds DEF Pasting
  <1>5. /\ UNCHANGED <<clipboard, mishap>>
        /\ pending' = IF shot[d] = None THEN <<>> ELSE <<d>>
    BY <1>4 DEF Registers
  <1>6. Only(d)' /\ Runs' /\ Pasting(d)'
    BY <1>1, <1>2, <1>3, <1>5, OthersStay DEF Runs, Pasting
  <1> QED
    BY <1>6 DEF OutOnce

LEMMA SendStep ==
  ASSUME LoanRaces = {}, LoanIInv, NEW d \in Loans, Sends(d)
  PROVE  OutOnce'
  <1>0. Where /\ Books
    BY LoanKinds DEF LoanIInv
  <1>1. /\ Runs /\ stage[d] = "dispatch" /\ stage' = [stage EXCEPT ![d] = "over"]
        /\ clipboard' \in {clipboard, Text(d), Empty} /\ (mishap \/ clipboard' = Empty => mishap')
        /\ UNCHANGED <<shot, exiting, items>>
    BY DEF Sends
  <1>2. Only(d) /\ Pasting(d)
    BY <1>1, PlaceOf DEF LoanIInv, Lent, Settled, Waiting, Looking, Returning, Taken
  <1>3. (mishap' \/ clipboard' = Text(d)) /\ items' = <<>> /\ Runs'
    BY <1>1, <1>2 DEF Pasting, Runs
  <1>4. pending = IF shot[d] = None THEN <<>> ELSE <<d>>
    BY <1>1, <1>2 DEF Pasting
  <1>5. /\ \A e \in Loans : e # d => stage'[e] = stage[e] /\ daemon'[e] = daemon[e]
        /\ stage'[d] = "over"
    BY <1>0, <1>1 DEF Where, Sends
  <1>6. Only(d)' /\ (~Lent(d)' => \A e \in Loans : ~Lent(e)')
    BY <1>2, <1>5, OthersStay
  <1>7. CASE /\ daemon' = [daemon EXCEPT ![d] = IF shot[d] = None THEN @ ELSE "sleep"]
             /\ UNCHANGED <<pending, copied>>
    <2>1. CASE shot[d] = None
      <3>1. daemon'[d] = "off"
        BY <1>0, <1>2, <1>7, <2>1 DEF Where, Pasting
      <3>2. \A e \in Loans : ~Lent(e)'
        BY <1>5, <1>6, <3>1 DEF Lent
      <3>3. NoLists' /\ (mishap' \/ clipboard' = copied')
        BY <1>1, <1>2, <1>3, <1>4, <1>7, <2>1 DEF NoLists, Pasting
      <3> QED
        BY <3>2, <3>3 DEF OutOnce, Home
    <2>2. CASE shot[d] # None
      <3>1. daemon'[d] = "sleep"
        BY <1>0, <1>7, <2>2 DEF Where
      <3>2. Waiting(d)'
        BY <1>1, <1>2, <1>3, <1>4, <1>5, <1>7, <2>2, <3>1 DEF Waiting, Pasting, Borrowed
      <3> QED
        BY <1>3, <1>6, <3>2 DEF OutOnce
    <2> QED
      BY <2>1, <2>2
  <1>8. CASE Withdraws(d) /\ (mishap' \/ copied' = clipboard') /\ daemon' = daemon
    <2>1. pending' = <<>>
      <3>1. CASE shot[d] = None
        BY <1>0, <1>4, <1>8, <3>1, Withdrawn, EmptyHas DEF Books
      <3>2. CASE shot[d] # None
        BY <1>0, <1>4, <1>8, <3>2, Withdrawn, OneHas DEF Books
      <3> QED
        BY <3>1, <3>2
    <2>2. \A e \in Loans : ~Lent(e)'
      BY <1>2, <1>5, <1>6, <1>8 DEF Lent, Pasting
    <2> QED
      BY <1>3, <1>8, <2>1, <2>2 DEF OutOnce, Home, NoLists
  <1> QED
    BY <1>7, <1>8 DEF Sends

LEMMA ClaimStep ==
  ASSUME LoanRaces = {}, LoanIInv, NEW d \in Loans, Claims(d)
  PROVE  OutOnce'
  <1>0. Where /\ Books
    BY LoanKinds DEF LoanIInv
  <1>1. /\ Runs /\ daemon[d] = "sleep" /\ Withdraws(d)
        /\ daemon' = [daemon EXCEPT ![d] = IF Contains(pending, d) THEN "compare" ELSE "over"]
        /\ UNCHANGED <<clipboard, copied, mishap, shot, stage, exiting, items>>
    BY DEF Claims
  <1>2. Only(d) /\ (Settled(d) \/ Waiting(d) \/ Taken(d))
    BY <1>1, PlaceOf DEF LoanIInv, Lent, Pasting, Looking, Returning
  <1>3. \A e \in Loans : e # d => stage'[e] = stage[e] /\ daemon'[e] = daemon[e]
    BY <1>0, <1>1 DEF Where
  <1>4. Only(d)' /\ (~Lent(d)' => \A e \in Loans : ~Lent(e)') /\ Runs'
    BY <1>1, <1>2, <1>3, OthersStay DEF Runs
  <1>5. CASE Waiting(d)
    <2>1. Contains(pending, d) /\ pending' = <<>>
      BY <1>0, <1>1, <1>5, OneHas, Withdrawn DEF Books, Waiting
    <2>2. daemon'[d] = "compare"
      BY <1>0, <1>1, <2>1 DEF Where
    <2>3. Looking(d)'
      BY <1>1, <1>5, <2>1, <2>2 DEF Looking, Waiting, NoLists, Borrowed, Overwritten
    <2> QED
      BY <1>4, <2>3 DEF OutOnce
  <1>6. CASE Settled(d) \/ Taken(d)
    <2>1. ~Contains(pending, d) /\ pending' = pending
      BY <1>0, <1>1, <1>6, EmptyHas, Withdrawn DEF Books, Settled, Taken, NoLists
    <2>2. daemon'[d] = "over"
      BY <1>0, <1>1, <2>1 DEF Where
    <2>3. CASE Taken(d)
      <3>1. Taken(d)'
        BY <1>1, <2>1, <2>2, <2>3 DEF Taken, Borrowed, Overwritten
      <3> QED
        BY <1>4, <3>1 DEF OutOnce
    <2>4. CASE Settled(d)
      <3>1. \A e \in Loans : ~Lent(e)'
        BY <1>1, <1>4, <2>2, <2>4 DEF Lent, Settled
      <3> QED
        BY <1>1, <2>1, <2>4, <3>1 DEF OutOnce, Home, Settled, NoLists
    <2> QED
      BY <1>6, <2>3, <2>4
  <1> QED
    BY <1>2, <1>5, <1>6

LEMMA CompareStep ==
  ASSUME LoanRaces = {}, LoanIInv, NEW d \in Loans, Compares(d)
  PROVE  OutOnce'
  <1>0. Where
    BY LoanKinds DEF LoanIInv
  <1>1. /\ Runs /\ daemon[d] = "compare"
        /\ \/ /\ StillOurs(d) /\ mishap' = mishap
              /\ daemon' = [daemon EXCEPT ![d] = "restore"]
           \/ /\ mishap' \/ (~mishap /\ ~StillOurs(d))
              /\ daemon' = [daemon EXCEPT ![d] = "over"]
        /\ UNCHANGED <<clipboard, copied, shot, pending, stage, exiting, items>>
    <2>1. CASE StillOurs(d)
      BY <2>1 DEF Compares
    <2>2. CASE ~StillOurs(d)
      <3>1. daemon' = [daemon EXCEPT ![d] = "over"]
        BY <2>2 DEF Compares
      <3>2. mishap' \/ ~mishap
        BY DEF Compares
      <3>3. Runs /\ daemon[d] = "compare"
            /\ UNCHANGED <<clipboard, copied, shot, pending, stage, exiting, items>>
        BY DEF Compares
      <3> QED
        BY <2>2, <3>1, <3>2, <3>3
    <2> QED
      BY <2>1, <2>2
  <1>2. Only(d) /\ Looking(d)
    BY <1>1, PlaceOf DEF LoanIInv, Lent, Settled, Pasting, Waiting, Returning, Taken
  <1>3. \A e \in Loans : e # d => stage'[e] = stage[e] /\ daemon'[e] = daemon[e]
    BY <1>0, <1>1 DEF Where
  <1>4. Only(d)' /\ (~Lent(d)' => \A e \in Loans : ~Lent(e)') /\ Runs'
    BY <1>1, <1>2, <1>3, OthersStay DEF Runs
  <1>5. CASE StillOurs(d) /\ mishap' = mishap /\ daemon' = [daemon EXCEPT ![d] = "restore"]
    <2>1. daemon'[d] = "restore"
      BY <1>0, <1>5 DEF Where
    <2>2. mishap \/ Borrowed(d)
      BY <1>2, <1>5, Contents DEF Looking, Overwritten, StillOurs
    <2>3. Returning(d)'
      BY <1>1, <1>2, <1>5, <2>1, <2>2 DEF Looking, Returning, NoLists, Borrowed
    <2> QED
      BY <1>4, <2>3 DEF OutOnce
  <1>6. CASE /\ mishap' \/ (~mishap /\ ~StillOurs(d))
             /\ daemon' = [daemon EXCEPT ![d] = "over"]
    <2>1. daemon'[d] = "over"
      BY <1>0, <1>6 DEF Where
    <2>2. \A e \in Loans : ~Lent(e)'
      BY <1>1, <1>2, <1>4, <2>1 DEF Lent, Looking
    <2>3. (mishap' \/ clipboard = copied) /\ NoLists
      BY <1>2, <1>6 DEF Looking, Overwritten, Borrowed, StillOurs
    <2> QED
      BY <1>1, <2>2, <2>3 DEF OutOnce, Home, NoLists
  <1> QED
    BY <1>1, <1>5, <1>6

LEMMA RestoreStep ==
  ASSUME LoanRaces = {}, LoanIInv, NEW d \in Loans, Restores(d)
  PROVE  OutOnce'
  <1>0. Where
    BY LoanKinds DEF LoanIInv
  <1>1. /\ Runs /\ daemon[d] = "restore"
        /\ mishap' \/ (clipboard' = shot[d] /\ mishap' = mishap)
        /\ daemon' = [daemon EXCEPT ![d] = "over"]
        /\ UNCHANGED <<copied, shot, pending, stage, exiting, items>>
    BY DEF Restores, Fills
  <1>2. Only(d) /\ Returning(d)
    BY <1>1, PlaceOf DEF LoanIInv, Lent, Settled, Pasting, Waiting, Looking, Taken
  <1>3. /\ \A e \in Loans : e # d => stage'[e] = stage[e] /\ daemon'[e] = daemon[e]
        /\ daemon'[d] = "over"
    BY <1>0, <1>1 DEF Where
  <1>4. \A e \in Loans : ~Lent(e)'
    BY <1>1, <1>2, <1>3, OthersStay DEF Lent, Returning
  <1> QED
    BY <1>1, <1>2, <1>4 DEF OutOnce, Home, Returning, Borrowed, NoLists

LEMMA ExitClaimStep ==
  ASSUME LoanRaces = {}, LoanIInv, ExitClaims
  PROVE  OutOnce'
  <1>1. /\ exiting = "no" /\ exiting' = "restore" /\ items' = pending /\ pending' = <<>>
        /\ UNCHANGED <<clipboard, copied, mishap, shot, stage, daemon>>
        /\ \A d \in Loans : stage[d] \in {"idle", "over"}
    BY DEF ExitClaims, NobodyPastes
  <1>2. Runs'
    BY <1>1 DEF Runs
  <1>3. CASE Home
    BY <1>1, <1>3, SameLent DEF Home, NoLists, OutOnce
  <1>4. ASSUME NEW d \in Loans, Only(d), Settled(d) PROVE OutOnce'
    BY <1>1, <1>4, SameLent DEF Settled, NoLists, OutOnce
  <1>5. ASSUME NEW d \in Loans, Only(d),
               Pasting(d) \/ Waiting(d) \/ Looking(d) \/ Returning(d) \/ Taken(d)
        PROVE  OutOnce'
    <2>1. Only(d)'
      BY <1>1, <1>5, SameLent
    <2>2. Waiting(d) \/ Looking(d) \/ Returning(d)
      BY <1>1, <1>5 DEF Pasting, Taken
    <2>3. Taken(d)' \/ Looking(d)' \/ Returning(d)'
      BY <1>1, <2>2
      DEF Waiting, Looking, Returning, Taken, NoLists, Borrowed, Overwritten
    <2> QED
      BY <1>2, <2>1, <2>3 DEF OutOnce
  <1> QED
    BY <1>3, <1>4, <1>5 DEF LoanIInv, OutOnce

LEMMA ExitRestoreStep ==
  ASSUME LoanRaces = {}, LoanIInv, ExitRestores
  PROVE  OutOnce'
  <1>1. /\ items # <<>> /\ items' = Tail(items)
        /\ \/ mishap'
           \/ StillOurs(Head(items)) /\ mishap' = mishap /\ clipboard' = shot[Head(items)]
           \/ ~StillOurs(Head(items)) /\ UNCHANGED <<clipboard, mishap>>
        /\ UNCHANGED <<copied, shot, pending, stage, daemon, exiting>>
    BY DEF ExitRestores, Fills
  <1>2. PICK d \in Loans : Only(d) /\ Taken(d)
    BY <1>1
    DEF LoanIInv, OutOnce, Home, Settled, Pasting, Waiting, Looking, Returning, NoLists
  <1>3. Head(items) = d /\ items' = <<>> /\ pending' = <<>>
    BY <1>1, <1>2, OneHas DEF Taken
  <1>4. mishap' \/ clipboard' = copied'
    <2>1. CASE StillOurs(d)
      <3>1. mishap \/ Borrowed(d)
        BY <1>2, <2>1, Contents DEF Taken, Overwritten, StillOurs
      <3> QED
        BY <1>1, <1>3, <2>1, <3>1 DEF Borrowed
    <2>2. CASE ~StillOurs(d)
      BY <1>1, <1>2, <1>3, <2>2 DEF Taken, Borrowed, Overwritten, StillOurs
    <2> QED
      BY <2>1, <2>2
  <1>5. CASE daemon[d] = "sleep"
    BY <1>1, <1>2, <1>3, <1>4, <1>5, SameLent DEF OutOnce, Settled, Taken, NoLists
  <1>6. CASE daemon[d] = "over"
    <2>1. \A e \in Loans : ~Lent(e)'
      BY <1>1, <1>2, <1>6, OthersStay DEF Lent, Taken
    <2> QED
      BY <1>3, <1>4, <2>1 DEF OutOnce, Home, NoLists
  <1> QED
    BY <1>2, <1>5, <1>6 DEF Taken

LEMMA ExitStep ==
  ASSUME LoanRaces = {}, LoanIInv, Exits
  PROVE  OutOnce'
  <1>1. /\ items = <<>> /\ pending = <<>>
        /\ UNCHANGED <<clipboard, copied, mishap, shot, pending, stage, daemon, items>>
        /\ \A d \in Loans : stage[d] \in {"idle", "over"} /\ daemon[d] \notin {"compare", "restore"}
    BY DEF Exits, NobodyPastes, NothingIsOut
  <1>2. CASE Home
    BY <1>1, <1>2, SameLent DEF Home, NoLists, OutOnce
  <1>3. ASSUME NEW d \in Loans, Only(d), Settled(d) PROVE OutOnce'
    BY <1>1, <1>3, SameLent DEF Settled, NoLists, OutOnce
  <1>4. \A d \in Loans : ~(Pasting(d) \/ Waiting(d) \/ Looking(d) \/ Returning(d) \/ Taken(d))
    <2> SUFFICES ASSUME NEW d \in Loans
                 PROVE  ~(Pasting(d) \/ Waiting(d) \/ Looking(d) \/ Returning(d) \/ Taken(d))
      OBVIOUS
    <2>1. <<d>> # <<>>
      BY OneHas
    <2> QED
      BY <1>1, <2>1 DEF Pasting, Waiting, Looking, Returning, Taken
  <1> QED
    BY <1>2, <1>3, <1>4 DEF LoanIInv, OutOnce

LEMMA LoanIInvStep ==
  ASSUME LoanRaces = {}, LoanIInv, [LoanNext]_loanVars
  PROVE  LoanIInv'
  <1>1. LoanTypeOK' /\ Snapshots' /\ Unbegun'
    BY LoanTypeStep, UnbegunStep DEF LoanIInv
  <1>2. CASE UNCHANGED loanVars
    BY <1>1, <1>2, SameLent DEF LoanIInv, OutOnce, Home, NoLists, Pasting, Waiting, Looking,
       Returning, Taken, Settled, Borrowed, Overwritten, Runs, loanVars
  <1> QED
    BY <1>1, <1>2, UserStep, CopyStep, RegisterStep, SendStep, ClaimStep, CompareStep,
       RestoreStep, ExitClaimStep, ExitRestoreStep, ExitStep DEF LoanNext, LoanIInv

(* When pastes do not overlap and the user and the exit keep clear of them,  *)
(* every loan is returned, by the thread or by the exit handler, and never   *)
(* over a later copy of the user (clipboard/restore.py), unless an access of *)
(* the clipboard or the start of the thread failed since the user's last     *)
(* copy; that copy makes good whatever failed before it.                     *)
THEOREM LoansReturned ==
  ASSUME LoanRaces = {}
  PROVE  LoanSpec => []LoansAreReturned
  <1>1. LoanInit => LoanIInv
    <2> SUFFICES ASSUME LoanInit PROVE LoanIInv
      OBVIOUS
    <2>1. Home /\ Unbegun
      BY DEF LoanInit, Home, NoLists, Lent, Unbegun
    <2> QED
      BY <2>1, LoanTypeInitially DEF LoanIInv, OutOnce
  <1>2. LoanIInv /\ [LoanNext]_loanVars => LoanIInv'
    BY LoanIInvStep
  <1>3. LoanIInv => LoansAreReturned
    BY DEF LoanIInv, OutOnce, Home, Settled, Pasting, Waiting, Looking, Returning, Taken,
       LoansAreReturned, Lent, Runs
  <1> QED
    BY <1>1, <1>2, <1>3, PTL DEF LoanSpec

----------------------------------------------------------------------------
(* The volume: its types, in every environment.                              *)

Fading(s) == dpc[s] \in {"fade", "lower", "settle"}
Faders    == {s \in Sessions : Fading(s)}
Calling   == Sessions \X Restorers

Threads ==
    /\ dpc \in [Sessions -> {"idle", "start", "duck", "fade", "lower", "settle", "recheck", "done"}]
    /\ rpc \in [Calling -> {"idle", "restore", "fade", "set", "done"}]
    /\ mpc \in [Sessions -> {"off", "wait", "asked", "fade", "lower", "settle", "failed", "done"}]
    /\ first \in [Sessions -> BOOLEAN] /\ session \in 0 .. Dictations
Owners ==
    /\ recording \in BOOLEAN /\ initialized \in BOOLEAN /\ ducked \in BOOLEAN /\ mstop \in BOOLEAN
    /\ restorer \in {<<>>} \cup Calling /\ monitor \in Sessions \cup {NoOne}
Heights ==
    /\ volume \in Levels /\ wanted \in Levels
    /\ stale \in Levels \cup {NoLevel} /\ saved \in Levels \cup {NoLevel}
    /\ mine \in [Sessions -> Levels \cup {NoLevel}]
    /\ goal \in [Calling -> Levels \cup {NoLevel}]
Left ==
    /\ chances \in [crashes : 0 .. Crashes, faults : 0 .. Faults]
    /\ damage \in {"none", "unsaved", "kept", "lost"}

(* A fade and a restore know the level they are for; a fade is counted.      *)
Knows ==
    /\ \A s \in Sessions : Fading(s) => mine[s] # NoLevel
    /\ \A x \in Calling : rpc[x] \in {"fade", "set"} => goal[x] # NoLevel
NotYet == \A s \in Sessions : s > session => dpc[s] = "idle"
Counted == fades = Cardinality(Faders)

LEMMA DuckerBounds == Dictations \in Nat \ {0} /\ Crashes \in Nat /\ Faults \in Nat
  BY DuckerAssumption DEF DuckerConstants

LEMMA DuckerKinds ==
  DuckerTypeOK <=> Threads /\ Owners /\ Heights /\ Left /\ fades \in 0 .. Dictations
  BY DEF DuckerTypeOK, Threads, Owners, Heights, Left, Calling

LEMMA FadersAreFew ==
  /\ IsFiniteSet(Faders) /\ Cardinality(Faders) \in 0 .. Dictations
  <1>1. IsFiniteSet(Sessions) /\ Cardinality(Sessions) = Dictations
    BY DuckerBounds, FS_Interval DEF Sessions
  <1>2. Faders \in SUBSET Sessions
    BY DEF Faders
  <1>3. IsFiniteSet(Faders) /\ Cardinality(Faders) <= Cardinality(Sessions)
    BY <1>1, <1>2, FS_Subset
  <1>4. Cardinality(Faders) \in Nat
    BY <1>3, FS_CardinalityType
  <1> QED
    BY <1>1, <1>3, <1>4, DuckerBounds

LEMMA ThreadsStep == Threads /\ [DuckerNext]_duckerVars => Threads'
  <1> SUFFICES ASSUME Threads, [DuckerNext]_duckerVars PROVE Threads'
    OBVIOUS
  <1> USE DEF Threads
  <1>1. CASE RecordingStarts
    <2>1. session' \in 0 .. Dictations
      BY <1>1, DuckerBounds DEF RecordingStarts
    <2>2. dpc' = [dpc EXCEPT ![session'] = "start"] /\ UNCHANGED <<rpc, mpc, first>>
      BY <1>1 DEF RecordingStarts, restoreVars, monitorVars
    <2> QED
      BY <2>1, <2>2
  <1>2. CASE RecordingEnds
    BY <1>2 DEF RecordingEnds, duckVars, monitorVars
  <1>3. CASE UserSets \/ UNCHANGED duckerVars
    BY <1>3 DEF UserSets, duckerVars, duckVars, restoreVars, monitorVars
  <1>4. CASE AppCrashes
    <2>1. dpc' = [s \in Sessions |-> IF s > session THEN "idle" ELSE "done"]
      BY <1>4 DEF AppCrashes
    <2>2. rpc' = [x \in Calling |-> IF x[1] > session THEN "idle" ELSE "done"]
      BY <1>4 DEF AppCrashes, Calling
    <2>3. mpc' = [s \in Sessions |-> IF s > session THEN "off" ELSE "done"]
      BY <1>4 DEF AppCrashes
    <2>4. UNCHANGED <<first, session>>
      BY <1>4 DEF AppCrashes
    <2> QED
      BY <2>1, <2>2, <2>3, <2>4
  <1>5. ASSUME NEW s \in Sessions, Initializes(s) \/ InitializeFails(s) \/ DuckReadsNothing(s)
                                 \/ \E fails \in BOOLEAN : DuckBegins(s, fails)
        PROVE Threads'
    BY <1>5 DEF Initializes, InitializeFails, DuckReadsNothing, DuckBegins, restoreVars, monitorVars
  <1>6. ASSUME NEW s \in Sessions, DuckSkips(s) PROVE Threads'
    BY <1>6 DEF DuckSkips, StartsMonitor, restoreVars, monitorVars
  <1>7. ASSUME NEW s \in Sessions, DuckAgain(s) PROVE Threads'
    BY <1>7 DEF DuckAgain, restoreVars, monitorVars
  <1>8. ASSUME NEW s \in Sessions, DuckFades(s) \/ DuckFadeFails(s)
                                 \/ (\E fails \in BOOLEAN : DuckSettles(s, fails))
                                 \/ \E repairs, clears \in BOOLEAN : DuckRaises(s, repairs, clears)
        PROVE Threads'
    BY <1>8 DEF DuckFades, DuckFadeFails, DuckSettles, DuckRaises, restoreVars, monitorVars
  <1>9. ASSUME NEW s \in Sessions, Rechecks(s) PROVE Threads'
    BY <1>9 DEF Rechecks, monitorVars
  <1>10. ASSUME NEW s \in Sessions,
               MonitorLeaves(s) \/ MonitorHears(s) \/ MonitorFades(s) \/ MonitorFadeFails(s)
                 \/ MonitorRaises(s) \/ MonitorSettles(s) \/ MonitorTriesAgain(s)
                 \/ \E fails \in BOOLEAN : MonitorDucks(s, fails)
         PROVE Threads'
    BY <1>10 DEF MonitorLeaves, MonitorHears, MonitorDucks, MonitorFades, MonitorFadeFails, MonitorRaises,
       MonitorSettles, MonitorTriesAgain,
       duckVars, restoreVars
  <1>11. ASSUME NEW x \in Calling,
               RestoreEasy(x) \/ RestoreFades(x) \/ RestoreFails(x) \/ RestoreRaises(x)
                 \/ (\E blind \in BOOLEAN : RestoreBegins(x, blind))
                 \/ \E sets, clears \in BOOLEAN : RestoreEnds(x, sets, clears)
         PROVE Threads'
    BY <1>11 DEF RestoreEasy, RestoreBegins, RestoreFades, RestoreEnds, RestoreFails,
       RestoreRaises, StopsMonitor,
       duckVars, monitorVars
  <1> QED
    BY <1>1, <1>2, <1>3, <1>4, <1>5, <1>6, <1>7, <1>8, <1>9, <1>10, <1>11
    DEF DuckerNext, Calling

LEMMA OwnersStep == Owners /\ [DuckerNext]_duckerVars => Owners'
  <1> SUFFICES ASSUME Owners, [DuckerNext]_duckerVars PROVE Owners'
    OBVIOUS
  <1> USE DEF Owners
  <1>1. CASE RecordingStarts \/ RecordingEnds \/ UserSets \/ UNCHANGED duckerVars
    BY <1>1, Zenon DEF RecordingStarts, RecordingEnds, UserSets, duckerVars, stateVars, monitorVars
  <1>2. CASE AppCrashes
    BY <1>2, Zenon DEF AppCrashes
  <1>3. ASSUME NEW s \in Sessions, Initializes(s) \/ InitializeFails(s) PROVE Owners'
    BY <1>3 DEF Initializes, InitializeFails, monitorVars
  <1>4. ASSUME NEW s \in Sessions, DuckSkips(s) PROVE Owners'
    BY <1>4 DEF DuckSkips, StartsMonitor, monitorVars
  <1>5. ASSUME NEW s \in Sessions, DuckReadsNothing(s) \/ DuckAgain(s) \/ DuckFades(s)
                                 \/ DuckFadeFails(s) \/ Rechecks(s)
                                 \/ \E fails \in BOOLEAN : DuckBegins(s, fails)
        PROVE Owners'
    BY <1>5, Zenon DEF DuckBegins, DuckReadsNothing, DuckAgain, DuckFades, DuckFadeFails, Rechecks,
       stateVars, monitorVars
  <1>6. ASSUME NEW s \in Sessions, NEW fails \in BOOLEAN, DuckSettles(s, fails) PROVE Owners'
    BY <1>6 DEF DuckSettles, monitorVars
  <1>7. ASSUME NEW s \in Sessions, NEW repairs \in BOOLEAN, NEW clears \in BOOLEAN,
               DuckRaises(s, repairs, clears)
        PROVE Owners'
    BY <1>7, Zenon DEF DuckRaises, monitorVars
  <1>8. ASSUME NEW s \in Sessions,
               MonitorLeaves(s) \/ MonitorHears(s) \/ MonitorFades(s) \/ MonitorFadeFails(s)
                 \/ MonitorRaises(s) \/ MonitorTriesAgain(s)
                 \/ \E fails \in BOOLEAN : MonitorDucks(s, fails)
        PROVE Owners'
    BY <1>8, Zenon DEF MonitorLeaves, MonitorHears, MonitorDucks, MonitorFades, MonitorFadeFails,
       MonitorRaises, MonitorTriesAgain, stateVars
  <1>9. ASSUME NEW s \in Sessions, MonitorSettles(s) PROVE Owners'
    BY <1>9 DEF MonitorSettles
  <1>10. ASSUME NEW x \in Calling, RestoreEasy(x) \/ \E blind \in BOOLEAN : RestoreBegins(x, blind)
         PROVE Owners'
    BY <1>10 DEF RestoreEasy, RestoreBegins, StopsMonitor
  <1>11. ASSUME NEW x \in Calling, RestoreFades(x) \/ RestoreFails(x) \/ RestoreRaises(x)
                                 \/ \E sets, clears \in BOOLEAN : RestoreEnds(x, sets, clears)
         PROVE Owners'
    BY <1>11, Zenon DEF RestoreFades, RestoreEnds, RestoreFails, RestoreRaises, stateVars, monitorVars
  <1> QED
    BY <1>1, <1>2, <1>3, <1>4, <1>5, <1>6, <1>7, <1>8, <1>9, <1>10, <1>11
    DEF DuckerNext, Calling

LEMMA LeftStep == Left /\ [DuckerNext]_duckerVars => Left'
  <1> SUFFICES ASSUME Left, [DuckerNext]_duckerVars PROVE Left'
    OBVIOUS
  <1> USE DEF Left, Spoils, Might, Harm, Mended, Stuck
  <1>1. CASE AppCrashes
    BY <1>1, DuckerBounds DEF AppCrashes
  <1>2. ASSUME NEW s \in Sessions,
               InitializeFails(s) \/ DuckReadsNothing(s) \/ DuckFadeFails(s) \/ MonitorFadeFails(s)
                 \/ MonitorRaises(s)
        PROVE Left'
    BY <1>2, DuckerBounds DEF InitializeFails, DuckReadsNothing, DuckFadeFails, MonitorFadeFails,
       MonitorRaises
  <1>3. ASSUME NEW s \in Sessions, NEW fails \in BOOLEAN, DuckSettles(s, fails) PROVE Left'
    BY <1>3, DuckerBounds DEF DuckSettles
  <1>4. ASSUME NEW s \in Sessions, NEW fails \in BOOLEAN, DuckBegins(s, fails) \/ MonitorDucks(s, fails)
        PROVE Left'
    BY <1>4, DuckerBounds DEF DuckBegins, MonitorDucks, Saves
  <1>5. ASSUME NEW s \in Sessions, NEW repairs \in BOOLEAN, NEW clears \in BOOLEAN,
               DuckRaises(s, repairs, clears)
        PROVE Left'
    BY <1>5, DuckerBounds DEF DuckRaises
  <1>6. ASSUME NEW x \in Calling, RestoreFails(x) \/ RestoreRaises(x) PROVE Left'
    BY <1>6, DuckerBounds DEF RestoreFails, RestoreRaises
  <1>7. ASSUME NEW x \in Calling, NEW blind \in BOOLEAN, RestoreBegins(x, blind) PROVE Left'
    BY <1>7, DuckerBounds DEF RestoreBegins
  <1>8. ASSUME NEW x \in Calling, NEW sets \in BOOLEAN, NEW clears \in BOOLEAN,
               RestoreEnds(x, sets, clears)
        PROVE Left'
    BY <1>8, DuckerBounds DEF RestoreEnds
  <1>9. ASSUME NEW s \in Sessions, DuckSkips(s) \/ MonitorTriesAgain(s) PROVE Left'
    BY <1>9 DEF DuckSkips, MonitorTriesAgain
  <1>10. CASE UserSets
    BY <1>10 DEF UserSets
  <1>11. CASE UNCHANGED <<chances, damage>>
    BY <1>11
  <1> QED
    BY <1>1, <1>2, <1>3, <1>4, <1>5, <1>6, <1>7, <1>8, <1>9, <1>10, <1>11
    DEF DuckerNext, duckerVars, Calling, RecordingStarts, RecordingEnds, Initializes, DuckAgain,
        DuckFades, Rechecks, MonitorLeaves, MonitorHears, MonitorFades, MonitorSettles, RestoreEasy,
        RestoreFades

LEMMA NotYetStep ==
  ASSUME Threads, NotYet, [DuckerNext]_duckerVars
  PROVE  NotYet'
  <1> USE DEF Threads, NotYet
  <1>1. CASE RecordingStarts
    <2>1. session' = session + 1 /\ dpc' = [dpc EXCEPT ![session'] = "start"]
      BY <1>1 DEF RecordingStarts
    <2>2. \A s \in Sessions : s > session' => s > session /\ s # session'
      BY <2>1 DEF Sessions
    <2> QED
      BY <2>1, <2>2
  <1>2. CASE AppCrashes
    BY <1>2 DEF AppCrashes
  <1>3. ASSUME NEW s \in Sessions, session' = session,
               dpc[s] # "idle" \/ UNCHANGED dpc,
               \A z \in Sessions : z # s => dpc'[z] = dpc[z]
        PROVE  NotYet'
    BY <1>3
  <1>4. ASSUME UNCHANGED <<session, dpc>>
        PROVE  NotYet'
    BY <1>4
  <1>5. CASE RecordingEnds \/ UserSets \/ UNCHANGED duckerVars
    BY <1>4, <1>5 DEF RecordingEnds, UserSets, duckerVars, duckVars
  <1>6. ASSUME NEW s \in Sessions, Initializes(s) \/ InitializeFails(s) \/ DuckSkips(s)
                                 \/ DuckReadsNothing(s) \/ DuckAgain(s)
                                 \/ \E fails \in BOOLEAN : DuckBegins(s, fails)
        PROVE  NotYet'
    BY <1>3, <1>6 DEF Initializes, InitializeFails, DuckSkips, DuckReadsNothing, DuckBegins, DuckAgain
  <1>7. ASSUME NEW s \in Sessions, DuckFades(s) \/ DuckFadeFails(s) \/ Rechecks(s)
                                 \/ (\E fails \in BOOLEAN : DuckSettles(s, fails))
                                 \/ \E repairs, clears \in BOOLEAN : DuckRaises(s, repairs, clears)
        PROVE  NotYet'
    BY <1>3, <1>7 DEF DuckFades, DuckFadeFails, DuckSettles, DuckRaises, Rechecks, Lowers
  <1>8. ASSUME NEW s \in Sessions,
               MonitorLeaves(s) \/ MonitorHears(s) \/ MonitorFades(s) \/ MonitorFadeFails(s)
                 \/ MonitorRaises(s) \/ MonitorSettles(s) \/ MonitorTriesAgain(s)
                 \/ \E fails \in BOOLEAN : MonitorDucks(s, fails)
        PROVE  NotYet'
    BY <1>4, <1>8 DEF MonitorLeaves, MonitorHears, MonitorDucks, MonitorFades, MonitorFadeFails,
       MonitorRaises,
       MonitorSettles, MonitorTriesAgain, duckVars
  <1>9. ASSUME NEW x \in Calling,
               RestoreEasy(x) \/ RestoreFades(x) \/ RestoreFails(x) \/ RestoreRaises(x)
                 \/ (\E blind \in BOOLEAN : RestoreBegins(x, blind))
                 \/ \E sets, clears \in BOOLEAN : RestoreEnds(x, sets, clears)
        PROVE  NotYet'
    BY <1>4, <1>9 DEF RestoreEasy, RestoreBegins, RestoreFades, RestoreEnds, RestoreFails,
       RestoreRaises, duckVars
  <1> QED
    BY <1>1, <1>2, <1>5, <1>6, <1>7, <1>8, <1>9 DEF DuckerNext, Calling

LEMMA CountedStep ==
  ASSUME Threads, NotYet, Counted, [DuckerNext]_duckerVars
  PROVE  Counted'
  <1> USE DEF Threads, Counted
  <1>0. IsFiniteSet(Faders)
    BY FadersAreFew
  <1>1. ASSUME UNCHANGED fades, \A s \in Sessions : Fading(s)' = Fading(s)
        PROVE  Counted'
    <2>1. Faders' = Faders
      BY <1>1 DEF Faders
    <2> QED
      BY <1>1, <2>1
  <1>2. ASSUME UNCHANGED <<fades, dpc>> PROVE Counted'
    BY <1>1, <1>2 DEF Fading
  <1>3. ASSUME UNCHANGED fades, NEW s \in Nat, ~Fading(s), NEW to \in {"start", "duck", "recheck", "done"},
               dpc' = [dpc EXCEPT ![s] = to]
        PROVE  Counted'
    <2>1. \A z \in Sessions : Fading(z)' = Fading(z)
      BY <1>3 DEF Fading
    <2> QED
      BY <1>1, <1>3, <2>1
  <1>4. ASSUME NEW s \in Sessions, dpc[s] = "duck", fades' = fades + 1, dpc' = [dpc EXCEPT ![s] = "fade"]
        PROVE  Counted'
    <2>1. Faders' = Faders \cup {s} /\ s \notin Faders
      BY <1>4 DEF Faders, Fading
    <2>2. Cardinality(Faders \cup {s}) = Cardinality(Faders) + 1
      BY <1>0, <2>1, FS_AddElement
    <2> QED
      BY <1>4, <2>1, <2>2
  <1>5. ASSUME NEW s \in Sessions, Fading(s), fades' = fades - 1, dpc' = [dpc EXCEPT ![s] = "recheck"]
        PROVE  Counted'
    <2>1. Faders' = Faders \ {s} /\ s \in Faders
      BY <1>5 DEF Faders, Fading
    <2>2. Cardinality(Faders \ {s}) = Cardinality(Faders) - 1
      BY <1>0, <2>1, FS_RemoveElement
    <2> QED
      BY <1>5, <2>1, <2>2
  <1>6. CASE RecordingStarts
    <2>1. /\ session + 1 \in Sessions /\ session + 1 \in Nat /\ fades' = fades
          /\ dpc' = [dpc EXCEPT ![session + 1] = "start"]
      BY <1>6, DuckerBounds DEF RecordingStarts, Sessions, stateVars
    <2>2. ~Fading(session + 1)
      BY <2>1 DEF NotYet, Fading
    <2> QED
      BY <1>3, <2>1, <2>2
  <1>7. CASE AppCrashes
    <2>1. Faders' = {}
      BY <1>7 DEF AppCrashes, Faders, Fading
    <2> QED
      BY <1>7, <2>1, FS_EmptySet DEF AppCrashes
  <1>8. CASE RecordingEnds \/ UserSets \/ UNCHANGED duckerVars
    BY <1>2, <1>8 DEF RecordingEnds, UserSets, duckerVars, stateVars, duckVars
  <1>9. ASSUME NEW s \in Sessions, Initializes(s) \/ InitializeFails(s) \/ DuckSkips(s)
                                 \/ DuckReadsNothing(s) \/ Rechecks(s)
        PROVE Counted'
    <2>1. /\ UNCHANGED fades /\ ~Fading(s) /\ s \in Nat
          /\ \E to \in {"start", "duck", "recheck", "done"} : dpc' = [dpc EXCEPT ![s] = to]
      BY <1>9 DEF Initializes, InitializeFails, DuckSkips, DuckReadsNothing, Rechecks, Fading,
         stateVars, Sessions
    <2> QED
      BY <1>3, <2>1
  <1>10. ASSUME NEW s \in Sessions, NEW fails \in BOOLEAN, DuckBegins(s, fails) PROVE Counted'
    BY <1>4, <1>10 DEF DuckBegins
  <1>11. ASSUME NEW s \in Sessions, DuckAgain(s) PROVE Counted'
    <2>1. CASE ducked
      BY <1>4, <1>11, <2>1 DEF DuckAgain
    <2>2. CASE ~ducked
      <3>1. ~Fading(s) /\ s \in Nat
        BY <1>11 DEF DuckAgain, Fading, Sessions
      <3> QED
        BY <1>3, <1>11, <2>2, <3>1 DEF DuckAgain
    <2> QED
      BY <2>1, <2>2
  <1>12. ASSUME NEW s \in Sessions, DuckFades(s) \/ DuckFadeFails(s) PROVE Counted'
    BY <1>1, <1>12 DEF DuckFades, DuckFadeFails, Lowers, Fading, stateVars
  <1>13. ASSUME NEW s \in Sessions,
               (\E fails \in BOOLEAN : DuckSettles(s, fails))
                 \/ \E repairs, clears \in BOOLEAN : DuckRaises(s, repairs, clears)
         PROVE Counted'
    BY <1>5, <1>13 DEF DuckSettles, DuckRaises, Lowers, Fading
  <1>14. ASSUME NEW s \in Sessions,
               MonitorLeaves(s) \/ MonitorHears(s) \/ MonitorFades(s) \/ MonitorFadeFails(s)
                 \/ MonitorRaises(s) \/ MonitorSettles(s) \/ MonitorTriesAgain(s)
                 \/ \E fails \in BOOLEAN : MonitorDucks(s, fails)
        PROVE  Counted'
    BY <1>2, <1>14 DEF MonitorLeaves, MonitorHears, MonitorDucks, MonitorFades, MonitorFadeFails,
       MonitorRaises,
       MonitorSettles, MonitorTriesAgain,
       duckVars, stateVars
  <1>15. ASSUME NEW x \in Calling,
               RestoreEasy(x) \/ RestoreFades(x) \/ RestoreFails(x) \/ RestoreRaises(x)
                 \/ (\E blind \in BOOLEAN : RestoreBegins(x, blind))
                 \/ \E sets, clears \in BOOLEAN : RestoreEnds(x, sets, clears)
        PROVE  Counted'
    BY <1>2, <1>15 DEF RestoreEasy, RestoreBegins, RestoreFades, RestoreEnds, RestoreFails,
       RestoreRaises, duckVars, stateVars
  <1> QED
    BY <1>6, <1>7, <1>8, <1>9, <1>10, <1>11, <1>12, <1>13, <1>14, <1>15 DEF DuckerNext, Calling

LEMMA HeightsStep ==
  ASSUME Threads, Owners, Heights, Knows, [DuckerNext]_duckerVars
  PROVE  Heights'
  <1> USE DEF Heights, Levels
  <1>1. CASE UserSets \/ RecordingStarts \/ RecordingEnds \/ UNCHANGED duckerVars
    BY <1>1 DEF UserSets, RecordingStarts, RecordingEnds, duckerVars, levelVars, stateVars,
       duckVars, restoreVars
  <1>2. CASE AppCrashes
    <2>1. /\ UNCHANGED <<volume, stale, mine, goal>> /\ saved' = NoLevel
          /\ wanted' = IF stale = NoLevel THEN wanted ELSE stale
      BY <1>2 DEF AppCrashes
    <2> QED
      BY <2>1
  <1>3. ASSUME NEW s \in Sessions, Initializes(s) \/ InitializeFails(s) PROVE Heights'
    BY <1>3 DEF Initializes, InitializeFails, Recovers, restoreVars
  <1>4. ASSUME NEW s \in Sessions, DuckSkips(s) \/ DuckReadsNothing(s) \/ DuckFades(s)
                                 \/ DuckFadeFails(s) \/ Rechecks(s)
        PROVE Heights'
    BY <1>4 DEF DuckSkips, DuckReadsNothing, DuckFades, DuckFadeFails, Rechecks, levelVars,
       stateVars, restoreVars
  <1>5. ASSUME NEW s \in Sessions, NEW fails \in BOOLEAN, DuckBegins(s, fails) PROVE Heights'
    BY <1>5 DEF DuckBegins, Saves, restoreVars
  <1>6. ASSUME NEW s \in Sessions, DuckAgain(s) PROVE Heights'
    BY <1>6 DEF DuckAgain, levelVars, restoreVars
  <1>7. ASSUME NEW s \in Sessions,
               (\E fails \in BOOLEAN : DuckSettles(s, fails))
                 \/ \E repairs, clears \in BOOLEAN : DuckRaises(s, repairs, clears)
        PROVE Heights'
    <2>1. mine[s] \in Levels
      BY <1>7 DEF DuckSettles, DuckRaises, Lowers, Knows, Fading
    <2> QED
      BY <1>7, <2>1 DEF DuckSettles, DuckRaises, restoreVars
  <1>8. ASSUME NEW s \in Sessions,
               MonitorLeaves(s) \/ MonitorHears(s) \/ MonitorFades(s) \/ MonitorFadeFails(s)
                 \/ MonitorRaises(s) \/ MonitorSettles(s) \/ MonitorTriesAgain(s)
                 \/ \E fails \in BOOLEAN : MonitorDucks(s, fails)
        PROVE  Heights'
    BY <1>8 DEF MonitorLeaves, MonitorHears, MonitorDucks, MonitorFades, MonitorFadeFails, MonitorRaises,
       MonitorSettles, MonitorTriesAgain, Saves, StillSkipping,
       duckVars, stateVars, levelVars, restoreVars
  <1>9. ASSUME NEW x \in Calling, RestoreEasy(x) \/ RestoreFades(x) PROVE Heights'
    BY <1>9 DEF RestoreEasy, RestoreFades, duckVars, levelVars, stateVars
  <1>10. ASSUME NEW x \in Calling, NEW blind \in BOOLEAN, RestoreBegins(x, blind) PROVE Heights'
    BY <1>10 DEF RestoreBegins, Target, duckVars, levelVars
  <1>11. ASSUME NEW x \in Calling, RestoreFails(x) \/ RestoreRaises(x)
                                 \/ \E sets, clears \in BOOLEAN : RestoreEnds(x, sets, clears)
         PROVE Heights'
    BY <1>11 DEF RestoreEnds, RestoreFails, RestoreRaises, Knows, duckVars
  <1> QED
    BY <1>1, <1>2, <1>3, <1>4, <1>5, <1>6, <1>7, <1>8, <1>9, <1>10, <1>11 DEF DuckerNext, Calling

LEMMA KnowsStep ==
  ASSUME Threads, Heights, NotYet, Knows, [DuckerNext]_duckerVars
  PROVE  Knows'
  <1> USE DEF Threads, Heights, Levels, Knows, Fading
  <1>1. CASE UserSets \/ UNCHANGED duckerVars
    BY <1>1 DEF UserSets, duckerVars, duckVars, restoreVars
  <1>2. CASE RecordingStarts
    <2>1. session + 1 \in Sessions /\ dpc' = [dpc EXCEPT ![session + 1] = "start"]
      BY <1>2, DuckerBounds DEF RecordingStarts, Sessions
    <2> QED
      BY <1>2, <2>1 DEF RecordingStarts, restoreVars
  <1>3. CASE RecordingEnds
    BY <1>3 DEF RecordingEnds, duckVars
  <1>4. CASE AppCrashes
    <2>1. dpc' = [s \in Sessions |-> IF s > session THEN "idle" ELSE "done"]
      BY <1>4 DEF AppCrashes
    <2>2. rpc' = [x \in Calling |-> IF x[1] > session THEN "idle" ELSE "done"]
      BY <1>4 DEF AppCrashes, Calling
    <2> QED
      BY <2>1, <2>2
  <1>5. ASSUME NEW s \in Sessions, Initializes(s) \/ InitializeFails(s) \/ DuckSkips(s)
                                 \/ DuckReadsNothing(s)
        PROVE Knows'
    <2>1. /\ UNCHANGED <<mine, rpc, goal>>
          /\ \/ dpc' = [dpc EXCEPT ![s] = IF recording THEN "duck" ELSE "done"]
             \/ dpc' = [dpc EXCEPT ![s] = "recheck"]
             \/ dpc' = [dpc EXCEPT ![s] = "duck"]
      BY <1>5, Zenon DEF Initializes, InitializeFails, DuckSkips, DuckReadsNothing, restoreVars
    <2>2. \A z \in Sessions : Fading(z)' => Fading(z)
      BY <2>1
    <2> QED
      BY <2>1, <2>2
  <1>6. ASSUME NEW s \in Sessions, DuckAgain(s) \/ (\E fails \in BOOLEAN : DuckBegins(s, fails))
        PROVE Knows'
    <2>1. /\ UNCHANGED <<rpc, goal>>
          /\ \/ /\ dpc' = [dpc EXCEPT ![s] = "fade"]
                /\ \E v : v # NoLevel /\ mine' = [mine EXCEPT ![s] = v]
             \/ mine' = mine /\ dpc' = [dpc EXCEPT ![s] = "recheck"]
      <3>1. CASE \E fails \in BOOLEAN : DuckBegins(s, fails)
        BY <3>1 DEF DuckBegins, restoreVars, NoLevel
      <3>2. CASE DuckAgain(s)
        BY <3>2 DEF DuckAgain, restoreVars
      <3> QED
        BY <1>6, <3>1, <3>2
    <2>2. CASE mine' = mine /\ dpc' = [dpc EXCEPT ![s] = "recheck"]
      BY <2>1, <2>2
    <2>3. ASSUME dpc' = [dpc EXCEPT ![s] = "fade"],
                 NEW v, v # NoLevel, mine' = [mine EXCEPT ![s] = v]
          PROVE  Knows'
      BY <2>1, <2>3
    <2> QED
      BY <2>1, <2>2, <2>3
  <1>7. ASSUME NEW s \in Sessions, DuckFades(s) \/ DuckFadeFails(s)
                                 \/ (\E fails \in BOOLEAN : DuckSettles(s, fails))
                                 \/ \E repairs, clears \in BOOLEAN : DuckRaises(s, repairs, clears)
        PROVE Knows'
    BY <1>7 DEF DuckFades, DuckFadeFails, DuckSettles, DuckRaises, Lowers, restoreVars
  <1>8. ASSUME NEW s \in Sessions, Rechecks(s) PROVE Knows'
    BY <1>8 DEF Rechecks
  <1>9. ASSUME NEW s \in Sessions,
               MonitorLeaves(s) \/ MonitorHears(s) \/ MonitorFades(s) \/ MonitorFadeFails(s)
                 \/ MonitorRaises(s) \/ MonitorSettles(s) \/ MonitorTriesAgain(s)
                 \/ \E fails \in BOOLEAN : MonitorDucks(s, fails)
        PROVE  Knows'
    BY <1>9 DEF MonitorLeaves, MonitorHears, MonitorDucks, MonitorFades, MonitorFadeFails, MonitorRaises,
       MonitorSettles, MonitorTriesAgain,
       duckVars, restoreVars
  <1>10. ASSUME NEW x \in Calling, RestoreEasy(x) \/ RestoreFades(x) \/ RestoreFails(x)
                                  \/ RestoreRaises(x)
                                  \/ \E sets, clears \in BOOLEAN : RestoreEnds(x, sets, clears)
         PROVE Knows'
    BY <1>10 DEF RestoreEasy, RestoreFades, RestoreEnds, RestoreFails, RestoreRaises, duckVars
  <1>11. ASSUME NEW x \in Calling, NEW blind \in BOOLEAN, RestoreBegins(x, blind) PROVE Knows'
    <2>1. saved # NoLevel /\ Target # NoLevel
      BY <1>11 DEF RestoreBegins, NothingToRestore, Target, NoLevel
    <2> QED
      BY <1>11, <2>1 DEF RestoreBegins, duckVars
  <1> QED
    BY <1>1, <1>2, <1>3, <1>4, <1>5, <1>6, <1>7, <1>8, <1>9, <1>10, <1>11 DEF DuckerNext, Calling

LEMMA DuckerTypeStep ==
  ASSUME DuckerTypeOK, NotYet, Counted, Knows, [DuckerNext]_duckerVars
  PROVE  (DuckerTypeOK /\ NotYet /\ Counted /\ Knows)'
  <1>0. Threads /\ Owners /\ Heights /\ Left
    BY DuckerKinds
  <1>1. Threads' /\ Owners' /\ Heights' /\ Left'
    BY <1>0, ThreadsStep, OwnersStep, HeightsStep, LeftStep
  <1>2. NotYet' /\ Counted' /\ Knows'
    BY <1>0, NotYetStep, CountedStep, KnowsStep
  <1>3. fades' \in 0 .. Dictations
    <2>1. (IsFiniteSet(Faders) /\ Cardinality(Faders) \in 0 .. Dictations)'
      BY FadersAreFew, PTL
    <2> QED
      BY <1>2, <2>1 DEF Counted
  <1> QED
    BY <1>1, <1>2, <1>3 DEF DuckerTypeOK, Threads, Owners, Heights, Left, Calling

LEMMA DuckerTypeInitially == DuckerInit => DuckerTypeOK /\ NotYet /\ Counted /\ Knows
  <1> SUFFICES ASSUME DuckerInit PROVE DuckerTypeOK /\ NotYet /\ Counted /\ Knows
    OBVIOUS
  <1>1. Faders = {}
    BY DEF DuckerInit, Faders, Fading
  <1>2. Counted
    BY <1>1, FS_EmptySet DEF DuckerInit, Counted
  <1>3. NotYet /\ Knows
    BY DEF DuckerInit, NotYet, Knows, Fading, Calling
  <1>4. Threads /\ Heights
    BY DuckerBounds DEF DuckerInit, Threads, Heights, Levels, Calling
  <1>5. Owners
    BY DEF DuckerInit, Owners
  <1>6. Left /\ fades \in 0 .. Dictations
    BY DuckerBounds DEF DuckerInit, Left
  <1> QED
    BY <1>2, <1>3, <1>4, <1>5, <1>6, DuckerKinds

(* For any number of dictations and in every environment: the volume state   *)
(* keeps its types, and as many fades are counted as are in flight.          *)
THEOREM DuckerTypeCorrect == DuckerSpec => [](DuckerTypeOK /\ Counted)
  BY DuckerTypeInitially, DuckerTypeStep, PTL DEF DuckerSpec

----------------------------------------------------------------------------
(* The volume, under the timing assumptions (VolumeRaces = {}).              *)

(* One start worker at a time fades, everybody restores once, and the lock   *)
(* is with a restore just while it fades.                                    *)
InTurn ==
    /\ recording => session > 0 /\ rpc[<<session, "ender">>] = "idle"
    /\ \A s \in Sessions :
         /\ s < session => dpc[s] \in {"recheck", "done"}
         /\ s > session => rpc[<<s, "ender">>] = "idle"
         /\ dpc[s] # "done" => rpc[<<s, "starter">>] = "idle"
LockIsHeld == \A x \in Calling : rpc[x] \in {"fade", "set"} <=> restorer = x
FadeIsOne  ==
    /\ fades \in {0, 1}
    /\ \A s \in Sessions : Fading(s) => s = session /\ fades = 1
    /\ fades = 1 => \E s \in Sessions : Fading(s)

LEMMA RestoreCallers == \A s \in Sessions : <<s, "starter">> \in Calling /\ <<s, "ender">> \in Calling
  BY DEF Calling, Restorers

(* A call of restore() changes the place of one caller.                      *)
LEMMA StarterCalls ==
  ASSUME rpc \in [Calling -> {"idle", "restore", "fade", "set", "done"}],
         NEW s \in Sessions, rpc' = [rpc EXCEPT ![<<s, "starter">>] = "restore"]
  PROVE  /\ rpc'[<<s, "starter">>] = "restore"
         /\ \A z \in Sessions :
              /\ z # s => rpc'[<<z, "starter">>] = rpc[<<z, "starter">>]
              /\ rpc'[<<z, "ender">>] = rpc[<<z, "ender">>]
  BY DEF Calling, Restorers

LEMMA EnderCalls ==
  ASSUME rpc \in [Calling -> {"idle", "restore", "fade", "set", "done"}],
         NEW s \in Sessions, rpc' = [rpc EXCEPT ![<<s, "ender">>] = "restore"]
  PROVE  /\ rpc'[<<s, "ender">>] = "restore"
         /\ \A z \in Sessions :
              /\ z # s => rpc'[<<z, "ender">>] = rpc[<<z, "ender">>]
              /\ rpc'[<<z, "starter">>] = rpc[<<z, "starter">>]
  BY DEF Calling, Restorers

LEMMA CallsAre ==
  ASSUME NEW x \in Calling
  PROVE  \E s \in Sessions : x = <<s, "starter">> \/ x = <<s, "ender">>
  BY DEF Calling, Restorers

LEMMA InTurnStep ==
  ASSUME VolumeRaces = {}, Threads, Owners, NotYet, InTurn, [DuckerNext]_duckerVars
  PROVE  InTurn'
  <1> USE DEF Threads
  <1>0. \A s \in Sessions : s \in Nat \ {0}
    BY DEF Sessions
  <1>1. ASSUME UNCHANGED <<recording, session, dpc, rpc>> PROVE InTurn'
    BY <1>1 DEF InTurn
  <1>2. ASSUME NEW s \in Sessions, UNCHANGED <<recording, session, rpc>>, dpc[s] \notin {"recheck", "done"},
               NEW to, dpc' = [dpc EXCEPT ![s] = to]
        PROVE  InTurn'
    BY <1>2 DEF InTurn
  <1>3. ASSUME NEW x \in Calling, UNCHANGED <<recording, session, dpc>>, rpc[x] # "idle",
               NEW to \in {"done", "fade", "set"}, rpc' = [rpc EXCEPT ![x] = to]
        PROVE  InTurn'
    <2>1. \A y \in Calling : rpc[y] = "idle" <=> rpc'[y] = "idle"
      BY <1>3
    <2>2. \A s \in Sessions : <<s, "starter">> \in Calling /\ <<s, "ender">> \in Calling
      BY RestoreCallers, Zenon
    <2>3. recording => session \in Sessions
      BY DuckerBounds DEF InTurn, Sessions
    <2> QED
      BY <1>3, <2>1, <2>2, <2>3 DEF InTurn
  <1>4. CASE RecordingStarts
    <2>1. /\ session' = session + 1 /\ session + 1 \in Sessions /\ UNCHANGED rpc
          /\ dpc' = [dpc EXCEPT ![session + 1] = "start"]
      BY <1>4, DuckerBounds DEF RecordingStarts, Sessions, restoreVars
    <2>2. session > 0 => session \in Sessions /\ dpc[session] \in {"recheck", "done"}
      <3>1. LastOneIsOver
        BY <1>4 DEF RecordingStarts
      <3>2. session > 0 => session \in Sessions
        BY DuckerBounds DEF Sessions
      <3> QED
        BY <3>1, <3>2 DEF LastOneIsOver
    <2>3. dpc[session + 1] = "idle" /\ rpc[<<session + 1, "ender">>] = "idle"
      <3>1. session + 1 > session
        OBVIOUS
      <3> QED
        BY <2>1, <3>1 DEF NotYet, InTurn
    <2>4. \A s \in Sessions : s < session + 1 => s < session \/ (s = session /\ session > 0)
      BY <1>0
    <2>5. \A s \in Sessions : s > session + 1 => s > session
      BY <1>0
    <2>6. \A s \in Sessions : s # session + 1 => dpc'[s] = dpc[s]
      BY <2>1
    <2>7. dpc'[session + 1] = "start" /\ session + 1 > 0
      BY <2>1
    <2>8. \A s \in Sessions : s < session + 1 => s # session + 1
      BY <1>0
    <2> QED
      BY <2>1, <2>2, <2>3, <2>4, <2>5, <2>6, <2>7, <2>8 DEF InTurn
  <1>5. CASE RecordingEnds
    <2>1. /\ UNCHANGED <<session, dpc>> /\ ~recording' /\ recording
          /\ rpc' = [rpc EXCEPT ![<<session, "ender">>] = "restore"]
      BY <1>5 DEF RecordingEnds, duckVars
    <2>4. session \in Sessions
      BY <2>1, DuckerBounds DEF InTurn, Sessions
    <2>2. \A s \in Sessions : /\ rpc'[<<s, "starter">>] = rpc[<<s, "starter">>]
                              /\ s # session => rpc'[<<s, "ender">>] = rpc[<<s, "ender">>]
      BY <2>1, <2>4, EnderCalls, Zenon
    <2>3. \A s \in Sessions : s > session => s # session
      BY <1>0
    <2> QED
      BY <2>1, <2>2, <2>3 DEF InTurn
  <1>6. CASE UserSets \/ UNCHANGED duckerVars
    BY <1>1, <1>6 DEF UserSets, duckerVars, duckVars, restoreVars
  <1>7. CASE AppCrashes
    <2>1. dpc' = [s \in Sessions |-> IF s > session THEN "idle" ELSE "done"]
      BY <1>7 DEF AppCrashes
    <2>2. rpc' = [x \in Calling |-> IF x[1] > session THEN "idle" ELSE "done"]
      BY <1>7 DEF AppCrashes, Calling
    <2>3. ~recording' /\ session' = session
      BY <1>7 DEF AppCrashes
    <2>4. \A s \in Sessions : s > session => /\ rpc'[<<s, "starter">>] = "idle"
                                             /\ rpc'[<<s, "ender">>] = "idle"
      BY <2>2, RestoreCallers
    <2>5. \A s \in Sessions : /\ dpc'[s] # "done" => s > session
                              /\ s < session => dpc'[s] = "done"
      BY <2>1, <1>0
    <2> QED
      BY <2>3, <2>4, <2>5 DEF InTurn
  <1>8. ASSUME NEW s \in Sessions, Initializes(s) \/ InitializeFails(s) PROVE InTurn'
    <2>1. \E to : dpc' = [dpc EXCEPT ![s] = to]
      BY <1>8 DEF Initializes, InitializeFails
    <2>2. UNCHANGED <<recording, session, rpc>> /\ dpc[s] = "start"
      BY <1>8 DEF Initializes, InitializeFails, restoreVars
    <2> QED
      BY <1>2, <2>1, <2>2
  <1>9. ASSUME NEW s \in Sessions, DuckSkips(s) \/ DuckReadsNothing(s)
                                 \/ \E fails \in BOOLEAN : DuckBegins(s, fails)
        PROVE InTurn'
    BY <1>2, <1>9 DEF DuckSkips, DuckReadsNothing, DuckBegins, restoreVars
  <1>10. ASSUME NEW s \in Sessions, DuckAgain(s) PROVE InTurn'
    <2>1. \E to : dpc' = [dpc EXCEPT ![s] = to]
      BY <1>10 DEF DuckAgain
    <2>2. UNCHANGED <<recording, session, rpc>> /\ dpc[s] = "duck"
      BY <1>10 DEF DuckAgain, restoreVars
    <2> QED
      BY <1>2, <2>1, <2>2
  <1>11. ASSUME NEW s \in Sessions, DuckFades(s) \/ DuckFadeFails(s)
                                  \/ (\E fails \in BOOLEAN : DuckSettles(s, fails))
                                  \/ \E repairs, clears \in BOOLEAN : DuckRaises(s, repairs, clears)
         PROVE InTurn'
    <2>1. \E to : dpc' = [dpc EXCEPT ![s] = to]
      BY <1>11 DEF DuckFades, DuckFadeFails, DuckSettles, DuckRaises
    <2>2. UNCHANGED <<recording, session, rpc>> /\ dpc[s] \notin {"recheck", "done"}
      BY <1>11 DEF DuckFades, DuckFadeFails, DuckSettles, DuckRaises, Lowers, restoreVars
    <2> QED
      BY <1>2, <2>1, <2>2
  <1>12. ASSUME NEW s \in Sessions, Rechecks(s) PROVE InTurn'
    <2>1. /\ UNCHANGED <<recording, session>> /\ dpc' = [dpc EXCEPT ![s] = "done"]
          /\ rpc' = rpc \/ rpc' = [rpc EXCEPT ![<<s, "starter">>] = "restore"]
      BY <1>12 DEF Rechecks
    <2>2. \A z \in Sessions : /\ rpc'[<<z, "ender">>] = rpc[<<z, "ender">>]
                              /\ z # s => rpc'[<<z, "starter">>] = rpc[<<z, "starter">>]
      BY <2>1, StarterCalls, Zenon
    <2>3. recording => session \in Sessions
      BY DuckerBounds DEF InTurn, Sessions
    <2> QED
      BY <2>1, <2>2, <2>3 DEF InTurn
  <1>13. ASSUME NEW s \in Sessions,
               MonitorLeaves(s) \/ MonitorHears(s) \/ MonitorFades(s) \/ MonitorFadeFails(s)
                 \/ MonitorRaises(s) \/ MonitorSettles(s) \/ MonitorTriesAgain(s)
                 \/ \E fails \in BOOLEAN : MonitorDucks(s, fails)
         PROVE InTurn'
    BY <1>1, <1>13 DEF MonitorLeaves, MonitorHears, MonitorDucks, MonitorFades, MonitorFadeFails,
       MonitorRaises,
       MonitorSettles, MonitorTriesAgain,
       duckVars, restoreVars
  <1>14. ASSUME NEW x \in Calling,
               RestoreEasy(x) \/ RestoreFades(x) \/ RestoreFails(x) \/ RestoreRaises(x)
                 \/ (\E blind \in BOOLEAN : RestoreBegins(x, blind))
                 \/ \E sets, clears \in BOOLEAN : RestoreEnds(x, sets, clears)
         PROVE InTurn'
    <2>1. UNCHANGED <<recording, session, dpc>> /\ rpc[x] # "idle"
      BY <1>14 DEF RestoreEasy, RestoreBegins, RestoreFades, RestoreEnds, RestoreFails,
         RestoreRaises, duckVars
    <2>2. \E to \in {"done", "fade", "set"} : rpc' = [rpc EXCEPT ![x] = to]
      BY <1>14 DEF RestoreEasy, RestoreBegins, RestoreFades, RestoreEnds, RestoreFails, RestoreRaises
    <2> QED
      BY <1>3, <2>1, <2>2
  <1> QED
    BY <1>4, <1>5, <1>6, <1>7, <1>8, <1>9, <1>10, <1>11, <1>12, <1>13, <1>14
    DEF DuckerNext, Calling

LEMMA LockIsHeldStep ==
  ASSUME Threads, Owners, InTurn, LockIsHeld, [DuckerNext]_duckerVars
  PROVE  LockIsHeld'
  <1> USE DEF Threads
  <1>0. <<>> \notin Calling
    BY DEF Calling
  <1>1. ASSUME UNCHANGED <<rpc, restorer>> PROVE LockIsHeld'
    BY <1>1 DEF LockIsHeld
  <1>2. ASSUME NEW x, x \in Calling => rpc[x] \notin {"fade", "set"}, UNCHANGED restorer,
               NEW to \in {"restore", "done"}, rpc' = [rpc EXCEPT ![x] = to]
        PROVE  LockIsHeld'
    BY <1>2 DEF LockIsHeld
  <1>3. CASE RecordingEnds
    <2>1. rpc[<<session, "ender">>] = "idle"
      BY <1>3 DEF RecordingEnds, InTurn
    <2> QED
      BY <1>2, <1>3, <2>1 DEF RecordingEnds, stateVars
  <1>4. CASE AppCrashes
    <2>1. rpc' = [x \in Calling |-> IF x[1] > session THEN "idle" ELSE "done"]
      BY <1>4 DEF AppCrashes, Calling
    <2>2. restorer' = <<>>
      BY <1>4 DEF AppCrashes
    <2> QED
      BY <1>0, <2>1, <2>2 DEF LockIsHeld
  <1>5. CASE RecordingStarts \/ UserSets \/ UNCHANGED duckerVars
    BY <1>1, <1>5 DEF RecordingStarts, UserSets, duckerVars, stateVars, restoreVars
  <1>6. ASSUME NEW s \in Sessions,
               Initializes(s) \/ InitializeFails(s) \/ DuckSkips(s) \/ DuckReadsNothing(s)
                 \/ DuckAgain(s) \/ DuckFades(s) \/ DuckFadeFails(s)
                 \/ (\E fails \in BOOLEAN : DuckBegins(s, fails) \/ DuckSettles(s, fails))
                 \/ \E repairs, clears \in BOOLEAN : DuckRaises(s, repairs, clears)
        PROVE  LockIsHeld'
    BY <1>1, <1>6 DEF Initializes, InitializeFails, DuckSkips, DuckReadsNothing, DuckBegins,
       DuckAgain, DuckFades, DuckFadeFails, DuckSettles, DuckRaises, stateVars, restoreVars
  <1>7. ASSUME NEW s \in Sessions, Rechecks(s) PROVE LockIsHeld'
    <2>1. rpc[<<s, "starter">>] = "idle"
      BY <1>7 DEF Rechecks, InTurn
    <2> QED
      BY <1>1, <1>2, <1>7, <2>1 DEF Rechecks, stateVars
  <1>8. ASSUME NEW s \in Sessions,
               MonitorLeaves(s) \/ MonitorHears(s) \/ MonitorFades(s) \/ MonitorFadeFails(s)
                 \/ MonitorRaises(s) \/ MonitorSettles(s) \/ MonitorTriesAgain(s)
                 \/ \E fails \in BOOLEAN : MonitorDucks(s, fails)
        PROVE  LockIsHeld'
    BY <1>1, <1>8 DEF MonitorLeaves, MonitorHears, MonitorDucks, MonitorFades, MonitorFadeFails,
       MonitorRaises,
       MonitorSettles, MonitorTriesAgain,
       restoreVars, stateVars
  <1>9. ASSUME NEW x \in Calling, RestoreEasy(x) PROVE LockIsHeld'
    BY <1>2, <1>9 DEF RestoreEasy
  <1>10. ASSUME NEW x \in Calling, NEW blind \in BOOLEAN, RestoreBegins(x, blind) PROVE LockIsHeld'
    BY <1>0, <1>10 DEF RestoreBegins, LockFree, LockIsHeld
  <1>11. ASSUME NEW x \in Calling, RestoreFades(x) PROVE LockIsHeld'
    BY <1>11 DEF RestoreFades, LockIsHeld, stateVars
  <1>12. ASSUME NEW x \in Calling, RestoreFails(x) \/ RestoreRaises(x)
                                  \/ \E sets, clears \in BOOLEAN : RestoreEnds(x, sets, clears)
         PROVE LockIsHeld'
    <2>1. restorer = x
      BY <1>12 DEF RestoreEnds, RestoreFails, RestoreRaises, LockIsHeld
    <2> QED
      BY <1>0, <1>12, <2>1 DEF RestoreEnds, RestoreFails, RestoreRaises, LockIsHeld
  <1> QED
    BY <1>3, <1>4, <1>5, <1>6, <1>7, <1>8, <1>9, <1>10, <1>11, <1>12 DEF DuckerNext, Calling

LEMMA BusyStarter ==
  ASSUME Threads, NotYet, InTurn, NEW s \in Sessions, dpc[s] \notin {"idle", "recheck", "done"}
  PROVE  s = session
  <1>1. s \in Int /\ session \in Int
    BY DEF Sessions, Threads
  <1>2. ~(s < session) /\ ~(s > session)
    BY DEF NotYet, InTurn
  <1> QED
    BY <1>1, <1>2

LEMMA FadeIsOneStep ==
  ASSUME VolumeRaces = {}, Threads, NotYet, InTurn, FadeIsOne, [DuckerNext]_duckerVars
  PROVE  FadeIsOne'
  <1> USE DEF Threads
  <1>1. ASSUME UNCHANGED <<fades, session>>, \A s \in Sessions : Fading(s)' = Fading(s)
        PROVE  FadeIsOne'
    BY <1>1 DEF FadeIsOne
  <1>2. ASSUME UNCHANGED <<fades, session, dpc>> PROVE FadeIsOne'
    BY <1>1, <1>2 DEF Fading
  <1>3. ASSUME UNCHANGED <<fades, session>>, NEW s \in Sessions, ~Fading(s),
               NEW to \in {"start", "duck", "recheck", "done"}, dpc' = [dpc EXCEPT ![s] = to]
        PROVE  FadeIsOne'
    <2>1. \A z \in Sessions : Fading(z)' = Fading(z)
      BY <1>3 DEF Fading
    <2> QED
      BY <1>1, <1>3, <2>1
  <1>4. ASSUME NEW s \in Sessions, dpc[s] = "duck", fades' = fades + 1, UNCHANGED session,
               dpc' = [dpc EXCEPT ![s] = "fade"]
        PROVE  FadeIsOne'
    <2>1. s = session
      BY <1>4, BusyStarter
    <2>2. \A z \in Sessions : ~Fading(z)
      BY <1>4, <2>1 DEF FadeIsOne, Fading
    <2>3. \A z \in Sessions : Fading(z)' <=> z = s
      BY <1>4, <2>2 DEF Fading
    <2>4. fades = 0
      BY <2>2 DEF FadeIsOne
    <2> QED
      BY <1>4, <2>1, <2>3, <2>4 DEF FadeIsOne
  <1>5. ASSUME NEW s \in Sessions, Fading(s), fades' = fades - 1, UNCHANGED session,
               dpc' = [dpc EXCEPT ![s] = "recheck"]
        PROVE  FadeIsOne'
    <2>1. \A z \in Sessions : ~Fading(z)'
      BY <1>5 DEF Fading, FadeIsOne
    <2> QED
      BY <1>5, <2>1 DEF FadeIsOne
  <1>6. CASE RecordingStarts
    <2>1. /\ session + 1 \in Sessions /\ session' = session + 1 /\ fades' = fades
          /\ dpc' = [dpc EXCEPT ![session + 1] = "start"] /\ session + 1 > session
      BY <1>6, DuckerBounds DEF RecordingStarts, Sessions, stateVars
    <2>2. LastOneIsOver /\ (session > 0 => session \in Sessions)
      BY <1>6, DuckerBounds DEF RecordingStarts, Sessions
    <2>3. \A s \in Sessions : s \in Nat \ {0}
      BY DEF Sessions
    <2>4. \A s \in Sessions : ~Fading(s)
      <3> SUFFICES ASSUME NEW s \in Sessions, Fading(s) PROVE FALSE
        OBVIOUS
      <3>1. s = session /\ session > 0
        BY <2>3, BusyStarter DEF Fading
      <3> QED
        BY <2>2, <3>1 DEF LastOneIsOver, Fading
    <2>5. \A s \in Sessions : ~Fading(s)'
      BY <2>1, <2>4 DEF Fading
    <2> QED
      BY <2>1, <2>4, <2>5 DEF FadeIsOne
  <1>7. CASE AppCrashes
    <2>1. /\ dpc' = [s \in Sessions |-> IF s > session THEN "idle" ELSE "done"]
          /\ fades' = 0
      BY <1>7 DEF AppCrashes
    <2>2. \A s \in Sessions : ~Fading(s)'
      BY <2>1 DEF Fading
    <2> QED
      BY <2>1, <2>2 DEF FadeIsOne
  <1>8. CASE RecordingEnds \/ UserSets \/ UNCHANGED duckerVars
    BY <1>2, <1>8 DEF RecordingEnds, UserSets, duckerVars, stateVars, duckVars
  <1>9. ASSUME NEW s \in Sessions, Initializes(s) \/ InitializeFails(s) \/ DuckSkips(s)
                                 \/ DuckReadsNothing(s) \/ Rechecks(s)
        PROVE FadeIsOne'
    <2>1. /\ UNCHANGED <<fades, session>> /\ ~Fading(s)
          /\ \E to \in {"start", "duck", "recheck", "done"} : dpc' = [dpc EXCEPT ![s] = to]
      BY <1>9 DEF Initializes, InitializeFails, DuckSkips, DuckReadsNothing, Rechecks, Fading, stateVars
    <2> QED
      BY <1>3, <2>1
  <1>10. ASSUME NEW s \in Sessions, NEW fails \in BOOLEAN, DuckBegins(s, fails) PROVE FadeIsOne'
    BY <1>4, <1>10 DEF DuckBegins
  <1>11. ASSUME NEW s \in Sessions, DuckAgain(s) PROVE FadeIsOne'
    <2>1. CASE ducked
      BY <1>4, <1>11, <2>1 DEF DuckAgain
    <2>2. CASE ~ducked
      <3>1. ~Fading(s)
        BY <1>11 DEF DuckAgain, Fading
      <3> QED
        BY <1>3, <1>11, <2>2, <3>1 DEF DuckAgain
    <2> QED
      BY <2>1, <2>2
  <1>12. ASSUME NEW s \in Sessions, DuckFades(s) \/ DuckFadeFails(s) PROVE FadeIsOne'
    BY <1>1, <1>12 DEF DuckFades, DuckFadeFails, Lowers, Fading, stateVars
  <1>13. ASSUME NEW s \in Sessions,
               (\E fails \in BOOLEAN : DuckSettles(s, fails))
                 \/ \E repairs, clears \in BOOLEAN : DuckRaises(s, repairs, clears)
         PROVE FadeIsOne'
    BY <1>5, <1>13 DEF DuckSettles, DuckRaises, Lowers, Fading
  <1>14. ASSUME NEW s \in Sessions,
               MonitorLeaves(s) \/ MonitorHears(s) \/ MonitorFades(s) \/ MonitorFadeFails(s)
                 \/ MonitorRaises(s) \/ MonitorSettles(s) \/ MonitorTriesAgain(s)
                 \/ \E fails \in BOOLEAN : MonitorDucks(s, fails)
        PROVE  FadeIsOne'
    BY <1>2, <1>14 DEF MonitorLeaves, MonitorHears, MonitorDucks, MonitorFades, MonitorFadeFails,
       MonitorRaises,
       MonitorSettles, MonitorTriesAgain,
       duckVars, stateVars
  <1>15. ASSUME NEW x \in Calling,
               RestoreEasy(x) \/ RestoreFades(x) \/ RestoreFails(x) \/ RestoreRaises(x)
                 \/ (\E blind \in BOOLEAN : RestoreBegins(x, blind))
                 \/ \E sets, clears \in BOOLEAN : RestoreEnds(x, sets, clears)
        PROVE  FadeIsOne'
    BY <1>2, <1>15 DEF RestoreEasy, RestoreBegins, RestoreFades, RestoreEnds, RestoreFails,
       RestoreRaises, duckVars, stateVars
  <1> QED
    BY <1>6, <1>7, <1>8, <1>9, <1>10, <1>11, <1>12, <1>13, <1>14, <1>15 DEF DuckerNext, Calling

(* What is lowered, and who knows of it: eight situations.                   *)
MonitorFading(s) == mpc[s] \in {"fade", "lower", "settle", "failed"}
NoMonitorFades   == \A s \in Sessions : ~MonitorFading(s)
FaderKnows       == \A s \in Sessions : Fading(s) => mine[s] = wanted
FirstOrDucked    == \A s \in Sessions : Fading(s) /\ ~first[s] => ducked
Nobody           == NoMonitorFades /\ fades = 0 /\ LockFree
Lowering         == \E s \in Sessions : dpc[s] = "lower" \/ mpc[s] = "lower"
Recorded(level)  == stale = level \/ (damage = "unsaved" /\ stale = NoLevel)

NotStarted ==
    /\ ~initialized /\ saved = NoLevel /\ ~ducked /\ Nobody /\ damage # "kept"
    /\ \A s \in Sessions : dpc[s] \in {"idle", "start", "done"} /\ mpc[s] \in {"off", "done"}
    /\ IF stale = NoLevel THEN volume = wanted ELSE stale = wanted
Full ==
    /\ initialized /\ saved = NoLevel /\ ~ducked /\ stale = NoLevel /\ Nobody /\ volume = wanted
    /\ damage # "kept"
(* A restore has come in the middle of the fade of a start worker.           *)
Overtaken ==
    /\ initialized /\ saved = NoLevel /\ ~ducked /\ stale = NoLevel /\ NoMonitorFades /\ LockFree
    /\ fades = 1 /\ FaderKnows /\ damage # "kept"
(* After a fault the volume may be at any level, but the file names the      *)
(* user's.                                                                   *)
LetDown ==
    /\ initialized /\ saved = NoLevel /\ ~ducked /\ stale = wanted /\ NoMonitorFades /\ LockFree
    /\ FaderKnows /\ damage = "kept"
Skipping ==
    /\ initialized /\ saved = wanted /\ ~ducked /\ Nobody
    /\ \/ stale = NoLevel /\ volume = wanted /\ damage # "kept"
       \/ stale = wanted /\ damage = "kept"
(* Lowered, or being lowered, unless no write has reached the volume.        *)
Lower ==
    /\ initialized /\ saved = wanted /\ Recorded(wanted) /\ LockFree /\ FaderKnows /\ FirstOrDucked
    /\ ducked \/ fades = 1 \/ ~NoMonitorFades
    /\ ~Lowering /\ damage # "kept" => volume \in {"low", wanted}
(* The user has chosen another level while it was lowered.                   *)
ByHand ==
    /\ initialized /\ saved # NoLevel /\ ducked /\ Recorded(saved) /\ Nobody
    /\ volume = wanted /\ wanted = "other" /\ session > 0
    /\ \A s \in Sessions : dpc[s] \in {"idle", "done"} /\ mpc[s] # "asked"
    /\ recording \/ rpc[<<session, "ender">>] = "restore"
Raising ==
    /\ initialized /\ saved # NoLevel /\ Recorded(saved) /\ NoMonitorFades /\ FaderKnows
    /\ FirstOrDucked /\ (ducked \/ fades = 1)
    /\ restorer \in Calling /\ goal[restorer] = wanted

Situations ==
    NotStarted \/ Full \/ Overtaken \/ LetDown \/ Skipping \/ Lower \/ ByHand \/ Raising

(* Somebody knows the user's level.                                          *)
Known == damage # "lost"

(* A restore that raises is not repeated.                                    *)
RestoreIsDue ==
    damage \in {"none", "unsaved"} /\ saved # NoLevel =>
        \/ recording
        \/ \E s \in Sessions : Fading(s) \/ dpc[s] = "recheck"
        \/ \E x \in Calling : rpc[x] \in {"restore", "fade", "set"}

SameFades ==
    \A s \in Sessions : /\ Fading(s)' <=> Fading(s)
                        /\ dpc'[s] = "lower" <=> dpc[s] = "lower"
SameMonitors ==
    \A s \in Sessions : /\ MonitorFading(s)' <=> MonitorFading(s)
                        /\ mpc'[s] = "lower" <=> mpc[s] = "lower"

LEMMA LockIsNobodys == <<>> \notin Calling
  BY DEF Calling

LEMMA WantedIsALevel == Heights => wanted # NoLevel /\ volume # NoLevel
  BY DEF Heights, Levels, NoLevel

LEMMA NobodyFades == FadeIsOne /\ fades = 0 => \A s \in Sessions : ~Fading(s)
  BY DEF FadeIsOne

LEMMA SameSituation ==
  ASSUME UNCHANGED <<initialized, saved, ducked, stale, volume, wanted, restorer, fades, goal, mine,
                     first, damage>>,
         SameFades, SameMonitors, Situations,
         NotStarted => \A s \in Sessions :
             dpc'[s] \in {"idle", "start", "done"} /\ mpc'[s] \in {"off", "done"},
         ByHand => ByHand'
  PROVE  Situations'
  <1>1. /\ NoMonitorFades' <=> NoMonitorFades
        /\ FaderKnows' <=> FaderKnows
        /\ Lowering' <=> Lowering
        /\ FirstOrDucked' <=> FirstOrDucked
    BY DEF SameFades, SameMonitors, NoMonitorFades, FaderKnows, FirstOrDucked, Lowering
  <1>2. Nobody' <=> Nobody
    BY <1>1 DEF Nobody, LockFree
  <1>3. NotStarted => NotStarted'
    BY <1>2 DEF NotStarted
  <1>4. (Full => Full') /\ (Skipping => Skipping')
    BY <1>2 DEF Full, Skipping
  <1>5. (Overtaken => Overtaken') /\ (LetDown => LetDown')
    BY <1>1 DEF Overtaken, LetDown, LockFree
  <1>6. Lower => Lower'
    BY <1>1 DEF Lower, LockFree, Recorded
  <1>7. Raising => Raising'
    BY <1>1 DEF Raising, Recorded
  <1> QED
    BY <1>3, <1>4, <1>5, <1>6, <1>7 DEF Situations

VolumeInv ==
    /\ DuckerTypeOK /\ NotYet /\ InTurn /\ LockIsHeld /\ FadeIsOne
    /\ (Known => Situations) /\ RestoreIsDue

LEMMA VolumeParts ==
  VolumeInv => /\ Threads /\ Owners /\ Heights /\ Left
               /\ NotYet /\ InTurn /\ LockIsHeld /\ FadeIsOne /\ (Known => Situations) /\ RestoreIsDue
  BY DuckerKinds DEF VolumeInv

LEMMA LostStays == [DuckerNext]_duckerVars /\ Known' => Known
  <1> SUFFICES ASSUME [DuckerNext]_duckerVars, damage = "lost" PROVE damage' = "lost"
    BY DEF Known
  <1> USE DEF Harm, Mended, Stuck, Saves
  <1>1. CASE UserSets \/ AppCrashes
    BY <1>1 DEF UserSets, AppCrashes
  <1>2. ASSUME NEW s \in Sessions,
               InitializeFails(s) \/ DuckSkips(s) \/ DuckFadeFails(s) \/ MonitorFadeFails(s)
                 \/ MonitorRaises(s) \/ MonitorTriesAgain(s)
        PROVE  damage' = "lost"
    BY <1>2 DEF InitializeFails, DuckSkips, DuckFadeFails, MonitorFadeFails, MonitorRaises,
       MonitorTriesAgain
  <1>3. ASSUME NEW s \in Sessions, NEW fails \in BOOLEAN,
               DuckBegins(s, fails) \/ DuckSettles(s, fails) \/ MonitorDucks(s, fails)
        PROVE  damage' = "lost"
    BY <1>3 DEF DuckBegins, DuckSettles, MonitorDucks
  <1>4. ASSUME NEW s \in Sessions, NEW repairs \in BOOLEAN, NEW clears \in BOOLEAN,
               DuckRaises(s, repairs, clears)
        PROVE  damage' = "lost"
    BY <1>4 DEF DuckRaises
  <1>5. ASSUME NEW x \in Calling, RestoreFails(x) \/ RestoreRaises(x) PROVE damage' = "lost"
    BY <1>5 DEF RestoreFails, RestoreRaises
  <1>6. ASSUME NEW x \in Calling, NEW blind \in BOOLEAN, RestoreBegins(x, blind)
        PROVE  damage' = "lost"
    BY <1>6 DEF RestoreBegins
  <1>7. ASSUME NEW x \in Calling, NEW sets \in BOOLEAN, NEW clears \in BOOLEAN,
               RestoreEnds(x, sets, clears)
        PROVE  damage' = "lost"
    BY <1>7 DEF RestoreEnds
  <1>8. CASE UNCHANGED damage
    BY <1>8
  <1> QED
    BY <1>1, <1>2, <1>3, <1>4, <1>5, <1>6, <1>7, <1>8
    DEF DuckerNext, duckerVars, Calling, RecordingStarts, RecordingEnds, Initializes,
        DuckReadsNothing, DuckAgain, DuckFades, Rechecks, MonitorLeaves, MonitorHears,
        MonitorFades, MonitorSettles, RestoreEasy, RestoreFades

(* The dictations and the user.                                              *)
LEMMA StartSituation ==
  ASSUME VolumeRaces = {}, VolumeInv, Known, Known', RecordingStarts
  PROVE  Situations'
  <1>0. Threads /\ NotYet /\ InTurn /\ Heights /\ Situations
    BY VolumeParts
  <1>1. /\ session + 1 \in Sessions /\ session + 1 > session /\ ~recording
        /\ dpc' = [dpc EXCEPT ![session + 1] = "start"] /\ UNCHANGED mpc
        /\ UNCHANGED <<initialized, saved, ducked, stale, volume, wanted, restorer, fades, goal, mine,
                       first, damage>>
    BY <1>0, DuckerBounds
    DEF RecordingStarts, Sessions, stateVars, restoreVars, levelVars, monitorVars, Threads
  <1>2. dpc[session + 1] = "idle"
    BY <1>1, <1>0 DEF NotYet
  <1>3. SameFades /\ SameMonitors
    BY <1>0, <1>1, <1>2 DEF SameFades, SameMonitors, Fading, MonitorFading, Threads
  <1>4. ~ByHand
    <2> SUFFICES ASSUME ByHand PROVE FALSE
      OBVIOUS
    <2>1. wanted = "other" /\ session > 0 /\ rpc[<<session, "ender">>] = "restore"
      BY <1>1 DEF ByHand
    <2>2. LastOneIsOver
      BY DEF RecordingStarts
    <2> QED
      BY <2>1, <2>2 DEF LastOneIsOver
  <1>5. NotStarted => \A s \in Sessions :
            dpc'[s] \in {"idle", "start", "done"} /\ mpc'[s] \in {"off", "done"}
    BY <1>0, <1>1 DEF NotStarted, Threads
  <1> QED
    BY <1>0, <1>1, <1>3, <1>4, <1>5, SameSituation

LEMMA EndSituation ==
  ASSUME VolumeInv, Known, Known', RecordingEnds
  PROVE  Situations'
  <1>0. Threads /\ InTurn /\ Situations
    BY VolumeParts
  <1>1. /\ UNCHANGED <<dpc, mpc, session>> /\ recording
        /\ rpc' = [rpc EXCEPT ![<<session, "ender">>] = "restore"]
        /\ UNCHANGED <<initialized, saved, ducked, stale, volume, wanted, restorer, fades, goal, mine,
                       first, damage>>
    BY DEF RecordingEnds, stateVars, duckVars, levelVars, monitorVars
  <1>2. SameFades /\ SameMonitors
    BY <1>1 DEF SameFades, SameMonitors, Fading, MonitorFading
  <1>3. ByHand => ByHand'
    <2>1. session \in Sessions
      BY <1>0, <1>1, DuckerBounds DEF InTurn, Sessions, Threads
    <2>2. rpc'[<<session, "ender">>] = "restore"
      BY <1>0, <1>1, <2>1, EnderCalls DEF Threads
    <2> QED
      BY <1>1, <2>2 DEF ByHand, Nobody, NoMonitorFades, MonitorFading, LockFree, Recorded
  <1>4. NotStarted => \A s \in Sessions :
            dpc'[s] \in {"idle", "start", "done"} /\ mpc'[s] \in {"off", "done"}
    BY <1>1 DEF NotStarted
  <1> QED
    BY <1>0, <1>1, <1>2, <1>3, <1>4, SameSituation

LEMMA UserSituation ==
  ASSUME VolumeRaces = {}, VolumeInv, Known, Known', UserSets
  PROVE  Situations'
  <1>0. /\ Threads /\ Heights /\ Left /\ NotYet /\ InTurn /\ LockIsHeld /\ FadeIsOne
        /\ Situations /\ RestoreIsDue
    BY VolumeParts
  <1>1. /\ wanted = "full" /\ volume' = "other" /\ wanted' = "other"
        /\ UNCHANGED <<stale, session, recording, initialized, saved, ducked, fades, restorer,
                       dpc, mine, first, rpc, goal, mpc, damage>>
        /\ damage # "kept"
    BY DEF UserSets, Known, stateVars, duckVars, restoreVars, monitorVars
  <1>2. /\ NobodyChangesIt /\ NobodyIsAboutTo
        /\ \A s \in 1 .. session - 1 : rpc[<<s, "ender">>] # "restore"
        /\ saved # NoLevel \/ stale # NoLevel => ducked
    BY <1>1 DEF UserSets, UserMayTouch
  <1>3. /\ \A s \in Sessions : ~Fading(s) /\ ~MonitorFading(s) /\ mpc[s] # "asked"
        /\ \A x \in Calling : rpc[x] \notin {"fade", "set"}
    BY <1>2 DEF NobodyChangesIt, Fading, MonitorFading, Calling
  <1>4. fades = 0 /\ NoMonitorFades /\ NoMonitorFades'
    BY <1>0, <1>1, <1>3 DEF FadeIsOne, NoMonitorFades, MonitorFading
  <1>5. wanted # NoLevel
    BY <1>0, WantedIsALevel
  <1>6. CASE NotStarted \/ Full
    <2>1. stale = NoLevel
      BY <1>2, <1>6 DEF NotStarted, Full
    <2> QED
      BY <1>1, <1>4, <1>6, <2>1 DEF NotStarted, Full, Nobody, LockFree, Situations
  <1>7. CASE Lower
    <2>1. saved # NoLevel /\ ducked /\ LockFree
      BY <1>2, <1>5, <1>7 DEF Lower
    <2>2. \A s \in Sessions : dpc[s] \in {"idle", "done"}
      BY <1>2 DEF NobodyIsAboutTo
    <2>3. session > 0 /\ (recording \/ rpc[<<session, "ender">>] = "restore")
      <3>1. CASE recording
        BY <1>0, <3>1 DEF InTurn
      <3>2. CASE ~recording
        <4>0. damage \in {"none", "unsaved"}
          BY <1>0, <1>1 DEF Left, Known
        <4>1. PICK x \in Calling : rpc[x] = "restore"
          BY <1>0, <1>3, <2>1, <2>2, <3>2, <4>0 DEF RestoreIsDue
        <4>2. PICK s \in Sessions : x = <<s, "starter">> \/ x = <<s, "ender">>
          BY CallsAre
        <4>3. x = <<s, "ender">>
          BY <1>2, <4>1, <4>2 DEF NobodyIsAboutTo
        <4>4. ~(s > session)
          BY <1>0, <4>1, <4>3 DEF InTurn
        <4>5. s \notin 1 .. session - 1
          BY <1>2, <4>1, <4>3
        <4>6. s = session /\ session > 0
          BY <1>0, <4>4, <4>5 DEF Sessions, Threads
        <4> QED
          BY <4>1, <4>3, <4>6
      <3> QED
        BY <3>1, <3>2
    <2> QED
      BY <1>1, <1>3, <1>4, <1>7, <2>1, <2>2, <2>3
      DEF Lower, ByHand, Nobody, LockFree, Recorded, Situations
  <1>8. ~Overtaken /\ ~LetDown /\ ~Skipping /\ ~ByHand
    BY <1>1, <1>2, <1>4, <1>5 DEF Overtaken, LetDown, Skipping, ByHand
  <1>9. ~Raising
    BY <1>0, <1>3 DEF Raising, LockIsHeld
  <1> QED
    BY <1>0, <1>6, <1>7, <1>8, <1>9 DEF Situations

LEMMA CrashSituation ==
  ASSUME VolumeRaces = {}, VolumeInv, Known, Known', AppCrashes
  PROVE  Situations'
  <1>0. Threads /\ Heights /\ FadeIsOne /\ Situations
    BY VolumeParts
  <1>1. /\ UNCHANGED <<volume, stale>> /\ wanted' = IF stale = NoLevel THEN wanted ELSE stale
        /\ ~initialized' /\ saved' = NoLevel /\ ~ducked' /\ fades' = 0 /\ restorer' = <<>>
        /\ damage # "unsaved" /\ damage' = "none"
    BY DEF AppCrashes, Known, Mended
  <1>2. /\ dpc' = [s \in Sessions |-> IF s > session THEN "idle" ELSE "done"]
        /\ mpc' = [s \in Sessions |-> IF s > session THEN "off" ELSE "done"]
    BY DEF AppCrashes
  <1>3. \A s \in Sessions : dpc'[s] \in {"idle", "start", "done"} /\ mpc'[s] \in {"off", "done"}
    BY <1>2
  <1>4. NoMonitorFades'
    BY <1>3 DEF NoMonitorFades, MonitorFading
  <1>5. stale = NoLevel => volume = wanted
    <2>1. \A s \in Sessions : Fading(s) => saved # NoLevel
      BY DEF AppCrashes, NoFadeOutlivesRestore, Fading
    <2>2. ~Overtaken
      BY <1>0, <2>1 DEF Overtaken, FadeIsOne
    <2>3. wanted # NoLevel
      BY <1>0, WantedIsALevel
    <2> QED
      BY <1>0, <1>1, <2>2, <2>3
      DEF Situations, NotStarted, Full, LetDown, Skipping, Lower, ByHand, Raising, Recorded
  <1> QED
    BY <1>1, <1>3, <1>4, <1>5 DEF Situations, NotStarted, Nobody, LockFree

(* The start worker.                                                         *)
LEMMA InitializeSituation ==
  ASSUME VolumeInv, Known, Known', NEW s \in Sessions, Initializes(s)
  PROVE  Situations'
  <1>0. Threads /\ Heights /\ Situations
    BY VolumeParts
  <1>1. /\ dpc[s] = "start" /\ UNCHANGED <<wanted, saved, ducked, fades, restorer, mine, first, goal, mpc,
                                            damage>>
        /\ dpc' = [dpc EXCEPT ![s] = IF recording THEN "duck" ELSE "done"]
        /\ initialized' = (initialized \/ recording)
        /\ volume' = IF recording /\ Recovers THEN stale ELSE volume
        /\ stale' = IF recording /\ ~initialized THEN NoLevel ELSE stale
    BY DEF Initializes, restoreVars, monitorVars
  <1>2. SameFades /\ SameMonitors
    BY <1>0, <1>1 DEF SameFades, SameMonitors, Fading, MonitorFading, Threads
  <1>3. CASE initialized
    <2>1. UNCHANGED <<initialized, volume, stale>>
      BY <1>1, <1>3 DEF Recovers
    <2>2. ~ByHand /\ ~NotStarted
      BY <1>1, <1>3 DEF ByHand, NotStarted
    <2> QED
      BY <1>0, <1>1, <1>2, <2>1, <2>2, SameSituation
  <1>4. CASE ~initialized /\ recording
    <2>1. /\ NotStarted /\ initialized' /\ stale' = NoLevel
          /\ volume' = IF stale # NoLevel THEN stale ELSE volume
      BY <1>0, <1>1, <1>4
      DEF Situations, Full, Overtaken, LetDown, Skipping, Lower, ByHand, Raising, Recovers
    <2>2. NoMonitorFades'
      BY <1>1, <2>1 DEF NotStarted, Nobody, NoMonitorFades, MonitorFading
    <2>3. volume' = wanted
      BY <2>1 DEF NotStarted
    <2> QED
      BY <1>1, <2>1, <2>2, <2>3 DEF NotStarted, Full, Nobody, LockFree, Situations
  <1>5. CASE ~initialized /\ ~recording
    <2>1. UNCHANGED <<volume, stale>> /\ ~initialized'
      BY <1>1, <1>5
    <2>2. NotStarted
      BY <1>0, <1>5 DEF Situations, Full, Overtaken, LetDown, Skipping, Lower, ByHand, Raising
    <2>3. \A z \in Sessions :
              dpc'[z] \in {"idle", "start", "done"} /\ mpc'[z] \in {"off", "done"}
      BY <1>0, <1>1, <1>5, <2>2 DEF NotStarted, Threads
    <2>4. UNCHANGED initialized /\ ~ByHand
      <3>1. initialized \in BOOLEAN
        BY VolumeParts DEF Owners
      <3>2. initialized' \in BOOLEAN
        BY <1>1
      <3> QED
        BY <1>5, <2>1, <3>1, <3>2 DEF ByHand
    <2> QED
      BY <1>0, <1>1, <1>2, <2>1, <2>3, <2>4, SameSituation
  <1> QED
    BY <1>3, <1>4, <1>5

LEMMA InitializeFailSituation ==
  ASSUME VolumeInv, Known, Known', NEW s \in Sessions, InitializeFails(s)
  PROVE  Situations'
  <1>0. Threads /\ Heights /\ FadeIsOne /\ Situations
    BY VolumeParts
  <1>1. /\ dpc[s] = "start" /\ ~initialized /\ initialized'
        /\ UNCHANGED <<wanted, saved, ducked, fades, restorer, mine, mpc>>
        /\ \/ UNCHANGED <<volume, stale>> /\ dpc' = [dpc EXCEPT ![s] = "recheck"]
           \/ /\ stale # NoLevel /\ dpc' = [dpc EXCEPT ![s] = "duck"]
              /\ \/ stale' = NoLevel
                 \/ volume' = stale /\ UNCHANGED stale
        /\ damage' = IF stale # NoLevel THEN Harm ELSE damage
    BY DEF InitializeFails, Recovers, monitorVars
  <1>2. NotStarted
    BY <1>0, <1>1 DEF Situations, Full, Overtaken, LetDown, Skipping, Lower, ByHand, Raising
  <1>3. NoMonitorFades'
    BY <1>1, <1>2 DEF NotStarted, Nobody, NoMonitorFades, MonitorFading
  <1>4. FaderKnows'
    BY <1>0, <1>1, <1>2 DEF NotStarted, FaderKnows, Fading, Threads
  <1>5. CASE stale = NoLevel
    BY <1>1, <1>2, <1>3, <1>5 DEF NotStarted, Full, Nobody, LockFree, Situations
  <1>6. CASE stale # NoLevel
    <2>1. damage' = "kept" /\ stale' = wanted
      BY <1>1, <1>6 DEF Harm, Known
    <2> QED
      BY <1>1, <1>2, <1>3, <1>4, <2>1 DEF NotStarted, LetDown, Nobody, LockFree, Situations
  <1> QED
    BY <1>5, <1>6

(* A start worker about to duck finds nobody else at it.                     *)
LEMMA AboutToDuck ==
  ASSUME VolumeInv, NEW s \in Sessions, dpc[s] = "duck"
  PROVE  /\ fades = 0 /\ \A z \in Sessions : ~Fading(z)
         /\ ~NotStarted /\ ~Overtaken /\ ~ByHand
  <1>0. Threads /\ NotYet /\ InTurn /\ FadeIsOne
    BY VolumeParts
  <1>1. s = session
    BY <1>0, BusyStarter
  <1>2. \A z \in Sessions : ~Fading(z)
    BY <1>0, <1>1 DEF FadeIsOne, Fading
  <1>3. fades = 0
    BY <1>0, <1>2 DEF FadeIsOne
  <1> QED
    BY <1>2, <1>3 DEF NotStarted, Overtaken, ByHand

LEMMA SkipSituation ==
  ASSUME VolumeInv, Known, Known', NEW s \in Sessions, DuckSkips(s)
  PROVE  Situations'
  <1>0. Threads /\ Heights /\ Situations /\ <<>> \notin Calling
    BY VolumeParts, LockIsNobodys
  <1>1. /\ dpc[s] = "duck" /\ LockFree /\ saved = NoLevel /\ saved' = volume /\ ~ducked'
        /\ UNCHANGED <<volume, wanted, stale, initialized, fades, restorer>>
        /\ mpc' = mpc \/ mpc' = [mpc EXCEPT ![s] = "wait"]
        /\ damage' = damage /\ ~Misled(volume)
    BY DEF DuckSkips, StartsMonitor, levelVars, monitorVars, Known
  <1>2. Full \/ LetDown
    BY <1>0, <1>1, AboutToDuck, WantedIsALevel DEF Situations, Skipping, Lower, Raising, LockFree
  <1>3. NoMonitorFades'
    BY <1>0, <1>1, <1>2 DEF Full, LetDown, Nobody, NoMonitorFades, MonitorFading, Threads
  <1>4. fades = 0
    BY <1>1, AboutToDuck
  <1>5. CASE Full
    BY <1>1, <1>3, <1>5 DEF Full, Skipping, Nobody, LockFree, Situations
  <1>6. CASE LetDown
    BY <1>1, <1>3, <1>4, <1>6 DEF LetDown, Skipping, Nobody, LockFree, Misled, Situations
  <1> QED
    BY <1>2, <1>5, <1>6

LEMMA ReadNothingSituation ==
  ASSUME VolumeInv, Known, Known', NEW s \in Sessions, DuckReadsNothing(s)
  PROVE  Situations'
  <1>0. Threads /\ Situations
    BY VolumeParts
  <1>1. /\ dpc[s] = "duck" /\ dpc' = [dpc EXCEPT ![s] = "recheck"] /\ UNCHANGED mpc
        /\ UNCHANGED <<initialized, saved, ducked, stale, volume, wanted, restorer, fades, goal, mine,
                       first, damage>>
    BY DEF DuckReadsNothing, stateVars, levelVars, monitorVars, restoreVars
  <1>2. SameFades /\ SameMonitors
    BY <1>0, <1>1 DEF SameFades, SameMonitors, Fading, MonitorFading, Threads
  <1> QED
    BY <1>0, <1>1, <1>2, AboutToDuck, SameSituation

LEMMA BeginSituation ==
  ASSUME VolumeInv, Known, Known', NEW s \in Sessions, NEW fails \in BOOLEAN, DuckBegins(s, fails)
  PROVE  Situations'
  <1>0. Threads /\ Heights /\ Left /\ Situations /\ <<>> \notin Calling
    BY VolumeParts, LockIsNobodys
  <1>1. /\ dpc[s] = "duck" /\ LockFree /\ saved = NoLevel /\ saved' = volume
        /\ fades' = fades + 1 /\ mine' = [mine EXCEPT ![s] = volume]
        /\ first' = [first EXCEPT ![s] = TRUE] /\ dpc' = [dpc EXCEPT ![s] = "fade"]
        /\ UNCHANGED <<volume, wanted, initialized, ducked, restorer, mpc>>
        /\ stale' = IF fails THEN stale ELSE volume
        /\ damage' = IF damage = "kept" THEN damage ELSE IF fails THEN "unsaved" ELSE "none"
        /\ ~Misled(volume)
    BY DEF DuckBegins, Saves, Known, monitorVars
  <1>2. Full \/ LetDown
    BY <1>0, <1>1, AboutToDuck, WantedIsALevel DEF Situations, Skipping, Lower, Raising, LockFree
  <1>3. fades' = 1 /\ \A z \in Sessions : ~Fading(z)
    BY <1>1, AboutToDuck
  <1>4. \A z \in Sessions : Fading(z)' => z = s
    BY <1>0, <1>1, <1>3 DEF Fading, Threads
  <1>5. volume = wanted
    BY <1>1, <1>2 DEF Full, LetDown, Misled
  <1>6. FaderKnows' /\ FirstOrDucked'
    BY <1>0, <1>1, <1>4, <1>5 DEF FaderKnows, FirstOrDucked, Threads, Heights
  <1>7. Recorded(wanted)'
    BY <1>1, <1>2, <1>5 DEF Recorded, Full, LetDown
  <1>8. initialized
    BY <1>2 DEF Full, LetDown
  <1> QED
    BY <1>1, <1>3, <1>5, <1>6, <1>7, <1>8 DEF Lower, LockFree, Situations

LEMMA AgainSituation ==
  ASSUME VolumeInv, Known, Known', NEW s \in Sessions, DuckAgain(s)
  PROVE  Situations'
  <1>0. Threads /\ Heights /\ Situations /\ <<>> \notin Calling
    BY VolumeParts, LockIsNobodys
  <1>1. /\ dpc[s] = "duck" /\ LockFree /\ saved # NoLevel
        /\ UNCHANGED <<volume, wanted, stale, initialized, saved, ducked, restorer, goal, mpc,
                       damage>>
    BY DEF DuckAgain, levelVars, monitorVars, restoreVars
  <1>2. Skipping \/ Lower
    BY <1>0, <1>1, AboutToDuck DEF Situations, Full, LetDown, Raising, LockFree
  <1>3. CASE ~ducked
    <2>1. dpc' = [dpc EXCEPT ![s] = "recheck"] /\ UNCHANGED <<fades, mine, first>>
      BY <1>3 DEF DuckAgain
    <2>2. SameFades /\ SameMonitors
      BY <1>0, <1>1, <2>1 DEF SameFades, SameMonitors, Fading, MonitorFading, Threads
    <2> QED
      BY <1>0, <1>1, <2>1, <2>2, AboutToDuck, SameSituation
  <1>4. CASE ducked
    <2>1. /\ fades' = fades + 1 /\ mine' = [mine EXCEPT ![s] = saved]
          /\ first' = [first EXCEPT ![s] = FALSE] /\ dpc' = [dpc EXCEPT ![s] = "fade"]
      BY <1>4 DEF DuckAgain
    <2>2. Lower
      BY <1>2, <1>4 DEF Skipping
    <2>3. fades' = 1 /\ \A z \in Sessions : ~Fading(z)
      BY <1>1, <2>1, AboutToDuck
    <2>4. \A z \in Sessions : Fading(z)' => z = s
      BY <1>0, <2>1, <2>3 DEF Fading, Threads
    <2>5. FaderKnows' /\ FirstOrDucked'
      BY <1>0, <1>1, <1>4, <2>1, <2>2, <2>4 DEF FaderKnows, FirstOrDucked, Lower, Heights
    <2>6. Lowering' <=> Lowering
      BY <1>0, <1>1, <2>1 DEF Lowering, Threads
    <2> QED
      BY <1>1, <1>4, <2>2, <2>3, <2>5, <2>6 DEF Lower, LockFree, Recorded, Situations
  <1> QED
    BY <1>3, <1>4

LEMMA FadeSituation ==
  ASSUME VolumeInv, Known, Known', NEW s \in Sessions, DuckFades(s) \/ DuckFadeFails(s)
  PROVE  Situations'
  <1>0. Threads /\ Heights /\ FadeIsOne /\ Situations
    BY VolumeParts
  <1>1. /\ dpc[s] \in {"fade", "lower"}
        /\ dpc'[s] \in {"lower", "settle"} /\ \A z \in Sessions : z # s => dpc'[z] = dpc[z]
        /\ dpc'[s] = "settle" => volume' \in {"low", wanted} \/ damage' = Harm
        /\ UNCHANGED <<wanted, stale, initialized, saved, ducked, fades, restorer, mine, first, goal, mpc>>
        /\ damage' = damage \/ damage' = Harm
    BY <1>0 DEF DuckFades, DuckFadeFails, Stuck, Lowers, stateVars, restoreVars, monitorVars, Threads
  <1>2. fades = 1
    BY <1>0, <1>1 DEF FadeIsOne, Fading
  <1>3. \A z \in Sessions : Fading(z)' <=> Fading(z)
    BY <1>0, <1>1 DEF Fading, Threads
  <1>4. /\ FaderKnows' <=> FaderKnows
        /\ FirstOrDucked' <=> FirstOrDucked
        /\ NoMonitorFades' <=> NoMonitorFades
    BY <1>1, <1>3 DEF FaderKnows, FirstOrDucked, NoMonitorFades, MonitorFading
  <1>5. damage' # damage => damage' = "kept" /\ stale = wanted
    BY <1>1 DEF Harm, Known
  <1>6. CASE Overtaken
    <2>1. damage' = damage
      BY <1>0, <1>5, <1>6, WantedIsALevel DEF Overtaken
    <2> QED
      BY <1>1, <1>4, <1>6, <2>1 DEF Overtaken, LockFree, Situations
  <1>7. CASE LetDown
    BY <1>1, <1>4, <1>5, <1>7 DEF LetDown, LockFree, Situations
  <1>8. CASE Raising
    <2>1. Recorded(saved)'
      BY <1>0, <1>1, <1>5, <1>8, WantedIsALevel DEF Raising, Recorded
    <2> QED
      BY <1>1, <1>4, <1>8, <2>1 DEF Raising, Situations
  <1>9. CASE Lower
    <2>1. ~Lowering' /\ damage' # "kept" => volume' \in {"low", wanted}
      BY <1>1 DEF Lowering, Harm, Known
    <2>2. Recorded(wanted)'
      BY <1>1, <1>5, <1>9 DEF Lower, Recorded
    <2> QED
      BY <1>1, <1>2, <1>4, <1>9, <2>1, <2>2 DEF Lower, LockFree, Situations
  <1> QED
    BY <1>0, <1>2, <1>6, <1>7, <1>8, <1>9 DEF Situations, NotStarted, Full, Skipping, ByHand, Nobody

LEMMA SettleSituation ==
  ASSUME VolumeInv, Known, Known', NEW s \in Sessions, NEW fails \in BOOLEAN, DuckSettles(s, fails)
  PROVE  Situations'
  <1>0. Threads /\ Owners /\ Heights /\ FadeIsOne /\ Situations /\ <<>> \notin Calling
    BY VolumeParts, LockIsNobodys
  <1>1. /\ dpc[s] = "settle" /\ LockFree /\ (fails => Interrupted)
        /\ volume' = IF Interrupted /\ ~fails THEN mine[s] ELSE volume
        /\ ducked' = (ducked \/ (first[s] /\ ~Interrupted)) /\ fades' = fades - 1
        /\ dpc' = [dpc EXCEPT ![s] = "recheck"]
        /\ UNCHANGED <<wanted, stale, initialized, saved, restorer, mine, first, mpc>>
        /\ damage' = IF fails THEN Harm ELSE damage
    BY DEF DuckSettles, monitorVars
  <1>2. Fading(s) /\ fades = 1 /\ fades' = 0
    BY <1>0, <1>1 DEF FadeIsOne, Fading
  <1>3. \A z \in Sessions : ~Fading(z)'
    BY <1>0, <1>1 DEF FadeIsOne, Fading, Threads
  <1>4. (NoMonitorFades' <=> NoMonitorFades) /\ FaderKnows' /\ FirstOrDucked'
    BY <1>1, <1>3 DEF NoMonitorFades, MonitorFading, FaderKnows, FirstOrDucked
  <1>5. CASE Overtaken
    <2>1. saved = NoLevel /\ mine[s] = wanted
      BY <1>2, <1>5 DEF Overtaken, FaderKnows
    <2>2. ~fails
      BY <1>0, <1>1, <1>5, WantedIsALevel DEF Overtaken, Harm, Known
    <2> QED
      BY <1>1, <1>2, <1>4, <1>5, <2>1, <2>2
      DEF Overtaken, Full, Nobody, LockFree, Interrupted, Situations
  <1>6. CASE LetDown
    <2>1. damage' = "kept"
      BY <1>1, <1>6 DEF LetDown, Harm
    <2>2. ~ducked'
      BY <1>1, <1>6 DEF LetDown, Interrupted
    <2> QED
      BY <1>1, <1>4, <1>6, <2>1, <2>2 DEF LetDown, LockFree, Situations
  <1>7. CASE Lower
    <2>1. ~Interrupted /\ ~fails /\ damage' = damage
      BY <1>0, <1>1, <1>7, WantedIsALevel DEF Lower, Interrupted
    <2>2. ducked'
      BY <1>1, <1>2, <1>7, <2>1 DEF Lower, FirstOrDucked
    <2>3. Lowering' <=> Lowering
      BY <1>0, <1>1 DEF Lowering, Threads
    <2> QED
      BY <1>1, <1>4, <1>7, <2>1, <2>2, <2>3 DEF Lower, LockFree, Recorded, Situations
  <1> QED
    BY <1>0, <1>1, <1>2, <1>5, <1>6, <1>7
    DEF Situations, NotStarted, Full, Skipping, ByHand, Nobody, Raising, LockFree

LEMMA RaiseSituation ==
  ASSUME VolumeRaces = {}, VolumeInv, Known, Known', NEW s \in Sessions,
         NEW repairs \in BOOLEAN, NEW clears \in BOOLEAN, DuckRaises(s, repairs, clears)
  PROVE  Situations'
  <1>0. Threads /\ Heights /\ FadeIsOne /\ Situations /\ <<>> \notin Calling
    BY VolumeParts, LockIsNobodys
  <1>1. /\ dpc[s] \in {"fade", "lower"} /\ LockFree /\ MonitorFadesAreOver
        /\ saved' = NoLevel /\ ~ducked' /\ fades' = fades - 1
        /\ stale' = IF clears THEN NoLevel ELSE stale
        /\ volume' = IF repairs THEN mine[s] ELSE volume
        /\ damage' = IF repairs /\ clears THEN "none" ELSE Harm
        /\ dpc' = [dpc EXCEPT ![s] = "recheck"]
        /\ UNCHANGED <<wanted, initialized, restorer, mine, mpc>>
    BY DEF DuckRaises, Lowers, Mended, Known, monitorVars
  <1>2. Fading(s) /\ fades = 1 /\ fades' = 0
    BY <1>0, <1>1 DEF FadeIsOne, Fading
  <1>3. NoMonitorFades'
    BY <1>1 DEF MonitorFadesAreOver, NoMonitorFades, MonitorFading
  <1>4. Overtaken \/ LetDown \/ Lower
    BY <1>0, <1>1, <1>2
    DEF Situations, NotStarted, Full, Skipping, ByHand, Nobody, Raising, LockFree
  <1>5. mine[s] = wanted /\ initialized /\ FaderKnows
    BY <1>2, <1>4 DEF Overtaken, LetDown, Lower, FaderKnows
  <1>6. CASE repairs /\ clears
    BY <1>1, <1>2, <1>3, <1>5, <1>6 DEF Full, Nobody, LockFree, Situations
  <1>7. CASE ~(repairs /\ clears)
    <2>1. damage' = "kept" /\ stale' = wanted
      BY <1>1, <1>7 DEF Harm, Known
    <2>2. FaderKnows'
      BY <1>0, <1>1, <1>5 DEF FaderKnows, Fading, Threads
    <2> QED
      BY <1>1, <1>3, <1>5, <2>1, <2>2 DEF LetDown, LockFree, Situations
  <1> QED
    BY <1>6, <1>7

LEMMA RecheckSituation ==
  ASSUME VolumeInv, Known, Known', NEW s \in Sessions, Rechecks(s)
  PROVE  Situations'
  <1>0. Threads /\ Situations
    BY VolumeParts
  <1>1. /\ dpc[s] = "recheck" /\ dpc' = [dpc EXCEPT ![s] = "done"] /\ UNCHANGED mpc
        /\ UNCHANGED <<initialized, saved, ducked, stale, volume, wanted, restorer, fades, goal, mine,
                       first, damage>>
    BY DEF Rechecks, stateVars, levelVars, monitorVars
  <1>2. SameFades /\ SameMonitors /\ ~ByHand
    BY <1>0, <1>1 DEF SameFades, SameMonitors, Fading, MonitorFading, Threads, ByHand
  <1>3. NotStarted => \A z \in Sessions :
            dpc'[z] \in {"idle", "start", "done"} /\ mpc'[z] \in {"off", "done"}
    BY <1>0, <1>1 DEF NotStarted, Threads
  <1> QED
    BY <1>0, <1>1, <1>2, <1>3, SameSituation

(* The monitors.                                                             *)
LEMMA WaitSituation ==
  ASSUME VolumeInv, Known, Known', NEW s \in Sessions, MonitorLeaves(s) \/ MonitorHears(s)
  PROVE  Situations'
  <1>0. Threads /\ Situations
    BY VolumeParts
  <1>1. /\ mpc[s] = "wait" /\ UNCHANGED <<dpc, rpc, recording, session>>
        /\ UNCHANGED <<initialized, saved, ducked, stale, volume, wanted, restorer, fades, goal, mine,
                       first, damage>>
        /\ \/ mpc' = [mpc EXCEPT ![s] = "done"]
           \/ ~ducked /\ mpc' = [mpc EXCEPT ![s] = "asked"]
    BY DEF MonitorLeaves, MonitorHears, stateVars, levelVars, duckVars, restoreVars
  <1>2. SameFades /\ SameMonitors /\ ~NotStarted
    BY <1>0, <1>1 DEF SameFades, SameMonitors, Fading, MonitorFading, Threads, NotStarted
  <1>3. ByHand => ByHand'
    <2> SUFFICES ASSUME ByHand PROVE ByHand'
      OBVIOUS
    <2>1. mpc' = [mpc EXCEPT ![s] = "done"]
      BY <1>1 DEF ByHand
    <2>2. Nobody'
      BY <1>0, <1>1, <2>1 DEF ByHand, Nobody, NoMonitorFades, MonitorFading, LockFree, Threads
    <2>3. (\A z \in Sessions : dpc[z] \in {"idle", "done"} /\ mpc[z] # "asked")'
      BY <1>0, <1>1, <2>1 DEF ByHand, Threads
    <2> QED
      BY <1>1, <2>2, <2>3 DEF ByHand, Recorded
  <1> QED
    BY <1>0, <1>1, <1>2, <1>3, SameSituation

LEMMA MonitorDuckSituation ==
  ASSUME VolumeInv, Known, Known', NEW s \in Sessions, NEW fails \in BOOLEAN, MonitorDucks(s, fails)
  PROVE  Situations'
  <1>0. Threads /\ Heights /\ Left /\ FadeIsOne /\ Situations /\ <<>> \notin Calling
    BY VolumeParts, LockIsNobodys
  <1>1. /\ mpc[s] = "asked" /\ LockFree /\ UNCHANGED <<dpc, rpc, recording, session>>
        /\ UNCHANGED <<initialized, saved, ducked, volume, wanted, restorer, fades, goal, mine, first>>
        /\ IF StillSkipping THEN Saves(saved, fails) ELSE UNCHANGED <<stale, damage>>
        /\ mpc' = [mpc EXCEPT ![s] = IF StillSkipping THEN "fade" ELSE "done"]
    BY DEF MonitorDucks, stateVars, duckVars, restoreVars
  <1>2. ~NotStarted /\ ~ByHand /\ ~Raising
    BY <1>0, <1>1 DEF NotStarted, ByHand, Raising, LockFree
  <1>3. CASE StillSkipping
    <2>1. Skipping \/ Lower
      BY <1>0, <1>2, <1>3 DEF Situations, Full, Overtaken, LetDown, StillSkipping
    <2>2. /\ mpc' = [mpc EXCEPT ![s] = "fade"] /\ saved = wanted
          /\ stale' = IF fails THEN stale ELSE wanted
          /\ damage' = IF damage = "kept" THEN damage ELSE IF fails THEN "unsaved" ELSE "none"
      BY <1>1, <1>3, <2>1 DEF Skipping, Lower, Saves, Misled, Known
    <2>3. ~NoMonitorFades'
      BY <1>0, <2>2 DEF NoMonitorFades, MonitorFading, Threads
    <2>4. Lowering' <=> Lowering
      BY <1>0, <1>1, <2>2 DEF Lowering, Threads
    <2>5. (FaderKnows' <=> FaderKnows) /\ (FirstOrDucked' <=> FirstOrDucked)
      BY <1>1 DEF FaderKnows, FirstOrDucked, Fading
    <2>6. Recorded(wanted)'
      BY <1>1, <2>1, <2>2 DEF Skipping, Lower, Recorded
    <2>7. CASE Skipping
      <3>1. FaderKnows /\ FirstOrDucked
        BY <1>0, <2>7 DEF Skipping, Nobody, FadeIsOne, FaderKnows, FirstOrDucked
      <3>2. damage' # "kept" => volume = wanted
        BY <2>2, <2>7 DEF Skipping
      <3> QED
        BY <1>1, <2>2, <2>3, <2>5, <2>6, <2>7, <3>1, <3>2 DEF Skipping, Lower, LockFree, Situations
    <2>8. CASE Lower
      <3>1. damage' # "kept" => damage # "kept"
        BY <2>2
      <3> QED
        BY <1>1, <2>2, <2>3, <2>4, <2>5, <2>6, <2>8, <3>1 DEF Lower, LockFree, Situations
    <2> QED
      BY <2>1, <2>7, <2>8
  <1>4. CASE ~StillSkipping
    <2>1. mpc' = [mpc EXCEPT ![s] = "done"] /\ UNCHANGED <<stale, damage>>
      BY <1>1, <1>4
    <2>2. SameFades /\ SameMonitors
      BY <1>0, <1>1, <2>1 DEF SameFades, SameMonitors, Fading, MonitorFading, Threads
    <2> QED
      BY <1>0, <1>1, <1>2, <2>1, <2>2, SameSituation
  <1> QED
    BY <1>3, <1>4

LEMMA MonitorFadeSituation ==
  ASSUME VolumeInv, Known, Known', NEW s \in Sessions,
         MonitorFades(s) \/ MonitorFadeFails(s) \/ MonitorRaises(s)
           \/ MonitorSettles(s) \/ MonitorTriesAgain(s)
  PROVE  Situations'
  <1>0. Threads /\ Heights /\ FadeIsOne /\ Situations
    BY VolumeParts
  <1>1. /\ MonitorFading(s) /\ UNCHANGED <<dpc, wanted, stale, initialized, saved, fades, restorer,
                                           mine, first>>
    BY DEF MonitorFades, MonitorFadeFails, MonitorRaises, MonitorSettles, MonitorTriesAgain, Lowers,
       MonitorFading, stateVars, levelVars, duckVars, restoreVars
  <1>2. Lower
    BY <1>0, <1>1 DEF Situations, NotStarted, Full, Overtaken, LetDown, Skipping, ByHand, Raising,
       Nobody, NoMonitorFades
  <1>3. (FaderKnows' <=> FaderKnows) /\ \A z \in Sessions : Fading(z)' <=> Fading(z)
    BY <1>1 DEF FaderKnows, Fading
  <1>4. CASE MonitorFades(s) \/ MonitorFadeFails(s)
    <2>1. /\ UNCHANGED ducked /\ mpc'[s] \in {"lower", "settle", "failed"}
          /\ mpc'[s] # "lower" => volume' \in {"low", wanted} \/ damage' = Harm
          /\ damage' = damage \/ damage' = Harm
      BY <1>0, <1>4 DEF MonitorFades, MonitorFadeFails, Stuck, stateVars, Lowers, Threads
    <2>2. ~Lowering' /\ damage' # "kept" => volume' \in {"low", wanted}
      BY <2>1 DEF Lowering, Harm, Known
    <2>3. ~NoMonitorFades'
      BY <2>1 DEF NoMonitorFades, MonitorFading
    <2>4. Recorded(wanted)'
      BY <1>1, <1>2, <2>1 DEF Lower, Recorded, Harm, Known
    <2>5. FirstOrDucked'
      BY <1>1, <1>2, <1>3, <2>1 DEF Lower, FirstOrDucked
    <2> QED
      BY <1>1, <1>2, <1>3, <2>1, <2>2, <2>3, <2>4, <2>5 DEF Lower, LockFree, Situations
  <1>5. CASE MonitorSettles(s)
    <2>1. /\ mpc[s] = "settle" /\ UNCHANGED <<volume, damage>>
          /\ ducked' = (ducked \/ saved # NoLevel)
          /\ mpc' = [mpc EXCEPT ![s] = "done"]
      BY <1>5 DEF MonitorSettles, levelVars
    <2>2. ducked' /\ FirstOrDucked'
      BY <1>0, <1>2, <2>1, WantedIsALevel DEF Lower, FirstOrDucked
    <2>3. Lowering' <=> Lowering
      BY <1>0, <1>1, <2>1 DEF Lowering, Threads
    <2> QED
      BY <1>1, <1>2, <1>3, <2>1, <2>2, <2>3 DEF Lower, LockFree, Recorded, Situations
  <1>6. ASSUME damage' = Harm, UNCHANGED ducked
        PROVE  Situations'
    <2>1. damage' = "kept" /\ stale' = wanted /\ Recorded(wanted)'
      BY <1>1, <1>6 DEF Harm, Known, Recorded
    <2>2. FirstOrDucked'
      BY <1>1, <1>2, <1>3, <1>6 DEF Lower, FirstOrDucked
    <2>3. CASE ducked \/ fades = 1 \/ ~NoMonitorFades'
      BY <1>1, <1>2, <1>3, <1>6, <2>1, <2>2, <2>3 DEF Lower, LockFree, Situations
    <2>4. CASE ~ducked /\ fades # 1 /\ NoMonitorFades'
      <3>1. fades' = 0
        BY <1>0, <1>1, <2>4 DEF FadeIsOne
      <3> QED
        BY <1>1, <1>2, <1>6, <2>1, <2>4, <3>1 DEF Lower, Skipping, Nobody, LockFree, Situations
    <2> QED
      BY <2>3, <2>4
  <1>7. CASE MonitorRaises(s)
    BY <1>6, <1>7 DEF MonitorRaises, stateVars
  <1>8. CASE MonitorTriesAgain(s)
    <2>1. /\ UNCHANGED <<volume, ducked>> /\ mpc[s] = "failed"
          /\ damage' = IF StillSkipping THEN Harm ELSE damage
          /\ \/ mpc' = [mpc EXCEPT ![s] = "done"]
             \/ mpc' = [mpc EXCEPT ![s] = "wait"]
      BY <1>8 DEF MonitorTriesAgain, levelVars, stateVars
    <2>2. CASE StillSkipping
      BY <1>6, <2>1, <2>2
    <2>3. CASE ~StillSkipping
      <3>1. ducked /\ damage' = damage
        BY <1>0, <1>2, <2>1, <2>3, WantedIsALevel DEF Lower, StillSkipping
      <3>2. Lowering' <=> Lowering
        BY <1>0, <1>1, <2>1 DEF Lowering, Threads
      <3>3. FirstOrDucked'
        BY <2>1, <3>1 DEF FirstOrDucked
      <3> QED
        BY <1>1, <1>2, <1>3, <2>1, <3>1, <3>2, <3>3 DEF Lower, LockFree, Recorded, Situations
    <2> QED
      BY <2>2, <2>3
  <1> QED
    BY <1>4, <1>5, <1>7, <1>8

(* The restores.                                                             *)
LEMMA EasySituation ==
  ASSUME VolumeRaces = {}, VolumeInv, Known, Known', NEW x \in Calling, RestoreEasy(x)
  PROVE  Situations'
  <1>0. Threads /\ Owners /\ Heights /\ FadeIsOne /\ Situations /\ <<>> \notin Calling
    BY VolumeParts, LockIsNobodys
  <1>1. /\ LockFree /\ MonitorFadesAreOver /\ NothingToRestore /\ UNCHANGED <<dpc, mpc>>
        /\ saved' = NoLevel /\ ducked' = IF saved = NoLevel THEN ducked ELSE FALSE
        /\ UNCHANGED <<initialized, stale, volume, wanted, restorer, fades, goal, mine, first,
                       damage>>
    BY DEF RestoreEasy, StopsMonitor, levelVars, duckVars
  <1>2. NoMonitorFades
    BY <1>1 DEF MonitorFadesAreOver, NoMonitorFades, MonitorFading
  <1>3. SameFades /\ SameMonitors
    BY <1>1 DEF SameFades, SameMonitors, Fading, MonitorFading
  <1>4. CASE saved = NoLevel
    <2>1. UNCHANGED <<saved, ducked>> /\ ~ByHand
      BY <1>1, <1>4 DEF ByHand
    <2>2. NotStarted => \A s \in Sessions :
              dpc'[s] \in {"idle", "start", "done"} /\ mpc'[s] \in {"off", "done"}
      BY <1>1 DEF NotStarted
    <2> QED
      BY <1>0, <1>1, <1>3, <2>1, <2>2, SameSituation
  <1>5. CASE saved # NoLevel
    <2>1. ~ducked /\ fades = 0
      BY <1>1, <1>5 DEF NothingToRestore
    <2>2. Skipping
      BY <1>0, <1>1, <1>2, <1>5, <2>1
      DEF Situations, NotStarted, Full, Overtaken, LetDown, Lower, ByHand, Raising, LockFree
    <2>3. NoMonitorFades'
      BY <1>1, <1>2 DEF NoMonitorFades, MonitorFading
    <2>4. FaderKnows'
      BY <1>0, <1>1, <2>1 DEF FaderKnows, FadeIsOne, Fading
    <2> QED
      BY <1>1, <1>5, <2>2, <2>3, <2>4 DEF Skipping, Full, LetDown, Nobody, LockFree, Situations
  <1> QED
    BY <1>4, <1>5

LEMMA RestoreBeginSituation ==
  ASSUME VolumeRaces = {}, VolumeInv, Known, Known', NEW x \in Calling,
         NEW blind \in BOOLEAN, RestoreBegins(x, blind)
  PROVE  Situations'
  <1>0. Threads /\ Heights /\ FadeIsOne /\ Situations /\ <<>> \notin Calling
    BY VolumeParts, LockIsNobodys
  <1>1. /\ LockFree /\ MonitorFadesAreOver /\ ~NothingToRestore /\ UNCHANGED <<dpc, mpc>>
        /\ restorer' = x /\ goal' = [goal EXCEPT ![x] = IF blind THEN saved ELSE Target]
        /\ UNCHANGED <<initialized, saved, ducked, stale, volume, wanted, fades, mine, first,
                       damage>>
        /\ ~Misled(goal'[x]) /\ (blind => saved = wanted)
    BY DEF RestoreBegins, StopsMonitor, levelVars, duckVars, Known
  <1>2. NoMonitorFades /\ NoMonitorFades'
    BY <1>1 DEF MonitorFadesAreOver, NoMonitorFades, MonitorFading
  <1>3. saved # NoLevel /\ (ducked \/ fades # 0)
    BY <1>1 DEF NothingToRestore
  <1>4. goal'[restorer'] = IF blind THEN saved ELSE Target
    BY <1>0, <1>1 DEF Heights
  <1>5. (FaderKnows' <=> FaderKnows) /\ (FirstOrDucked' <=> FirstOrDucked) /\ restorer' \in Calling
    BY <1>1 DEF FaderKnows, FirstOrDucked, Fading
  <1>6. Lower \/ ByHand
    BY <1>0, <1>1, <1>3
    DEF Situations, NotStarted, Full, Overtaken, LetDown, Skipping, Nobody, Raising, LockFree
  <1>7. goal'[restorer'] = wanted
    <2>0. CASE blind
      BY <1>1, <1>4, <2>0
    <2>1. CASE ByHand
      BY <1>1, <1>4, <2>1 DEF ByHand, Target, Nobody
    <2>4. CASE Lower /\ fades = 0 /\ damage = "kept"
      BY <1>1, <2>4 DEF Misled
    <2>2. CASE Lower /\ fades = 0 /\ damage # "kept" /\ ~blind
      <3>1. ~Lowering
        BY <1>0, <1>2, <2>2 DEF Lowering, NoMonitorFades, MonitorFading, FadeIsOne, Fading
      <3>2. ducked /\ volume \in {"low", wanted} /\ saved = wanted
        BY <1>3, <2>2, <3>1 DEF Lower
      <3> QED
        BY <1>4, <2>2, <3>2 DEF Target
    <2>3. CASE Lower /\ fades # 0
      BY <1>4, <2>3 DEF Target, Lower
    <2> QED
      BY <1>6, <2>0, <2>1, <2>2, <2>3, <2>4
  <1>8. FaderKnows /\ FirstOrDucked
    BY <1>0, <1>6 DEF Lower, ByHand, Nobody, FadeIsOne, FaderKnows, FirstOrDucked
  <1>9. Recorded(saved)' /\ (ducked \/ fades = 1)' /\ initialized
    BY <1>0, <1>1, <1>3, <1>6 DEF Lower, ByHand, Recorded, FadeIsOne
  <1> QED
    BY <1>1, <1>2, <1>3, <1>5, <1>7, <1>8, <1>9 DEF Raising, Situations

LEMMA RestoreFadeSituation ==
  ASSUME VolumeInv, Known, Known', NEW x \in Calling,
         RestoreFades(x) \/ RestoreFails(x) \/ RestoreRaises(x)
           \/ \E sets, clears \in BOOLEAN : RestoreEnds(x, sets, clears)
  PROVE  Situations'
  <1>0. Threads /\ Heights /\ LockIsHeld /\ FadeIsOne /\ Situations /\ <<>> \notin Calling
    BY VolumeParts, LockIsNobodys
  <1>1. rpc[x] \in {"fade", "set"} /\ UNCHANGED <<dpc, mpc, wanted, initialized, fades, mine, first, goal>>
    BY DEF RestoreFades, RestoreFails, RestoreRaises, RestoreEnds, stateVars, duckVars, monitorVars
  <1>2. restorer = x /\ ~LockFree
    BY <1>0, <1>1 DEF LockIsHeld, LockFree
  <1>3. Raising
    BY <1>0, <1>2 DEF Situations, NotStarted, Full, Overtaken, LetDown, Skipping, Lower, ByHand, Nobody
  <1>4. NoMonitorFades' /\ FaderKnows'
    BY <1>1, <1>3 DEF Raising, NoMonitorFades, MonitorFading, FaderKnows, Fading
  <1>5. CASE RestoreFades(x)
    <2>1. UNCHANGED <<stale, saved, ducked, restorer, damage>>
      BY <1>5 DEF RestoreFades, stateVars
    <2>2. FirstOrDucked'
      BY <1>1, <1>3, <2>1 DEF Raising, FirstOrDucked, Fading
    <2> QED
      BY <1>1, <1>3, <1>4, <2>1, <2>2 DEF Raising, Recorded, Situations
  <1>6. ASSUME damage' = Harm, saved' = NoLevel, ~ducked', restorer' = <<>>
        PROVE  Situations'
    <2>1. damage' = "kept" /\ stale' = wanted
      BY <1>6 DEF Harm, Known
    <2> QED
      BY <1>1, <1>3, <1>4, <1>6, <2>1 DEF Raising, LetDown, LockFree, Situations
  <1>7. CASE RestoreFails(x)
    BY <1>6, <1>7 DEF RestoreFails
  <1>8. ASSUME NEW sets \in BOOLEAN, NEW clears \in BOOLEAN, RestoreEnds(x, sets, clears)
        PROVE  Situations'
    <2>1. /\ saved' = NoLevel /\ ~ducked' /\ restorer' = <<>>
          /\ volume' = IF sets THEN goal[x] ELSE volume
          /\ stale' = IF clears THEN NoLevel ELSE stale
          /\ damage' = IF sets /\ clears THEN "none" ELSE Harm
      BY <1>8 DEF RestoreEnds, Mended, Known
    <2>2. CASE sets /\ clears
      <3>1. volume' = wanted /\ fades \in {0, 1}
        BY <1>0, <1>2, <1>3, <2>1, <2>2 DEF Raising, FadeIsOne
      <3> QED
        BY <1>1, <1>3, <1>4, <2>1, <2>2, <3>1
        DEF Raising, Full, Overtaken, Nobody, LockFree, Situations
    <2>3. CASE ~(sets /\ clears)
      BY <1>6, <2>1, <2>3
    <2> QED
      BY <2>2, <2>3
  <1>9. CASE RestoreRaises(x)
    <2>1. UNCHANGED <<stale, saved, ducked>> /\ restorer' = <<>> /\ damage' = Harm
      BY <1>9 DEF RestoreRaises
    <2>2. damage' = "kept" /\ stale = wanted
      BY <2>1 DEF Harm, Known
    <2>3. saved = wanted
      BY <1>0, <1>3, <2>2, WantedIsALevel DEF Raising, Recorded
    <2>4. FirstOrDucked'
      BY <1>1, <1>3, <2>1 DEF Raising, FirstOrDucked, Fading
    <2> QED
      BY <1>1, <1>3, <1>4, <2>1, <2>2, <2>3, <2>4 DEF Raising, Lower, Recorded, LockFree, Situations
  <1> QED
    BY <1>5, <1>7, <1>8, <1>9

(* As long as a volume is saved, and no restore has raised, somebody is      *)
(* still going to restore it.                                                *)
LEMMA RestoreIsDueStep ==
  ASSUME Threads, Owners, Left, InTurn, RestoreIsDue, [DuckerNext]_duckerVars
  PROVE  RestoreIsDue'
  <1> DEFINE Sound == damage \in {"none", "unsaved"}
  <1> USE DEF Threads
  <1>1. ASSUME Sound' => Sound, UNCHANGED <<saved, recording, dpc, rpc>> PROVE RestoreIsDue'
    BY <1>1 DEF RestoreIsDue, Fading
  <1>2. ASSUME saved' = NoLevel \/ damage' = Harm PROVE RestoreIsDue'
    BY <1>2 DEF RestoreIsDue, Harm
  <1>3. ASSUME NEW s \in Sessions, NEW to \in {"fade", "lower", "settle", "recheck"},
               dpc' = [dpc EXCEPT ![s] = to]
        PROVE  RestoreIsDue'
    BY <1>3 DEF RestoreIsDue, Fading
  <1>4. ASSUME NEW x \in Calling, NEW to \in {"restore", "fade", "set"}, rpc' = [rpc EXCEPT ![x] = to]
        PROVE  RestoreIsDue'
    BY <1>4 DEF RestoreIsDue
  <1>5. CASE RecordingStarts
    BY <1>5 DEF RecordingStarts, RestoreIsDue
  <1>6. CASE RecordingEnds
    <2>1. session \in Sessions
      BY <1>6, DuckerBounds DEF RecordingEnds, InTurn, Sessions
    <2>2. rpc' = [rpc EXCEPT ![<<session, "ender">>] = "restore"]
      BY <1>6 DEF RecordingEnds
    <2> QED
      BY <1>4, <2>1, <2>2, RestoreCallers
  <1>7. CASE UserSets \/ UNCHANGED duckerVars
    BY <1>1, <1>7 DEF UserSets, duckerVars, stateVars, duckVars, restoreVars
  <1>8. CASE AppCrashes
    BY <1>2, <1>8 DEF AppCrashes
  <1>9. ASSUME NEW s \in Sessions, Initializes(s) \/ InitializeFails(s) PROVE RestoreIsDue'
    <2>1. UNCHANGED <<saved, recording, rpc>> /\ dpc[s] = "start" /\ (Sound' => Sound)
      BY <1>9 DEF Initializes, InitializeFails, Harm, restoreVars
    <2>2. \A z \in Sessions : z # s => dpc'[z] = dpc[z]
      BY <1>9 DEF Initializes, InitializeFails
    <2>3. \A z \in Sessions : Fading(z) \/ dpc[z] = "recheck" => (Fading(z) \/ dpc[z] = "recheck")'
      BY <2>1, <2>2 DEF Fading
    <2> QED
      BY <2>1, <2>3 DEF RestoreIsDue
  <1>10. ASSUME NEW s \in Sessions,
               DuckSkips(s) \/ DuckReadsNothing(s) \/ DuckAgain(s) \/ DuckFades(s) \/ DuckFadeFails(s)
                 \/ \E fails \in BOOLEAN : DuckBegins(s, fails) \/ DuckSettles(s, fails)
         PROVE  RestoreIsDue'
    <2>1. \E to \in {"fade", "lower", "settle", "recheck"} : dpc' = [dpc EXCEPT ![s] = to]
      BY <1>10 DEF DuckSkips, DuckReadsNothing, DuckBegins, DuckAgain, DuckFades, DuckFadeFails,
         DuckSettles
    <2> QED
      BY <1>3, <2>1
  <1>11. ASSUME NEW s \in Sessions, NEW repairs \in BOOLEAN, NEW clears \in BOOLEAN,
                DuckRaises(s, repairs, clears)
         PROVE  RestoreIsDue'
    BY <1>2, <1>11 DEF DuckRaises
  <1>12. ASSUME NEW s \in Sessions, Rechecks(s) PROVE RestoreIsDue'
    <2>1. CASE recording
      BY <1>12, <2>1 DEF Rechecks, RestoreIsDue
    <2>2. CASE ~recording
      BY <1>4, <1>12, <2>2, RestoreCallers DEF Rechecks
    <2> QED
      BY <2>1, <2>2
  <1>13. ASSUME NEW s \in Sessions,
               MonitorLeaves(s) \/ MonitorHears(s) \/ MonitorFades(s) \/ MonitorFadeFails(s)
                 \/ MonitorRaises(s) \/ MonitorSettles(s) \/ MonitorTriesAgain(s)
                 \/ \E fails \in BOOLEAN : MonitorDucks(s, fails)
         PROVE RestoreIsDue'
    <2>1. UNCHANGED <<saved, recording, dpc, rpc>>
      BY <1>13 DEF MonitorLeaves, MonitorHears, MonitorDucks, MonitorFades, MonitorFadeFails,
         MonitorRaises, MonitorSettles, MonitorTriesAgain, duckVars, restoreVars, stateVars
    <2>2. Sound' => Sound
      BY <1>13 DEF MonitorLeaves, MonitorHears, MonitorDucks, MonitorFades, MonitorFadeFails,
         MonitorRaises, MonitorSettles, MonitorTriesAgain, Saves, Stuck, Harm, Left
    <2> QED
      BY <1>1, <2>1, <2>2
  <1>14. ASSUME NEW x \in Calling,
                RestoreEasy(x) \/ RestoreFails(x) \/ RestoreRaises(x)
                  \/ \E sets, clears \in BOOLEAN : RestoreEnds(x, sets, clears)
         PROVE RestoreIsDue'
    BY <1>2, <1>14 DEF RestoreEasy, RestoreEnds, RestoreFails, RestoreRaises
  <1>15. ASSUME NEW x \in Calling,
                RestoreFades(x) \/ \E blind \in BOOLEAN : RestoreBegins(x, blind)
         PROVE RestoreIsDue'
    BY <1>4, <1>15 DEF RestoreBegins, RestoreFades
  <1> QED
    BY <1>5, <1>6, <1>7, <1>8, <1>9, <1>10, <1>11, <1>12, <1>13, <1>14, <1>15 DEF DuckerNext, Calling

LEMMA SituationsStep ==
  ASSUME VolumeRaces = {}, VolumeInv, Known, Known', DuckerNext
  PROVE  Situations'
  <1>1. CASE RecordingStarts \/ RecordingEnds \/ UserSets \/ AppCrashes
    BY <1>1, StartSituation, EndSituation, UserSituation, CrashSituation
  <1>2. ASSUME NEW s \in Sessions,
               Initializes(s) \/ InitializeFails(s) \/ DuckSkips(s) \/ DuckReadsNothing(s)
                 \/ DuckAgain(s) \/ DuckFades(s) \/ DuckFadeFails(s) \/ Rechecks(s)
        PROVE  Situations'
    BY <1>2, InitializeSituation, InitializeFailSituation, SkipSituation, ReadNothingSituation,
       AgainSituation, FadeSituation, RecheckSituation
  <1>3. ASSUME NEW s \in Sessions,
               (\E fails \in BOOLEAN : DuckBegins(s, fails) \/ DuckSettles(s, fails))
                 \/ \E repairs, clears \in BOOLEAN : DuckRaises(s, repairs, clears)
        PROVE  Situations'
    BY <1>3, BeginSituation, SettleSituation, RaiseSituation
  <1>4. ASSUME NEW s \in Sessions,
               MonitorLeaves(s) \/ MonitorHears(s) \/ MonitorFades(s) \/ MonitorFadeFails(s)
                 \/ MonitorRaises(s) \/ MonitorSettles(s) \/ MonitorTriesAgain(s)
                 \/ \E fails \in BOOLEAN : MonitorDucks(s, fails)
        PROVE  Situations'
    BY <1>4, WaitSituation, MonitorDuckSituation, MonitorFadeSituation
  <1>5. ASSUME NEW x \in Calling,
               RestoreEasy(x) \/ RestoreFades(x) \/ RestoreFails(x) \/ RestoreRaises(x)
                 \/ (\E blind \in BOOLEAN : RestoreBegins(x, blind))
                 \/ \E sets, clears \in BOOLEAN : RestoreEnds(x, sets, clears)
        PROVE  Situations'
    BY <1>5, EasySituation, RestoreBeginSituation, RestoreFadeSituation
  <1> QED
    BY <1>1, <1>2, <1>3, <1>4, <1>5 DEF DuckerNext, Calling

LEMMA SituationsStay ==
  ASSUME Situations, UNCHANGED duckerVars
  PROVE  Situations'
  <1>1. /\ UNCHANGED <<initialized, saved, ducked, stale, volume, wanted, restorer, fades, goal,
                       mine, first, damage>>
        /\ UNCHANGED <<dpc, mpc, rpc, recording, session>>
    BY DEF duckerVars, levelVars, stateVars, duckVars, restoreVars, monitorVars
  <1>2. SameFades /\ SameMonitors
    BY <1>1 DEF SameFades, SameMonitors, Fading, MonitorFading
  <1>3. NotStarted => \A s \in Sessions :
            dpc'[s] \in {"idle", "start", "done"} /\ mpc'[s] \in {"off", "done"}
    BY <1>1 DEF NotStarted
  <1>4. ByHand => ByHand'
    BY <1>1 DEF ByHand, Nobody, NoMonitorFades, MonitorFading, LockFree, Recorded
  <1> QED
    BY <1>1, <1>2, <1>3, <1>4, SameSituation

LEMMA VolumeInvStep ==
  ASSUME VolumeRaces = {}, VolumeInv, Counted, Knows, [DuckerNext]_duckerVars
  PROVE  (VolumeInv /\ Counted /\ Knows)'
  <1>1. (DuckerTypeOK /\ NotYet /\ Counted /\ Knows)'
    BY DuckerTypeStep DEF VolumeInv
  <1>2. InTurn' /\ LockIsHeld' /\ FadeIsOne' /\ RestoreIsDue'
    BY VolumeParts, InTurnStep, LockIsHeldStep, FadeIsOneStep, RestoreIsDueStep
  <1>3. Known' => Situations'
    BY VolumeParts, LostStays, SituationsStep, SituationsStay
  <1> QED
    BY <1>1, <1>2, <1>3 DEF VolumeInv

LEMMA VolumeInitially == DuckerInit => VolumeInv /\ Counted /\ Knows
  <1> SUFFICES ASSUME DuckerInit PROVE VolumeInv /\ Counted /\ Knows
    OBVIOUS
  <1>1. DuckerTypeOK /\ NotYet /\ Counted /\ Knows
    BY DuckerTypeInitially
  <1>2. InTurn /\ LockIsHeld
    <2>1. /\ ~recording /\ session = 0 /\ restorer = <<>>
          /\ \A x \in Calling : rpc[x] = "idle"
          /\ \A s \in Sessions : dpc[s] = "idle"
      BY DEF DuckerInit, Calling
    <2>2. \A s \in Sessions : ~(s < 0)
      BY DEF Sessions
    <2>3. InTurn
      BY <2>1, <2>2, RestoreCallers DEF InTurn
    <2>4. LockIsHeld
      BY <2>1, LockIsNobodys DEF LockIsHeld
    <2> QED
      BY <2>3, <2>4
  <1>3. FadeIsOne /\ RestoreIsDue
    BY DEF DuckerInit, FadeIsOne, RestoreIsDue, Fading
  <1>4. NotStarted
    BY DEF DuckerInit, NotStarted, Nobody, NoMonitorFades, MonitorFading, LockFree
  <1> QED
    BY <1>1, <1>2, <1>3, <1>4 DEF VolumeInv, Situations

(* At rest, no volume is saved, and nobody fades: it is full.                *)
LEMMA AtRestItIsFull == VolumeInv => VolumeIsBack
  <1> SUFFICES ASSUME VolumeInv, Untouched, initialized, damage \in {"none", "unsaved"}
               PROVE  volume = wanted /\ stale = NoLevel
    BY DEF VolumeIsBack
  <1>1. Heights /\ FadeIsOne /\ Situations /\ RestoreIsDue
    BY VolumeParts DEF Known
  <1>2. \A s \in Sessions : ~Fading(s) /\ dpc[s] # "recheck"
    BY DEF Untouched, Fading
  <1>3. \A x \in Calling : rpc[x] \notin {"restore", "fade", "set"}
    BY DEF Untouched, Calling
  <1>4. saved = NoLevel
    BY <1>1, <1>2, <1>3 DEF RestoreIsDue, Untouched
  <1>5. fades = 0 /\ wanted # NoLevel
    BY <1>1, <1>2, WantedIsALevel DEF FadeIsOne
  <1> QED
    BY <1>1, <1>4, <1>5 DEF Situations, NotStarted, Full, Overtaken, LetDown, Skipping, Lower,
       ByHand, Raising

LEMMA LowerIsWrittenDown == VolumeInv => LoweredIsRecorded
  <1> SUFFICES ASSUME VolumeInv, NobodyChangesIt, volume # wanted,
                      damage \in {"none", "kept"}
               PROVE  stale = wanted
    BY DEF LoweredIsRecorded
  <1>1. Heights /\ LockIsHeld /\ FadeIsOne /\ Situations
    BY VolumeParts DEF Known
  <1>2. \A s \in Sessions : ~Fading(s)
    BY DEF NobodyChangesIt, Fading
  <1>3. fades = 0
    BY <1>1, <1>2 DEF FadeIsOne
  <1>4. restorer \notin Calling
    BY <1>1 DEF NobodyChangesIt, LockIsHeld, Calling
  <1> QED
    BY <1>1, <1>3, <1>4
    DEF Situations, NotStarted, Full, Overtaken, LetDown, Skipping, Lower, ByHand, Raising, Recorded

LEMMA VolumeInvariant ==
  ASSUME VolumeRaces = {}
  PROVE  DuckerSpec => []VolumeInv
  <1>1. VolumeInv /\ Counted /\ Knows /\ [DuckerNext]_duckerVars => (VolumeInv /\ Counted /\ Knows)'
    BY VolumeInvStep
  <1> QED
    BY <1>1, VolumeInitially, PTL DEF DuckerSpec

(* With no timing assumption broken, for any number of dictations, crashes   *)
(* and failures of the backend or the file: when nobody is at work on the    *)
(* volume any more, it is the user's and no crash file is left, unless a     *)
(* failure has spoilt that (see damage in VolumeDucker).                     *)
THEOREM VolumeGoesBackToTheUser ==
  ASSUME VolumeRaces = {}
  PROVE  DuckerSpec => []VolumeIsBack
  BY VolumeInvariant, AtRestItIsFull, PTL

(* Likewise: between fades, a level that the volume is not at, but should    *)
(* be, is named in the crash file, after a restore that failed as well.      *)
THEOREM CrashFileNamesTheVolume ==
  ASSUME VolumeRaces = {}
  PROVE  DuckerSpec => []LoweredIsRecorded
  BY VolumeInvariant, LowerIsWrittenDown, PTL

----------------------------------------------------------------------------
(* The transcripts: what a flush has promised, in every environment.         *)

(* What a list keeps: the texts in it, and once it is full, those it has     *)
(* pushed out as well.                                                       *)
Kept(list) == {d \in Dictated : d \in TextsOf(list) \/ Len(list) = Keep}

(* Whoever writes the file has the lock.                                     *)
WritersLock == \A a \in Actors : step[a] = "write" <=> holder = a

(* Nothing is written that knows less than the file, and the list in memory  *)
(* knows most.                                                               *)
KeepsGrow ==
    /\ Kept(disk) \subseteq Kept(entries)
    /\ holder # Free => Kept(disk) \subseteq Kept(image[holder]) /\ Kept(image[holder]) \subseteq Kept(entries)
Added == \A d \in Dictated : step[d] \notin {"idle", "over"} => d \in Kept(entries)

(* A text that no writer will lose any more, whatever becomes of the writes. *)
Tried(d) ==
    /\ d \in Kept(entries)
    /\ holder # Free => d \in Kept(image[holder])
    /\ failed \/ d \in Kept(disk)

(* The flush of d, at place i of the queue, comes after a save of its text.  *)
Asks(i) == \E j \in 1 .. Len(queue) : j < i /\ queue[j] = SaveRequest
Covered(d, i) ==
    \/ Tried(d) \/ Asks(i)
    \/ step[Saver] = "save"
    \/ step[Saver] = "write" /\ d \in Kept(image[Saver])

(* Once the saver is told to stop it takes one more item at most, and one    *)
(* that was there before.                                                    *)
Serves(i) == ~stopped \/ (i = 1 /\ step[Saver] = "get")
FlushesComeAfter ==
    /\ \A i \in 1 .. Len(queue), d \in Dictated : queue[i] = d => d \in Kept(entries)
    /\ ~dropped =>
        /\ ~stopped => \A d \in Dictated : step[d] = "flush" => Covered(d, Len(queue) + 1)
        /\ \A i \in 1 .. Len(queue), d \in Dictated : queue[i] = d /\ Serves(i) => Covered(d, i)
PromisesKept == ~dropped => \A d \in Dictated : d \in event \/ d \in flushed => Tried(d)

(* What is known of the exit.                                                *)
ExitOrder ==
    /\ ~dropped /\ stopped /\ step[Saver] = "get" => queue # <<>>
    /\ step[Saver] = "gone" => stopped
    /\ final => stopped
    /\ \A i \in 1 .. Len(queue) : queue[i] = StopRequest => stopped
    /\ \A a \in Flushers : step[a] \in {"save", "write", "join", "flag"} => stopped
    /\ phase[Quitter] \in {"shutdown", "atexit"} => stopped
    /\ \A d \in Dictated : phase[d] \in {"add", "mark"}
    /\ \A a \in Actors : step[a] \in {"retry", "reflush"} => dropped

LEMMA StoreBounds ==
  Texts \in Nat \ {0} /\ Keep \in Nat \ {0} /\ QueueSize \in Nat \ {0} /\ Troubles \in Nat
  BY StoreAssumption DEF StoreConstants

(* Who is who.                                                               *)
LEMMA ActorsAre ==
  /\ \A d \in Dictated : d \in Actors /\ d \in Flushers /\ d # Quitter /\ d # Saver /\ d # Free
                         /\ d # SaveRequest /\ d # StopRequest
  /\ Quitter \in Actors /\ Quitter \in Flushers /\ Saver \in Actors
  /\ Quitter # Saver /\ Saver \notin Flushers /\ Free \notin Actors
  /\ SaveRequest \notin Flushers /\ StopRequest \notin Flushers /\ SaveRequest # StopRequest
  /\ \A a \in Flushers : a \in Actors /\ (a = Quitter \/ a \in Dictated)
  /\ \A a \in Actors : a = Quitter \/ a \in Dictated \/ a = Saver
  BY StoreBounds DEF Dictated, Actors, Flushers, Quitter, Saver, Free, SaveRequest, StopRequest

Steps == {"idle", "enqueue", "retry", "save", "write", "flush", "reflush", "wait", "paste", "over",
          "get", "gone", "stop", "join", "flag", "ended"}
Requests == {SaveRequest, StopRequest} \cup Flushers

Lists ==
    /\ entries \in Seq(Entries) /\ disk \in Seq(Entries) /\ image \in [Actors -> Seq(Entries)]
    /\ Len(entries) <= Keep /\ Len(disk) <= Keep /\ \A a \in Actors : Len(image[a]) <= Keep
Lines == queue \in Seq(Requests) /\ Len(queue) <= QueueSize
Places ==
    /\ step \in [Actors -> Steps]
    /\ phase \in [Flushers -> {"add", "mark", "flush", "fast", "shutdown", "atexit"}]
Marks ==
    /\ event \subseteq Flushers /\ holder \in Actors \cup {Free} /\ stopped \in BOOLEAN
    /\ final \in BOOLEAN /\ flushed \subseteq Dictated /\ failed \in BOOLEAN /\ dropped \in BOOLEAN
    /\ left \in 0 .. Troubles

LEMMA StoreKinds == Lists /\ Lines /\ Places /\ Marks => StoreTypeOK
  BY DEF StoreTypeOK, Lists, Lines, Places, Marks, Steps, Requests

LEMMA AfterIsAPlace == \A a : After(a) \in Steps
  BY DEF After, Steps

LEMMA PlacesStep == Places /\ [StoreNext]_storeVars => Places'
  <1> SUFFICES ASSUME Places, [StoreNext]_storeVars PROVE Places'
    OBVIOUS
  <1> USE ActorsAre, AfterIsAPlace DEF Places
  <1>1. ASSUME NEW a \in Actors, NEW where \in Steps, Goes(a, where), UNCHANGED phase PROVE Places'
    BY <1>1 DEF Goes
  <1>2. ASSUME NEW a \in Actors, NEW where \in Steps, Goes(a, where), NEW b \in Flushers,
               NEW to \in {"mark", "flush", "fast", "shutdown", "atexit"}, phase' = [phase EXCEPT ![b] = to]
        PROVE  Places'
    BY <1>2 DEF Goes
  <1>3. CASE Crash
    <2>1. /\ step' = [a \in Actors |-> IF a = Saver THEN "get"
                                       ELSE IF a = Quitter \/ step[a] = "idle" THEN "idle" ELSE "over"]
          /\ phase' = [phase EXCEPT ![Quitter] = "add"]
      BY <1>3 DEF Crash
    <2> QED
      BY <2>1 DEF Steps
  <1>4. ASSUME NEW d \in Dictated, Adds(d) \/ Enqueues(d) \/ EnqueuesAgain(d) PROVE Places'
    <2>1. UNCHANGED phase
      BY <1>4 DEF Adds, Enqueues, EnqueuesAgain
    <2>2. \E where \in Steps : Goes(d, where)
      BY <1>4 DEF Adds, Enqueues, EnqueuesAgain, Offers, Steps
    <2> QED
      BY <1>1, <2>1, <2>2
  <1>5. ASSUME NEW d \in Dictated, Pastes(d) PROVE Places'
    BY <1>2, <1>5 DEF Pastes, Steps
  <1>6. ASSUME NEW a \in Flushers, Flushes(a) \/ FlushesAgain(a) \/ FlushReturns(a) PROVE Places'
    <2>1. UNCHANGED phase
      BY <1>6 DEF Flushes, FlushesAgain, FlushReturns
    <2>2. \E where \in Steps : Goes(a, where)
      BY <1>6 DEF Flushes, FlushesAgain, FlushReturns, Offers, Gives, Steps
    <2> QED
      BY <1>1, <2>1, <2>2
  <1>7. ASSUME NEW a \in Actors, SaveBegins(a) \/ SaveEnds(a) PROVE Places'
    <2>1. UNCHANGED phase
      BY <1>7 DEF SaveBegins, SaveEnds
    <2>2. \E where \in Steps : Goes(a, where)
      BY <1>7 DEF SaveBegins, SaveBeginsWith, SaveEnds, Steps
    <2> QED
      BY <1>1, <2>1, <2>2
  <1>8. CASE SaverTakes
    <2>1. UNCHANGED phase
      BY <1>8 DEF SaverTakes
    <2>2. \E where \in Steps : Goes(Saver, where)
      BY <1>8 DEF SaverTakes, Steps
    <2> QED
      BY <1>1, <2>1, <2>2
  <1>9. CASE Stops \/ Quits
    BY <1>1, <1>9 DEF Stops, Quits, Steps
  <1>10. CASE QuitBegins \/ JoinsSaver \/ AtExit \/ Flags
    BY <1>2, <1>10 DEF QuitBegins, JoinsSaver, AtExit, Flags, Steps
  <1>11. CASE UNCHANGED storeVars
    BY <1>11 DEF storeVars
  <1> QED
    BY <1>3, <1>4, <1>5, <1>6, <1>7, <1>8, <1>9, <1>10, <1>11 DEF StoreNext

(* The queue.                                                                *)
LEMMA QueueAppend ==
  ASSUME Lines, HasRoom, NEW item \in Requests
  PROVE  /\ Append(queue, item) \in Seq(Requests) /\ Len(Append(queue, item)) <= QueueSize
         /\ Len(Append(queue, item)) = Len(queue) + 1
         /\ \A i \in 1 .. Len(queue) : Append(queue, item)[i] = queue[i]
         /\ Append(queue, item)[Len(queue) + 1] = item
  BY StoreBounds DEF Lines, HasRoom

LEMMA QueueTail ==
  ASSUME Lines, queue # <<>>
  PROVE  /\ Tail(queue) \in Seq(Requests) /\ Len(Tail(queue)) <= QueueSize
         /\ Len(Tail(queue)) = Len(queue) - 1 /\ Len(queue) >= 1
         /\ \A i \in 1 .. Len(queue) - 1 : Tail(queue)[i] = queue[i + 1]
         /\ Head(queue) \in Requests /\ Head(queue) = queue[1]
  <1>1. queue \in Seq(Requests) /\ Len(queue) \in Nat /\ Len(queue) <= QueueSize
    BY DEF Lines
  <1>2. Len(queue) >= 1
    BY <1>1, EmptySeq
  <1>3. Tail(queue) \in Seq(Requests) /\ Len(Tail(queue)) = Len(queue) - 1
    BY <1>1, HeadTailProperties
  <1>4. \A i \in 1 .. Len(queue) - 1 : Tail(queue)[i] = queue[i + 1]
    BY <1>1
  <1>5. Head(queue) \in Requests /\ Head(queue) = queue[1]
    BY <1>1, <1>2
  <1> QED
    BY <1>1, <1>2, <1>3, <1>4, <1>5, StoreBounds

LEMMA FullIsNotEmpty == Lines /\ ~HasRoom => queue # <<>>
  <1> SUFFICES ASSUME Lines, ~HasRoom, queue = <<>> PROVE FALSE
    OBVIOUS
  <1>1. Len(queue) = 0
    OBVIOUS
  <1> QED
    BY <1>1, StoreBounds DEF HasRoom

(* The lists.                                                                *)
LEMMA NewestGrows ==
  ASSUME NEW list \in Seq(Entries), Len(list) <= Keep, NEW entry \in Entries
  PROVE  /\ Newest(Append(list, entry)) \in Seq(Entries)
         /\ Len(Newest(Append(list, entry))) <= Keep
         /\ Kept(list) \cup {entry.text} \subseteq Kept(Newest(Append(list, entry)))
  <1> DEFINE longer == Append(list, entry)
  <1>1. /\ longer \in Seq(Entries) /\ Len(longer) = Len(list) + 1 /\ Len(list) \in Nat
        /\ \A i \in 1 .. Len(list) : longer[i] = list[i]
        /\ longer[Len(list) + 1] = entry
    OBVIOUS
  <1>2. entry.text \in Dictated
    BY DEF Entries
  <1> HIDE DEF longer
  <1>3. CASE Len(longer) > Keep
    <2>1. Newest(longer) = SubSeq(longer, 2, Len(longer))
      BY <1>3 DEF Newest
    <2>2. /\ SubSeq(longer, 2, Len(longer)) \in Seq(Entries)
          /\ Len(SubSeq(longer, 2, Len(longer))) = Len(longer) - 1
      <3>1. 2 \in 1 .. Len(longer) + 1 /\ Len(longer) \in 2 - 1 .. Len(longer)
        BY <1>1, <1>3, StoreBounds
      <3> QED
        BY <1>1, <3>1, SubSeqProperties
    <2>3. Len(Newest(longer)) = Keep
      BY <1>1, <1>3, <2>1, <2>2, StoreBounds
    <2> QED
      BY <1>2, <2>1, <2>2, <2>3, StoreBounds DEF Kept, longer
  <1>4. CASE ~(Len(longer) > Keep)
    <2>1. Newest(longer) = longer
      <3>1. Newest(longer) = SubSeq(longer, 1, Len(longer))
        BY <1>4 DEF Newest
      <3> QED
        BY <1>1, <3>1
    <2>2. TextsOf(list) \cup {entry.text} \subseteq TextsOf(longer)
      <3>1. \A i \in 1 .. Len(list) : list[i].text = longer[i].text /\ i \in 1 .. Len(longer)
        BY <1>1
      <3>2. entry.text = longer[Len(list) + 1].text /\ Len(list) + 1 \in 1 .. Len(longer)
        BY <1>1
      <3> QED
        BY <3>1, <3>2 DEF TextsOf
    <2>3. Len(list) # Keep
      BY <1>1, <1>4, StoreBounds
    <2>4. Kept(list) \cup {entry.text} \subseteq Kept(longer)
      BY <1>2, <2>2, <2>3 DEF Kept
    <2> QED
      BY <1>1, <1>4, <2>1, <2>4, StoreBounds DEF longer
  <1> QED
    BY <1>3, <1>4, <1>1, StoreBounds

LEMMA MarkKeeps ==
  ASSUME NEW list \in Seq(Entries)
  PROVE  /\ NewestMarked(list) \in Seq(Entries)
         /\ Len(NewestMarked(list)) = Len(list)
         /\ Kept(NewestMarked(list)) = Kept(list)
  <1> DEFINE entry(i) == [text |-> list[i].text, pasted |-> list[i].pasted \/ i = Len(list)]
             marked == [i \in 1 .. Len(list) |-> entry(i)]
  <1>1. \A i \in 1 .. Len(list) : entry(i) \in Entries /\ entry(i).text = list[i].text
    <2> SUFFICES ASSUME NEW i \in 1 .. Len(list)
                 PROVE  entry(i) \in Entries /\ entry(i).text = list[i].text
      OBVIOUS
    <2>1. list[i] \in Entries
      OBVIOUS
    <2>2. list[i].text \in Dictated /\ (list[i].pasted \/ i = Len(list)) \in BOOLEAN
      BY <2>1 DEF Entries
    <2> QED
      BY <2>2, Zenon DEF Entries
  <1> HIDE DEF entry
  <1>2. marked \in Seq(Entries) /\ Len(marked) = Len(list) /\ \A i \in 1 .. Len(list) : marked[i] = entry(i)
    BY <1>1
  <1>3. TextsOf(marked) = TextsOf(list)
    <2> HIDE DEF marked
    <2> QED
      BY <1>1, <1>2 DEF TextsOf
  <1>4. NewestMarked(list) = marked
    BY DEF NewestMarked, entry
  <1> HIDE DEF marked
  <1> QED
    BY <1>2, <1>3, <1>4 DEF Kept

LEMMA LinesStep ==
  ASSUME Lines, [StoreNext]_storeVars
  PROVE  Lines'
  <1> USE ActorsAre
  <1>1. ASSUME HasRoom, NEW item \in Requests, queue' = Append(queue, item) PROVE Lines'
    BY <1>1, QueueAppend DEF Lines
  <1>2. ASSUME queue # <<>>, queue' = Tail(queue) PROVE Lines'
    BY <1>2, QueueTail DEF Lines
  <1>3. CASE UNCHANGED queue
    BY <1>3 DEF Lines
  <1>4. ASSUME NEW a, NEW item \in Requests, NEW then, NEW otherwise, Offers(a, item, then, otherwise)
        PROVE  Lines'
    BY <1>1, <1>2, <1>4, FullIsNotEmpty DEF Offers
  <1>5. ASSUME NEW d \in Dictated, Enqueues(d) \/ EnqueuesAgain(d) PROVE Lines'
    <2>1. SaveRequest \in Requests
      BY DEF Requests
    <2> QED
      BY <1>1, <1>3, <1>4, <1>5, <2>1 DEF Enqueues, EnqueuesAgain
  <1>6. ASSUME NEW a \in Flushers, Flushes(a) \/ FlushesAgain(a) PROVE Lines'
    <2>1. a \in Requests
      BY DEF Requests
    <2> QED
      BY <1>1, <1>3, <1>4, <1>6, <2>1 DEF Flushes, FlushesAgain
  <1>7. CASE Stops
    <2>1. StopRequest \in Requests
      BY DEF Requests
    <2> QED
      BY <1>1, <1>3, <1>7, <2>1 DEF Stops
  <1>8. CASE SaverTakes
    BY <1>2, <1>8 DEF SaverTakes
  <1>9. CASE Crash
    BY <1>9, StoreBounds DEF Crash, Lines
  <1> QED
    BY <1>3, <1>5, <1>6, <1>7, <1>8, <1>9
    DEF StoreNext, storeVars, Adds, Pastes, FlushReturns, SaveBegins, SaveEnds, QuitBegins,
        JoinsSaver, AtExit, Flags, Quits

LEMMA ListsStep ==
  ASSUME Lists, [StoreNext]_storeVars
  PROVE  Lists'
  <1> USE ActorsAre DEF Lists
  <1>1. CASE UNCHANGED <<entries, disk, image>>
    BY <1>1
  <1>2. ASSUME NEW d \in Dictated, Adds(d) PROVE Lists'
    <2>1. [text |-> d, pasted |-> FALSE] \in Entries
      BY DEF Entries
    <2>2. UNCHANGED <<disk, image>> /\ entries' = Newest(Append(entries, [text |-> d, pasted |-> FALSE]))
      BY <1>2 DEF Adds
    <2> QED
      BY <2>1, <2>2, NewestGrows
  <1>3. ASSUME NEW d \in Dictated, Pastes(d) PROVE Lists'
    <2>1. UNCHANGED <<disk, image>> /\ (entries' = entries \/ entries' = NewestMarked(entries))
      BY <1>3 DEF Pastes
    <2> QED
      BY <2>1, MarkKeeps
  <1>4. ASSUME NEW a \in Actors, SaveBegins(a) PROVE Lists'
    <2>1. /\ UNCHANGED <<entries, disk>>
          /\ image' = image \/ image' = [image EXCEPT ![a] = entries]
      BY <1>4 DEF SaveBegins, SaveBeginsWith, memory
    <2> QED
      BY <2>1
  <1>5. ASSUME NEW a \in Actors, SaveEnds(a) PROVE Lists'
    <2>1. /\ UNCHANGED entries /\ image' = [image EXCEPT ![a] = <<>>]
          /\ disk' = disk \/ disk' = image[a]
      BY <1>5 DEF SaveEnds
    <2>2. <<>> \in Seq(Entries) /\ Len(<<>>) <= Keep
      BY StoreBounds
    <2> QED
      BY <2>1, <2>2
  <1>6. CASE Crash
    <2>1. entries' = disk /\ UNCHANGED disk /\ image' = [a \in Actors |-> <<>>]
      BY <1>6 DEF Crash
    <2>2. <<>> \in Seq(Entries) /\ Len(<<>>) <= Keep
      BY StoreBounds
    <2> QED
      BY <2>1, <2>2
  <1> QED
    BY <1>1, <1>2, <1>3, <1>4, <1>5, <1>6
    DEF StoreNext, storeVars, memory, Enqueues, EnqueuesAgain, Flushes, FlushesAgain, FlushReturns,
        SaverTakes, QuitBegins, Stops, JoinsSaver, AtExit, Flags, Quits

LEMMA MarksStep ==
  ASSUME Marks, [StoreNext]_storeVars
  PROVE  Marks'
  <1> USE ActorsAre, StoreBounds DEF Marks
  <1>1. CASE UNCHANGED <<event, holder, stopped, final, flushed, failed, dropped, left>>
    BY <1>1, Zenon
  <1>2. ASSUME NEW a, NEW item, NEW then, NEW otherwise, Offers(a, item, then, otherwise),
               UNCHANGED <<event, holder, stopped, flushed, failed, left>>, final' \in BOOLEAN
        PROVE  Marks'
    <2>1. dropped' \in BOOLEAN
      BY <1>2, Zenon DEF Offers
    <2> QED
      BY <1>2, <2>1, Zenon
  <1>3. ASSUME NEW d \in Dictated, Adds(d) \/ EnqueuesAgain(d) \/ Pastes(d) PROVE Marks'
    BY <1>1, <1>3, Zenon DEF Adds, EnqueuesAgain, Pastes, memory
  <1>4. ASSUME NEW d \in Dictated, Enqueues(d) PROVE Marks'
    <2>1. UNCHANGED <<event, holder, stopped, flushed, failed, left>>
      BY <1>4 DEF Enqueues
    <2>2. final' \in BOOLEAN
      BY <1>4, Zenon DEF Enqueues, FinalOnAdd
    <2>3. CASE UNCHANGED dropped
      BY <2>1, <2>2, <2>3, Zenon
    <2> QED
      BY <1>2, <1>4, <2>1, <2>2, <2>3, Zenon DEF Enqueues
  <1>5. ASSUME NEW a \in Flushers, Flushes(a) \/ FlushesAgain(a) PROVE Marks'
    BY <1>1, <1>2, <1>5, Zenon DEF Flushes, FlushesAgain, memory
  <1>6. ASSUME NEW a \in Flushers, FlushReturns(a) PROVE Marks'
    <2>1. event' \subseteq Flushers /\ flushed' \subseteq Dictated
      BY <1>6 DEF FlushReturns
    <2> QED
      BY <1>6, <2>1, Zenon DEF FlushReturns
  <1>7. ASSUME NEW a \in Actors, SaveBegins(a) PROVE Marks'
    BY <1>7, Zenon DEF SaveBegins, SaveBeginsWith, memory
  <1>8. ASSUME NEW a \in Actors, SaveEnds(a) PROVE Marks'
    <2>1. left' \in 0 .. Troubles
      BY <1>8 DEF SaveEnds
    <2>2. final' \in BOOLEAN
      BY <1>8 DEF SaveEnds
    <2> QED
      BY <1>8, <2>1, <2>2, Zenon DEF SaveEnds
  <1>9. CASE SaverTakes
    <2>1. event' \subseteq Flushers
      BY <1>9 DEF SaverTakes
    <2> QED
      BY <1>9, <2>1, Zenon DEF SaverTakes
  <1>10. CASE QuitBegins \/ Stops \/ JoinsSaver \/ AtExit \/ Flags \/ Quits
    BY <1>10, Zenon DEF QuitBegins, Stops, JoinsSaver, AtExit, Flags, Quits, memory
  <1>11. CASE Crash
    <2>1. left' \in 0 .. Troubles /\ flushed' \subseteq Dictated
      BY <1>11 DEF Crash
    <2> QED
      BY <1>11, <2>1, Zenon DEF Crash
  <1>12. CASE UNCHANGED storeVars
    BY <1>1, <1>12 DEF storeVars, memory
  <1> QED
    BY <1>3, <1>4, <1>5, <1>6, <1>7, <1>8, <1>9, <1>10, <1>11, <1>12 DEF StoreNext

LEMMA LockStep ==
  ASSUME Places, Marks, WritersLock, [StoreNext]_storeVars
  PROVE  WritersLock'
  <1> USE ActorsAre DEF Places, Marks
  <1>1. ASSUME NEW a \in Actors, NEW where, Goes(a, where), where # "write", step[a] # "write",
               UNCHANGED holder
        PROVE  WritersLock'
    BY <1>1 DEF Goes, WritersLock
  <1>2. ASSUME NEW a, NEW item, NEW then, NEW otherwise, Offers(a, item, then, otherwise)
        PROVE  Goes(a, then) \/ Goes(a, otherwise)
    BY <1>2 DEF Offers
  <1>3. \A a : After(a) # "write" /\ Gives(a) # "write"
    BY DEF After, Gives
  <1>4. ASSUME NEW d \in Dictated, Adds(d) \/ Enqueues(d) \/ EnqueuesAgain(d) \/ Pastes(d)
        PROVE  WritersLock'
    BY <1>1, <1>2, <1>3, <1>4 DEF Adds, Enqueues, EnqueuesAgain, Pastes, HasTo
  <1>5. ASSUME NEW a \in Flushers, Flushes(a) \/ FlushesAgain(a) \/ FlushReturns(a)
        PROVE  WritersLock'
    BY <1>1, <1>2, <1>3, <1>5 DEF Flushes, FlushesAgain, FlushReturns, HasTo
  <1>6. ASSUME NEW a \in Actors, SaveBegins(a) PROVE WritersLock'
    <2>1. step[a] = "save" /\ holder = Free
      BY <1>6 DEF SaveBegins, HasTo
    <2>2. CASE final
      BY <1>1, <1>3, <1>6, <2>1, <2>2 DEF SaveBegins, SaveBeginsWith
    <2>3. CASE ~final
      <3>1. step' = [step EXCEPT ![a] = "write"] /\ holder' = a
        BY <1>6, <2>3 DEF SaveBegins, SaveBeginsWith, Goes
      <3> QED
        BY <2>1, <3>1 DEF WritersLock
    <2> QED
      BY <2>2, <2>3
  <1>7. ASSUME NEW a \in Actors, SaveEnds(a) PROVE WritersLock'
    <2>1. step[a] = "write" /\ step' = [step EXCEPT ![a] = After(a)] /\ holder' = Free
      BY <1>7 DEF SaveEnds, HasTo, Goes
    <2> QED
      BY <1>3, <2>1 DEF WritersLock
  <1>8. CASE SaverTakes
    <2>1. step[Saver] = "get" /\ UNCHANGED holder
      BY <1>8 DEF SaverTakes, HasTo
    <2>2. \E where : where # "write" /\ Goes(Saver, where)
      BY <1>3, <1>8 DEF SaverTakes
    <2> QED
      BY <1>1, <2>1, <2>2
  <1>9. CASE QuitBegins \/ Stops \/ JoinsSaver \/ AtExit \/ Flags \/ Quits
    BY <1>1, <1>9 DEF QuitBegins, Stops, JoinsSaver, AtExit, Flags, Quits
  <1>10. CASE Crash
    BY <1>10 DEF Crash, WritersLock
  <1>11. CASE UNCHANGED storeVars
    BY <1>11 DEF storeVars, WritersLock
  <1> QED
    BY <1>4, <1>5, <1>6, <1>7, <1>8, <1>9, <1>10, <1>11 DEF StoreNext

(* What a step may do to the list, its copies and the file.                  *)
ListGrows ==
    Kept(entries) \subseteq Kept(entries') /\ UNCHANGED <<disk, image, holder, failed>>
CopyIsMade(a) ==
    /\ step[a] = "save" /\ step'[a] = "write" /\ ~final /\ holder = Free /\ holder' = a
    /\ image' = [image EXCEPT ![a] = entries] /\ UNCHANGED <<entries, disk, failed>>
CopyIsWritten(a) ==
    /\ step[a] = "write" /\ step'[a] = After(a) /\ holder = a /\ holder' = Free /\ UNCHANGED entries
    /\ \A z \in Actors : z # a => image'[z] = image[z]
    /\ failed' \/ disk' = image[a]
    /\ disk' \in {disk, image[a]}

LEMMA ListKinds ==
  ASSUME Lists, Places, Marks, WritersLock, [StoreNext]_storeVars, ~Crash
  PROVE  \/ ListGrows
         \/ \E a \in Actors : CopyIsMade(a) \/ CopyIsWritten(a)
  <1> USE ActorsAre DEF Lists, Places
  <1>1. ASSUME UNCHANGED <<entries, disk, image, holder, failed>> PROVE ListGrows
    BY <1>1 DEF ListGrows
  <1>2. ASSUME NEW d \in Dictated, Adds(d) PROVE ListGrows
    <2>1. [text |-> d, pasted |-> FALSE] \in Entries
      BY DEF Entries
    <2> QED
      BY <1>2, <2>1, NewestGrows DEF Adds, ListGrows
  <1>3. ASSUME NEW d \in Dictated, Pastes(d) PROVE ListGrows
    BY <1>3, MarkKeeps DEF Pastes, ListGrows
  <1>4. ASSUME NEW d \in Dictated, Enqueues(d) \/ EnqueuesAgain(d) PROVE ListGrows
    BY <1>1, <1>4 DEF Enqueues, EnqueuesAgain, memory
  <1>5. ASSUME NEW a \in Flushers, Flushes(a) \/ FlushesAgain(a) \/ FlushReturns(a) PROVE ListGrows
    BY <1>1, <1>5 DEF Flushes, FlushesAgain, FlushReturns, memory
  <1>6. ASSUME NEW a \in Actors, SaveBegins(a) PROVE ListGrows \/ CopyIsMade(a)
    <2>1. CASE final
      BY <1>1, <1>6, <2>1 DEF SaveBegins, SaveBeginsWith, memory
    <2>2. CASE ~final
      BY <1>6, <2>2 DEF SaveBegins, SaveBeginsWith, Goes, HasTo, memory, CopyIsMade
    <2> QED
      BY <2>1, <2>2
  <1>7. ASSUME NEW a \in Actors, SaveEnds(a) PROVE CopyIsWritten(a)
    BY <1>7 DEF SaveEnds, Goes, HasTo, WritersLock, CopyIsWritten
  <1>8. CASE SaverTakes \/ QuitBegins \/ Stops \/ JoinsSaver \/ AtExit \/ Flags \/ Quits \/ UNCHANGED storeVars
    BY <1>1, <1>8 DEF SaverTakes, QuitBegins, Stops, JoinsSaver, AtExit, Flags, Quits, storeVars, memory
  <1> QED
    BY <1>2, <1>3, <1>4, <1>5, <1>6, <1>7, <1>8 DEF StoreNext

LEMMA KeepsGrowStep ==
  ASSUME Lists, Places, Marks, WritersLock, KeepsGrow, [StoreNext]_storeVars
  PROVE  KeepsGrow'
  <1> USE ActorsAre DEF KeepsGrow
  <1>1. CASE Crash
    BY <1>1 DEF Crash
  <1>2. CASE ListGrows
    BY <1>2 DEF ListGrows
  <1>3. ASSUME NEW a \in Actors, CopyIsMade(a) PROVE KeepsGrow'
    BY <1>3 DEF CopyIsMade, Lists
  <1>4. ASSUME NEW a \in Actors, CopyIsWritten(a) PROVE KeepsGrow'
    BY <1>4 DEF CopyIsWritten
  <1> QED
    BY <1>1, <1>2, <1>3, <1>4, ListKinds

LEMMA KeptStays ==
  ASSUME Lists, Places, Marks, WritersLock, [StoreNext]_storeVars, ~Crash
  PROVE  Kept(entries) \subseteq Kept(entries')
  BY ListKinds DEF ListGrows, CopyIsMade, CopyIsWritten

LEMMA TriedStays ==
  ASSUME Lists, Places, Marks, WritersLock, KeepsGrow, [StoreNext]_storeVars, ~Crash,
         NEW d \in Dictated, Tried(d)
  PROVE  Tried(d)'
  <1> USE ActorsAre DEF Tried
  <1>1. CASE ListGrows
    BY <1>1 DEF ListGrows
  <1>2. ASSUME NEW a \in Actors, CopyIsMade(a) PROVE Tried(d)'
    BY <1>2 DEF CopyIsMade, Lists
  <1>3. ASSUME NEW a \in Actors, CopyIsWritten(a) PROVE Tried(d)'
    BY <1>3 DEF CopyIsWritten
  <1> QED
    BY <1>1, <1>2, <1>3, ListKinds

(* Who moves, and where to.                                                  *)
LEMMA Movers ==
  ASSUME Places, NEW a \in Actors, NEW where, Goes(a, where)
  PROVE  step'[a] = where /\ \A z \in Actors : z # a => step'[z] = step[z]
  BY DEF Places, Goes

LEMMA AddedStep ==
  ASSUME Lists, Places, Marks, WritersLock, Added, [StoreNext]_storeVars
  PROVE  Added'
  <1> USE ActorsAre
  <1>1. CASE Crash
    <2>1. \A d \in Dictated : step'[d] \in {"idle", "over"}
      BY <1>1 DEF Crash
    <2> QED
      BY <2>1 DEF Added
  <1>2. ASSUME ~Crash, NEW a \in Actors, NEW where, Goes(a, where),
               a \in Dictated => step[a] \notin {"idle", "over"}
        PROVE  Added'
    <2>1. \A d \in Dictated : step'[d] \notin {"idle", "over"} => step[d] \notin {"idle", "over"}
      BY <1>2, Movers
    <2> QED
      BY <1>2, <2>1, KeptStays DEF Added
  <1>3. ASSUME ~Crash, NEW d \in Dictated, Adds(d) PROVE Added'
    <2>1. d \in Kept(entries')
      <3>1. [text |-> d, pasted |-> FALSE] \in Entries
        BY DEF Entries
      <3>2. entries' = Newest(Append(entries, [text |-> d, pasted |-> FALSE]))
        BY <1>3 DEF Adds
      <3> QED
        BY <3>1, <3>2, NewestGrows DEF Lists
    <2>2. \A z \in Dictated : z # d => step'[z] = step[z]
      BY <1>3, Movers DEF Adds
    <2> QED
      BY <1>3, <2>1, <2>2, KeptStays DEF Added
  <1>4. ASSUME ~Crash, NEW d \in Dictated, Enqueues(d) \/ EnqueuesAgain(d) \/ Pastes(d) PROVE Added'
    <2>1. step[d] \notin {"idle", "over"} /\ \E where : Goes(d, where)
      BY <1>4 DEF Enqueues, EnqueuesAgain, Pastes, Offers, HasTo
    <2> QED
      BY <1>2, <1>4, <2>1
  <1>5. ASSUME ~Crash, NEW a \in Flushers, Flushes(a) \/ FlushesAgain(a) \/ FlushReturns(a) PROVE Added'
    <2>1. step[a] \notin {"idle", "over"} /\ \E where : Goes(a, where)
      BY <1>5 DEF Flushes, FlushesAgain, FlushReturns, Offers, HasTo
    <2> QED
      BY <1>2, <1>5, <2>1
  <1>6. ASSUME ~Crash, NEW a \in Actors, SaveBegins(a) \/ SaveEnds(a) PROVE Added'
    <2>1. step[a] \notin {"idle", "over"} /\ \E where : Goes(a, where)
      BY <1>6 DEF SaveBegins, SaveBeginsWith, SaveEnds, HasTo
    <2> QED
      BY <1>2, <1>6, <2>1
  <1>7. ASSUME ~Crash, SaverTakes \/ QuitBegins \/ Stops \/ JoinsSaver \/ AtExit \/ Flags \/ Quits
        PROVE  Added'
    <2>1. \E a \in {Saver, Quitter} : \E where : Goes(a, where)
      BY <1>7 DEF SaverTakes, QuitBegins, Stops, JoinsSaver, AtExit, Flags, Quits
    <2> QED
      BY <1>2, <1>7, <2>1
  <1>8. CASE UNCHANGED storeVars
    BY <1>8 DEF storeVars, memory, Added
  <1> QED
    BY <1>1, <1>3, <1>4, <1>5, <1>6, <1>7, <1>8 DEF StoreNext

(* What a step may do to the queue.                                          *)
Put(item) ==
    /\ HasRoom /\ queue' = Append(queue, item)
    /\ item = StopRequest => stopped'
    /\ item \in Dictated => step[item] \in {"flush", "reflush"}

LEMMA QueueKinds ==
  ASSUME Lines, Places, ExitOrder, [StoreNext]_storeVars, ~Crash
  PROVE  \/ queue' = queue /\ ~SaverTakes
         \/ ~SaverTakes /\ \E item \in Requests : Put(item)
         \/ queue # <<>> /\ queue' = Tail(queue) /\ (dropped' \/ SaverTakes)
  <1> USE ActorsAre
  <1> DEFINE Kinds == \/ queue' = queue
                      \/ \E item \in Requests : Put(item)
                      \/ queue # <<>> /\ queue' = Tail(queue) /\ dropped'
  <1>0. SaveRequest \in Requests /\ StopRequest \in Requests /\ Flushers \subseteq Requests
    BY DEF Requests
  <1>1. ASSUME NEW a, NEW item \in Requests, NEW then, NEW otherwise, Offers(a, item, then, otherwise),
               item # StopRequest, item \in Dictated => step[item] = "flush"
        PROVE  Kinds
    BY <1>1, FullIsNotEmpty DEF Offers, Put
  <1>2. ASSUME NEW d \in Dictated, Enqueues(d) \/ EnqueuesAgain(d) PROVE Kinds
    <2>1. SaveRequest \notin Dictated
      OBVIOUS
    <2> QED
      BY <1>0, <1>1, <1>2, <2>1 DEF Enqueues, EnqueuesAgain, Put
  <1>3. ASSUME NEW a \in Flushers, Flushes(a) PROVE Kinds
    BY <1>0, <1>1, <1>3 DEF Flushes, HasTo
  <1>4. ASSUME NEW a \in Flushers, FlushesAgain(a) PROVE Kinds
    <2>1. step[a] = "reflush"
      BY <1>4 DEF FlushesAgain, HasTo
    <2>2. queue' = queue \/ (HasRoom /\ queue' = Append(queue, a))
      BY <1>4 DEF FlushesAgain
    <2>3. a \in Requests /\ a # StopRequest
      BY <1>0
    <2> QED
      BY <2>1, <2>2, <2>3, Zenon DEF Put
  <1>5. ASSUME Stops PROVE Kinds
    <2>1. StopRequest \notin Dictated
      OBVIOUS
    <2> QED
      BY <1>0, <1>5, <2>1 DEF Stops, Put
  <1>6. ASSUME ~SaverTakes PROVE Kinds
    <2>1. UNCHANGED queue \/ Kinds
      BY <1>2, <1>3, <1>4, <1>5, <1>6
      DEF StoreNext, storeVars, Adds, Pastes, FlushReturns, SaveBegins, SaveEnds, QuitBegins,
          JoinsSaver, AtExit, Flags, Quits
    <2> QED
      BY <2>1
  <1>7. CASE SaverTakes
    BY <1>7 DEF SaverTakes
  <1> QED
    BY <1>6, <1>7

(* The saver moves by itself.                                                *)
LEMMA SaverMoves ==
  ASSUME Places, [StoreNext]_storeVars, ~Crash
  PROVE  step'[Saver] = step[Saver] \/ SaverTakes \/ SaveBegins(Saver) \/ SaveEnds(Saver)
  <1> USE ActorsAre
  <1>1. ASSUME NEW a \in Actors, NEW where, Goes(a, where), a # Saver PROVE step'[Saver] = step[Saver]
    BY <1>1, Movers
  <1>2. ASSUME NEW d \in Dictated, Adds(d) \/ Enqueues(d) \/ EnqueuesAgain(d) \/ Pastes(d)
        PROVE  step'[Saver] = step[Saver]
    BY <1>1, <1>2 DEF Adds, Enqueues, EnqueuesAgain, Pastes, Offers
  <1>3. ASSUME NEW a \in Flushers, Flushes(a) \/ FlushesAgain(a) \/ FlushReturns(a)
        PROVE  step'[Saver] = step[Saver]
    BY <1>1, <1>3 DEF Flushes, FlushesAgain, FlushReturns, Offers
  <1>4. ASSUME NEW a \in Actors, a # Saver, SaveBegins(a) \/ SaveEnds(a)
        PROVE  step'[Saver] = step[Saver]
    BY <1>1, <1>4 DEF SaveBegins, SaveBeginsWith, SaveEnds
  <1>5. ASSUME QuitBegins \/ Stops \/ JoinsSaver \/ AtExit \/ Flags \/ Quits
        PROVE  step'[Saver] = step[Saver]
    BY <1>1, <1>5 DEF QuitBegins, Stops, JoinsSaver, AtExit, Flags, Quits
  <1>6. CASE UNCHANGED storeVars
    BY <1>6 DEF storeVars
  <1> QED
    BY <1>2, <1>3, <1>4, <1>5, <1>6 DEF StoreNext

(* After the stop the saver takes nothing new.                               *)
LEMMA SaverStays ==
  ASSUME Places, [StoreNext]_storeVars, ~Crash, stopped, step'[Saver] = "get"
  PROVE  step[Saver] = "get" /\ ~SaverTakes
  <1>1. After(Saver) = "gone"
    BY DEF After
  <1>2. ASSUME NEW where, Goes(Saver, where), where # "get" PROVE FALSE
    BY <1>2, Movers, ActorsAre
  <1>3. ~SaverTakes
    BY <1>1, <1>2 DEF SaverTakes
  <1>4. ~SaveBegins(Saver) /\ ~SaveEnds(Saver)
    BY <1>1, <1>2 DEF SaveBegins, SaveBeginsWith, SaveEnds
  <1> QED
    BY <1>3, <1>4, SaverMoves

(* Nobody takes the stop back.                                               *)
LEMMA StoppedStays ==
  ASSUME Marks, [StoreNext]_storeVars, ~Crash
  PROVE  (stopped => stopped') /\ (stopped' => stopped \/ Stops) /\ (dropped => dropped')
  <1>1. ASSUME NEW d \in Dictated, Adds(d) \/ Enqueues(d) \/ EnqueuesAgain(d) \/ Pastes(d)
        PROVE  UNCHANGED stopped /\ (dropped => dropped')
    BY <1>1 DEF Marks, Adds, Enqueues, EnqueuesAgain, Pastes, Offers, memory
  <1>2. ASSUME NEW a \in Flushers, Flushes(a) \/ FlushesAgain(a) \/ FlushReturns(a)
        PROVE  UNCHANGED stopped /\ (dropped => dropped')
    BY <1>2 DEF Marks, Flushes, FlushesAgain, FlushReturns, Offers, memory
  <1>3. ASSUME NEW a \in Actors, SaveBegins(a) \/ SaveEnds(a)
        PROVE  UNCHANGED <<stopped, dropped>>
    BY <1>3 DEF SaveBegins, SaveEnds, memory
  <1>4. CASE SaverTakes \/ QuitBegins \/ JoinsSaver \/ AtExit \/ Flags \/ Quits \/ UNCHANGED storeVars
    BY <1>4 DEF SaverTakes, QuitBegins, JoinsSaver, AtExit, Flags, Quits, storeVars, memory
  <1>5. CASE Stops
    BY <1>5, Zenon DEF Stops
  <1> QED
    BY <1>1, <1>2, <1>3, <1>4, <1>5 DEF StoreNext

LEMMA ExitOrderStep ==
  ASSUME Lines, Places, Marks, ExitOrder, [StoreNext]_storeVars
  PROVE  ExitOrder'
  <1> USE ActorsAre DEF Places
  <1>1. CASE Crash
    <2>1. /\ queue' = <<>> /\ ~stopped' /\ ~final' /\ phase' = [phase EXCEPT ![Quitter] = "add"]
          /\ \A a \in Actors : step'[a] \in {"idle", "over"} \/ (a = Saver /\ step'[a] = "get")
      BY <1>1 DEF Crash
    <2>2. Len(queue') = 0
      BY <2>1
    <2> QED
      BY <2>1, <2>2 DEF ExitOrder
  <1> SUFFICES ASSUME ~Crash PROVE ExitOrder'
    BY <1>1
  <1>2. (stopped => stopped') /\ (stopped' => stopped \/ Stops) /\ (dropped => dropped')
    BY StoppedStays
  (* Each of the parts. *)
  <1>3. ~dropped' /\ stopped' /\ step'[Saver] = "get" => queue' # <<>>
    <2> SUFFICES ASSUME ~dropped', stopped', step'[Saver] = "get" PROVE queue' # <<>>
      OBVIOUS
    <2>1. CASE stopped
      <3>1. step[Saver] = "get" /\ ~SaverTakes /\ queue # <<>>
        BY <1>2, <2>1, SaverStays DEF ExitOrder
      <3>2. ASSUME NEW item \in Requests, HasRoom, queue' = Append(queue, item) PROVE queue' # <<>>
        BY <3>2 DEF Lines
      <3> QED
        BY <3>1, <3>2, QueueKinds DEF Put
    <2>2. CASE Stops
      <3>1. CASE HasRoom
        BY <2>2, <3>1 DEF Stops, Lines
      <3>2. CASE ~HasRoom
        BY <2>2, <3>2, FullIsNotEmpty DEF Stops
      <3> QED
        BY <3>1, <3>2
    <2> QED
      BY <1>2, <2>1, <2>2
  <1>4. \A i \in 1 .. Len(queue') : queue'[i] = StopRequest => stopped'
    <2>1. CASE queue' = queue
      BY <1>2, <2>1 DEF ExitOrder
    <2>2. ASSUME NEW item \in Requests, Put(item)
          PROVE  \A i \in 1 .. Len(queue') : queue'[i] = StopRequest => stopped'
      <3>1. /\ Len(queue') = Len(queue) + 1 /\ queue'[Len(queue) + 1] = item
            /\ \A i \in 1 .. Len(queue) : queue'[i] = queue[i]
        BY <2>2, QueueAppend DEF Put
      <3>2. Len(queue) \in Nat
        BY DEF Lines
      <3>3. \A i \in 1 .. Len(queue) + 1 : i \in 1 .. Len(queue) \/ i = Len(queue) + 1
        BY <3>2
      <3> QED
        BY <1>2, <2>2, <3>1, <3>3 DEF ExitOrder, Put
    <2>3. CASE queue # <<>> /\ queue' = Tail(queue)
      <3>1. /\ Len(queue') = Len(queue) - 1 /\ Len(queue) >= 1
            /\ \A i \in 1 .. Len(queue) - 1 : queue'[i] = queue[i + 1]
        BY <2>3, QueueTail
      <3>2. Len(queue) \in Nat
        BY DEF Lines
      <3>3. \A i \in 1 .. Len(queue) - 1 : i + 1 \in 1 .. Len(queue)
        BY <3>2
      <3> QED
        BY <1>2, <3>1, <3>3 DEF ExitOrder
    <2> QED
      BY <2>1, <2>2, <2>3, QueueKinds
  <1> DEFINE SaverIsNotGone == step[Saver] = "gone" => stopped
             FinalIsLate == final => stopped
             ExitSaves == \A a \in Flushers : step[a] \in {"save", "write", "join", "flag"} => stopped
             ExitPhases == phase[Quitter] \in {"shutdown", "atexit"} => stopped
             Phases == \A d \in Dictated : phase[d] \in {"add", "mark"}
             Retries == \A a \in Actors : step[a] \in {"retry", "reflush"} => dropped
             Rest == SaverIsNotGone /\ FinalIsLate /\ ExitSaves /\ ExitPhases /\ Phases /\ Retries
  <1>5. ASSUME NEW a \in Actors, NEW where, Goes(a, where), UNCHANGED phase,
               final' => final \/ stopped',
               a = Saver /\ where = "gone" => stopped',
               a \in Flushers /\ where \in {"save", "write", "join", "flag"} => stopped',
               where \in {"retry", "reflush"} => dropped'
        PROVE  Rest'
    <2>1. step'[a] = where /\ \A z \in Actors : z # a => step'[z] = step[z]
      BY <1>5, Movers
    <2>2. SaverIsNotGone' /\ Retries'
      BY <1>2, <1>5, <2>1 DEF ExitOrder
    <2>3. FinalIsLate' /\ ExitPhases' /\ Phases'
      BY <1>2, <1>5 DEF ExitOrder
    <2>4. ExitSaves'
      BY <1>2, <1>5, <2>1 DEF ExitOrder
    <2> QED
      BY <2>2, <2>3, <2>4
  <1>6. ASSUME NEW b \in Flushers, NEW to, phase' = [phase EXCEPT ![b] = to],
               b # Quitter => to = "mark", b = Quitter /\ to \in {"shutdown", "atexit"} => stopped',
               NEW a \in Flushers, NEW where, Goes(a, where), final' => final \/ stopped',
               where \in {"save", "write", "join", "flag"} => stopped',
               where \notin {"retry", "reflush"}
        PROVE  Rest'
    <2>1. step'[a] = where /\ \A z \in Actors : z # a => step'[z] = step[z]
      BY <1>6, Movers
    <2>2. SaverIsNotGone' /\ Retries'
      BY <1>2, <1>6, <2>1 DEF ExitOrder
    <2>3. FinalIsLate' /\ ExitPhases' /\ Phases'
      BY <1>2, <1>6 DEF ExitOrder
    <2>4. ExitSaves'
      BY <1>2, <1>6, <2>1 DEF ExitOrder
    <2> QED
      BY <2>2, <2>3, <2>4
  <1> HIDE DEF Rest
  <1>7. ASSUME NEW d \in Dictated, Adds(d) \/ EnqueuesAgain(d) PROVE Rest'
    <2>1. \E where \in {"enqueue", "flush", "over"} : Goes(d, where)
      BY <1>7 DEF Adds, EnqueuesAgain, After
    <2>2. UNCHANGED <<phase, final>>
      BY <1>7 DEF Adds, EnqueuesAgain, memory
    <2> QED
      BY <1>5, <2>1, <2>2
  <1>8. ASSUME NEW d \in Dictated, Enqueues(d) PROVE Rest'
    <2>1. CASE stopped
      <3>1. Goes(d, "save") /\ UNCHANGED phase /\ ~final'
        BY <1>8, <2>1 DEF Enqueues, FinalOnAdd
      <3> QED
        BY <1>2, <1>5, <2>1, <3>1
    <2>2. CASE ~stopped
      <3>1. UNCHANGED <<phase, final>>
        BY <1>8, <2>2 DEF Enqueues
      <3>2. \/ \E where \in {"flush", "over"} : Goes(d, where)
            \/ Goes(d, "retry") /\ dropped'
        BY <1>8, <2>2 DEF Enqueues, Offers, After
      <3> QED
        BY <1>5, <3>1, <3>2
    <2> QED
      BY <2>1, <2>2
  <1>9. ASSUME NEW d \in Dictated, Pastes(d) PROVE Rest'
    <2>1. phase' = [phase EXCEPT ![d] = "mark"] /\ UNCHANGED final
      BY <1>9 DEF Pastes
    <2>2. \E where \in {"over", "enqueue"} : Goes(d, where)
      BY <1>9 DEF Pastes
    <2> QED
      BY <1>6, <2>1, <2>2
  <1>10. ASSUME NEW a \in Flushers, Flushes(a) \/ FlushesAgain(a) \/ FlushReturns(a) PROVE Rest'
    <2>1. UNCHANGED <<phase, final>>
      BY <1>10 DEF Flushes, FlushesAgain, FlushReturns, memory
    <2>2. \/ \E where \in {"wait", "paste", "ended", "stop"} : Goes(a, where)
          \/ Goes(a, "reflush") /\ dropped'
      BY <1>10 DEF Flushes, FlushesAgain, FlushReturns, Offers, Gives
    <2> QED
      BY <1>5, <2>1, <2>2
  <1>11. \A a \in Flushers : After(a) \in {"idle", "flag", "flush", "over"}
    BY DEF After
  <1>12. After(Saver) = IF stopped THEN "gone" ELSE "get"
    BY DEF After
  <1>13. ASSUME NEW a \in Actors, SaveBegins(a) PROVE Rest'
    <2>1. /\ UNCHANGED <<phase, final>> /\ step[a] = "save"
          /\ Goes(a, After(a)) \/ Goes(a, "write")
      BY <1>13 DEF SaveBegins, SaveBeginsWith, HasTo, memory
    <2>2. a = Saver \/ (a \in Flushers /\ stopped)
      BY <2>1 DEF ExitOrder
    <2>3. CASE Goes(a, "write")
      BY <1>2, <1>5, <2>1, <2>2, <2>3
    <2>4. CASE Goes(a, After(a)) /\ a = Saver
      BY <1>2, <1>5, <1>12, <2>1, <2>4
    <2>5. CASE Goes(a, After(a)) /\ a \in Flushers /\ stopped
      BY <1>2, <1>5, <1>11, <2>1, <2>5
    <2> QED
      BY <2>1, <2>2, <2>3, <2>4, <2>5
  <1>14. ASSUME NEW a \in Actors, SaveEnds(a) PROVE Rest'
    <2>1. UNCHANGED phase /\ step[a] = "write" /\ Goes(a, After(a))
      BY <1>14, Zenon DEF SaveEnds, HasTo
    <2>2. final' => final \/ Finally(a)
      <3>1. final' = (final \/ Finally(a)) \/ UNCHANGED <<disk, final>>
        BY <1>14, Zenon DEF SaveEnds
      <3> QED
        BY <3>1
    <2>3. a = Saver \/ stopped
      BY <2>1 DEF ExitOrder
    <2>4. Finally(a) => stopped
      BY <2>3 DEF Finally
    <2> QED
      BY <1>2, <1>5, <1>11, <1>12, <2>1, <2>2, <2>3, <2>4
  <1>15. ASSUME SaverTakes PROVE Rest'
    <2>1. UNCHANGED <<phase, final>>
      BY <1>15 DEF SaverTakes
    <2>2. Head(queue) = StopRequest => stopped
      <3>1. queue # <<>>
        BY <1>15 DEF SaverTakes
      <3>2. Len(queue) >= 1 /\ Head(queue) = queue[1] /\ Len(queue) \in Nat
        BY <3>1, QueueTail DEF Lines
      <3> QED
        BY <3>2 DEF ExitOrder
    <2>3. \/ Goes(Saver, "save") \/ Goes(Saver, "get")
          \/ Goes(Saver, "gone") /\ stopped
      BY <1>12, <1>15, <2>2 DEF SaverTakes
    <2> QED
      BY <1>2, <1>5, <2>1, <2>3
  <1>16. ASSUME QuitBegins PROVE Rest'
    <2>1. Goes(Quitter, "flush") /\ UNCHANGED final
          /\ \E to \in {"flush", "fast"} : phase' = [phase EXCEPT ![Quitter] = to]
      BY <1>16 DEF QuitBegins, memory
    <2> QED
      BY <1>6, <2>1
  <1>17. ASSUME Stops PROVE Rest'
    BY <1>5, <1>17 DEF Stops
  <1>18. ASSUME JoinsSaver PROVE Rest'
    <2>1. stopped /\ Goes(Quitter, "save") /\ UNCHANGED final /\ phase' = [phase EXCEPT ![Quitter] = "shutdown"]
      BY <1>18 DEF JoinsSaver, ExitOrder, memory
    <2> QED
      BY <1>2, <1>6, <2>1
  <1>19. ASSUME AtExit PROVE Rest'
    <2>1. stopped /\ Goes(Quitter, "save") /\ UNCHANGED final /\ phase' = [phase EXCEPT ![Quitter] = "atexit"]
      BY <1>19 DEF AtExit, ExitOrder, memory
    <2> QED
      BY <1>2, <1>6, <2>1
  <1>20. ASSUME Flags PROVE Rest'
    <2>1. stopped /\ Goes(Quitter, "idle") /\ phase' = [phase EXCEPT ![Quitter] = "flush"]
      BY <1>20 DEF Flags, ExitOrder
    <2> QED
      BY <1>2, <1>6, <2>1
  <1>21. ASSUME Quits PROVE Rest'
    <2>1. Goes(Quitter, "ended") /\ UNCHANGED <<phase, final>>
      BY <1>21 DEF Quits, memory
    <2> QED
      BY <1>5, <2>1
  <1>22. ASSUME UNCHANGED storeVars PROVE Rest'
    BY <1>22 DEF storeVars, memory, ExitOrder, Rest
  <1>23. Rest'
    BY <1>7, <1>8, <1>9, <1>10, <1>13, <1>14, <1>15, <1>16, <1>17, <1>18, <1>19, <1>20, <1>21, <1>22
    DEF StoreNext
  <1> QED
    BY <1>3, <1>4, <1>23 DEF ExitOrder, Rest

(* A save of the text is under way, or was made.                             *)
HasBegun(d) ==
    Tried(d) \/ step[Saver] = "save" \/ (step[Saver] = "write" /\ d \in Kept(image[Saver]))

LEMMA BegunStays ==
  ASSUME Lists, Places, Marks, WritersLock, KeepsGrow, [StoreNext]_storeVars, ~Crash, ~final,
         NEW d \in Dictated, d \in Kept(entries), HasBegun(d)
  PROVE  HasBegun(d)'
  <1> USE ActorsAre
  <1>1. d \in Kept(entries')
    BY KeptStays
  <1>2. CASE Tried(d)
    BY <1>2, TriedStays DEF HasBegun
  <1>3. CASE step[Saver] = "save"
    <2>1. ~SaverTakes /\ ~SaveEnds(Saver)
      BY <1>3 DEF SaverTakes, SaveEnds, HasTo
    <2>2. CASE SaveBegins(Saver)
      <3>1. Goes(Saver, "write") /\ image' = [image EXCEPT ![Saver] = entries]
        BY <2>2 DEF SaveBegins, SaveBeginsWith
      <3>2. step'[Saver] = "write" /\ image'[Saver] = entries
        BY <3>1, Movers DEF Lists
      <3> QED
        BY <3>2 DEF HasBegun
    <2>3. CASE step'[Saver] = step[Saver]
      BY <1>3, <2>3 DEF HasBegun
    <2> QED
      BY <2>1, <2>2, <2>3, SaverMoves
  <1>4. CASE step[Saver] = "write" /\ d \in Kept(image[Saver])
    <2>1. ~SaverTakes /\ ~SaveBegins(Saver) /\ holder = Saver
      BY <1>4 DEF SaverTakes, SaveBegins, HasTo, WritersLock
    <2>2. CASE SaveEnds(Saver)
      <3>1. holder' = Free /\ ((disk' = image[Saver] /\ failed' = FALSE) \/ failed' = TRUE)
        BY <2>2 DEF SaveEnds
      <3> QED
        BY <1>1, <1>4, <3>1 DEF HasBegun, Tried
    <2>3. CASE step'[Saver] = step[Saver]
      <3>1. \A a \in Actors : ~CopyIsMade(a) /\ ~CopyIsWritten(a)
        BY <1>4, <2>1, <2>3 DEF CopyIsMade, CopyIsWritten, After
      <3>2. UNCHANGED image
        BY <3>1, ListKinds DEF ListGrows
      <3> QED
        BY <1>4, <2>3, <3>2 DEF HasBegun
    <2> QED
      BY <2>1, <2>2, <2>3, SaverMoves
  <1> QED
    BY <1>2, <1>3, <1>4 DEF HasBegun

(* Only the addition of a text leads to its flush while the thread runs.     *)
LEMMA FlushFollowsRequest ==
  ASSUME Places, Marks, ExitOrder, [StoreNext]_storeVars, ~Crash, ~stopped, ~dropped',
         NEW d \in Dictated, step'[d] = "flush"
  PROVE  step[d] = "flush" \/ (HasRoom /\ queue' = Append(queue, SaveRequest))
  <1> USE ActorsAre
  <1>1. ~dropped
    BY StoppedStays
  <1>2. ASSUME NEW a \in Actors, NEW where, Goes(a, where), where # "flush" \/ a # d
        PROVE  step[d] = "flush"
    BY <1>2, Movers
  <1>3. ASSUME NEW a \in Dictated, Adds(a) \/ Pastes(a) PROVE step[d] = "flush"
    BY <1>2, <1>3 DEF Adds, Pastes
  <1>4. ASSUME NEW a \in Dictated, Enqueues(a)
        PROVE  step[d] = "flush" \/ (HasRoom /\ queue' = Append(queue, SaveRequest))
    BY <1>2, <1>4 DEF Enqueues, Offers
  <1>5. ASSUME NEW a \in Dictated, EnqueuesAgain(a) PROVE step[d] = "flush"
    BY <1>1, <1>5 DEF EnqueuesAgain, HasTo, ExitOrder
  <1>6. ASSUME NEW a \in Flushers, Flushes(a) \/ FlushesAgain(a) \/ FlushReturns(a) PROVE step[d] = "flush"
    <2>1. \E where \in {"wait", "reflush", "paste", "ended", "stop"} : Goes(a, where)
      BY <1>6 DEF Flushes, FlushesAgain, FlushReturns, Offers, Gives
    <2> QED
      BY <1>2, <2>1
  <1>7. ASSUME NEW a \in Actors, SaveBegins(a) \/ SaveEnds(a) PROVE step[d] = "flush"
    <2>1. a \notin Flushers /\ \E where : Goes(a, where)
      BY <1>7 DEF SaveBegins, SaveBeginsWith, SaveEnds, HasTo, ExitOrder
    <2> QED
      BY <1>2, <2>1
  <1>8. ASSUME SaverTakes \/ QuitBegins \/ Stops \/ JoinsSaver \/ AtExit \/ Flags \/ Quits
        PROVE  step[d] = "flush"
    <2>1. \E a \in {Saver, Quitter} : \E where : Goes(a, where)
      BY <1>8 DEF SaverTakes, QuitBegins, Stops, JoinsSaver, AtExit, Flags, Quits
    <2> QED
      BY <1>2, <2>1
  <1>9. CASE UNCHANGED storeVars
    BY <1>9 DEF storeVars
  <1> QED
    BY <1>3, <1>4, <1>5, <1>6, <1>7, <1>8, <1>9 DEF StoreNext

(* While the thread runs what was covered stays covered, at its new place.   *)
LEMMA CoverMoves ==
  ASSUME Lists, Lines, Places, Marks, WritersLock, KeepsGrow, ExitOrder, [StoreNext]_storeVars,
         ~Crash, ~stopped, NEW d \in Dictated, d \in Kept(entries),
         NEW k \in 1 .. Len(queue) + 1, Covered(d, k)
  PROVE  /\ queue' = queue => Covered(d, k)'
         /\ (\E item \in Requests : Put(item)) => Covered(d, k)' /\ Covered(d, k + 1)'
         /\ SaverTakes /\ k # 1 => Covered(d, k - 1)'
  <1>1. ~final
    BY DEF ExitOrder
  <1>2. Len(queue) \in Nat
    BY DEF Lines
  <1>3. CASE HasBegun(d)
    BY <1>1, <1>3, BegunStays DEF HasBegun, Covered
  <1>4. CASE Asks(k)
    <2>1. PICK j \in 1 .. Len(queue) : j < k /\ queue[j] = SaveRequest
      BY <1>4 DEF Asks
    <2>2. ASSUME queue' = queue PROVE Asks(k)'
      BY <1>4, <2>2 DEF Asks
    <2>3. ASSUME NEW item \in Requests, Put(item) PROVE Asks(k)' /\ Asks(k + 1)'
      <3>1. Len(queue') = Len(queue) + 1 /\ queue'[j] = SaveRequest
        BY <2>1, <2>3, QueueAppend DEF Put
      <3> QED
        BY <1>2, <2>1, <3>1 DEF Asks
    <2>4. ASSUME SaverTakes, k # 1 PROVE Asks(k - 1)' \/ step'[Saver] = "save"
      <3>1. queue # <<>> /\ queue' = Tail(queue)
        BY <2>4 DEF SaverTakes
      <3>2. /\ Len(queue') = Len(queue) - 1 /\ Head(queue) = queue[1]
            /\ \A i \in 1 .. Len(queue) - 1 : queue'[i] = queue[i + 1]
        BY <3>1, QueueTail
      <3>3. CASE j = 1
        <4>1. Goes(Saver, "save")
          BY <2>1, <2>4, <3>2, <3>3 DEF SaverTakes
        <4> QED
          BY <4>1, Movers, ActorsAre
      <3>4. CASE j # 1
        <4>1. j - 1 \in 1 .. Len(queue') /\ j - 1 < k - 1 /\ j = (j - 1) + 1
          BY <1>2, <2>1, <3>2, <3>4
        <4>2. queue'[j - 1] = SaveRequest
          BY <1>2, <2>1, <3>2, <4>1
        <4> QED
          BY <4>1, <4>2 DEF Asks
      <3> QED
        BY <3>3, <3>4
    <2> QED
      BY <2>2, <2>3, <2>4 DEF Covered
  <1> QED
    BY <1>3, <1>4 DEF HasBegun, Covered

LEMMA FlushesComeAfterStep ==
  ASSUME Lists, Lines, Places, Marks, WritersLock, KeepsGrow, Added, ExitOrder, FlushesComeAfter,
         [StoreNext]_storeVars
  PROVE  FlushesComeAfter'
  <1> USE ActorsAre
  <1>1. CASE Crash
    <2>1. queue' = <<>> /\ \A d \in Dictated : step'[d] \in {"idle", "over"}
      BY <1>1 DEF Crash
    <2>2. Len(queue') = 0
      BY <2>1
    <2> QED
      BY <2>1, <2>2 DEF FlushesComeAfter
  <1> SUFFICES ASSUME ~Crash PROVE FlushesComeAfter'
    BY <1>1
  <1>2. Len(queue) \in Nat
    BY DEF Lines
  <1>3. ASSUME NEW item \in Requests, Put(item)
        PROVE  /\ Len(queue') = Len(queue) + 1 /\ queue'[Len(queue) + 1] = item
               /\ \A i \in 1 .. Len(queue) : queue'[i] = queue[i]
    BY <1>3, QueueAppend DEF Put
  <1>4. ASSUME queue # <<>>, queue' = Tail(queue)
        PROVE  /\ Len(queue') = Len(queue) - 1
               /\ \A i \in 1 .. Len(queue) - 1 : queue'[i] = queue[i + 1] /\ i + 1 \in 1 .. Len(queue)
    BY <1>2, <1>4, QueueTail
  (* A flush that is queued was asked for by a dictation that has added. *)
  <1>5. ASSUME NEW i \in 1 .. Len(queue'), NEW d \in Dictated, queue'[i] = d PROVE d \in Kept(entries')
    <2>1. d \in Kept(entries)
      <3>1. CASE queue' = queue
        BY <1>5, <3>1 DEF FlushesComeAfter
      <3>2. ASSUME NEW item \in Requests, Put(item) PROVE d \in Kept(entries)
        <4>1. CASE i = Len(queue) + 1
          BY <1>3, <1>5, <3>2, <4>1 DEF Put, Added
        <4>2. CASE i \in 1 .. Len(queue)
          BY <1>3, <1>5, <3>2, <4>2 DEF FlushesComeAfter
        <4> QED
          BY <1>2, <1>3, <3>2, <4>1, <4>2
      <3>3. CASE queue # <<>> /\ queue' = Tail(queue)
        BY <1>4, <1>5, <3>3 DEF FlushesComeAfter
      <3> QED
        BY <3>1, <3>2, <3>3, QueueKinds
    <2> QED
      BY <2>1, KeptStays
  <1> SUFFICES ASSUME ~dropped'
               PROVE  /\ ~stopped' => \A d \in Dictated : step'[d] = "flush" => Covered(d, Len(queue) + 1)'
                      /\ \A i \in 1 .. Len(queue'), d \in Dictated :
                             queue'[i] = d /\ Serves(i)' => Covered(d, i)'
    BY <1>5 DEF FlushesComeAfter
  <1>6. ~dropped /\ (stopped => stopped') /\ (stopped' => stopped \/ Stops)
    BY StoppedStays
  (* The saver was told to stop: only the item it waits for may matter. *)
  <1>7. CASE stopped
    <2> SUFFICES ASSUME NEW i \in 1 .. Len(queue'), NEW d \in Dictated, queue'[i] = d, Serves(i)'
                 PROVE  Covered(d, i)'
      BY <1>6, <1>7
    <2>1. i = 1 /\ step'[Saver] = "get"
      BY <1>6, <1>7 DEF Serves
    <2>2. step[Saver] = "get" /\ ~SaverTakes
      BY <1>7, <2>1, SaverStays
    <2>3. queue # <<>> /\ 1 \in 1 .. Len(queue)
      <3>1. queue # <<>>
        BY <1>6, <1>7, <2>2 DEF ExitOrder
      <3> QED
        BY <1>2, <3>1, QueueTail
    <2>4. queue[1] = d
      <3>1. CASE queue' = queue
        BY <2>1, <3>1
      <3>2. ASSUME NEW item \in Requests, Put(item) PROVE queue[1] = d
        BY <1>3, <2>1, <2>3, <3>2
      <3> QED
        BY <2>2, <3>1, <3>2, QueueKinds
    <2>5. Covered(d, 1)
      BY <1>6, <2>2, <2>3, <2>4 DEF FlushesComeAfter, Serves
    <2>6. Tried(d)
      <3>1. ~Asks(1)
        BY <1>2 DEF Asks
      <3> QED
        BY <2>2, <2>5, <3>1 DEF Covered
    <2> QED
      BY <2>6, TriedStays DEF Covered
  (* The saver runs. *)
  <1>8. CASE ~stopped
    <2>1. ASSUME NEW i \in 1 .. Len(queue'), NEW d \in Dictated, queue'[i] = d PROVE Covered(d, i)'
      <3>1. CASE queue' = queue /\ ~SaverTakes
        <4>1. i \in 1 .. Len(queue) + 1 /\ d \in Kept(entries) /\ Covered(d, i)
          BY <1>2, <1>6, <1>8, <2>1, <3>1 DEF FlushesComeAfter, Serves
        <4> QED
          BY <1>8, <3>1, <4>1, CoverMoves
      <3>2. ASSUME NEW item \in Requests, Put(item) PROVE Covered(d, i)'
        <4>1. i \in 1 .. Len(queue) + 1
          BY <1>3, <2>1, <3>2
        <4>2. d \in Kept(entries) /\ Covered(d, i)
          <5>1. CASE i = Len(queue) + 1
            <6>1. d = item
              BY <1>3, <2>1, <3>2, <5>1
            <6>2. step[d] = "flush"
              BY <1>6, <3>2, <6>1 DEF Put, ExitOrder
            <6> QED
              BY <1>6, <1>8, <5>1, <6>2 DEF FlushesComeAfter, Added
          <5>2. CASE i \in 1 .. Len(queue)
            BY <1>3, <1>6, <1>8, <2>1, <3>2, <5>2 DEF FlushesComeAfter, Serves
          <5> QED
            BY <1>2, <4>1, <5>1, <5>2
        <4> QED
          BY <1>8, <3>2, <4>1, <4>2, CoverMoves
      <3>3. CASE queue # <<>> /\ queue' = Tail(queue) /\ SaverTakes
        <4>1. i + 1 \in 1 .. Len(queue) /\ queue[i + 1] = d
          BY <1>4, <2>1, <3>3
        <4>2. d \in Kept(entries) /\ Covered(d, i + 1)
          BY <1>6, <1>8, <4>1 DEF FlushesComeAfter, Serves
        <4>3. i + 1 \in 1 .. Len(queue) + 1 /\ i + 1 # 1 /\ (i + 1) - 1 = i
          BY <1>2, <4>1, <2>1, <1>4, <3>3
        <4>4. Covered(d, (i + 1) - 1)'
          BY <1>8, <3>3, <4>2, <4>3, CoverMoves
        <4> QED
          BY <4>3, <4>4
      <3> QED
        BY <3>1, <3>2, <3>3, QueueKinds
    <2>2. ASSUME NEW d \in Dictated, step'[d] = "flush", NEW k \in Nat, k = Len(queue') + 1
          PROVE  Covered(d, k)'
      <3>1. CASE HasRoom /\ queue' = Append(queue, SaveRequest)
        <4>1. Len(queue') = Len(queue) + 1 /\ queue'[Len(queue) + 1] = SaveRequest
          BY <3>1, QueueAppend DEF Requests
        <4>2. Len(queue) + 1 \in 1 .. Len(queue') /\ Len(queue) + 1 < k
          BY <1>2, <2>2, <4>1
        <4> QED
          BY <4>1, <4>2 DEF Covered, Asks
      <3>2. CASE step[d] = "flush"
        <4>1. d \in Kept(entries)
          BY <3>2 DEF Added
        <4>2. PICK l \in 1 .. Len(queue) + 1 : l = Len(queue) + 1
          BY <1>2
        <4>3. Covered(d, l)
          BY <1>6, <1>8, <3>2, <4>2 DEF FlushesComeAfter, Covered, Asks
        <4>4. CASE queue' = queue
          BY <1>8, <2>2, <4>1, <4>2, <4>3, <4>4, CoverMoves
        <4>5. ASSUME NEW item \in Requests, Put(item) PROVE Covered(d, k)'
          <5>1. k = l + 1
            BY <1>2, <1>3, <2>2, <4>2, <4>5
          <5>2. Covered(d, l + 1)'
            BY <1>8, <4>1, <4>3, <4>5, CoverMoves
          <5> QED
            BY <5>1, <5>2
        <4>6. CASE queue # <<>> /\ queue' = Tail(queue) /\ SaverTakes
          <5>1. k = l - 1 /\ l # 1
            BY <1>2, <1>4, <2>2, <4>2, <4>6, QueueTail
          <5>2. Covered(d, l - 1)'
            BY <1>8, <4>1, <4>3, <4>6, <5>1, CoverMoves
          <5> QED
            BY <5>1, <5>2
        <4> QED
          BY <4>4, <4>5, <4>6, QueueKinds
      <3> QED
        BY <1>8, <2>2, <3>1, <3>2, FlushFollowsRequest
    <2>3. \A d \in Dictated : step'[d] = "flush" => Covered(d, Len(queue) + 1)'
      <3>1. Len(queue') + 1 \in Nat
        BY LinesStep DEF Lines
      <3> QED
        BY <2>2, <3>1 DEF Covered, Asks
    <2> QED
      BY <2>1, <2>3
  <1> QED
    BY <1>7, <1>8

(* What is promised in a step was promised before, or is the head.           *)
LEMMA Promises ==
  ASSUME Marks, [StoreNext]_storeVars, ~Crash, NEW d \in Dictated, d \in event' \/ d \in flushed'
  PROVE  d \in event \/ d \in flushed \/ (SaverTakes /\ Head(queue) = d)
  <1>1. CASE UNCHANGED <<event, flushed>>
    BY <1>1
  <1>2. ASSUME NEW a \in Flushers, FlushReturns(a) PROVE d \in event \/ d \in flushed
    BY <1>2 DEF FlushReturns, Answered
  <1>3. CASE SaverTakes
    BY <1>3 DEF SaverTakes
  <1>4. ASSUME NEW a \in Dictated, Adds(a) \/ Enqueues(a) \/ EnqueuesAgain(a) \/ Pastes(a)
        PROVE  UNCHANGED <<event, flushed>>
    BY <1>4 DEF Adds, Enqueues, EnqueuesAgain, Pastes, memory
  <1>5. ASSUME NEW a \in Flushers, Flushes(a) \/ FlushesAgain(a) PROVE UNCHANGED <<event, flushed>>
    BY <1>5 DEF Flushes, FlushesAgain, memory
  <1>6. ASSUME NEW a \in Actors, SaveBegins(a) \/ SaveEnds(a) PROVE UNCHANGED <<event, flushed>>
    BY <1>6 DEF SaveBegins, SaveEnds, memory
  <1>7. ASSUME QuitBegins \/ Stops \/ JoinsSaver \/ AtExit \/ Flags \/ Quits \/ UNCHANGED storeVars
        PROVE  UNCHANGED <<event, flushed>>
    BY <1>7 DEF QuitBegins, Stops, JoinsSaver, AtExit, Flags, Quits, memory, storeVars
  <1> QED
    BY <1>1, <1>2, <1>3, <1>4, <1>5, <1>6, <1>7 DEF StoreNext

LEMMA PromisesKeptStep ==
  ASSUME Lists, Lines, Places, Marks, WritersLock, KeepsGrow, FlushesComeAfter, PromisesKept,
         [StoreNext]_storeVars
  PROVE  PromisesKept'
  <1> USE ActorsAre
  <1> SUFFICES ASSUME ~dropped', NEW d \in Dictated, d \in event' \/ d \in flushed'
               PROVE  Tried(d)'
    BY DEF PromisesKept
  <1>1. CASE Crash
    <2>1. /\ entries' = disk /\ disk' = disk /\ holder' = Free /\ event' = {} /\ ~dropped
          /\ flushed' = IF failed THEN flushed \cap TextsOf(disk) ELSE flushed
      BY <1>1 DEF Crash
    <2>2. d \in flushed /\ (failed => d \in TextsOf(disk))
      BY <2>1
    <2>3. d \in Kept(disk)
      BY <2>1, <2>2 DEF PromisesKept, Tried, Kept
    <2> QED
      BY <2>1, <2>3 DEF Tried
  <1>2. CASE ~Crash
    <2>1. ~dropped
      BY <1>2, StoppedStays
    <2>2. Tried(d)
      <3>1. CASE d \in event \/ d \in flushed
        BY <2>1, <3>1 DEF PromisesKept
      <3>2. CASE SaverTakes /\ Head(queue) = d
        <4>1. step[Saver] = "get" /\ queue # <<>>
          BY <3>2 DEF SaverTakes, HasTo
        <4>2. 1 \in 1 .. Len(queue) /\ queue[1] = d
          BY <3>2, <4>1, QueueTail DEF Lines
        <4>3. Covered(d, 1)
          BY <2>1, <4>1, <4>2 DEF FlushesComeAfter, Serves
        <4>4. ~Asks(1)
          BY DEF Asks
        <4> QED
          BY <4>1, <4>3, <4>4 DEF Covered
      <3> QED
        BY <1>2, <3>1, <3>2, Promises
    <2> QED
      BY <1>2, <2>2, TriedStays
  <1> QED
    BY <1>1, <1>2

(* The inductive invariant, whatever the environment.                        *)
StoreIInv ==
    /\ Lists /\ Lines /\ Places /\ Marks
    /\ WritersLock /\ KeepsGrow /\ Added /\ FlushesComeAfter /\ PromisesKept /\ ExitOrder

LEMMA StoreInvInit == StoreInit => StoreIInv
  <1> SUFFICES ASSUME StoreInit PROVE StoreIInv
    OBVIOUS
  <1> USE ActorsAre, StoreBounds DEF StoreInit
  <1>1. Lists /\ Lines
    <2>1. <<>> \in Seq(Entries) /\ <<>> \in Seq(Requests) /\ Len(<<>>) = 0
      OBVIOUS
    <2>2. image \in [Actors -> Seq(Entries)] /\ \A a \in Actors : image[a] = <<>>
      BY <2>1
    <2> QED
      BY <2>1, <2>2 DEF Lists, Lines
  <1>2. Places
    BY DEF Places, Steps
  <1>3. Marks
    <2>1. event = {} /\ flushed = {} /\ holder = Free /\ left \in 0 .. Troubles
      OBVIOUS
    <2>2. stopped \in BOOLEAN /\ final \in BOOLEAN /\ failed \in BOOLEAN /\ dropped \in BOOLEAN
      BY Zenon
    <2> HIDE DEF StoreInit
    <2> QED
      BY <2>1, <2>2 DEF Marks
  <1>4. WritersLock /\ KeepsGrow /\ Added
    BY DEF WritersLock, KeepsGrow, Added
  <1>5. Len(queue) = 0
    OBVIOUS
  <1>6. FlushesComeAfter /\ PromisesKept
    BY <1>5 DEF FlushesComeAfter, PromisesKept
  <1>7. ExitOrder
    BY <1>5 DEF ExitOrder
  <1> QED
    BY <1>1, <1>2, <1>3, <1>4, <1>6, <1>7 DEF StoreIInv

LEMMA StoreInvStep == StoreIInv /\ [StoreNext]_storeVars => StoreIInv'
  <1> SUFFICES ASSUME StoreIInv, [StoreNext]_storeVars PROVE StoreIInv'
    OBVIOUS
  <1> USE DEF StoreIInv
  <1>1. Lists' /\ Lines' /\ Places' /\ Marks'
    BY ListsStep, LinesStep, PlacesStep, MarksStep
  <1>2. WritersLock' /\ KeepsGrow' /\ Added'
    BY LockStep, KeepsGrowStep, AddedStep
  <1>3. FlushesComeAfter' /\ PromisesKept' /\ ExitOrder'
    BY FlushesComeAfterStep, PromisesKeptStep, ExitOrderStep
  <1> QED
    BY <1>1, <1>2, <1>3

LEMMA StoreInvHolds == StoreSpec => []StoreIInv
  BY StoreInvInit, StoreInvStep, PTL DEF StoreSpec

(* StoreTypeCorrect: no list outgrows Keep and no queue its size, in memory, *)
(* in the file, or in the copy somebody writes, through crashes and an exit. *)
THEOREM StoreTypeCorrect == StoreSpec => []StoreTypeOK
  <1>1. StoreIInv => StoreTypeOK
    BY StoreKinds DEF StoreIInv
  <1> QED
    BY <1>1, StoreInvHolds, PTL

(* FlushedStaysOnDisk: what flush() has promised stays in the file, for any  *)
(* number of dictations and crashes, and even when the exit handlers meet a  *)
(* save.                                                                     *)
THEOREM FlushedStaysOnDisk == StoreSpec => []FlushedIsOnDisk
  <1>1. StoreIInv => FlushedIsOnDisk
    <2> SUFFICES ASSUME StoreIInv, ~failed, ~dropped, NEW d \in flushed
                 PROVE  d \in TextsOf(disk) \/ Len(disk) = Keep
      BY DEF FlushedIsOnDisk
    <2>1. d \in Dictated
      BY DEF StoreIInv, Marks
    <2> QED
      BY <2>1 DEF StoreIInv, PromisesKept, Tried, Kept
  <1> QED
    BY <1>1, StoreInvHolds, PTL

----------------------------------------------------------------------------
(* The transcripts: when all is quiet the file is the list.                  *)

(* Who will make a copy of the list from now on.                             *)
CopyIsDue ==
    \/ \E d \in Dictated : step[d] \in {"enqueue", "save"}
    \/ ~stopped /\ (step[Saver] = "save" \/ \E i \in 1 .. Len(queue) : queue[i] = SaveRequest)
    \/ stopped /\ (step[Quitter] = "join" \/ (step[Quitter] = "save" /\ phase[Quitter] = "shutdown"))
CopyIsNewest ==
    IF holder = Free THEN failed \/ disk = entries ELSE image[holder] = entries
NothingIsMissing == ~dropped => CopyIsDue \/ CopyIsNewest

(* The final mark comes last, and finds nobody about to save in place.       *)
MarkComesLast ==
    final => /\ \/ step[Quitter] \in {"flag", "ended"}
                \/ step[Quitter] = "idle" /\ phase[Quitter] = "flush"
             /\ \A d \in Dictated : step[d] # "save"

(* One actor moves in a step.                                                *)
Acts(a) ==
    \/ a \in Dictated /\ (Adds(a) \/ Enqueues(a) \/ EnqueuesAgain(a) \/ Pastes(a))
    \/ a \in Flushers /\ (Flushes(a) \/ FlushesAgain(a) \/ FlushReturns(a))
    \/ SaveBegins(a) \/ SaveEnds(a)
    \/ a = Saver /\ SaverTakes
    \/ a = Quitter /\ (QuitBegins \/ Stops \/ JoinsSaver \/ AtExit \/ Flags \/ Quits)

LEMMA OneActs ==
  ASSUME Places, [StoreNext]_storeVars, ~Crash, NEW a \in Actors, ~Acts(a)
  PROVE  step'[a] = step[a] /\ (a \in Flushers => phase'[a] = phase[a])
  <1> USE ActorsAre
  <1>1. CASE UNCHANGED storeVars
    BY <1>1 DEF storeVars
  <1>2. CASE StoreNext
    <2>1. PICK b \in Actors : Acts(b)
      BY <1>2 DEF StoreNext, Acts
    <2>2. \E where : Goes(b, where)
      BY <2>1, Zenon
      DEF Acts, Adds, Enqueues, EnqueuesAgain, Pastes, Flushes, FlushesAgain, FlushReturns, Offers,
          SaveBegins, SaveBeginsWith, SaveEnds, SaverTakes, QuitBegins, Stops, JoinsSaver, AtExit, Flags, Quits
    <2>3. phase' = phase \/ \E to : phase' = [phase EXCEPT ![b] = to]
      BY <2>1, Zenon
      DEF Acts, Adds, Enqueues, EnqueuesAgain, Pastes, Flushes, FlushesAgain, FlushReturns,
          SaveBegins, SaveEnds, SaverTakes, QuitBegins, Stops, JoinsSaver, AtExit, Flags, Quits
    <2>4. b # a
      BY <2>1
    <2> QED
      BY <2>2, <2>3, <2>4, Movers DEF Places
  <1> QED
    BY <1>1, <1>2

(* A dictation comes to a save in place only from its own request.           *)
LEMMA SavesInPlace ==
  ASSUME Places, [StoreNext]_storeVars, ~Crash, NEW d \in Dictated, step'[d] = "save"
  PROVE  step[d] = "save" \/ (Enqueues(d) /\ stopped)
  <1> USE ActorsAre
  <1>1. ASSUME NEW where, Goes(d, where), where # "save" PROVE FALSE
    BY <1>1, Movers
  <1>2. After(d) # "save" /\ Gives(d) # "save"
    BY DEF After, Gives
  <1>3. ASSUME Enqueues(d), ~stopped PROVE FALSE
    BY <1>1, <1>2, <1>3 DEF Enqueues, Offers
  <1>4. ~Adds(d) /\ ~EnqueuesAgain(d) /\ ~Pastes(d)
    BY <1>1, <1>2 DEF Adds, EnqueuesAgain, Pastes
  <1>5. ~Flushes(d) /\ ~FlushesAgain(d) /\ ~FlushReturns(d)
    BY <1>1, <1>2 DEF Flushes, FlushesAgain, FlushReturns, Offers
  <1>6. ~SaveBegins(d) /\ ~SaveEnds(d)
    BY <1>1, <1>2 DEF SaveBegins, SaveBeginsWith, SaveEnds
  <1> QED
    BY <1>3, <1>4, <1>5, <1>6, OneActs DEF Acts

(* Only the exit handler sets the final mark, and a late request clears it.  *)
LEMMA FinalKinds ==
  ASSUME Marks, [StoreNext]_storeVars, ~Crash, final'
  PROVE  /\ final \/ Flags \/ (SaveEnds(Quitter) /\ phase[Quitter] = "atexit")
         /\ \A d \in Dictated : Enqueues(d) => ~stopped
  <1>1. \A d \in Dictated : Enqueues(d) => ~stopped
    BY DEF Enqueues, FinalOnAdd
  <1>2. ASSUME NEW d \in Dictated, Adds(d) \/ Enqueues(d) \/ EnqueuesAgain(d) \/ Pastes(d) PROVE final
    BY <1>2, Zenon DEF Adds, Enqueues, EnqueuesAgain, Pastes, FinalOnAdd, memory
  <1>3. ASSUME NEW a \in Flushers, Flushes(a) \/ FlushesAgain(a) \/ FlushReturns(a) PROVE final
    BY <1>3, Zenon DEF Flushes, FlushesAgain, FlushReturns, memory
  <1>4. ASSUME NEW a \in Actors, SaveBegins(a) PROVE final
    BY <1>4, Zenon DEF SaveBegins, memory
  <1>5. ASSUME NEW a \in Actors, SaveEnds(a)
        PROVE  final \/ (SaveEnds(Quitter) /\ phase[Quitter] = "atexit")
    BY <1>5, Zenon DEF SaveEnds, Finally
  <1>6. CASE SaverTakes \/ QuitBegins \/ Stops \/ JoinsSaver \/ AtExit \/ Quits \/ UNCHANGED storeVars
    BY <1>1, <1>6, Zenon DEF SaverTakes, QuitBegins, Stops, JoinsSaver, AtExit, Quits, storeVars, memory
  <1> QED
    BY <1>1, <1>2, <1>3, <1>4, <1>5, <1>6 DEF StoreNext

LEMMA MarkComesLastStep ==
  ASSUME Lines, Places, Marks, ExitOrder, MarkComesLast, [StoreNext]_storeVars, ~ExitRaces
  PROVE  MarkComesLast'
  <1> USE ActorsAre
  <1>1. CASE Crash
    BY <1>1 DEF Crash, MarkComesLast
  <1> SUFFICES ASSUME ~Crash, final' PROVE MarkComesLast'
    BY <1>1 DEF MarkComesLast
  <1> DEFINE ComesLast == \/ step[Quitter] \in {"flag", "ended"}
                          \/ step[Quitter] = "idle" /\ phase[Quitter] = "flush"
  <1>1a. \A d \in Dictated : Enqueues(d) => ~stopped
    BY FinalKinds
  <1>2. CASE Flags
    <2>1. step'[Quitter] = "idle" /\ phase'[Quitter] = "flush" /\ \A d \in Dictated : step[d] # "save"
      BY <1>2, Movers DEF Flags, NobodySavesInPlace, Places
    <2> QED
      BY <1>1a, <2>1, SavesInPlace DEF MarkComesLast
  <1>3. CASE SaveEnds(Quitter) /\ phase[Quitter] = "atexit"
    <2>1. step'[Quitter] = After(Quitter) /\ NobodySavesInPlace
      BY <1>3, Movers DEF SaveEnds, Finally
    <2>2. After(Quitter) = "flag"
      BY <1>3 DEF After
    <2> QED
      BY <1>1a, <2>1, <2>2, SavesInPlace DEF MarkComesLast, NobodySavesInPlace
  <1>4. CASE final /\ ~Flags
    <2>1. ComesLast /\ \A d \in Dictated : step[d] # "save"
      BY <1>4 DEF MarkComesLast
    <2>2. ComesLast'
      <3>1. CASE ~Acts(Quitter)
        BY <2>1, <3>1, OneActs
      <3>2. CASE Acts(Quitter)
        <4>1. ~Flushes(Quitter) /\ ~FlushesAgain(Quitter) /\ ~FlushReturns(Quitter)
          BY <2>1 DEF Flushes, FlushesAgain, FlushReturns, HasTo
        <4>2. ~SaveBegins(Quitter) /\ ~SaveEnds(Quitter)
          BY <2>1 DEF SaveBegins, SaveEnds, HasTo
        <4>3. ~QuitBegins /\ ~Stops /\ ~JoinsSaver /\ ~AtExit
          BY <2>1 DEF QuitBegins, Stops, JoinsSaver, AtExit
        <4>4. Quits
          BY <1>4, <3>2, <4>1, <4>2, <4>3 DEF Acts
        <4> QED
          BY <4>4, Movers DEF Quits
      <3> QED
        BY <3>1, <3>2
    <2> QED
      BY <1>1a, <2>1, <2>2, SavesInPlace DEF MarkComesLast
  <1> QED
    BY <1>2, <1>3, <1>4, FinalKinds

(* Every change of the list is followed by a request.                        *)
LEMMA ChangesAreFollowed ==
  ASSUME Places, [StoreNext]_storeVars, ~Crash, entries' # entries
  PROVE  \E d \in Dictated : step'[d] = "enqueue"
  <1> USE ActorsAre
  <1>1. ASSUME NEW d \in Dictated, Adds(d) \/ Pastes(d) PROVE step'[d] = "enqueue"
    BY <1>1, Movers DEF Adds, Pastes
  <1>2. ASSUME NEW d \in Dictated, Enqueues(d) \/ EnqueuesAgain(d) PROVE FALSE
    BY <1>2 DEF Enqueues, EnqueuesAgain, memory
  <1>3. ASSUME NEW a \in Flushers, Flushes(a) \/ FlushesAgain(a) \/ FlushReturns(a) PROVE FALSE
    BY <1>3 DEF Flushes, FlushesAgain, FlushReturns, memory
  <1>4. ASSUME NEW a \in Actors, SaveBegins(a) \/ SaveEnds(a) PROVE FALSE
    BY <1>4 DEF SaveBegins, SaveEnds, memory
  <1>5. ASSUME SaverTakes \/ QuitBegins \/ Stops \/ JoinsSaver \/ AtExit \/ Flags \/ Quits \/ UNCHANGED storeVars
        PROVE  FALSE
    BY <1>5 DEF SaverTakes, QuitBegins, Stops, JoinsSaver, AtExit, Flags, Quits, storeVars, memory
  <1> QED
    BY <1>1, <1>2, <1>3, <1>4, <1>5 DEF StoreNext

LEMMA NewestStays ==
  ASSUME Lists, Places, Marks, WritersLock, CopyIsNewest, [StoreNext]_storeVars
  PROVE  CopyIsNewest' \/ CopyIsDue'
  <1> USE ActorsAre
  <1>1. CASE Crash
    BY <1>1 DEF Crash, CopyIsNewest
  <1>2. CASE ~Crash /\ entries' # entries
    BY <1>2, ChangesAreFollowed DEF CopyIsDue
  <1>3. CASE ~Crash /\ entries' = entries
    <2>1. CASE ListGrows
      BY <1>3, <2>1 DEF ListGrows, CopyIsNewest
    <2>2. ASSUME NEW a \in Actors, CopyIsMade(a) PROVE CopyIsNewest'
      BY <2>2 DEF CopyIsMade, CopyIsNewest, Lists
    <2>3. ASSUME NEW a \in Actors, CopyIsWritten(a) PROVE CopyIsNewest'
      BY <2>3 DEF CopyIsWritten, CopyIsNewest
    <2> QED
      BY <1>3, <2>1, <2>2, <2>3, ListKinds
  <1> QED
    BY <1>1, <1>2, <1>3

(* Who begins a save before the final mark takes the newest list.            *)
LEMMA BeginningIsNewest ==
  ASSUME Lists, Marks, NEW a \in Actors, SaveBegins(a), ~final
  PROVE  CopyIsNewest'
  <1>1. holder' = a /\ image' = [image EXCEPT ![a] = entries] /\ entries' = entries
    BY DEF SaveBegins, SaveBeginsWith, memory
  <1> QED
    BY <1>1, ActorsAre DEF CopyIsNewest, Lists

LEMMA DueStays ==
  ASSUME Lists, Lines, Places, Marks, ExitOrder, MarkComesLast, CopyIsDue, ~dropped',
         [StoreNext]_storeVars, ~Crash
  PROVE  CopyIsNewest' \/ CopyIsDue'
  <1> USE ActorsAre
  <1>1. ~dropped /\ (stopped => stopped') /\ (stopped' => stopped \/ Stops)
    BY StoppedStays
  <1>2. Stops => step'[Quitter] = "join" /\ stopped'
    BY Movers DEF Stops
  <1>3. ASSUME NEW d \in Dictated, step[d] = "enqueue" PROVE CopyIsDue'
    <2>1. CASE ~Acts(d)
      BY <1>3, <2>1, OneActs DEF CopyIsDue
    <2>2. CASE Enqueues(d) /\ stopped
      <3>1. step'[d] = "save"
        BY <2>2, Movers DEF Enqueues
      <3> QED
        BY <3>1 DEF CopyIsDue
    <2>3. CASE Enqueues(d) /\ ~stopped
      <3>1. HasRoom /\ queue' = Append(queue, SaveRequest) /\ ~stopped'
        BY <2>3 DEF Enqueues, Offers
      <3>2. Len(queue') = Len(queue) + 1 /\ queue'[Len(queue) + 1] = SaveRequest /\ Len(queue) \in Nat
        BY <3>1, QueueAppend DEF Requests, Lines
      <3>3. Len(queue) + 1 \in 1 .. Len(queue')
        BY <3>2
      <3> QED
        BY <3>1, <3>2, <3>3 DEF CopyIsDue
    <2> QED
      BY <1>3, <2>1, <2>2, <2>3
      DEF Acts, Adds, EnqueuesAgain, Pastes, Flushes, FlushesAgain, FlushReturns, SaveBegins,
         SaveEnds, HasTo
  <1>4. ASSUME NEW d \in Dictated, step[d] = "save" PROVE CopyIsNewest' \/ CopyIsDue'
    <2>1. CASE ~Acts(d)
      BY <1>4, <2>1, OneActs DEF CopyIsDue
    <2>2. CASE Acts(d)
      <3>1. SaveBegins(d)
        BY <1>4, <2>2
        DEF Acts, Adds, Enqueues, EnqueuesAgain, Pastes, Flushes, FlushesAgain, FlushReturns,
           SaveEnds, HasTo
      <3>2. ~final
        BY <1>4 DEF MarkComesLast
      <3> QED
        BY <3>1, <3>2, BeginningIsNewest
    <2> QED
      BY <2>1, <2>2
  <1>5. CASE ~stopped /\ step[Saver] = "save"
    <2>1. ~SaverTakes /\ ~SaveEnds(Saver) /\ ~final
      BY <1>5 DEF SaverTakes, SaveEnds, HasTo, ExitOrder
    <2>2. CASE SaveBegins(Saver)
      BY <2>1, <2>2, BeginningIsNewest
    <2>3. CASE step'[Saver] = step[Saver]
      BY <1>1, <1>2, <1>5, <2>3 DEF CopyIsDue
    <2> QED
      BY <2>1, <2>2, <2>3, SaverMoves
  <1>6. ASSUME ~stopped, NEW i \in 1 .. Len(queue), queue[i] = SaveRequest PROVE CopyIsDue'
    <2>1. CASE queue' = queue
      BY <1>1, <1>2, <1>6, <2>1 DEF CopyIsDue
    <2>2. ASSUME NEW item \in Requests, Put(item) PROVE CopyIsDue'
      <3>1. Len(queue') = Len(queue) + 1 /\ queue'[i] = SaveRequest /\ Len(queue) \in Nat
        BY <1>6, <2>2, QueueAppend DEF Put, Lines
      <3>2. i \in 1 .. Len(queue')
        BY <3>1
      <3> QED
        BY <1>1, <1>2, <1>6, <3>1, <3>2 DEF CopyIsDue
    <2>3. CASE queue # <<>> /\ queue' = Tail(queue) /\ SaverTakes
      <3>1. /\ Len(queue') = Len(queue) - 1 /\ Head(queue) = queue[1] /\ Len(queue) \in Nat
            /\ \A j \in 1 .. Len(queue) - 1 : queue'[j] = queue[j + 1]
        BY <2>3, QueueTail DEF Lines
      <3>2. ~stopped'
        BY <1>6, <2>3 DEF SaverTakes
      <3>3. CASE i = 1
        <4>1. Goes(Saver, "save")
          BY <1>6, <2>3, <3>1, <3>3 DEF SaverTakes
        <4> QED
          BY <3>2, <4>1, Movers DEF CopyIsDue
      <3>4. CASE i # 1
        <4>1. i - 1 \in 1 .. Len(queue') /\ queue'[i - 1] = SaveRequest
          BY <1>6, <3>1, <3>4
        <4> QED
          BY <3>2, <4>1 DEF CopyIsDue
      <3> QED
        BY <3>3, <3>4
    <2> QED
      BY <2>1, <2>2, <2>3, QueueKinds
  <1>7. CASE stopped /\ step[Quitter] = "join"
    <2>1. CASE ~Acts(Quitter)
      BY <1>1, <1>7, <2>1, OneActs DEF CopyIsDue
    <2>2. CASE Acts(Quitter)
      <3>1. JoinsSaver
        BY <1>7, <2>2
        DEF Acts, Flushes, FlushesAgain, FlushReturns, SaveBegins, SaveEnds, QuitBegins, Stops, AtExit,
            Flags, Quits, HasTo
      <3>2. step'[Quitter] = "save" /\ phase'[Quitter] = "shutdown"
        BY <3>1, Movers DEF JoinsSaver, Places
      <3> QED
        BY <1>1, <1>7, <3>2 DEF CopyIsDue
    <2> QED
      BY <2>1, <2>2
  <1>8. CASE stopped /\ step[Quitter] = "save" /\ phase[Quitter] = "shutdown"
    <2>1. CASE ~Acts(Quitter)
      BY <1>1, <1>8, <2>1, OneActs DEF CopyIsDue
    <2>2. CASE Acts(Quitter)
      <3>1. SaveBegins(Quitter)
        BY <1>8, <2>2
        DEF Acts, Flushes, FlushesAgain, FlushReturns, SaveEnds, QuitBegins, Stops, JoinsSaver, AtExit,
            Flags, Quits, HasTo
      <3>2. ~final
        BY <1>8 DEF MarkComesLast
      <3> QED
        BY <3>1, <3>2, BeginningIsNewest
    <2> QED
      BY <2>1, <2>2
  <1> QED
    BY <1>3, <1>4, <1>5, <1>6, <1>7, <1>8 DEF CopyIsDue

LEMMA NothingIsMissingStep ==
  ASSUME Lists, Lines, Places, Marks, WritersLock, ExitOrder, MarkComesLast, NothingIsMissing,
         [StoreNext]_storeVars
  PROVE  NothingIsMissing'
  <1> SUFFICES ASSUME ~dropped' PROVE CopyIsNewest' \/ CopyIsDue'
    BY DEF NothingIsMissing
  <1>1. CASE Crash
    BY <1>1 DEF Crash, CopyIsNewest
  <1>2. CASE ~Crash
    <2>1. ~dropped
      BY <1>2, StoppedStays
    <2> QED
      BY <1>2, <2>1, NewestStays, DueStays DEF NothingIsMissing
  <1> QED
    BY <1>1, <1>2

QuietIInv == StoreIInv /\ NothingIsMissing /\ MarkComesLast

(* QuietMeansSaved: unless the exit handlers meet a save in place, or a full *)
(* queue has lost an item, the file is the list as soon as nobody is about to*)
(* ask for a save or to make one.                                            *)
THEOREM QuietMeansSaved ==
  ASSUME ~ExitRaces
  PROVE  StoreSpec => [](~dropped => QuietIsSaved)
  <1>1. StoreInit => QuietIInv
    <2> SUFFICES ASSUME StoreInit PROVE NothingIsMissing /\ MarkComesLast
      BY StoreInvInit DEF QuietIInv
    <2> QED
      BY DEF StoreInit, NothingIsMissing, CopyIsNewest, MarkComesLast
  <1>2. QuietIInv /\ [StoreNext]_storeVars => QuietIInv'
    <2> SUFFICES ASSUME QuietIInv, [StoreNext]_storeVars PROVE QuietIInv'
      OBVIOUS
    <2>1. StoreIInv'
      BY StoreInvStep DEF QuietIInv
    <2>2. NothingIsMissing' /\ MarkComesLast'
      BY NothingIsMissingStep, MarkComesLastStep DEF QuietIInv, StoreIInv
    <2> QED
      BY <2>1, <2>2 DEF QuietIInv
  <1>3. QuietIInv => (~dropped => QuietIsSaved)
    <2> SUFFICES ASSUME QuietIInv, ~dropped, ~failed, Quiet PROVE disk = entries
      BY DEF QuietIsSaved
    <2> USE ActorsAre DEF QuietIInv, StoreIInv
    <2>1. ~CopyIsDue
      <3>1. \A i \in 1 .. Len(queue) : step[Saver] = "get" => queue[i] # SaveRequest
        <4> SUFFICES ASSUME step[Saver] = "get", NEW i \in 1 .. Len(queue) PROVE FALSE
          OBVIOUS
        <4>1. queue = <<>> /\ Len(queue) = 0
          BY DEF Quiet
        <4> QED
          BY <4>1
      <3> QED
        BY <3>1 DEF CopyIsDue, Quiet, ExitOrder
    <2>2. holder = Free
      BY DEF WritersLock, Marks, Quiet
    <2> QED
      BY <2>1, <2>2 DEF NothingIsMissing, CopyIsNewest
  <1> QED
    BY <1>1, <1>2, <1>3, PTL DEF StoreSpec

----------------------------------------------------------------------------
(* The history: what was accepted is settled, or still on its way.           *)

InLine(item) == \E i \in 1 .. Len(writes) : writes[i] = item

(* A batch is held only while it is collected and inserted, and what goes    *)
(* back into the queue is an item.                                           *)
BatchInHand ==
    /\ mode \in {"get", "run", "closed", "dead"} => batch = <<>>
    /\ mode = "back" => held # Nothing

(* What has become of a transcription whose caller was told it is queued: it *)
(* is in the queue or in the batch, or it was written or given up knowingly. *)
NothingAcceptedIsLost == \A s \in accepted : s \in settled \/ InLine(s) \/ s \in Collected

(* The thread has left the queue empty; what is in it came too late.         *)
LeftBehind == mode = "closed" => \A s \in Savers : InLine(s) => s \in late

CallStages == {"idle", "put", "drop", "restore", "retry", "wait",
               "sentinel", "refit", "fit", "join", "over"}
QueueTyped  == writes \in Seq(Items) /\ Len(writes) <= WritesLimit
CallsTyped  == call \in [Callers -> CallStages]
FutureTyped == future \in [Waiters -> {"open", "done", "error"}]
WriterTyped ==
    /\ mode \in {"get", "collect", "back", "insert", "run", "closed", "dead"}
    /\ batch \in Seq(Savers) /\ Len(batch) <= BatchCap
    /\ held \in Waiters \cup {Sentinel, Nothing}
    /\ faulted \in 0 .. WriteFaults
FlagsTyped  == closing \in BOOLEAN /\ draining \in BOOLEAN
BooksTyped  == rows \subseteq Savers /\ accepted \subseteq Savers /\ settled \subseteq Savers /\ late \subseteq Savers

HistoryIInv ==
    /\ QueueTyped /\ CallsTyped /\ FutureTyped /\ WriterTyped /\ FlagsTyped /\ BooksTyped
    /\ BatchInHand /\ NothingAcceptedIsLost /\ LeftBehind

LEMMA HistoryBounds ==
  /\ WritesLimit \in Nat \ {0} /\ BatchCap \in Nat \ {0} /\ WriteFaults \in Nat
  /\ Savers \cap Waiters = {} /\ Sentinel \notin Callers /\ Closer \in Waiters /\ Waiters \subseteq Callers
  /\ Nothing \notin Items /\ Savers \subseteq Callers /\ Sentinel \in Items /\ Callers \subseteq Items
  /\ \A item \in Items : item \in Savers \/ item \in Waiters \/ item = Sentinel
  BY HistoryAssumption DEF HistoryConstants, Waiters, Callers, Items, Closer, Sentinel, Nothing

LEMMA WritesAppend ==
  ASSUME QueueTyped, Room, NEW item \in Items, writes' = Append(writes, item)
  PROVE  /\ QueueTyped'
         /\ \A s : InLine(s)' <=> InLine(s) \/ s = item
  <1>1. /\ writes' \in Seq(Items) /\ Len(writes') = Len(writes) + 1 /\ Len(writes) \in Nat
        /\ \A i \in 1 .. Len(writes) : writes'[i] = writes[i]
        /\ writes'[Len(writes) + 1] = item
    BY DEF QueueTyped
  <1>2. QueueTyped'
    BY <1>1, HistoryBounds DEF QueueTyped, Room
  <1>3. \A i : i \in 1 .. Len(writes') <=> i \in 1 .. Len(writes) \/ i = Len(writes) + 1
    BY <1>1
  <1> QED
    BY <1>1, <1>2, <1>3 DEF InLine

LEMMA WritesTail ==
  ASSUME QueueTyped, writes # <<>>, writes' = Tail(writes)
  PROVE  /\ QueueTyped' /\ Head(writes) \in Items /\ InLine(Head(writes))
         /\ \A s : InLine(s)' => InLine(s)
         /\ \A s : InLine(s) => InLine(s)' \/ s = Head(writes)
  <1>1. writes \in Seq(Items) /\ Len(writes) \in Nat
    BY DEF QueueTyped
  <1>2. Len(writes) >= 1
    BY <1>1, EmptySeq
  <1>3. writes' \in Seq(Items) /\ Len(writes') = Len(writes) - 1
    BY <1>1, HeadTailProperties
  <1>4. \A i \in 1 .. Len(writes) - 1 : writes'[i] = writes[i + 1]
    BY <1>1
  <1>5. Head(writes) \in Items /\ Head(writes) = writes[1] /\ 1 \in 1 .. Len(writes)
    BY <1>1, <1>2
  <1>6. QueueTyped'
    BY <1>1, <1>3, HistoryBounds DEF QueueTyped
  <1>7. \A i \in 1 .. Len(writes') : i + 1 \in 1 .. Len(writes) /\ writes'[i] = writes[i + 1]
    BY <1>1, <1>3, <1>4
  <1>8. \A i \in 1 .. Len(writes) : i = 1 \/ (i - 1 \in 1 .. Len(writes') /\ writes'[i - 1] = writes[i])
    BY <1>1, <1>3, <1>4
  <1> QED
    BY <1>5, <1>6, <1>7, <1>8 DEF InLine

LEMMA LineIsEmpty == writes = <<>> => \A s : ~InLine(s)
  <1>1. writes = <<>> => Len(writes) = 0
    OBVIOUS
  <1> QED
    BY <1>1 DEF InLine

(* The steps that leave the batch and the thread alone: what they take out   *)
(* of the queue they settle.                                                 *)
LEMMA WayIsKept ==
  ASSUME HistoryIInv, UNCHANGED <<mode, batch>>,
         \A s \in Savers : InLine(s) => InLine(s)' \/ s \in settled',
         \A s \in Savers : mode = "closed" /\ InLine(s)' => InLine(s) \/ s \in late',
         settled \subseteq settled', late \subseteq late',
         \A s \in accepted' : s \in accepted \/ InLine(s)', accepted' \subseteq Savers
  PROVE  NothingAcceptedIsLost' /\ LeftBehind'
  BY DEF HistoryIInv, BatchInHand, NothingAcceptedIsLost, LeftBehind, Collected, WriterGone, BooksTyped

(* What a caller may do to the queue and to the books.                       *)
Shares ==
    \/ UNCHANGED <<writes, accepted, settled, late>>
    \/ \E item \in Items :
         /\ Room /\ writes' = Append(writes, item) /\ UNCHANGED settled
         /\ accepted' = accepted \cup ({item} \cap Savers)
         /\ late' = IF WriterGone THEN late \cup ({item} \cap Savers) ELSE late
    \/ /\ writes # <<>> /\ writes' = Tail(writes) /\ UNCHANGED <<accepted, late>>
       /\ settled' = settled \cup ({Head(writes)} \cap Savers)

LEMMA SharesKeep ==
  ASSUME HistoryIInv, Shares, UNCHANGED writerVars, CallsTyped', FutureTyped', closing' \in BOOLEAN
  PROVE  HistoryIInv'
  <1> USE HistoryBounds
  <1>0. QueueTyped /\ BooksTyped
    BY DEF HistoryIInv
  <1>1. WriterTyped' /\ FlagsTyped' /\ UNCHANGED <<mode, batch, rows>> /\ BatchInHand'
    BY Zenon DEF HistoryIInv, WriterTyped, FlagsTyped, writerVars, BatchInHand
  <1>2. CASE UNCHANGED <<writes, accepted, settled, late>>
    <2>1. QueueTyped' /\ BooksTyped'
      BY <1>0, <1>1, <1>2 DEF QueueTyped, BooksTyped
    <2>2. NothingAcceptedIsLost' /\ LeftBehind'
      BY <1>1, <1>2 DEF HistoryIInv, BatchInHand, NothingAcceptedIsLost, LeftBehind, InLine, Collected
    <2> QED
      BY <1>1, <2>1, <2>2 DEF HistoryIInv
  <1>3. ASSUME NEW item \in Items,
               Room, writes' = Append(writes, item), UNCHANGED settled,
               accepted' = accepted \cup ({item} \cap Savers),
               late' = IF WriterGone THEN late \cup ({item} \cap Savers) ELSE late
        PROVE  HistoryIInv'
    <2>1. QueueTyped' /\ \A s : InLine(s)' <=> InLine(s) \/ s = item
      BY <1>3, WritesAppend DEF HistoryIInv
    <2>2. BooksTyped'
      BY <1>0, <1>1, <1>3 DEF BooksTyped
    <2>3. \A s \in Savers : mode = "closed" /\ InLine(s)' => InLine(s) \/ s \in late'
      BY <1>3, <2>1 DEF WriterGone
    <2>4. \A s \in accepted' : s \in accepted \/ InLine(s)'
      BY <1>3, <2>1
    <2>5. NothingAcceptedIsLost' /\ LeftBehind'
      BY <1>1, <1>3, <2>1, <2>2, <2>3, <2>4, WayIsKept DEF BooksTyped
    <2> QED
      BY <1>1, <2>1, <2>2, <2>5 DEF HistoryIInv
  <1>4. ASSUME writes # <<>>, writes' = Tail(writes), UNCHANGED <<accepted, late>>,
               settled' = settled \cup ({Head(writes)} \cap Savers)
        PROVE  HistoryIInv'
    <2>1. QueueTyped' /\ \A s : InLine(s)' => InLine(s)
      BY <1>4, WritesTail DEF HistoryIInv
    <2>2. \A s \in Savers : InLine(s) => InLine(s)' \/ s \in settled'
      BY <1>4, WritesTail DEF HistoryIInv
    <2>3. BooksTyped'
      <3>1. settled' \subseteq Savers
        BY <1>0, <1>4 DEF BooksTyped
      <3> QED
        BY <1>0, <1>1, <1>4, <3>1 DEF BooksTyped
    <2>4. NothingAcceptedIsLost' /\ LeftBehind'
      BY <1>1, <1>4, <2>1, <2>2, <2>3, WayIsKept DEF BooksTyped
    <2> QED
      BY <1>1, <2>1, <2>3, <2>4 DEF HistoryIInv
  <1> QED
    BY <1>2, <1>3, <1>4 DEF Shares

LEMMA CallsMove ==
  ASSUME CallsTyped, NEW c \in Callers, NEW place \in CallStages, Moves(c, place)
  PROVE  CallsTyped'
  BY DEF CallsTyped, Moves

LEMMA FuturesResolve ==
  ASSUME FutureTyped, NEW some, NEW result \in {"done", "error"}, Resolve(some, result)
  PROVE  FutureTyped'
  BY DEF FutureTyped, Resolve

LEMMA CallerKeeps ==
  ASSUME HistoryIInv, NEW c \in Callers, Calls(c) \/ CallerSteps(c)
  PROVE  HistoryIInv'
  <1> USE HistoryBounds
  <1>0. UNCHANGED writerVars /\ closing' = closing /\ closing \in BOOLEAN
    BY Zenon DEF Calls, CallerSteps, Puts, DropsOldest, RestoresSentinel, PutsAgain, Returns, GivesUp,
                 HistoryIInv, FlagsTyped
  <1>1. CallsTyped'
    <2>1. \E place \in CallStages : Moves(c, place)
      BY DEF Calls, CallerSteps, Puts, Queues, DropsOldest, RestoresSentinel, PutsAgain, Returns,
             GivesUp, AfterWait, CallStages
    <2> QED
      BY <2>1, CallsMove DEF HistoryIInv
  <1>2. FutureTyped'
    <2>1. UNCHANGED future \/ \E some : Resolve(some, "error")
      BY DEF Calls, CallerSteps, Puts, DropsOldest, Dropped, RestoresSentinel, PutsAgain, Returns, GivesUp
    <2> QED
      BY <2>1, FuturesResolve DEF HistoryIInv, FutureTyped
  <1>3. Shares
    <2>1. ASSUME Room, Queues(c), UNCHANGED settled PROVE Shares
      <3>1. /\ writes' = Append(writes, c) /\ accepted' = accepted \cup ({c} \cap Savers)
            /\ late' = IF WriterGone THEN late \cup ({c} \cap Savers) ELSE late
        BY <2>1 DEF Queues
      <3> QED
        BY <2>1, <3>1 DEF Shares
    <2>2. CASE Calls(c)
      BY <2>2 DEF Calls, Shares
    <2>3. CASE Puts(c)
      BY <2>1, <2>3 DEF Puts, Shares
    <2>4. CASE DropsOldest(c)
      <3>1. CASE writes = <<>>
        BY <2>4, <3>1 DEF DropsOldest, Shares
      <3>2. CASE writes # <<>>
        BY <2>4, <3>2 DEF DropsOldest, Dropped, Shares
      <3> QED
        BY <3>1, <3>2
    <2>5. CASE RestoresSentinel(c)
      <3>1. CASE Room
        <4>1. Sentinel \notin Savers /\ {Sentinel} \cap Savers = {}
          OBVIOUS
        <4> QED
          BY <2>5, <3>1, <4>1 DEF RestoresSentinel, Shares
      <3>2. CASE ~Room
        BY <2>5, <3>2 DEF RestoresSentinel, Shares
      <3> QED
        BY <3>1, <3>2
    <2>6. CASE PutsAgain(c)
      BY <2>1, <2>6 DEF PutsAgain, Shares
    <2>7. CASE Returns(c) \/ GivesUp(c)
      BY <2>7 DEF Returns, GivesUp, Shares
    <2> QED
      BY <2>2, <2>3, <2>4, <2>5, <2>6, <2>7 DEF CallerSteps
  <1> QED
    BY <1>0, <1>1, <1>2, <1>3, SharesKeep

LEMMA CloserKeeps ==
  ASSUME HistoryIInv, CloseBegins \/ CloserSteps
  PROVE  HistoryIInv'
  <1> USE HistoryBounds
  <1>0. UNCHANGED writerVars /\ closing' \in BOOLEAN
    BY Zenon DEF CloseBegins, CloserSteps, PutsSentinel, RefitDrops, RefitPuts, Joins, HistoryIInv,
       FlagsTyped
  <1>1. CallsTyped'
    <2>1. \E place \in CallStages : Moves(Closer, place)
      BY DEF CloseBegins, CloserSteps, PutsSentinel, RefitDrops, RefitPuts, Joins, CallStages
    <2> QED
      BY <2>1, CallsMove DEF HistoryIInv
  <1>2. FutureTyped'
    <2>1. UNCHANGED future \/ \E some : Resolve(some, "error")
      BY DEF CloseBegins, CloserSteps, PutsSentinel, RefitDrops, RefitPuts, Joins, Dropped
    <2> QED
      BY <2>1, FuturesResolve DEF HistoryIInv, FutureTyped
  <1>3. Shares
    <2>1. ASSUME PutsSentinel \/ RefitPuts PROVE Shares
      <3>1. CASE Room
        <4>1. {Sentinel} \cap Savers = {}
          OBVIOUS
        <4> QED
          BY <2>1, <3>1, <4>1 DEF PutsSentinel, RefitPuts, Shares
      <3>2. CASE ~Room
        BY <2>1, <3>2 DEF PutsSentinel, RefitPuts, Shares
      <3> QED
        BY <3>1, <3>2
    <2>2. CASE RefitDrops
      <3>1. CASE writes = <<>>
        BY <2>2, <3>1 DEF RefitDrops, Shares
      <3>2. CASE writes # <<>>
        BY <2>2, <3>2 DEF RefitDrops, Dropped, Shares
      <3> QED
        BY <3>1, <3>2
    <2>3. CASE CloseBegins \/ Joins
      BY <2>3 DEF CloseBegins, Joins, Shares
    <2> QED
      BY <2>1, <2>2, <2>3 DEF CloserSteps
  <1> QED
    BY <1>0, <1>1, <1>2, <1>3, SharesKeep

LEMMA WriterTakesKeeps ==
  ASSUME HistoryIInv, WriterTakes
  PROVE  HistoryIInv'
  <1> USE HistoryBounds
  <1> DEFINE item == Head(writes)
  <1>1. QueueTyped /\ writes # <<>> /\ writes' = Tail(writes) /\ mode = "get" /\ batch = <<>>
    BY DEF WriterTakes, HistoryIInv, BatchInHand
  <1>2. /\ QueueTyped' /\ item \in Items
        /\ \A s : InLine(s) => InLine(s)' \/ s = item
    BY <1>1, WritesTail
  <1>3. UNCHANGED <<call, future, accepted, late, rows, settled, faulted, closing>>
    BY DEF WriterTakes, callVars
  <1>4. /\ mode' = IF item = Sentinel THEN "get" ELSE IF item \in Savers THEN "collect" ELSE "run"
        /\ batch' = IF item \in Savers THEN <<item>> ELSE <<>>
        /\ held' = IF item \in Waiters THEN item ELSE Nothing
    BY DEF WriterTakes, AfterSentinel
  <1>5. CallsTyped' /\ FutureTyped' /\ BooksTyped'
    BY <1>3 DEF HistoryIInv, CallsTyped, FutureTyped, BooksTyped
  <1>6. FlagsTyped'
    <2>1. draining' = (draining \/ item = Sentinel)
      BY Zenon DEF WriterTakes
    <2> QED
      BY <1>3, <2>1, Zenon DEF HistoryIInv, FlagsTyped
  <1>7. batch' \in Seq(Savers) /\ Len(batch') <= BatchCap
    <2>1. CASE item \in Savers
      <3>1. <<item>> \in Seq(Savers) /\ Len(<<item>>) = 1
        BY <2>1
      <3> QED
        BY <1>4, <2>1, <3>1
    <2>2. CASE item \notin Savers
      BY <1>4, <2>2
    <2> QED
      BY <2>1, <2>2
  <1> HIDE DEF item
  <1>8. WriterTyped'
    BY <1>2, <1>3, <1>4, <1>7 DEF HistoryIInv, WriterTyped
  <1>9. BatchInHand' /\ LeftBehind'
    BY <1>4 DEF BatchInHand, LeftBehind
  <1>10. NothingAcceptedIsLost'
    <2>1. ASSUME NEW s \in accepted PROVE s \in settled \/ InLine(s)' \/ s \in Collected'
      <3>1. s \in settled \/ InLine(s) \/ s \in Collected
        BY <2>1 DEF HistoryIInv, NothingAcceptedIsLost
      <3>2. Collected = {}
        BY <1>1 DEF Collected
      <3>3. s = item => s \in Collected'
        <4>1. s \in Savers
          BY <2>1 DEF HistoryIInv, BooksTyped
        <4> QED
          BY <1>4, <4>1 DEF Collected
      <3> QED
        BY <1>2, <3>1, <3>2, <3>3
    <2> QED
      BY <1>3, <2>1 DEF NothingAcceptedIsLost
  <1> QED
    BY <1>2, <1>5, <1>6, <1>8, <1>9, <1>10 DEF HistoryIInv

LEMMA WriterCollectsKeeps ==
  ASSUME HistoryIInv, WriterCollects
  PROVE  HistoryIInv'
  <1> USE HistoryBounds
  <1>1. QueueTyped /\ mode = "collect" /\ WriterTyped /\ BooksTyped
    BY DEF WriterCollects, HistoryIInv
  <1>2. UNCHANGED <<call, future, accepted, late, rows, settled, faulted, closing, draining>>
    BY DEF WriterCollects, callVars
  <1>3. CallsTyped' /\ FutureTyped' /\ BooksTyped' /\ FlagsTyped'
    BY <1>2, Zenon DEF HistoryIInv, CallsTyped, FutureTyped, BooksTyped, FlagsTyped
  <1>4. CASE writes = <<>> \/ Len(batch) = BatchCap
    <2>1. mode' = "insert" /\ UNCHANGED <<writes, batch, held>>
      BY <1>4 DEF WriterCollects
    <2>2. QueueTyped' /\ WriterTyped'
      BY <1>1, <1>2, <2>1 DEF QueueTyped, WriterTyped
    <2>3. BatchInHand' /\ LeftBehind' /\ NothingAcceptedIsLost'
      BY <1>2, <2>1 DEF HistoryIInv, BatchInHand, LeftBehind, NothingAcceptedIsLost, InLine, Collected
    <2> QED
      BY <1>3, <2>2, <2>3 DEF HistoryIInv
  <1>5. CASE writes # <<>> /\ Len(batch) # BatchCap
    <2>1. writes' = Tail(writes)
      BY <1>5 DEF WriterCollects
    <2>2. /\ QueueTyped' /\ Head(writes) \in Items
          /\ \A s : InLine(s) => InLine(s)' \/ s = Head(writes)
      BY <1>1, <1>5, <2>1, WritesTail
    <2>3. CASE Head(writes) \in Savers
      <3>1. batch' = Append(batch, Head(writes)) /\ UNCHANGED <<mode, held>>
        BY <1>5, <2>3 DEF WriterCollects
      <3>2. batch' \in Seq(Savers) /\ Len(batch') = Len(batch) + 1 /\ Len(batch) \in Nat
        BY <1>1, <2>3, <3>1 DEF WriterTyped
      <3>3. WriterTyped'
        BY <1>1, <1>2, <1>5, <3>1, <3>2 DEF WriterTyped
      <3>4. Collected' = Collected \cup {Head(writes)}
        BY <1>1, <2>3, <3>1 DEF WriterTyped, Collected
      <3>5. NothingAcceptedIsLost'
        BY <1>2, <2>2, <3>4 DEF HistoryIInv, NothingAcceptedIsLost
      <3>6. BatchInHand' /\ LeftBehind'
        BY <1>1, <3>1 DEF BatchInHand, LeftBehind
      <3> QED
        BY <1>3, <2>2, <3>3, <3>5, <3>6 DEF HistoryIInv
    <2>4. CASE Head(writes) \notin Savers
      <3>1. held' = Head(writes) /\ mode' = "back" /\ UNCHANGED batch
        BY <1>5, <2>4 DEF WriterCollects
      <3>2. Head(writes) \in Waiters \cup {Sentinel, Nothing}
        BY <2>2, <2>4
      <3>3. WriterTyped'
        BY <1>1, <1>2, <3>1, <3>2 DEF WriterTyped
      <3>4. NothingAcceptedIsLost'
        <4>1. ASSUME NEW s \in accepted PROVE s \in settled \/ InLine(s)' \/ s \in Collected
          BY <1>1, <2>2, <2>4 DEF HistoryIInv, NothingAcceptedIsLost, BooksTyped
        <4> QED
          BY <1>2, <3>1, <4>1 DEF NothingAcceptedIsLost, Collected
      <3>5. BatchInHand' /\ LeftBehind'
        BY <2>2, <3>1 DEF BatchInHand, LeftBehind
      <3> QED
        BY <1>3, <2>2, <3>3, <3>4, <3>5 DEF HistoryIInv
    <2> QED
      BY <2>3, <2>4
  <1> QED
    BY <1>4, <1>5

LEMMA WriterPutsBackKeeps ==
  ASSUME HistoryIInv, WriterPutsBack
  PROVE  HistoryIInv'
  <1> USE HistoryBounds
  <1>1. QueueTyped /\ WriterTyped /\ mode' = "insert" /\ held' = Nothing
    BY DEF WriterPutsBack, HistoryIInv
  <1>2. UNCHANGED <<call, future, accepted, late, rows, settled, faulted, closing, draining, batch>>
    BY DEF WriterPutsBack, callVars
  <1>3. CallsTyped' /\ FutureTyped' /\ BooksTyped' /\ FlagsTyped'
    BY <1>2, Zenon DEF HistoryIInv, CallsTyped, FutureTyped, BooksTyped, FlagsTyped
  <1>4. WriterTyped'
    BY <1>1, <1>2 DEF WriterTyped
  <1>5. BatchInHand' /\ LeftBehind'
    BY <1>1 DEF BatchInHand, LeftBehind
  <1>6. CASE writes' = writes
    <2>1. QueueTyped' /\ NothingAcceptedIsLost'
      BY <1>1, <1>2, <1>6 DEF HistoryIInv, QueueTyped, NothingAcceptedIsLost, InLine, Collected
    <2> QED
      BY <1>3, <1>4, <1>5, <2>1 DEF HistoryIInv
  <1>7. CASE Room /\ writes' = Append(writes, held)
    <2>1. held \in Items
      BY <1>1 DEF WriterPutsBack, HistoryIInv, BatchInHand, WriterTyped
    <2>2. QueueTyped' /\ \A s : InLine(s) => InLine(s)'
      BY <1>1, <1>7, <2>1, WritesAppend
    <2>3. NothingAcceptedIsLost'
      BY <1>2, <2>2 DEF HistoryIInv, NothingAcceptedIsLost, Collected
    <2> QED
      BY <1>3, <1>4, <1>5, <2>2, <2>3 DEF HistoryIInv
  <1> QED
    BY <1>6, <1>7 DEF WriterPutsBack

LEMMA WriterEndsABatch ==
  ASSUME HistoryIInv, WriterInserts \/ InsertFails
  PROVE  HistoryIInv'
  <1> USE HistoryBounds
  <1>1. QueueTyped /\ WriterTyped /\ BooksTyped
    BY DEF HistoryIInv
  <1>2. /\ UNCHANGED <<writes, call, future, accepted, late, closing, draining, held>>
        /\ mode' \in {"get", "dead"} /\ batch' = <<>>
        /\ rows' \in {rows, rows \cup Collected} /\ settled' = settled \cup Collected
    BY DEF WriterInserts, InsertFails, callVars
  <1>3. faulted' \in 0 .. WriteFaults
    BY <1>1 DEF WriterInserts, InsertFails, WriterTyped
  <1>4. Collected \subseteq Savers
    BY <1>1 DEF WriterTyped, Collected
  <1>5. QueueTyped' /\ CallsTyped' /\ FutureTyped' /\ FlagsTyped'
    BY <1>1, <1>2, Zenon DEF HistoryIInv, QueueTyped, CallsTyped, FutureTyped, FlagsTyped
  <1>6. BooksTyped'
    BY <1>1, <1>2, <1>4 DEF BooksTyped
  <1>7. WriterTyped'
    BY <1>1, <1>2, <1>3 DEF WriterTyped
  <1>8. BatchInHand' /\ LeftBehind'
    BY <1>2 DEF BatchInHand, LeftBehind
  <1>9. NothingAcceptedIsLost'
    BY <1>2 DEF HistoryIInv, NothingAcceptedIsLost, InLine
  <1> QED
    BY <1>5, <1>6, <1>7, <1>8, <1>9 DEF HistoryIInv

LEMMA WriterRunsKeeps ==
  ASSUME HistoryIInv, WriterRuns \/ WriterLeaves
  PROVE  HistoryIInv'
  <1> USE HistoryBounds
  <1>1. WriterTyped /\ BooksTyped /\ batch = <<>>
    BY DEF HistoryIInv, WriterRuns, WriterLeaves, BatchInHand
  <1>2. /\ UNCHANGED <<writes, call, accepted, late, closing, draining, batch, settled>>
        /\ mode' \in {"get", "closed"} /\ (mode' = "closed" => writes = <<>>)
        /\ held' \in {held, Nothing} /\ rows' \in {{}, rows}
    BY DEF WriterRuns, WriterLeaves, callVars
  <1>3. faulted' \in 0 .. WriteFaults
    BY <1>1 DEF WriterRuns, WriterLeaves, WriterTyped
  <1>4. FutureTyped'
    <2>1. UNCHANGED future \/ \E result \in {"done", "error"} : Resolve({held}, result)
      BY DEF WriterRuns, WriterLeaves
    <2> QED
      BY <2>1, FuturesResolve DEF HistoryIInv, FutureTyped
  <1>5. QueueTyped' /\ CallsTyped' /\ FlagsTyped'
    BY <1>2, Zenon DEF HistoryIInv, QueueTyped, CallsTyped, FlagsTyped
  <1>6. BooksTyped'
    BY <1>1, <1>2 DEF BooksTyped
  <1>7. WriterTyped'
    BY <1>1, <1>2, <1>3 DEF WriterTyped
  <1>8. BatchInHand' /\ LeftBehind'
    BY <1>1, <1>2, LineIsEmpty DEF BatchInHand, LeftBehind, InLine
  <1>9. NothingAcceptedIsLost'
    BY <1>2 DEF HistoryIInv, NothingAcceptedIsLost, InLine, Collected
  <1> QED
    BY <1>4, <1>5, <1>6, <1>7, <1>8, <1>9 DEF HistoryIInv

LEMMA HistoryInitially == HistoryInit => HistoryIInv
  <1> SUFFICES ASSUME HistoryInit PROVE HistoryIInv
    OBVIOUS
  <1> USE HistoryBounds DEF HistoryInit
  <1>1. QueueTyped /\ WriterTyped
    BY DEF QueueTyped, WriterTyped
  <1>2. CallsTyped /\ FutureTyped
    BY DEF CallsTyped, CallStages, FutureTyped
  <1>3. FlagsTyped
    BY Zenon DEF FlagsTyped
  <1>4. BooksTyped /\ BatchInHand /\ NothingAcceptedIsLost /\ LeftBehind
    BY DEF BooksTyped, BatchInHand, NothingAcceptedIsLost, LeftBehind
  <1> QED
    BY <1>1, <1>2, <1>3, <1>4 DEF HistoryIInv

LEMMA HistoryInduction == HistoryIInv /\ [HistoryNext]_historyVars_ => HistoryIInv'
  <1> SUFFICES ASSUME HistoryIInv, [HistoryNext]_historyVars_ PROVE HistoryIInv'
    OBVIOUS
  <1>1. CASE UNCHANGED historyVars_
    <2>1. QueueTyped' /\ CallsTyped' /\ FutureTyped' /\ WriterTyped' /\ FlagsTyped' /\ BooksTyped'
      BY <1>1, Zenon DEF historyVars_, HistoryIInv, QueueTyped, CallsTyped, FutureTyped, WriterTyped,
                         FlagsTyped, BooksTyped
    <2>2. BatchInHand' /\ NothingAcceptedIsLost' /\ LeftBehind'
      BY <1>1 DEF historyVars_, HistoryIInv, BatchInHand, NothingAcceptedIsLost, LeftBehind,
         InLine, Collected
    <2> QED
      BY <2>1, <2>2 DEF HistoryIInv
  <1> QED
    BY <1>1, CallerKeeps, CloserKeeps, WriterTakesKeeps, WriterCollectsKeeps, WriterPutsBackKeeps,
       WriterEndsABatch, WriterRunsKeeps DEF HistoryNext, WriterSteps

LEMMA HistoryInvHolds == HistorySpec => []HistoryIInv
  BY HistoryInitially, HistoryInduction, PTL DEF HistorySpec

LEMMA HistoryTyped == HistoryIInv => HistoryTypeOK
  BY DEF HistoryIInv, QueueTyped, CallsTyped, CallStages, FutureTyped, WriterTyped, FlagsTyped,
         BooksTyped, HistoryTypeOK

(* HistoryTypeCorrect: the queue never outgrows its limit, nor a batch its   *)
(* cap, through overflows, a failed database and a close.                    *)
THEOREM HistoryTypeCorrect == HistorySpec => []HistoryTypeOK
  BY HistoryTyped, HistoryInvHolds, PTL

(* NothingAcceptedVanishes: no overflow, no failure and no close makes an    *)
(* accepted transcription vanish without a trace, whatever the interleaving. *)
THEOREM NothingAcceptedVanishes == HistorySpec => []NothingAcceptedIsLost
  <1>1. HistoryIInv => NothingAcceptedIsLost
    BY DEF HistoryIInv
  <1> QED
    BY <1>1, HistoryInvHolds, PTL

(* ClosedMeansSettled: when the writer thread has left after a close, every  *)
(* accepted transcription is settled, but for those put after it had left.   *)
THEOREM ClosedMeansSettled == HistorySpec => [](mode = "closed" => accepted \ late \subseteq settled)
  <1>1. HistoryIInv => (mode = "closed" => accepted \ late \subseteq settled)
    <2> SUFFICES ASSUME HistoryIInv, mode = "closed", NEW s \in accepted, s \notin late PROVE s \in settled
      OBVIOUS
    <2>1. batch = <<>> /\ s \in Savers
      BY DEF HistoryIInv, BatchInHand, BooksTyped
    <2>2. Collected = {}
      BY <2>1 DEF Collected
    <2> QED
      BY <2>1, <2>2 DEF HistoryIInv, NothingAcceptedIsLost, LeftBehind
  <1> QED
    BY <1>1, HistoryInvHolds, PTL

----------------------------------------------------------------------------
(* The four together.  A step of one of them, as MCStores puts them side by  *)
(* side, leaves the variables of the others alone: what holds of each holds  *)
(* of all.                                                                   *)

LEMMA PartsInitially ==
  StoresInit => DuckerInit /\ StoreInit /\ LoanInit /\ HistoryInit
  BY DEF StoresInit

LEMMA PartsStep ==
  [StoresNext]_allParts => /\ [DuckerNext]_duckerVars /\ [StoreNext]_storeVars
                           /\ [LoanNext]_loanVars /\ [HistoryNext]_historyVars_
  BY DEF StoresNext, allParts, OnlyVolume, OnlyTranscripts, OnlyClipboard, OnlyHistory

(* A behaviour of the four side by side is one of each of them (the fairness *)
(* of the history apart): their theorems are about the run that checks them  *)
(* together.                                                                 *)
THEOREM StoresAreEach ==
  StoresSpec => DuckerSpec /\ StoreSpec /\ LoanSpec /\ HistoryInit /\ [][HistoryNext]_historyVars_
  BY PartsInitially, PartsStep, PTL DEF StoresSpec, DuckerSpec, StoreSpec, LoanSpec

(* In the run that checks the volume, the kept transcripts, the clipboard    *)
(* and the history together, every variable of the four keeps its type: the  *)
(* lists and queues of each stay within their limits.                        *)
THEOREM StoresTypeCorrect == StoresSpec => []StoresTypeOK
  <1>1. DuckerTypeOK /\ StoreTypeOK /\ LoanTypeOK /\ HistoryTypeOK => StoresTypeOK
    BY DEF StoresTypeOK
  <1> QED
    BY <1>1, StoresAreEach, DuckerTypeCorrect, StoreTypeCorrect, LoanTypeCorrect, HistoryInitially,
       HistoryInduction, HistoryTyped, PTL

=============================================================================
