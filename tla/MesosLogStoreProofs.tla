------------------------- MODULE MesosLogStoreProofs -------------------------
(***************************************************************************)
(* For any files, sizes and bounds: a file that is looked at is always asked *)
(* for again, and what is kept of it is its text.                           *)
(*                                                                         *)
(* The bag of calls is changed in three ways: a call is over, or is followed *)
(* by another one of the same file, or all retry timers of a file that is    *)
(* left become requests.  TailGoesOn survives each because a call that ends  *)
(* without a follower is a range, or belongs to a file that is not kept; it  *)
(* needs that the bag has no entry of zero copies (IInv).                    *)
(*                                                                         *)
(* For the text, the second invariant, FileInv, says that a log that is not  *)
(* mixed is served by one call of its tail and at most one of a range, which *)
(* ask for what adjoins the pieces kept (Served), and that the pieces adjoin *)
(* each other (Marked), where offsets are those the buffer takes its text to *)
(* be at; PlainLogs says that a file of one-byte characters has its text     *)
(* there.  Marked is kept up by the rounds of truncate,                      *)
(* which are, like the text of a buffer, a recursive function: their lemmas  *)
(* are inductions over the pieces, by SubsequenceProofs.UpTo.                *)
(***************************************************************************)
EXTENDS MesosLogStore, SubsequenceProofs, SequenceTheorems, FiniteSetTheorems, TLAPS

Positive(bag) == \A c \in DOMAIN bag : bag[c] \in Nat \ {0}

Tailing(c, p) == c.path = p /\ c.kind # "previous"

\* The inductive invariant.
IInv == Positive(calls) /\ TailGoesOn

----------------------------------------------------------------------------
(* Bags.                                                                    *)

\* A sum of bags has what either has.
LEMMA SumOfBags ==
    ASSUME NEW B, NEW C, Positive(B), Positive(C)
    PROVE  /\ DOMAIN (B (+) C) = DOMAIN B \cup DOMAIN C
           /\ Positive(B (+) C)
  BY DEF (+), Positive

\* What is taken from a bag leaves the other members.
LEMMA DifferenceOfBags ==
    ASSUME NEW B, NEW C, Positive(B), Positive(C)
    PROVE  /\ DOMAIN (B (-) C) \subseteq DOMAIN B
           /\ \A c \in DOMAIN B \ DOMAIN C : c \in DOMAIN (B (-) C)
           /\ Positive(B (-) C)
  <1> DEFINE left == [e \in DOMAIN B |-> IF e \in DOMAIN C THEN B[e] - C[e] ELSE B[e]]
  <1>1. B (-) C = [e \in {d \in DOMAIN left : left[d] > 0} |-> left[e]]
    BY DEF (-)
  <1>2. \A c \in DOMAIN B : left[c] \in Int
    BY DEF Positive
  <1>3. \A c \in DOMAIN B \ DOMAIN C : left[c] > 0
    BY DEF Positive
  <1>4. DOMAIN left = DOMAIN B
    OBVIOUS
  <1> HIDE DEF left
  <1> QED BY <1>1, <1>2, <1>3, <1>4 DEF Positive

\* A bag of one call.
LEMMA OneCall ==
    ASSUME NEW call
    PROVE  DOMAIN SetToBag({call}) = {call} /\ Positive(SetToBag({call}))
  BY DEF SetToBag, Positive

\* A bag of copies of one call.
LEMMA CopiesOfCall ==
    ASSUME NEW call, NEW n \in Nat \ {0}
    PROVE  DOMAIN Copies(call, n) = {call} /\ Positive(Copies(call, n))
  BY DEF Copies, Positive

----------------------------------------------------------------------------
(* How the calls change.                                                    *)

\* A call that is over leaves the others.
LEMMA AfterEnd ==
    ASSUME NEW call, Positive(calls), Ended(call)
    PROVE  Positive(calls') /\ DOMAIN calls \ {call} \subseteq DOMAIN calls'
  BY OneCall, DifferenceOfBags DEF Ended

\* A call that is followed leaves the others, and the one that follows it.
LEMMA AfterFollowed ==
    ASSUME NEW call, NEW next, Positive(calls), Followed(call, next)
    PROVE  /\ Positive(calls')
           /\ next \in DOMAIN calls'
           /\ DOMAIN calls \ {call} \subseteq DOMAIN calls'
  <1> DEFINE rest == calls (-) SetToBag({call})
  <1>1. Positive(rest) /\ DOMAIN calls \ {call} \subseteq DOMAIN rest
    BY OneCall, DifferenceOfBags
  <1> HIDE DEF rest
  <1>2. calls' = rest (+) SetToBag({next})
    BY DEF Followed, rest
  <1> DEFINE last == SetToBag({next})
  <1>3. DOMAIN last = {next} /\ Positive(last)
    BY OneCall
  <1> HIDE DEF last
  <1>4. DOMAIN (rest (+) last) = DOMAIN rest \cup DOMAIN last /\ Positive(rest (+) last)
    BY <1>1, <1>3, SumOfBags
  <1>5. calls' = rest (+) last
    BY <1>2 DEF last
  <1>6. Positive(calls')
    BY <1>4, <1>5, Zenon DEF Positive
  <1> QED BY <1>1, <1>3, <1>4, <1>5, <1>6, Zenon

\* Leaving a file keeps the calls a bag.
LEMMA AfterStop ==
    ASSUME Positive(calls)
    PROVE  Positive(Stopped)
  <1>1. ASSUME NEW p PROVE Positive(Forgotten(p))
    <2> DEFINE timer == RetryTimer(p)
               request == fetchLog(p, logs[p].end)
               rest == calls (-) Copies(timer, calls[timer])
    <2>1. CASE timer \in DOMAIN calls
      <3>1. calls[timer] \in Nat \ {0}
        BY <2>1 DEF Positive
      <3> HIDE DEF timer, request
      <3>2. Positive(rest)
        BY <3>1, CopiesOfCall, DifferenceOfBags
      <3> HIDE DEF rest
      <3>3. Positive(rest (+) Copies(request, calls[timer]))
        BY <3>1, <3>2, CopiesOfCall, SumOfBags
      <3>4. Forgotten(p) = rest (+) Copies(request, calls[timer])
        BY <2>1 DEF Forgotten, rest, timer, request, BagToSet
      <3> QED BY <3>3, <3>4
    <2>2. CASE timer \notin DOMAIN calls
      BY <2>2 DEF Forgotten, BagToSet
    <2> QED BY <2>1, <2>2
  <1> QED BY <1>1 DEF Stopped

\* A file is tailed after a call has ended that was not its tail, or not kept.
LEMMA TailAfterEnd ==
    ASSUME NEW call, IInv, Ended(call), kept' = kept,
           call.kind = "previous" \/ call.path \notin kept
    PROVE  IInv'
  BY AfterEnd DEF IInv, TailGoesOn, BagToSet

\* A file is tailed after a call was followed by a tail of the same file.
LEMMA TailAfterFollowed ==
    ASSUME NEW call, NEW next, IInv, Followed(call, next), kept' = kept,
           Tailing(next, call.path)
    PROVE  IInv'
  BY AfterFollowed DEF IInv, TailGoesOn, Tailing, BagToSet

----------------------------------------------------------------------------
LEMMA InitIInv == Init => IInv
  BY DEF Init, IInv, TailGoesOn, Positive, EmptyBag, SetToBag

\* An answer ends its call, or goes on with the tail.
LEMMA AnswersIInv == IInv /\ Answers => IInv'
  <1> USE DEF UnderWay, requestOffset, fetchLog, RetryTimer, Tailing
  <1> SUFFICES ASSUME IInv, Answers PROVE IInv'
    OBVIOUS
  <1>1. ASSUME NEW p \in Path, processOffset(p) PROVE IInv'
    <2> DEFINE call == requestOffset(p)
               tail == fetchLog(p, logs'[p].end)
    <2>1. call.path = p /\ Tailing(tail, p)
      OBVIOUS
    <2>2. /\ kept' = kept
          /\ (p \notin kept /\ Ended(call)) \/ Followed(call, tail)
      BY <1>1 DEF processOffset
    <2> HIDE DEF call, tail
    <2>3. ASSUME p \notin kept, Ended(call) PROVE IInv'
      BY <2>1, <2>2, <2>3, TailAfterEnd
    <2>4. ASSUME Followed(call, tail) PROVE IInv'
      BY <2>1, <2>2, <2>4, TailAfterFollowed
    <2> QED BY <2>2, <2>3, <2>4
  <1>2. ASSUME NEW p \in Path, processOffsetError(p) PROVE IInv'
    BY <1>2 DEF processOffsetError, logVars, IInv, TailGoesOn, BagToSet, Positive
  <1>3. ASSUME NEW call \in UnderWay("tail"), processLogEntry(call) PROVE IInv'
    BY <1>3, TailAfterEnd, TailAfterFollowed DEF processLogEntry
  <1>4. ASSUME NEW call \in UnderWay("tail"), processLogError(call) PROVE IInv'
    BY <1>4, TailAfterEnd, TailAfterFollowed DEF processLogError, logVars
  <1>5. ASSUME NEW call \in UnderWay("previous"), processLogPrepend(call) PROVE IInv'
    BY <1>5, TailAfterEnd DEF processLogPrepend
  <1>6. ASSUME NEW call \in UnderWay("previous"), processLogPrependError(call) PROVE IInv'
    BY <1>6, TailAfterEnd, TailAfterFollowed DEF processLogPrependError, logVars
  <1> QED BY <1>1, <1>2, <1>3, <1>4, <1>5, <1>6, Zenon DEF Answers

\* A timer sends a request of its file.
LEMMA TimerIInv == IInv /\ RetryTimerFires => IInv'
  BY TailAfterFollowed DEF RetryTimerFires, logVars, fetchLog, Tailing

\* A file that is taken up is requested.
LEMMA OpenIInv == ASSUME NEW p \in Path, IInv, OpenFile(p) PROVE IInv'
  <1>1. Positive(Stopped)
    BY AfterStop DEF IInv
  <1>2. calls' = Stopped (+) SetToBag({requestOffset(p)}) /\ kept' = {p}
    BY DEF OpenFile, startTailing
  <1>3. Positive(calls') /\ requestOffset(p) \in DOMAIN calls'
    BY <1>1, <1>2, OneCall, SumOfBags
  <1> QED BY <1>2, <1>3 DEF IInv, TailGoesOn, BagToSet, requestOffset

\* A file that is closed is not kept.
LEMMA CloseIInv == IInv /\ Close => IInv'
  BY AfterStop DEF Close, IInv, TailGoesOn

\* A range is one more call.
LEMMA ScrollIInv == IInv /\ ScrollUp => IInv'
  <1> SUFFICES ASSUME IInv, ScrollUp PROVE IInv'
    OBVIOUS
  <1>1. PICK call : calls' = calls (+) SetToBag({call})
    BY DEF ScrollUp, getPreviousLogs
  <1>2. Positive(calls') /\ DOMAIN calls \subseteq DOMAIN calls'
    BY <1>1, OneCall, SumOfBags DEF IInv
  <1>3. kept' = kept
    BY DEF ScrollUp, logVars
  <1> QED BY <1>2, <1>3 DEF IInv, TailGoesOn, BagToSet

LEMMA NextIInv == IInv /\ [Next]_vars => IInv'
  <1> SUFFICES ASSUME IInv, [Next]_vars PROVE IInv'
    OBVIOUS
  <1>1. ASSUME NEW p \in Path, Write(p) PROVE IInv'
    BY <1>1 DEF Write, logVars, IInv, TailGoesOn, BagToSet, Positive
  <1>2. CASE UNCHANGED vars
    BY <1>2 DEF vars, logVars, IInv, TailGoesOn, BagToSet, Positive
  <1> QED BY <1>1, <1>2, AnswersIInv, TimerIInv, OpenIInv, CloseIInv, ScrollIInv DEF Next

----------------------------------------------------------------------------
\* MesosLogStore never gives a file up that the page looks at: after any
\* answers, errors and changes of the file, a request of its tail, or a timer
\* that sends one, is under way.
THEOREM TailNeverStops == Spec => []TailGoesOn
  <1>1. IInv => TailGoesOn
    BY DEF IInv
  <1> QED BY InitIInv, NextIInv, <1>1, PTL DEF Spec

----------------------------------------------------------------------------
(* Buffers.                                                                 *)

Piece == [from : Nat, to : Nat, wide : SUBSET Int]

\* m[i] is where the first i pieces of the buffer end in the file, except that
\* a piece without text may say it is elsewhere.
Marks(b, m) ==
    /\ m[0] = b.start /\ m[Len(b.items)] = b.end
    /\ \A i \in 1 .. Len(b.items) :
         /\ Size(b.items[i]) >= 0 /\ m[i] = m[i - 1] + Size(b.items[i])
         /\ Size(b.items[i]) > 0 => b.items[i].from = m[i - 1]

\* The pieces adjoin, from the start to the end of the buffer.
Marked(b) == \E m \in [0 .. Len(b.items) -> Int] : Marks(b, m)

\* The parts of a buffer.
LEMMA BufferParts ==
    ASSUME NEW b \in Buffer
    PROVE  /\ b.items \in Seq(Piece) /\ b.start \in Int /\ b.end \in Int
           /\ Len(b.items) \in Nat
           /\ \A i \in 1 .. Len(b.items) : b.items[i] \in Piece
  <1>1. b.items \in Seq(Piece) /\ b.start \in Int /\ b.end \in Int
    BY DEF Buffer, Piece
  <1> QED BY <1>1

\* What follows the first newline of a piece ends where the piece ends.
LEMMA AfterNewlineCuts ==
    ASSUME NEW piece \in Piece
    PROVE  /\ AfterNewline(piece) \in Piece
           /\ AfterNewline(piece).to = piece.to /\ AfterNewline(piece).wide = piece.wide
           /\ piece.from <= AfterNewline(piece).from
           /\ piece.from <= piece.to => AfterNewline(piece).from <= piece.to
  <1> DEFINE newlines == {n \in piece.from..piece.to - 1 : Byte(piece, n) \in Newline}
             first == CHOOSE n \in newlines : \A m \in newlines : n <= m
  <1>1. CASE newlines = {}
    BY <1>1 DEF AfterNewline, Piece
  <1>2. CASE newlines # {}
    <2>1. newlines \subseteq Nat /\ \A n \in newlines : piece.from <= n /\ n < piece.to
      BY DEF Piece
    <2>2. \E n \in newlines : \A m \in newlines : n <= m
      <3> HIDE DEF newlines
      <3> QED BY <1>2, <2>1, Smallest
    <2>3. first \in newlines
      <3> HIDE DEF newlines
      <3> QED BY <2>2
    <2>4. first \in Nat /\ piece.from <= first /\ first < piece.to
      BY <2>1, <2>3
    <2>5. AfterNewline(piece) = [piece EXCEPT !.from = 1 + first]
      BY <1>2 DEF AfterNewline
    <2> HIDE DEF first
    <2> QED BY <2>4, <2>5 DEF Piece
  <1> QED BY <1>1, <1>2

\* A piece is cut at its beginning, by at least so much if anything is left.
LEMMA TruncateItemDataCuts ==
    ASSUME NEW piece \in Piece, NEW d \in Nat
    PROVE  LET left == truncateItemData(piece, d) IN
           /\ left \in Piece
           /\ left.to = piece.to /\ left.wide = piece.wide
           /\ Size(piece) >= 0 => Size(left) >= 0 /\ Size(left) <= Size(piece)
           /\ Size(left) > 0 => Size(left) <= Size(piece) - d
  <1> DEFINE cut == [piece EXCEPT !.from = @ + d]
  <1>1. cut \in Piece /\ cut.from = piece.from + d /\ cut.to = piece.to /\ cut.wide = piece.wide
    BY DEF Piece
  <1>2. piece.from \in Nat /\ piece.to \in Nat
    BY DEF Piece
  <1>3. CASE d < Size(piece)
    <2>1. truncateItemData(piece, d) = AfterNewline(cut)
      BY <1>3 DEF truncateItemData
    <2> HIDE DEF cut
    <2>2. /\ AfterNewline(cut) \in Piece
          /\ AfterNewline(cut).to = piece.to /\ AfterNewline(cut).wide = piece.wide
          /\ piece.from + d <= AfterNewline(cut).from
          /\ AfterNewline(cut).from <= piece.to
      BY <1>1, <1>2, <1>3, AfterNewlineCuts DEF Size
    <2>3. AfterNewline(cut).from \in Nat
      BY <2>2 DEF Piece
    <2> QED BY <1>2, <2>1, <2>2, <2>3 DEF Size
  <1>4. CASE ~ (d < Size(piece))
    BY <1>2, <1>4 DEF truncateItemData, Size, Piece
  <1> QED BY <1>3, <1>4

\* A round drops one piece at most.
LEMMA TruncateItemTypes ==
    ASSUME NEW b \in Buffer, NEW back \in BOOLEAN, b.items # <<>>,
           KeptSize(b) > maxFileSize
    PROVE  /\ TruncateItem(b, back) \in Buffer
           /\ Len(TruncateItem(b, back).items) >= Len(b.items) - 1
  <1> DEFINE L == Len(b.items)
             index == IF back THEN L ELSE 1
             item == b.items[index]
             d == KeptSize(b) - maxFileSize
             left == truncateItemData(item, d)
             newSize == KeptSize(b) - Size(item) + Size(left)
             items == IF Size(left) > 0 THEN [b.items EXCEPT ![index] = left]
                      ELSE IF back THEN SubSeq(b.items, 1, index - 1)
                      ELSE Tail(b.items)
             r == TruncateItem(b, back)
  <1>1. /\ b.items \in Seq(Piece) /\ b.start \in Int /\ b.end \in Int
        /\ L \in Nat \ {0} /\ index \in 1 .. L /\ item \in Piece
    <2>1. b.items \in Seq(Piece) /\ b.start \in Int /\ b.end \in Int
      BY BufferParts
    <2>2. L \in Nat \ {0}
      BY <2>1
    <2> QED BY <2>1, <2>2
  <1>2. d \in Nat /\ KeptSize(b) \in Int
    BY <1>1, BufferAssumption DEF KeptSize
  <1>3. left \in Piece
    <2> HIDE DEF item, d
    <2> QED BY <1>1, <1>2, TruncateItemDataCuts
  <1>4. newSize \in Int
    <2> HIDE DEF left, item
    <2> QED BY <1>1, <1>2, <1>3 DEF Size, Piece
  <1>5. items \in Seq(Piece) /\ Len(items) >= L - 1
    <2> HIDE DEF left, item
    <2>1. CASE Size(left) > 0
      BY <1>1, <1>3, <2>1
    <2>2. CASE ~ (Size(left) > 0) /\ back
      BY <1>1, <2>2
    <2>3. CASE ~ (Size(left) > 0) /\ ~ back
      BY <1>1, <2>3
    <2> QED BY <2>1, <2>2, <2>3
  <1>6. r = [items |-> items,
             start |-> IF back THEN b.start ELSE b.end - newSize,
             end |-> IF back THEN b.start + newSize ELSE b.end]
    BY DEF TruncateItem
  <1> HIDE DEF items, newSize, r, L
  <1> QED BY <1>1, <1>4, <1>5, <1>6 DEF Buffer, Piece, r, L

\* A buffer whose characters are where they are taken to be.
Plain(b) == \A i \in 1 .. Len(b.items) : b.items[i].wide = {}

\* A round leaves no piece that was not there, or cut.
LEMMA TruncateItemPlain ==
    ASSUME NEW b \in Buffer, NEW back \in BOOLEAN, b.items # <<>>,
           KeptSize(b) > maxFileSize, Plain(b)
    PROVE  Plain(TruncateItem(b, back))
  <1> DEFINE L == Len(b.items)
             index == IF back THEN L ELSE 1
             item == b.items[index]
             d == KeptSize(b) - maxFileSize
             left == truncateItemData(item, d)
             items == IF Size(left) > 0 THEN [b.items EXCEPT ![index] = left]
                      ELSE IF back THEN SubSeq(b.items, 1, index - 1)
                      ELSE Tail(b.items)
  <1>1. /\ b.items \in Seq(Piece) /\ b.start \in Int /\ b.end \in Int
        /\ L \in Nat \ {0} /\ index \in 1 .. L /\ item \in Piece
    <2>1. b.items \in Seq(Piece) /\ b.start \in Int /\ b.end \in Int
      BY BufferParts
    <2>2. L \in Nat \ {0}
      BY <2>1
    <2> QED BY <2>1, <2>2
  <1>2. d \in Nat
    BY <1>1, BufferAssumption DEF KeptSize
  <1>3. left.wide = {}
    <2>1. item.wide = {}
      BY <1>1 DEF Plain
    <2> HIDE DEF item, d
    <2> QED BY <1>1, <1>2, <2>1, TruncateItemDataCuts
  <1>4. \A i \in 1 .. L : b.items[i].wide = {}
    BY DEF Plain
  <1>5. \A i \in 1 .. Len(items) : items[i].wide = {}
    <2> HIDE DEF left, item
    <2>1. CASE Size(left) > 0
      BY <1>1, <1>3, <1>4, <2>1
    <2>2. CASE ~ (Size(left) > 0) /\ back
      BY <1>1, <1>4, <2>2
    <2>3. CASE ~ (Size(left) > 0) /\ ~ back
      <3>1. items = Tail(b.items)
        BY <2>3
      <3>2. Len(Tail(b.items)) = L - 1 /\ \A i \in 1 .. L - 1 : Tail(b.items)[i] = b.items[i + 1]
        BY <1>1
      <3>3. \A i \in 1 .. L - 1 : i + 1 \in 1 .. L
        BY <1>1
      <3> HIDE DEF L, items
      <3> QED BY <1>1, <1>4, <3>1, <3>2, <3>3
    <2> QED BY <2>1, <2>2, <2>3
  <1>6. TruncateItem(b, back).items = items
    BY DEF TruncateItem
  <1> HIDE DEF items
  <1> QED BY <1>5, <1>6 DEF Plain

\* The pieces that adjoin go on doing so, if they are cut at the front.
LEMMA TruncateFirst ==
    ASSUME NEW b \in Buffer, Marked(b), b.items # <<>>, KeptSize(b) > maxFileSize
    PROVE  LET r == TruncateItem(b, FALSE) IN
           /\ Marked(r) /\ r.end = b.end /\ r.start >= b.start
           /\ KeptSize(r) <= maxFileSize \/ Len(r.items) = Len(b.items) - 1
  <1> DEFINE L == Len(b.items)
             item == b.items[1]
             d == KeptSize(b) - maxFileSize
             left == truncateItemData(item, d)
             newSize == KeptSize(b) - Size(item) + Size(left)
             r == TruncateItem(b, FALSE)
  <1>1. /\ b.items \in Seq(Piece) /\ b.start \in Int /\ b.end \in Int
        /\ L \in Nat \ {0} /\ item \in Piece
    <2>1. b.items \in Seq(Piece) /\ b.start \in Int /\ b.end \in Int
      BY BufferParts
    <2>2. L \in Nat \ {0}
      BY <2>1
    <2> QED BY <2>1, <2>2
  <1>2. d \in Nat /\ KeptSize(b) = b.end - b.start /\ maxFileSize \in Nat
        /\ d = KeptSize(b) - maxFileSize
    BY <1>1, BufferAssumption DEF KeptSize
  <1>3. PICK m \in [0 .. L -> Int] : Marks(b, m)
    BY DEF Marked
  <1>4. /\ Size(item) >= 0 /\ m[1] = m[0] + Size(item)
        /\ Size(item) > 0 => item.from = m[0]
        /\ m[0] = b.start /\ m[L] = b.end
    <2>1. 1 \in 1 .. L /\ 1 - 1 = 0
      BY <1>1
    <2> QED BY <1>3, <2>1 DEF Marks
  <1>5. /\ left \in Piece /\ left.to = item.to
        /\ Size(left) >= 0 /\ Size(left) <= Size(item)
        /\ Size(left) > 0 => Size(left) <= Size(item) - d
    <2> HIDE DEF item, d
    <2> QED BY <1>1, <1>2, <1>4, TruncateItemDataCuts
  <1>6. item.from \in Nat /\ item.to \in Nat /\ left.from \in Nat /\ left.to \in Nat
    <2> HIDE DEF left, item
    <2> QED BY <1>1, <1>5 DEF Piece
  <1>7. /\ r.items = IF Size(left) > 0 THEN [b.items EXCEPT ![1] = left] ELSE Tail(b.items)
        /\ r.start = b.end - newSize /\ r.end = b.end
    BY DEF TruncateItem
  <1>8. Size(item) = item.to - item.from /\ Size(left) = left.to - left.from
    BY DEF Size
  <1>9. newSize = KeptSize(b) - Size(item) + Size(left)
    OBVIOUS
  <1> HIDE DEF left, item, d, r, newSize
  <1>10. /\ Size(item) \in Int /\ Size(left) \in Int /\ KeptSize(b) \in Int
         /\ newSize \in Int
         /\ KeptSize(r) = newSize /\ r.start = b.start + Size(item) - Size(left)
    <2>1. Size(item) \in Int /\ Size(left) \in Int
      BY <1>6, <1>8
    <2>2. KeptSize(b) \in Int
      BY <1>1, <1>2
    <2>3. newSize \in Int
      BY <1>9, <2>1, <2>2
    <2>4. KeptSize(r) = r.end - r.start
      BY DEF KeptSize
    <2>5. KeptSize(r) = newSize
      BY <1>1, <1>7, <2>3, <2>4
    <2>6. r.start = b.end - newSize /\ KeptSize(b) = b.end - b.start
      BY <1>2, <1>7
    <2>7. r.start = b.start + Size(item) - Size(left)
      BY <1>1, <1>9, <2>1, <2>6
    <2> QED BY <2>1, <2>2, <2>3, <2>5, <2>7
  <1>11. r.start >= b.start
    BY <1>1, <1>5, <1>6, <1>8, <1>10
  <1>12. CASE Size(left) > 0
    <2> DEFINE w == [m EXCEPT ![0] = r.start]
    <2>1. r.items = [b.items EXCEPT ![1] = left] /\ Len(r.items) = L
      BY <1>1, <1>7, <1>12
    <2>2. /\ w \in [0 .. L -> Int] /\ w[0] = r.start
          /\ \A i \in 1 .. L : w[i] = m[i]
      <3> r.start \in Int
        BY <1>1, <1>6, <1>8, <1>10
      <3> QED BY <1>1, <1>3
    <2> HIDE DEF w
    <2>3. Size(item) > 0 /\ left.from = r.start
      BY <1>1, <1>4, <1>5, <1>6, <1>8, <1>10, <1>12
    <2>4. ASSUME NEW i \in 1 .. L
          PROVE  /\ Size(r.items[i]) >= 0 /\ w[i] = w[i - 1] + Size(r.items[i])
                 /\ Size(r.items[i]) > 0 => r.items[i].from = w[i - 1]
      <3>1. CASE i = 1
        <4>1. r.items[i] = left /\ w[i] = m[1] /\ w[i - 1] = r.start
          BY <1>1, <2>1, <2>2, <3>1
        <4>2. m[1] = r.start + Size(left)
          BY <1>1, <1>4, <1>10
        <4> QED BY <1>12, <2>3, <4>1, <4>2, <1>10
      <3>2. CASE i # 1
        <4>1. i - 1 \in 1 .. L
          BY <1>1, <3>2
        <4>2. r.items[i] = b.items[i] /\ w[i] = m[i] /\ w[i - 1] = m[i - 1]
          BY <1>1, <2>1, <2>2, <3>2, <4>1
        <4> QED BY <1>3, <4>2 DEF Marks
      <3> QED BY <3>1, <3>2
    <2>5. w[L] = r.end
      BY <1>1, <1>4, <1>7, <2>2
    <2>6. Marks(r, w)
      BY <2>1, <2>2, <2>4, <2>5 DEF Marks
    <2>7. KeptSize(r) <= maxFileSize
      BY <1>2, <1>5, <1>9, <1>10, <1>12
    <2> QED BY <1>7, <1>11, <2>1, <2>2, <2>6, <2>7 DEF Marked, r
  <1>13. CASE ~ (Size(left) > 0)
    <2> DEFINE w == [i \in 0 .. L - 1 |-> m[i + 1]]
    <2>1. /\ r.items = Tail(b.items) /\ Len(r.items) = L - 1
          /\ \A i \in 1 .. L - 1 : r.items[i] = b.items[i + 1]
      BY <1>1, <1>7, <1>13
    <2>2. /\ w \in [0 .. L - 1 -> Int]
          /\ \A i \in 0 .. L - 1 : w[i] = m[i + 1]
      <3> HIDE DEF L
      <3>1. \A i \in 0 .. L - 1 : i + 1 \in 0 .. L
        BY <1>1
      <3> QED BY <1>3, <3>1
    <2> HIDE DEF w
    <2>3. w[0] = r.start /\ w[L - 1] = r.end
      <3>1. 0 \in 0 .. L - 1 /\ L - 1 \in 0 .. L - 1 /\ 0 + 1 = 1 /\ L - 1 + 1 = L
        BY <1>1
      <3>2. w[0] = m[1] /\ w[L - 1] = m[L]
        BY <2>2, <3>1
      <3> QED BY <1>1, <1>4, <1>5, <1>6, <1>7, <1>8, <1>10, <1>13, <3>2
    <2>4. ASSUME NEW i \in 1 .. L - 1
          PROVE  /\ Size(r.items[i]) >= 0 /\ w[i] = w[i - 1] + Size(r.items[i])
                 /\ Size(r.items[i]) > 0 => r.items[i].from = w[i - 1]
      <3>1. /\ i + 1 \in 1 .. L /\ i \in 0 .. L - 1 /\ i - 1 \in 0 .. L - 1
            /\ i + 1 - 1 = i /\ i - 1 + 1 = i
        BY <1>1
      <3>2. w[i] = m[i + 1] /\ w[i - 1] = m[i] /\ r.items[i] = b.items[i + 1]
        BY <2>1, <2>2, <3>1
      <3>3. /\ Size(b.items[i + 1]) >= 0 /\ m[i + 1] = m[i + 1 - 1] + Size(b.items[i + 1])
            /\ Size(b.items[i + 1]) > 0 => b.items[i + 1].from = m[i + 1 - 1]
        BY <1>3, <3>1 DEF Marks
      <3> QED BY <3>1, <3>2, <3>3
    <2>5. Marks(r, w)
      BY <2>1, <2>3, <2>4 DEF Marks
    <2> QED BY <1>7, <1>11, <2>1, <2>2, <2>5 DEF Marked, r
  <1> QED BY <1>12, <1>13

\* Cut at the back, they do so until little enough is kept.
LEMMA TruncateLast ==
    ASSUME NEW b \in Buffer, Marked(b), b.items # <<>>, KeptSize(b) > maxFileSize
    PROVE  LET r == TruncateItem(b, TRUE) IN
           /\ r.start = b.start /\ r.end <= b.end
           /\ \/ KeptSize(r) <= maxFileSize
              \/ Marked(r) /\ Len(r.items) = Len(b.items) - 1
  <1> DEFINE L == Len(b.items)
             item == b.items[L]
             d == KeptSize(b) - maxFileSize
             left == truncateItemData(item, d)
             newSize == KeptSize(b) - Size(item) + Size(left)
             r == TruncateItem(b, TRUE)
  <1>1. /\ b.items \in Seq(Piece) /\ b.start \in Int /\ b.end \in Int
        /\ L \in Nat \ {0} /\ item \in Piece
    <2>1. b.items \in Seq(Piece) /\ b.start \in Int /\ b.end \in Int
      BY BufferParts
    <2>2. L \in Nat \ {0}
      BY <2>1
    <2> QED BY <2>1, <2>2
  <1>2. d \in Nat /\ KeptSize(b) = b.end - b.start /\ maxFileSize \in Nat
        /\ d = KeptSize(b) - maxFileSize
    BY <1>1, BufferAssumption DEF KeptSize
  <1>3. PICK m \in [0 .. L -> Int] : Marks(b, m)
    BY DEF Marked
  <1>4. /\ Size(item) >= 0 /\ m[L] = m[L - 1] + Size(item)
        /\ m[0] = b.start /\ m[L] = b.end
        /\ m[L] \in Int /\ m[L - 1] \in Int
    <2>1. L \in 1 .. L /\ L \in 0 .. L /\ L - 1 \in 0 .. L
      BY <1>1
    <2> QED BY <1>3, <2>1 DEF Marks
  <1>5. /\ left \in Piece /\ left.to = item.to
        /\ Size(left) >= 0 /\ Size(left) <= Size(item)
        /\ Size(left) > 0 => Size(left) <= Size(item) - d
    <2> HIDE DEF item, d
    <2> QED BY <1>1, <1>2, <1>4, TruncateItemDataCuts
  <1>6. item.from \in Nat /\ item.to \in Nat /\ left.from \in Nat /\ left.to \in Nat
    <2> HIDE DEF left, item
    <2> QED BY <1>1, <1>5 DEF Piece
  <1>7. /\ r.items = IF Size(left) > 0 THEN [b.items EXCEPT ![L] = left]
                     ELSE SubSeq(b.items, 1, L - 1)
        /\ r.start = b.start /\ r.end = b.start + newSize
    BY DEF TruncateItem
  <1>8. Size(item) = item.to - item.from /\ Size(left) = left.to - left.from
    BY DEF Size
  <1>9. newSize = KeptSize(b) - Size(item) + Size(left)
    OBVIOUS
  <1> HIDE DEF left, item, d, r, newSize
  <1>10. /\ Size(item) \in Int /\ Size(left) \in Int /\ KeptSize(b) \in Int
         /\ newSize \in Int
         /\ KeptSize(r) = newSize /\ r.end = b.end - Size(item) + Size(left)
    <2>1. Size(item) \in Int /\ Size(left) \in Int
      BY <1>6, <1>8
    <2>2. KeptSize(b) \in Int
      BY <1>1, <1>2
    <2>3. newSize \in Int
      BY <1>9, <2>1, <2>2
    <2>4. KeptSize(r) = r.end - r.start
      BY DEF KeptSize
    <2>5. KeptSize(r) = newSize
      BY <1>1, <1>7, <2>3, <2>4
    <2>6. r.end = b.start + newSize /\ KeptSize(b) = b.end - b.start
      BY <1>2, <1>7
    <2>7. r.end = b.end - Size(item) + Size(left)
      BY <1>1, <1>9, <2>1, <2>6
    <2> QED BY <2>1, <2>2, <2>3, <2>5, <2>7
  <1>11. r.end <= b.end
    BY <1>1, <1>5, <1>6, <1>8, <1>10
  <1>12. CASE Size(left) > 0
    <2>1. KeptSize(r) <= maxFileSize
      BY <1>1, <1>2, <1>5, <1>6, <1>8, <1>9, <1>10, <1>12
    <2> QED BY <1>7, <1>11, <2>1 DEF r
  <1>13. CASE ~ (Size(left) > 0)
    <2> DEFINE w == [i \in 0 .. L - 1 |-> m[i]]
    <2>1. /\ Len(r.items) = L - 1
          /\ \A i \in 1 .. L - 1 : r.items[i] = b.items[i]
      BY <1>1, <1>7, <1>13
    <2>2. /\ w \in [0 .. L - 1 -> Int]
          /\ \A i \in 0 .. L - 1 : w[i] = m[i]
      <3> HIDE DEF L
      <3>1. \A i \in 0 .. L - 1 : i \in 0 .. L
        BY <1>1
      <3> QED BY <1>3, <3>1
    <2> HIDE DEF w
    <2>3. w[0] = r.start /\ w[L - 1] = r.end
      <3>1. 0 \in 0 .. L - 1 /\ L - 1 \in 0 .. L - 1
        BY <1>1
      <3>2. w[0] = m[0] /\ w[L - 1] = m[L - 1]
        BY <2>2, <3>1
      <3> QED BY <1>1, <1>4, <1>5, <1>6, <1>7, <1>8, <1>10, <1>13, <3>2
    <2>4. ASSUME NEW i \in 1 .. L - 1
          PROVE  /\ Size(r.items[i]) >= 0 /\ w[i] = w[i - 1] + Size(r.items[i])
                 /\ Size(r.items[i]) > 0 => r.items[i].from = w[i - 1]
      <3>1. i \in 1 .. L /\ i \in 0 .. L - 1 /\ i - 1 \in 0 .. L - 1
        BY <1>1
      <3>2. w[i] = m[i] /\ w[i - 1] = m[i - 1] /\ r.items[i] = b.items[i]
        BY <2>1, <2>2, <3>1
      <3> QED BY <1>3, <3>1, <3>2 DEF Marks
    <2>5. Marks(r, w)
      BY <2>1, <2>3, <2>4 DEF Marks
    <2> QED BY <1>7, <1>11, <2>1, <2>2, <2>5 DEF Marked, r
  <1> QED BY <1>12, <1>13

----------------------------------------------------------------------------
(* The rounds of truncate.                                                  *)

Cuts(b, back) == IF KeptSize(b) <= maxFileSize THEN b ELSE TruncateItem(b, back)

\* f[i] is the buffer after i rounds.
Rounds(f, b, back) ==
    /\ f \in [0 .. Len(b.items) -> Buffer]
    /\ f[0] = b
    /\ \A i \in 1 .. Len(b.items) : f[i] = Cuts(f[i - 1], back)
    /\ \A i \in 1 .. Len(b.items) : f[i - 1].items # <<>>
    /\ truncate(b, back) = f[Len(b.items)]

\* There is something to cut in every round.
LEMMA TruncateUnfolds ==
    ASSUME NEW b \in Buffer, NEW back \in BOOLEAN
    PROVE  \E f : Rounds(f, b, back)
  <1> DEFINE n == Len(b.items)
             Cut(x) == IF KeptSize(x) <= maxFileSize \/ x.items = <<>> THEN x
                       ELSE TruncateItem(x, back)
             round == [x \in Buffer |-> Cut(x)]
             step == [i \in 1 .. n |-> round]
             Body(f) == [i \in 0 .. n |->
                           IF i = 0 THEN b
                           ELSE IF KeptSize(f[i - 1]) <= maxFileSize THEN f[i - 1]
                           ELSE TruncateItem(f[i - 1], back)]
             whole == CHOOSE f : f = Body(f)
  <1>1. n \in Nat
    BY BufferParts
  <1>2. ASSUME NEW x \in Buffer
        PROVE  Cut(x) \in Buffer /\ Len(Cut(x).items) >= Len(x.items) - 1
    <2>1. Len(x.items) \in Nat /\ KeptSize(x) \in Int /\ maxFileSize \in Nat
      BY BufferParts, BufferAssumption DEF KeptSize
    <2>2. CASE KeptSize(x) <= maxFileSize \/ x.items = <<>>
      <3>1. Cut(x) = x
        BY <2>2
      <3> HIDE DEF Cut
      <3> QED BY <2>1, <3>1
    <2>3. CASE ~ (KeptSize(x) <= maxFileSize \/ x.items = <<>>)
      <3>1. Cut(x) = TruncateItem(x, back) /\ KeptSize(x) > maxFileSize /\ x.items # <<>>
        BY <2>1, <2>3
      <3> HIDE DEF Cut
      <3> QED BY <3>1, TruncateItemTypes
    <2> QED BY <2>2, <2>3
  <1>3. step \in [1 .. n -> [Buffer -> Buffer]]
    <2>1. round \in [Buffer -> Buffer]
      <3> HIDE DEF Cut
      <3> QED BY <1>2
    <2> HIDE DEF round
    <2> QED BY <2>1
  <1>4. PICK g : /\ g \in [0 .. n -> Buffer] /\ g[0] = b
                 /\ \A i \in 1 .. n : g[i] = step[i][g[i - 1]]
    <2> HIDE DEF n, step
    <2>1. \E g : Iterates(g, n, Buffer, b, step)
      BY <1>1, <1>3, Recursion
    <2> QED BY <2>1 DEF Iterates
  <1>5. ASSUME NEW i \in 1 .. n
        PROVE  g[i - 1] \in Buffer /\ g[i] = Cut(g[i - 1])
    <2>1. i - 1 \in 0 .. n
      BY <1>1
    <2>2. g[i - 1] \in Buffer
      BY <1>4, <2>1
    <2>3. step[i] = round
      OBVIOUS
    <2>4. round[g[i - 1]] = Cut(g[i - 1])
      <3> HIDE DEF Cut
      <3> QED BY <2>2
    <2> HIDE DEF Cut, round, step
    <2> QED BY <1>4, <2>2, <2>3, <2>4
  <1>6. \A i \in 0 .. n : Len(g[i].items) >= n - i
    <2> DEFINE T == {i \in 0 .. n : Len(g[i].items) >= n - i}
    <2>1. 0 \in T
      BY <1>1, <1>4
    <2>2. ASSUME NEW i \in 0 .. n - 1, i \in T PROVE i + 1 \in T
      <3>1. i + 1 \in 1 .. n /\ i + 1 \in 0 .. n /\ i + 1 - 1 = i /\ i \in 0 .. n
        BY <1>1
      <3>2. g[i] \in Buffer /\ g[i + 1] = Cut(g[i])
        <4> HIDE DEF Cut, n
        <4> QED BY <1>5, <3>1
      <3>3. Len(g[i + 1].items) >= Len(g[i].items) - 1
        <4> HIDE DEF Cut
        <4> QED BY <1>2, <3>2
      <3>4. Len(g[i].items) \in Nat /\ Len(g[i].items) >= n - i
        <4>1. Len(g[i].items) \in Nat
          BY <3>2, BufferParts
        <4> QED BY <2>2, <4>1
      <3>5. g[i + 1] \in Buffer
        BY <1>4, <3>1
      <3>6. Len(g[i + 1].items) \in Nat
        BY <3>5, BufferParts
      <3>7. Len(g[i + 1].items) >= n - (i + 1)
        <4> HIDE DEF n
        <4> QED BY <1>1, <3>1, <3>3, <3>4, <3>6
      <3> QED BY <3>1, <3>7
    <2> HIDE DEF T, n
    <2>3. \A i \in 0 .. n : i \in T
      BY <1>1, <2>1, <2>2, UpTo
    <2> QED BY <2>3 DEF T
  <1>15. ASSUME NEW i \in 1 .. n PROVE g[i - 1].items # <<>>
    <2>1. i - 1 \in 0 .. n
      BY <1>1
    <2>2. g[i - 1] \in Buffer
      BY <1>4, <2>1
    <2>3. Len(g[i - 1].items) >= n - (i - 1)
      <3> HIDE DEF n
      <3> QED BY <1>6, <2>1
    <2>4. n - (i - 1) > 0 /\ Len(g[i - 1].items) \in Nat
      BY <1>1, <2>2, BufferParts
    <2>5. Len(g[i - 1].items) # 0
      <3> HIDE DEF n
      <3> QED BY <1>1, <2>3, <2>4
    <2> QED BY <2>5
  <1>7. ASSUME NEW i \in 1 .. n PROVE g[i] = Cuts(g[i - 1], back)
    <2>1. g[i] = Cut(g[i - 1])
      <3> HIDE DEF Cut, n
      <3> QED BY <1>5
    <2>2. g[i - 1].items # <<>>
      <3> HIDE DEF n
      <3> QED BY <1>15
    <2> QED BY <2>1, <2>2 DEF Cuts
  <1>8. g = Body(g)
    <2>1. ASSUME NEW i \in 0 .. n
          PROVE  g[i] = IF i = 0 THEN b
                        ELSE IF KeptSize(g[i - 1]) <= maxFileSize THEN g[i - 1]
                        ELSE TruncateItem(g[i - 1], back)
      <3>1. CASE i = 0
        BY <1>4, <3>1
      <3>2. CASE i # 0
        <4>1. i \in 1 .. n
          BY <1>1, <3>2
        <4> HIDE DEF n
        <4> QED BY <1>7, <3>2, <4>1 DEF Cuts
      <3> QED BY <3>1, <3>2
    <2> HIDE DEF n
    <2> QED BY <1>4, <2>1
  <1>9. whole = Body(whole)
    <2> HIDE DEF Body
    <2> QED BY <1>8
  <1>10. truncate(b, back) = whole[n]
    BY DEF truncate
  <1> HIDE DEF whole
  <1>11. /\ whole[0] = b
         /\ \A i \in 1 .. n : whole[i] = Cuts(whole[i - 1], back)
         /\ whole = [i \in 0 .. n |-> whole[i]]
    <2>1. whole = [i \in 0 .. n |->
                     IF i = 0 THEN b
                     ELSE IF KeptSize(whole[i - 1]) <= maxFileSize THEN whole[i - 1]
                     ELSE TruncateItem(whole[i - 1], back)]
      BY <1>9
    <2>2. 0 \in 0 .. n /\ \A i \in 1 .. n : i \in 0 .. n /\ i # 0
      BY <1>1
    <2> HIDE DEF n
    <2> QED BY <2>1, <2>2 DEF Cuts
  <1>12. \A i \in 0 .. n : whole[i] = g[i]
    <2> DEFINE T == {i \in 0 .. n : whole[i] = g[i]}
    <2>1. 0 \in T
      BY <1>1, <1>4, <1>11
    <2>2. ASSUME NEW i \in 0 .. n - 1, i \in T PROVE i + 1 \in T
      <3>1. i + 1 \in 1 .. n /\ i + 1 \in 0 .. n /\ i + 1 - 1 = i
        BY <1>1
      <3> HIDE DEF n
      <3>2. whole[i + 1] = Cuts(whole[i], back) /\ g[i + 1] = Cuts(g[i], back)
        BY <1>7, <1>11, <3>1
      <3> QED BY <2>2, <3>1, <3>2
    <2> HIDE DEF T, n
    <2>3. \A i \in 0 .. n : i \in T
      BY <1>1, <2>1, <2>2, UpTo
    <2> QED BY <2>3 DEF T
  <1>13. truncate(b, back) = g[n]
    <2>1. n \in 0 .. n
      BY <1>1
    <2> HIDE DEF n
    <2> QED BY <1>10, <1>12, <2>1
  <1>14. Rounds(g, b, back)
    <2>1. \A i \in 1 .. Len(b.items) : g[i] = Cuts(g[i - 1], back) /\ g[i - 1].items # <<>>
      BY <1>7, <1>15
    <2>2. g \in [0 .. Len(b.items) -> Buffer] /\ g[0] = b
      BY <1>4
    <2> QED BY <1>13, <2>1, <2>2 DEF Rounds
  <1> QED BY <1>14

\* A truncated buffer is a buffer, and the same if not too much was kept.
LEMMA TruncateTypes ==
    ASSUME NEW b \in Buffer, NEW back \in BOOLEAN
    PROVE  /\ truncate(b, back) \in Buffer
           /\ KeptSize(b) <= maxFileSize => truncate(b, back) = b
  <1> DEFINE n == Len(b.items)
  <1>1. PICK f : Rounds(f, b, back)
    BY TruncateUnfolds
  <1>2. /\ f \in [0 .. n -> Buffer] /\ f[0] = b
        /\ \A i \in 1 .. n : f[i] = Cuts(f[i - 1], back)
        /\ truncate(b, back) = f[n]
    BY <1>1 DEF Rounds
  <1>3. n \in Nat /\ n \in 0 .. n
    <2>1. n \in Nat
      BY BufferParts
    <2> QED BY <2>1
  <1> HIDE DEF n
  <1>4. truncate(b, back) \in Buffer
    BY <1>2, <1>3
  <1>5. ASSUME KeptSize(b) <= maxFileSize PROVE truncate(b, back) = b
    <2> DEFINE T == {i \in 0 .. n : f[i] = b}
    <2>1. 0 \in T
      BY <1>2, <1>3
    <2>2. ASSUME NEW i \in 0 .. n - 1, i \in T PROVE i + 1 \in T
      <3>1. i + 1 \in 1 .. n /\ i + 1 \in 0 .. n /\ i + 1 - 1 = i
        BY <1>3
      <3>2. f[i + 1] = Cuts(f[i], back)
        BY <1>2, <3>1
      <3> QED BY <1>5, <2>2, <3>1, <3>2 DEF Cuts
    <2> HIDE DEF T
    <2>3. \A i \in 0 .. n : i \in T
      BY <1>3, <2>1, <2>2, UpTo
    <2> QED BY <1>2, <1>3, <2>3 DEF T
  <1> QED BY <1>4, <1>5

\* Truncating moves no character.
LEMMA TruncatePlain ==
    ASSUME NEW b \in Buffer, NEW back \in BOOLEAN, Plain(b)
    PROVE  Plain(truncate(b, back))
  <1> DEFINE n == Len(b.items)
  <1>1. PICK f : Rounds(f, b, back)
    BY TruncateUnfolds
  <1>2. /\ f \in [0 .. n -> Buffer] /\ f[0] = b
        /\ \A i \in 1 .. n : f[i] = Cuts(f[i - 1], back) /\ f[i - 1].items # <<>>
        /\ truncate(b, back) = f[n]
    BY <1>1 DEF Rounds
  <1>3. n \in Nat /\ n \in 0 .. n
    <2>1. n \in Nat
      BY BufferParts
    <2> QED BY <2>1
  <1> HIDE DEF n
  <1> DEFINE T == {i \in 0 .. n : Plain(f[i])}
  <1>4. 0 \in T
    BY <1>2, <1>3
  <1>5. ASSUME NEW i \in 0 .. n - 1, i \in T PROVE i + 1 \in T
    <2>1. i + 1 \in 1 .. n /\ i + 1 \in 0 .. n /\ i + 1 - 1 = i /\ i \in 0 .. n
      BY <1>3
    <2>2. f[i + 1] = Cuts(f[i], back) /\ f[i].items # <<>> /\ f[i] \in Buffer /\ Plain(f[i])
      BY <1>2, <1>5, <2>1
    <2>3. KeptSize(f[i]) \in Int /\ maxFileSize \in Nat
      BY <2>2, BufferParts, BufferAssumption DEF KeptSize
    <2>4. CASE KeptSize(f[i]) <= maxFileSize
      BY <2>1, <2>2, <2>4 DEF Cuts
    <2>5. CASE ~ (KeptSize(f[i]) <= maxFileSize)
      <3>1. KeptSize(f[i]) > maxFileSize /\ f[i + 1] = TruncateItem(f[i], back)
        BY <2>2, <2>3, <2>5 DEF Cuts
      <3>2. Plain(f[i + 1])
        BY <2>2, <3>1, TruncateItemPlain
      <3> QED BY <2>1, <3>2
    <2> QED BY <2>4, <2>5
  <1> HIDE DEF T
  <1>6. \A i \in 0 .. n : i \in T
    BY <1>3, <1>4, <1>5, UpTo
  <1> QED BY <1>2, <1>3, <1>6 DEF T

\* Pieces that adjoin are truncated to the size that may be kept: at the front
\* they still adjoin and end where they did, at the back they start there.
LEMMA TruncateFits ==
    ASSUME NEW b \in Buffer, NEW back \in BOOLEAN, Marked(b)
    PROVE  LET r == truncate(b, back) IN
           /\ KeptSize(r) <= maxFileSize
           /\ ~ back => Marked(r) /\ r.end = b.end /\ r.start >= b.start
           /\ back => r.start = b.start /\ r.end <= b.end
  <1> DEFINE n == Len(b.items)
             Side(x) ==
               /\ ~ back => Marked(x) /\ x.end = b.end /\ x.start >= b.start
               /\ back => x.start = b.start /\ x.end <= b.end
             Left(x, i) == KeptSize(x) <= maxFileSize \/ (Marked(x) /\ Len(x.items) <= n - i)
  <1>1. PICK f : Rounds(f, b, back)
    BY TruncateUnfolds
  <1>2. /\ f \in [0 .. n -> Buffer] /\ f[0] = b
        /\ \A i \in 1 .. n : f[i] = Cuts(f[i - 1], back)
        /\ truncate(b, back) = f[n]
    BY <1>1 DEF Rounds
  <1>3. n \in Nat /\ n \in 0 .. n /\ b.start \in Int /\ b.end \in Int
    <2>1. n \in Nat /\ b.start \in Int /\ b.end \in Int
      BY BufferParts
    <2> QED BY <2>1
  <1>4. ASSUME NEW x \in Buffer, Marked(x), x.items = <<>>
        PROVE  KeptSize(x) <= maxFileSize
    <2>1. PICK m \in [0 .. Len(x.items) -> Int] : Marks(x, m)
      BY <1>4 DEF Marked
    <2>2. x.start = x.end
      BY <1>4, <2>1 DEF Marks
    <2>3. x.start \in Int /\ x.end \in Int
      BY BufferParts
    <2> QED BY <2>2, <2>3, BufferAssumption DEF KeptSize
  <1>5. ASSUME NEW i \in 0 .. n - 1, NEW x \in Buffer, Side(x), Left(x, i)
        PROVE  Side(Cuts(x, back)) /\ Left(Cuts(x, back), i + 1)
    <2>0. /\ x.start \in Int /\ x.end \in Int /\ Len(x.items) \in Nat
          /\ KeptSize(x) \in Int /\ maxFileSize \in Nat
      <3>1. x.start \in Int /\ x.end \in Int /\ Len(x.items) \in Nat
        BY BufferParts
      <3> QED BY <3>1, BufferAssumption DEF KeptSize
    <2>1. CASE KeptSize(x) <= maxFileSize
      <3>1. Cuts(x, back) = x
        BY <2>1 DEF Cuts
      <3>2. Left(x, i + 1)
        BY <2>1
      <3> HIDE DEF Side, Left
      <3> QED BY <1>5, <3>1, <3>2
    <2>2. CASE KeptSize(x) > maxFileSize
      <3> DEFINE r == TruncateItem(x, back)
      <3>1. Cuts(x, back) = r
        BY <2>0, <2>2 DEF Cuts
      <3>2. Marked(x) /\ Len(x.items) <= n - i
        BY <1>5, <2>0, <2>2
      <3>3. x.items # <<>>
        BY <1>4, <2>0, <2>2, <3>2
      <3>4. r \in Buffer
        BY <2>2, <3>3, TruncateItemTypes
      <3>5. r.start \in Int /\ r.end \in Int /\ Len(r.items) \in Nat
        <4> HIDE DEF r
        <4> QED BY <3>4, BufferParts
      <3>6. CASE back
        <4>1. r = TruncateItem(x, TRUE)
          BY <3>6
        <4>2. /\ r.start = x.start /\ r.end <= x.end
              /\ \/ KeptSize(r) <= maxFileSize
                 \/ Marked(r) /\ Len(r.items) = Len(x.items) - 1
          <5> HIDE DEF r
          <5> QED BY <2>2, <3>2, <3>3, <4>1, TruncateLast
        <4>3. x.start = b.start /\ x.end <= b.end
          BY <1>5, <3>6
        <4>4. Side(r)
          <5> HIDE DEF r
          <5> QED BY <1>3, <2>0, <3>5, <3>6, <4>2, <4>3
        <4>5. Left(r, i + 1)
          <5> HIDE DEF r, n
          <5> QED BY <1>3, <2>0, <3>2, <3>5, <4>2
        <4> HIDE DEF Side, Left
        <4> QED BY <3>1, <4>4, <4>5
      <3>7. CASE ~ back
        <4>1. r = TruncateItem(x, FALSE)
          BY <3>7
        <4>2. /\ Marked(r) /\ r.end = x.end /\ r.start >= x.start
              /\ KeptSize(r) <= maxFileSize \/ Len(r.items) = Len(x.items) - 1
          <5> HIDE DEF r
          <5> QED BY <2>2, <3>2, <3>3, <4>1, TruncateFirst
        <4>3. x.end = b.end /\ x.start >= b.start
          BY <1>5, <3>7
        <4>4. Side(r)
          <5> HIDE DEF r
          <5> QED BY <1>3, <2>0, <3>5, <3>7, <4>2, <4>3
        <4>5. Left(r, i + 1)
          <5> HIDE DEF r, n
          <5> QED BY <1>3, <2>0, <3>2, <3>5, <4>2
        <4> HIDE DEF Side, Left
        <4> QED BY <3>1, <4>4, <4>5
      <3> QED BY <3>6, <3>7
    <2> QED BY <2>0, <2>1, <2>2
  <1>6. Side(b) /\ Left(b, 0)
    BY <1>3
  <1> DEFINE T == {i \in 0 .. n : Side(f[i]) /\ Left(f[i], i)}
  <1>7. 0 \in T
    <2> HIDE DEF Side, Left, n
    <2> QED BY <1>2, <1>3, <1>6
  <1>8. ASSUME NEW i \in 0 .. n - 1, i \in T PROVE i + 1 \in T
    <2>1. i + 1 \in 1 .. n /\ i + 1 \in 0 .. n /\ i + 1 - 1 = i /\ i \in 0 .. n
      BY <1>3
    <2> HIDE DEF Side, Left, n
    <2>2. f[i + 1] = Cuts(f[i], back) /\ f[i] \in Buffer
      BY <1>2, <2>1
    <2> QED BY <1>5, <1>8, <2>1, <2>2
  <1>9. Side(f[n]) /\ Left(f[n], n)
    <2>1. \A i \in 0 .. n : i \in T
      <3> HIDE DEF T, n
      <3> QED BY <1>3, <1>7, <1>8, UpTo
    <2> HIDE DEF Side, Left, n
    <2> QED BY <1>3, <2>1
  <1> DEFINE r == truncate(b, back)
  <1>10. r \in Buffer /\ r = f[n]
    BY <1>2, TruncateTypes
  <1>11. Side(r) /\ Left(r, n)
    <2> HIDE DEF Side, Left, r, n
    <2> QED BY <1>9, <1>10
  <1>12. KeptSize(r) <= maxFileSize
    <2> HIDE DEF r
    <2>1. Len(r.items) \in Nat /\ r.items \in Seq(Piece)
      BY <1>10, BufferParts
    <2>2. CASE Marked(r) /\ Len(r.items) <= n - n
      <3>1. r.items = <<>>
        <4> HIDE DEF n
        <4>1. Len(r.items) = 0
          BY <1>3, <2>1, <2>2
        <4> QED BY <2>1, <4>1
      <3> QED BY <1>4, <1>10, <2>2, <3>1
    <2> QED BY <1>11, <2>2
  <1> QED BY <1>11, <1>12

----------------------------------------------------------------------------
(* The text of a buffer, and what is added to it.                           *)

\* So many characters from an offset on.
Offsets(from, count) == [j \in 1 .. count |-> from + j - 1]

\* What adjoins a range of a file goes on with it.
LEMMA RangesJoin ==
    ASSUME NEW s \in Int, NEW from \in Int, NEW a \in Nat, NEW k \in Nat,
           k > 0 => from = s + a
    PROVE  Offsets(s, a) \o Offsets(from, k) = Offsets(s, a + k)
  <1> DEFINE q == [j \in 1 .. a |-> s + j - 1]
             t == [j \in 1 .. k |-> from + j - 1]
             w == [j \in 1 .. (a + k) |-> s + j - 1]
  <1>1. q \in Seq(Int) /\ Len(q) = a /\ t \in Seq(Int) /\ Len(t) = k
        /\ w \in Seq(Int) /\ Len(w) = a + k
    OBVIOUS
  <1>2. /\ \A j \in 1 .. a : q[j] = s + j - 1
        /\ \A j \in 1 .. k : t[j] = from + j - 1
        /\ \A j \in 1 .. (a + k) : w[j] = s + j - 1
    OBVIOUS
  <1> HIDE DEF q, t, w
  <1>3. /\ q \o t \in Seq(Int) /\ Len(q \o t) = a + k
        /\ \A j \in 1 .. (a + k) : (q \o t)[j] = IF j <= a THEN q[j] ELSE t[j - a]
    BY <1>1, ConcatProperties
  <1>4. ASSUME NEW j \in 1 .. (a + k) PROVE (q \o t)[j] = w[j]
    <2>1. CASE j <= a
      <3>1. j \in 1 .. a
        BY <2>1
      <3>2. (q \o t)[j] = q[j]
        BY <1>3, <2>1
      <3> QED BY <1>2, <3>1, <3>2
    <2>2. CASE ~ (j <= a)
      <3>1. j - a \in 1 .. k /\ k > 0
        BY <2>2
      <3>2. (q \o t)[j] = t[j - a]
        BY <1>3, <2>2
      <3> QED BY <1>2, <3>1, <3>2
    <2> QED BY <2>1, <2>2
  <1>5. q \o t = w
    BY <1>1, <1>3, <1>4, SeqEqual
  <1> QED BY <1>5 DEF q, t, w, Offsets

\* The marks lie between the start and the end of the buffer.
LEMMA MarksBetween ==
    ASSUME NEW b \in Buffer, NEW m \in [0 .. Len(b.items) -> Int], Marks(b, m)
    PROVE  \A i \in 0 .. Len(b.items) : b.start <= m[i] /\ m[i] <= b.end
  <1> DEFINE n == Len(b.items)
  <1>1. n \in Nat /\ b.items \in Seq(Piece) /\ b.start \in Int /\ b.end \in Int
    BY BufferParts
  <1>2. ASSUME NEW i \in 0 .. n - 1
        PROVE  /\ i \in 0 .. n /\ i + 1 \in 0 .. n
               /\ m[i] \in Int /\ m[i + 1] \in Int /\ m[i] <= m[i + 1]
    <2>1. i + 1 \in 1 .. n /\ i + 1 - 1 = i /\ i \in 0 .. n /\ i + 1 \in 0 .. n
      BY <1>1
    <2>2. Size(b.items[i + 1]) >= 0 /\ m[i + 1] = m[i] + Size(b.items[i + 1])
      BY <2>1 DEF Marks
    <2>3. b.items[i + 1] \in Piece
      BY <1>1, <2>1
    <2>4. Size(b.items[i + 1]) \in Int
      BY <2>3 DEF Size, Piece
    <2>5. m[i] \in Int /\ m[i + 1] \in Int
      BY <2>1
    <2> QED BY <2>1, <2>2, <2>4, <2>5
  <1>3. m[0] = b.start /\ m[n] = b.end
    BY DEF Marks
  <1> HIDE DEF n
  <1>4. \A i \in 0 .. n : b.start <= m[i]
    <2> DEFINE T == {i \in 0 .. n : b.start <= m[i]}
    <2>1. 0 \in T
      BY <1>1, <1>3
    <2>2. ASSUME NEW i \in 0 .. n - 1, i \in T PROVE i + 1 \in T
      BY <1>1, <1>2, <2>2
    <2> HIDE DEF T
    <2>3. \A i \in 0 .. n : i \in T
      BY <1>1, <2>1, <2>2, UpTo
    <2> QED BY <2>3 DEF T
  <1>5. \A i \in 0 .. n : m[i] <= b.end
    <2> DEFINE T == {i \in 0 .. n : m[n - i] <= b.end}
    <2>1. 0 \in T
      BY <1>1, <1>3
    <2>2. ASSUME NEW i \in 0 .. n - 1, i \in T PROVE i + 1 \in T
      <3>1. n - (i + 1) \in 0 .. n - 1 /\ n - (i + 1) + 1 = n - i
        BY <1>1
      <3>2. m[n - (i + 1)] <= m[n - i] /\ m[n - (i + 1)] \in Int /\ m[n - i] \in Int
        BY <1>2, <3>1
      <3>3. m[n - (i + 1)] <= b.end
        BY <1>1, <2>2, <3>2
      <3>4. i + 1 \in 0 .. n
        BY <1>1
      <3> QED BY <3>3, <3>4
    <2> HIDE DEF T
    <2>3. \A i \in 0 .. n : i \in T
      BY <1>1, <2>1, <2>2, UpTo
    <2>4. ASSUME NEW i \in 0 .. n PROVE m[i] <= b.end
      <3>1. n - i \in 0 .. n /\ n - (n - i) = i
        BY <1>1
      <3>2. n - i \in T
        BY <2>3, <3>1
      <3>3. m[n - (n - i)] <= b.end
        BY <3>2 DEF T
      <3> QED BY <3>1, <3>3
    <2> QED BY <2>4
  <1> QED BY <1>4, <1>5 DEF n

\* Without wide characters, the bytes are where the characters are.
LEMMA PlainBytes ==
    ASSUME NEW piece, piece.wide = {}, NEW n \in Int
    PROVE  Byte(piece, n) = n
  <1>1. {w \in piece.wide : w < n} = {}
    OBVIOUS
  <1>2. Cardinality({}) = 0
    BY FS_EmptySet
  <1> QED BY <1>1, <1>2 DEF Byte

\* The text of adjoining pieces is that of the file from the start to the end.
LEMMA FullLogIsTheRange ==
    ASSUME NEW b \in Buffer, Marked(b), Plain(b)
    PROVE  getFullLog(b) = [i \in 1 .. KeptSize(b) |-> b.start + i - 1]
  <1> DEFINE n == Len(b.items)
             Text(k) == [i \in 1 .. Size(b.items[k]) |-> b.items[k].from + i - 1]
             Body(f) == [k \in 0 .. n |->
                           IF k = 0 THEN <<>> ELSE f[k - 1] \o Text(k)]
             whole == CHOOSE f : f = Body(f)
  <1>1. /\ n \in Nat /\ b.start \in Int /\ b.end \in Int
        /\ \A k \in 1 .. n : b.items[k] \in Piece
    BY BufferParts
  <1>2. PICK m \in [0 .. n -> Int] : Marks(b, m)
    BY DEF Marked
  <1> DEFINE Upto(k) == [i \in 1 .. (m[k] - b.start) |-> b.start + i - 1]
             g == [k \in 0 .. n |-> Upto(k)]
  <1>3. m[0] = b.start /\ m[n] = b.end /\ \A k \in 0 .. n : m[k] \in Int /\ b.start <= m[k]
    <2>1. \A k \in 0 .. n : b.start <= m[k]
      BY <1>2, MarksBetween
    <2> QED BY <1>2, <2>1 DEF Marks
  <1>4. ASSUME NEW k \in 1 .. n PROVE Upto(k) = Upto(k - 1) \o Text(k)
    <2>1. k \in 0 .. n /\ k - 1 \in 0 .. n
      BY <1>1
    <2>2. b.items[k] \in Piece
      BY <1>1
    <2>3. /\ Size(b.items[k]) >= 0 /\ m[k] = m[k - 1] + Size(b.items[k])
          /\ Size(b.items[k]) > 0 => b.items[k].from = m[k - 1]
      BY <1>2 DEF Marks
    <2> DEFINE a == m[k - 1] - b.start
               l == Size(b.items[k])
               from == b.items[k].from
    <2>4. a \in Nat
      BY <1>1, <1>3, <2>1
    <2>5. l \in Nat /\ from \in Int
      <3>1. Size(b.items[k]) \in Int
        BY <2>2 DEF Size, Piece
      <3>2. from \in Int
        BY <2>2 DEF Piece
      <3> QED BY <2>3, <3>1, <3>2
    <2>6. m[k] - b.start = a + l /\ (l > 0 => from = b.start + a)
      <3>1. m[k - 1] \in Int /\ m[k] \in Int
        BY <1>3, <2>1
      <3> HIDE DEF l, from
      <3>2. m[k] = m[k - 1] + l /\ (l > 0 => from = m[k - 1])
        BY <2>3 DEF l, from
      <3> QED BY <1>1, <2>5, <3>1, <3>2
    <2>7. /\ Upto(k - 1) = Offsets(b.start, a)
          /\ Text(k) = Offsets(from, l)
      BY DEF Offsets
    <2>8. Upto(k) = Offsets(b.start, a + l)
      BY <2>6 DEF Offsets
    <2> HIDE DEF a, l, from, Upto, Text
    <2>9. Offsets(b.start, a) \o Offsets(from, l) = Offsets(b.start, a + l)
      BY <1>1, <2>4, <2>5, <2>6, RangesJoin
    <2> QED BY <2>7, <2>8, <2>9
  <1>5. Upto(0) = <<>>
    <2>1. 0 \in 0 .. n
      BY <1>1
    <2>2. m[0] - b.start = 0
      BY <1>1, <1>3
    <2>3. Upto(0) = [i \in 1 .. 0 |-> b.start + i - 1]
      BY <2>2
    <2> QED BY <2>3
  <1> HIDE DEF Text, Upto
  <1>6. g = Body(g)
    <2>1. ASSUME NEW k \in 0 .. n
          PROVE  g[k] = IF k = 0 THEN <<>> ELSE g[k - 1] \o Text(k)
      <3>1. CASE k = 0
        BY <1>5, <3>1
      <3>2. CASE k # 0
        <4>1. k \in 1 .. n /\ k - 1 \in 0 .. n
          BY <1>1, <3>2
        <4>2. g[k] = Upto(k) /\ g[k - 1] = Upto(k - 1)
          <5> HIDE DEF n
          <5> QED BY <4>1
        <4> HIDE DEF g, n
        <4> QED BY <1>4, <3>2, <4>1, <4>2
      <3> QED BY <3>1, <3>2
    <2>2. g = [k \in 0 .. n |-> g[k]]
      OBVIOUS
    <2> HIDE DEF n, g
    <2>3. [k \in 0 .. n |-> g[k]] = [k \in 0 .. n |-> IF k = 0 THEN <<>> ELSE g[k - 1] \o Text(k)]
      BY <2>1
    <2> QED BY <2>2, <2>3
  <1>7. whole = Body(whole)
    <2> HIDE DEF Body, g
    <2> QED BY <1>6
  <1>8. getFullLog(b) = whole[n]
    <2> DEFINE Bytes(k) == [i \in 1 .. Size(b.items[k]) |->
                              Byte(b.items[k], b.items[k].from + i - 1)]
               Wide0(f) == [k \in 0 .. n |->
                             IF k = 0 THEN <<>> ELSE f[k - 1] \o Bytes(k)]
    <2>1. ASSUME NEW k \in 1 .. n PROVE Bytes(k) = Text(k)
      <3>1. b.items[k] \in Piece /\ b.items[k].wide = {}
        BY <1>1 DEF Plain
      <3>2. ASSUME NEW i \in 1 .. Size(b.items[k])
            PROVE  Byte(b.items[k], b.items[k].from + i - 1) = b.items[k].from + i - 1
        <4>1. b.items[k].from + i - 1 \in Int
          BY <3>1 DEF Piece
        <4> QED BY <3>1, <4>1, PlainBytes
      <3> QED BY <3>2 DEF Text
    <2>2. \A f : Wide0(f) = Body(f)
      <3> SUFFICES ASSUME NEW f PROVE Wide0(f) = Body(f)
        OBVIOUS
      <3>1. \A k \in 0 .. n : k # 0 => k \in 1 .. n
        BY <1>1
      <3>2. \A k \in 0 .. n : (IF k = 0 THEN <<>> ELSE f[k - 1] \o Bytes(k))
                             = (IF k = 0 THEN <<>> ELSE f[k - 1] \o Text(k))
        <4> HIDE DEF n, Bytes
        <4> QED BY <2>1, <3>1
      <3> HIDE DEF n, Bytes
      <3> QED BY <3>2
    <2>3. getFullLog(b) = (CHOOSE f : f = Wide0(f))[n]
      BY DEF getFullLog
    <2> HIDE DEF Wide0, Body
    <2>4. (CHOOSE f : f = Wide0(f)) = (CHOOSE f : f = Body(f))
      BY <2>2
    <2> QED BY <2>3, <2>4
  <1> HIDE DEF whole
  <1>9. whole[0] = <<>> /\ (\A k \in 1 .. n : whole[k] = whole[k - 1] \o Text(k))
    <2>1. whole = [k \in 0 .. n |-> IF k = 0 THEN <<>> ELSE whole[k - 1] \o Text(k)]
      BY <1>7
    <2>2. 0 \in 0 .. n /\ \A k \in 1 .. n : k \in 0 .. n /\ k # 0
      BY <1>1
    <2> HIDE DEF n
    <2> QED BY <2>1, <2>2
  <1> DEFINE Longer(q, k) == q \o Text(k)
  <1>10. /\ \A k \in 1 .. n : whole[k] = Longer(whole[k - 1], k)
         /\ \A k \in 1 .. n : Upto(k) = Longer(Upto(k - 1), k)
    BY <1>4, <1>9
  <1>11. \A k \in 0 .. n : whole[k] = Upto(k)
    <2> DEFINE T == {k \in 0 .. n : whole[k] = Upto(k)}
    <2>1. 0 \in T
      BY <1>1, <1>5, <1>9
    <2>2. ASSUME NEW k \in 0 .. n - 1, k \in T PROVE k + 1 \in T
      <3>1. k + 1 \in 1 .. n /\ k + 1 \in 0 .. n /\ k + 1 - 1 = k
        BY <1>1
      <3> HIDE DEF n
      <3> HIDE DEF Longer
      <3>2. whole[k + 1] = Longer(whole[k + 1 - 1], k + 1)
        BY <1>10, <3>1
      <3>3. Upto(k + 1) = Longer(Upto(k + 1 - 1), k + 1)
        BY <1>10, <3>1
      <3>4. whole[k + 1 - 1] = Upto(k + 1 - 1)
        BY <2>2, <3>1
      <3> QED BY <3>1, <3>2, <3>3, <3>4
    <2> HIDE DEF T, n
    <2>3. \A k \in 0 .. n : k \in T
      BY <1>1, <2>1, <2>2, UpTo
    <2> QED BY <2>3 DEF T
  <1>12. Upto(n) = [i \in 1 .. (b.end - b.start) |-> b.start + i - 1]
    <2> HIDE DEF n
    <2> QED BY <1>3 DEF Upto
  <1>13. whole[n] = Upto(n)
    <2>1. n \in 0 .. n
      BY <1>1
    <2> HIDE DEF n
    <2> QED BY <1>11, <2>1
  <1> QED BY <1>8, <1>12, <1>13 DEF KeptSize

\* What is added keeps a buffer a buffer.
LEMMA AddTypes ==
    ASSUME NEW b \in Buffer, NEW piece \in Piece
    PROVE  add(b, piece) \in Buffer /\ prepend(b, piece) \in Buffer
  <1>1. /\ b.items \in Seq(Piece) /\ b.start \in Int /\ b.end \in Int
    BY BufferParts
  <1>2. piece.from \in Nat /\ piece.to \in Nat
    BY DEF Piece
  <1> DEFINE added == IF StartsWith(b, piece) THEN AfterNewline(piece) ELSE piece
             c == [items |-> Append(b.items, added),
                   start |-> IF StartsWith(b, piece) THEN added.from ELSE b.start,
                   end |-> added.to]
             e == [items |-> <<piece>> \o b.items,
                   start |-> piece.from,
                   end |-> IF StartsWith(b, piece) THEN piece.to ELSE b.end]
  <1>3. c \in Buffer
    <2>1. added \in Piece
      BY AfterNewlineCuts
    <2> HIDE DEF added
    <2>2. Append(b.items, added) \in Seq(Piece) /\ added.from \in Nat /\ added.to \in Nat
      BY <1>1, <2>1 DEF Piece
    <2> QED BY <1>1, <2>2 DEF Buffer, Piece
  <1>4. e \in Buffer
    <2>1. <<piece>> \o b.items \in Seq(Piece)
      BY <1>1
    <2> QED BY <1>1, <1>2, <2>1 DEF Buffer, Piece
  <1>5. add(b, piece) = truncate(c, FALSE) /\ prepend(b, piece) = truncate(e, TRUE)
    BY DEF add, prepend
  <1> HIDE DEF c, e
  <1> QED BY <1>3, <1>4, <1>5, TruncateTypes

\* What is added to a plain buffer leaves it plain, if it is plain itself.
LEMMA AddPlain ==
    ASSUME NEW b \in Buffer, NEW piece \in Piece, Plain(b), piece.wide = {}
    PROVE  Plain(add(b, piece)) /\ Plain(prepend(b, piece))
  <1>1. b.items \in Seq(Piece) /\ b.start \in Int /\ b.end \in Int
    BY BufferParts
  <1>2. piece.from \in Nat /\ piece.to \in Nat
    BY DEF Piece
  <1> DEFINE added == IF StartsWith(b, piece) THEN AfterNewline(piece) ELSE piece
             c == [items |-> Append(b.items, added),
                   start |-> IF StartsWith(b, piece) THEN added.from ELSE b.start,
                   end |-> added.to]
             e == [items |-> <<piece>> \o b.items,
                   start |-> piece.from,
                   end |-> IF StartsWith(b, piece) THEN piece.to ELSE b.end]
  <1>3. added \in Piece /\ added.wide = {}
    BY AfterNewlineCuts
  <1>4. \A i \in 1 .. Len(b.items) : b.items[i].wide = {}
    BY DEF Plain
  <1>5. c \in Buffer /\ Plain(c)
    <2> HIDE DEF added
    <2>1. Append(b.items, added) \in Seq(Piece) /\ added.from \in Nat /\ added.to \in Nat
      BY <1>1, <1>3 DEF Piece
    <2>2. c \in Buffer
      BY <1>1, <2>1 DEF Buffer, Piece
    <2>3. \A i \in 1 .. Len(Append(b.items, added)) : Append(b.items, added)[i].wide = {}
      BY <1>1, <1>3, <1>4
    <2> QED BY <2>2, <2>3 DEF Plain
  <1>6. e \in Buffer /\ Plain(e)
    <2>1. <<piece>> \o b.items \in Seq(Piece)
      BY <1>1
    <2>2. e \in Buffer
      BY <1>1, <1>2, <2>1 DEF Buffer, Piece
    <2>3. \A i \in 1 .. Len(<<piece>> \o b.items) : (<<piece>> \o b.items)[i].wide = {}
      BY <1>1, <1>4
    <2> QED BY <2>2, <2>3 DEF Plain
  <1>7. add(b, piece) = truncate(c, FALSE) /\ prepend(b, piece) = truncate(e, TRUE)
    BY DEF add, prepend
  <1> HIDE DEF c, e
  <1> QED BY <1>5, <1>6, <1>7, TruncatePlain

\* The tail adjoins the pieces kept, and is kept to its end.
LEMMA AddAdjoins ==
    ASSUME NEW b \in Buffer, NEW piece \in Piece, Marked(b),
           Size(piece) > 0, piece.from = b.end
    PROVE  LET r == add(b, piece) IN
           /\ r \in Buffer /\ Marked(r) /\ KeptSize(r) <= maxFileSize
           /\ r.start >= b.start /\ r.end = piece.to
  <1> DEFINE n == Len(b.items)
             added == IF StartsWith(b, piece) THEN AfterNewline(piece) ELSE piece
             c == [items |-> Append(b.items, added),
                   start |-> IF StartsWith(b, piece) THEN added.from ELSE b.start,
                   end |-> added.to]
  <1>1. /\ b.items \in Seq(Piece) /\ b.start \in Int /\ b.end \in Int /\ n \in Nat
        /\ \A k \in 1 .. n : b.items[k] \in Piece
    BY BufferParts
  <1>2. piece.from \in Nat /\ piece.to \in Nat /\ piece.from < piece.to
    <2>1. piece.from \in Nat /\ piece.to \in Nat
      BY DEF Piece
    <2> QED BY <2>1 DEF Size
  <1>3. /\ added \in Piece /\ added.to = piece.to
        /\ piece.from <= added.from /\ added.from <= added.to
        /\ ~ StartsWith(b, piece) => added = piece
    BY <1>2, AfterNewlineCuts
  <1> HIDE DEF added
  <1>4. added.from \in Nat /\ added.to \in Nat
    BY <1>3 DEF Piece
  <1>5. /\ c.items = Append(b.items, added) /\ c.end = added.to
        /\ c.start = IF StartsWith(b, piece) THEN added.from ELSE b.start
    OBVIOUS
  <1>6. c \in Buffer
    <2>1. Append(b.items, added) \in Seq(Piece)
      BY <1>1, <1>3
    <2> QED BY <1>1, <1>4, <2>1 DEF Buffer, Piece
  <1>7. add(b, piece) = truncate(c, FALSE)
    BY DEF add, added
  <1> HIDE DEF c
  <1>8. PICK m \in [0 .. n -> Int] : Marks(b, m)
    BY DEF Marked
  <1>9. /\ m[0] = b.start /\ m[n] = b.end
        /\ \A i \in 0 .. n : m[i] \in Int /\ b.start <= m[i] /\ m[i] <= b.end
        /\ \A i \in 1 .. n : /\ Size(b.items[i]) >= 0
                             /\ m[i] = m[i - 1] + Size(b.items[i])
                             /\ Size(b.items[i]) > 0 => b.items[i].from = m[i - 1]
    <2>1. \A i \in 0 .. n : b.start <= m[i] /\ m[i] <= b.end
      BY <1>8, MarksBetween
    <2> QED BY <1>8, <2>1 DEF Marks
  <1>10. /\ Len(c.items) = n + 1 /\ c.items[n + 1] = added
         /\ \A i \in 1 .. n : c.items[i] = b.items[i]
    BY <1>1, <1>3, <1>5
  <1>11. Size(added) = added.to - added.from /\ Size(added) \in Int /\ Size(added) >= 0
    BY <1>3, <1>4 DEF Size
  <1>12. b.start <= b.end
    <2>1. 0 \in 0 .. n
      BY <1>1
    <2> QED BY <1>1, <1>9, <2>1
  <1> HIDE DEF n
  <1>13. Marked(c) /\ c.start >= b.start
    <2>1. CASE StartsWith(b, piece)
      <3> DEFINE w == [i \in 0 .. n + 1 |-> IF i = n + 1 THEN added.to ELSE added.from]
      <3>1. /\ w \in [0 .. n + 1 -> Int]
            /\ w[n + 1] = added.to /\ \A i \in 0 .. n : w[i] = added.from
        BY <1>1, <1>4
      <3> HIDE DEF w
      <3>2. b.start = b.end /\ c.start = added.from
        BY <1>5, <2>1 DEF StartsWith
      <3>3. ASSUME NEW i \in 1 .. n + 1
            PROVE  /\ Size(c.items[i]) >= 0 /\ w[i] = w[i - 1] + Size(c.items[i])
                   /\ Size(c.items[i]) > 0 => c.items[i].from = w[i - 1]
        <4>1. CASE i = n + 1
          <5>1. i - 1 \in 0 .. n /\ n + 1 - 1 = n
            BY <1>1, <4>1
          <5>2. w[i] = added.to /\ w[i - 1] = added.from /\ c.items[i] = added
            BY <1>10, <3>1, <4>1, <5>1
          <5> QED BY <1>4, <1>11, <5>2
        <4>2. CASE i # n + 1
          <5>1. i \in 1 .. n /\ i \in 0 .. n /\ i - 1 \in 0 .. n
            BY <1>1, <4>2
          <5>2. m[i] = b.start /\ m[i - 1] = b.start
            BY <1>1, <1>9, <3>2, <5>1
          <5>3. Size(b.items[i]) \in Int
            BY <1>1, <5>1 DEF Size, Piece
          <5>4. Size(b.items[i]) = 0
            BY <1>1, <1>9, <5>1, <5>2, <5>3
          <5> QED BY <1>4, <1>10, <3>1, <5>1, <5>4
        <4> QED BY <4>1, <4>2
      <3>4. w[0] = c.start
        BY <1>1, <3>1, <3>2
      <3>5. Marks(c, w)
        BY <1>5, <1>10, <3>1, <3>3, <3>4 DEF Marks
      <3>6. c.start >= b.start
        BY <1>1, <1>2, <1>3, <1>4, <3>2
      <3> QED BY <1>10, <3>1, <3>5, <3>6 DEF Marked
    <2>2. CASE ~ StartsWith(b, piece)
      <3> DEFINE w == [i \in 0 .. n + 1 |-> IF i = n + 1 THEN added.to ELSE m[i]]
      <3>1. /\ w \in [0 .. n + 1 -> Int]
            /\ w[n + 1] = added.to /\ \A i \in 0 .. n : w[i] = m[i]
        <4>1. \A i \in 0 .. n + 1 : i # n + 1 => i \in 0 .. n
          BY <1>1
        <4>2. \A i \in 0 .. n : i # n + 1 /\ i \in 0 .. n + 1
          BY <1>1
        <4>3. n + 1 \in 0 .. n + 1
          BY <1>1
        <4> QED BY <1>4, <1>9, <4>1, <4>2, <4>3
      <3> HIDE DEF w
      <3>2. c.start = b.start /\ added = piece
        BY <1>3, <1>5, <2>2
      <3>3. ASSUME NEW i \in 1 .. n + 1
            PROVE  /\ Size(c.items[i]) >= 0 /\ w[i] = w[i - 1] + Size(c.items[i])
                   /\ Size(c.items[i]) > 0 => c.items[i].from = w[i - 1]
        <4>1. CASE i = n + 1
          <5>1. i - 1 = n /\ n \in 0 .. n
            BY <1>1, <4>1
          <5>2. w[i] = added.to /\ w[i - 1] = b.end /\ c.items[i] = added
            BY <1>9, <1>10, <3>1, <4>1, <5>1
          <5>3. b.end = added.from
            BY <3>2
          <5> QED BY <1>1, <1>4, <1>11, <5>2, <5>3
        <4>2. CASE i # n + 1
          <5>1. i \in 1 .. n /\ i \in 0 .. n /\ i - 1 \in 0 .. n
            BY <1>1, <4>2
          <5> QED BY <1>9, <1>10, <3>1, <5>1
        <4> QED BY <4>1, <4>2
      <3>4. w[0] = c.start
        BY <1>1, <1>9, <3>1, <3>2
      <3>5. Marks(c, w)
        BY <1>5, <1>10, <3>1, <3>3, <3>4 DEF Marks
      <3>6. c.start >= b.start
        BY <1>1, <3>2
      <3> QED BY <1>10, <3>1, <3>5, <3>6 DEF Marked
    <2> QED BY <2>1, <2>2
  <1> DEFINE r == add(b, piece)
  <1>14. /\ r \in Buffer /\ Marked(r) /\ KeptSize(r) <= maxFileSize
         /\ r.end = c.end /\ r.start >= c.start
    BY <1>6, <1>7, <1>13, TruncateTypes, TruncateFits
  <1>15. r.start \in Int /\ c.start \in Int
    BY <1>6, <1>14, BufferParts
  <1> HIDE DEF r
  <1>16. r.start >= b.start
    BY <1>1, <1>13, <1>14, <1>15
  <1> QED BY <1>3, <1>5, <1>14, <1>16 DEF r

\* A range before the pieces kept adjoins them, if they are not cut at the back.
LEMMA PrependAdjoins ==
    ASSUME NEW b \in Buffer, NEW piece \in Piece, Marked(b),
           Size(piece) > 0, piece.to = b.start, b.start < b.end
    PROVE  LET r == prepend(b, piece) IN
           /\ r \in Buffer /\ KeptSize(r) <= maxFileSize
           /\ r.start = piece.from /\ r.end <= b.end
           /\ r.end = b.end => Marked(r)
  <1> DEFINE n == Len(b.items)
             c == [items |-> <<piece>> \o b.items, start |-> piece.from, end |-> b.end]
  <1>1. /\ b.items \in Seq(Piece) /\ b.start \in Int /\ b.end \in Int /\ n \in Nat
    BY BufferParts
  <1>2. piece.from \in Nat /\ piece.to \in Nat /\ Size(piece) = piece.to - piece.from
    BY DEF Piece, Size
  <1>3. c \in Buffer
    <2>1. <<piece>> \o b.items \in Seq(Piece)
      BY <1>1
    <2> QED BY <1>1, <1>2, <2>1 DEF Buffer, Piece
  <1>4. prepend(b, piece) = truncate(c, TRUE)
    <2>1. ~ StartsWith(b, piece)
      BY <1>1 DEF StartsWith
    <2> QED BY <2>1 DEF prepend
  <1>5. c.items = <<piece>> \o b.items /\ c.start = piece.from /\ c.end = b.end
    OBVIOUS
  <1> HIDE DEF c
  <1>6. PICK m \in [0 .. n -> Int] : Marks(b, m)
    BY DEF Marked
  <1>7. /\ m[0] = b.start /\ m[n] = b.end
        /\ \A i \in 1 .. n : /\ Size(b.items[i]) >= 0
                             /\ m[i] = m[i - 1] + Size(b.items[i])
                             /\ Size(b.items[i]) > 0 => b.items[i].from = m[i - 1]
    BY <1>6 DEF Marks
  <1>8. /\ Len(c.items) = n + 1 /\ c.items[1] = piece
        /\ \A i \in 1 .. n : c.items[i + 1] = b.items[i]
    BY <1>1, <1>5
  <1> HIDE DEF n
  <1>9. Marked(c)
    <2> DEFINE w == [i \in 0 .. n + 1 |-> IF i = 0 THEN piece.from ELSE m[i - 1]]
    <2>1. /\ w \in [0 .. n + 1 -> Int]
          /\ w[0] = piece.from /\ \A i \in 1 .. n + 1 : w[i] = m[i - 1]
      <3>1. \A i \in 0 .. n + 1 : i # 0 => i - 1 \in 0 .. n
        BY <1>1
      <3>2. \A i \in 1 .. n + 1 : i # 0 /\ i \in 0 .. n + 1
        BY <1>1
      <3>3. 0 \in 0 .. n + 1
        BY <1>1
      <3> QED BY <1>2, <1>6, <3>1, <3>2, <3>3
    <2> HIDE DEF w
    <2>2. ASSUME NEW i \in 1 .. n + 1
          PROVE  /\ Size(c.items[i]) >= 0 /\ w[i] = w[i - 1] + Size(c.items[i])
                 /\ Size(c.items[i]) > 0 => c.items[i].from = w[i - 1]
      <3>1. CASE i = 1
        <4>1. w[i] = b.start /\ w[i - 1] = piece.from /\ c.items[i] = piece
          BY <1>1, <1>7, <1>8, <2>1, <3>1
        <4> QED BY <1>1, <1>2, <4>1
      <3>2. CASE i # 1
        <4>1. i - 1 \in 1 .. n /\ i - 1 \in 1 .. n + 1 /\ i - 1 + 1 = i
          BY <1>1, <3>2
        <4>2. w[i] = m[i - 1] /\ w[i - 1] = m[i - 1 - 1] /\ c.items[i] = b.items[i - 1]
          BY <1>8, <2>1, <4>1
        <4> QED BY <1>7, <4>1, <4>2
      <3> QED BY <3>1, <3>2
    <2>3. w[n + 1] = c.end
      <3>1. n + 1 \in 1 .. n + 1 /\ n + 1 - 1 = n
        BY <1>1
      <3>2. w[n + 1] = m[n + 1 - 1]
        BY <1>1, <2>1, <3>1
      <3> QED BY <1>5, <1>7, <3>1, <3>2
    <2>4. Marks(c, w)
      BY <1>5, <1>8, <2>1, <2>2, <2>3 DEF Marks
    <2> QED BY <1>8, <2>1, <2>4 DEF Marked
  <1> DEFINE r == prepend(b, piece)
  <1>10. /\ r \in Buffer /\ KeptSize(r) <= maxFileSize
         /\ KeptSize(c) <= maxFileSize => r = c
         /\ r.start = c.start /\ r.end <= c.end
    BY <1>3, <1>4, <1>9, TruncateTypes, TruncateFits
  <1>11. /\ r.start \in Int /\ r.end \in Int /\ c.start \in Int /\ c.end \in Int
    BY <1>3, <1>10, BufferParts
  <1> HIDE DEF r
  <1>12. ASSUME r.end = b.end PROVE Marked(r)
    <2>1. KeptSize(c) <= maxFileSize
      BY <1>5, <1>10, <1>11, <1>12 DEF KeptSize
    <2> QED BY <1>9, <1>10, <2>1
  <1> QED BY <1>5, <1>10, <1>12 DEF r

----------------------------------------------------------------------------
(* How many calls there are of each kind.                                   *)

\* What is in one of two bags only is counted there.
LEMMA CountsOfSum ==
    ASSUME NEW B, NEW C, Positive(B), Positive(C)
    PROVE  /\ DOMAIN (B (+) C) = DOMAIN B \cup DOMAIN C
           /\ \A c \in DOMAIN B : c \notin DOMAIN C => (B (+) C)[c] = B[c]
           /\ \A c \in DOMAIN C : c \notin DOMAIN B => (B (+) C)[c] = C[c]
  BY DEF (+), Positive

\* What is taken away entirely is gone, what is not stays.
LEMMA CountsOfDifference ==
    ASSUME NEW B, NEW C, Positive(B), Positive(C)
    PROVE  /\ DOMAIN (B (-) C) \subseteq DOMAIN B
           /\ \A c \in DOMAIN B : c \notin DOMAIN C =>
                c \in DOMAIN (B (-) C) /\ (B (-) C)[c] = B[c]
           /\ \A c \in DOMAIN B : c \in DOMAIN C /\ B[c] = C[c] =>
                c \notin DOMAIN (B (-) C)
  <1> DEFINE left == [e \in DOMAIN B |-> IF e \in DOMAIN C THEN B[e] - C[e] ELSE B[e]]
  <1>1. B (-) C = [e \in {d \in DOMAIN left : left[d] > 0} |-> left[e]]
    BY DEF (-)
  <1>2. \A c \in DOMAIN B : c \notin DOMAIN C => left[c] = B[c] /\ left[c] > 0
    BY DEF Positive
  <1>3. \A c \in DOMAIN B : c \in DOMAIN C /\ B[c] = C[c] => left[c] = 0
    BY DEF Positive
  <1>4. DOMAIN left = DOMAIN B
    OBVIOUS
  <1> HIDE DEF left
  <1> QED BY <1>1, <1>2, <1>3, <1>4

\* Another call than the one given is as it was.
Same(c, bag, after) ==
    /\ c \in DOMAIN after <=> c \in DOMAIN bag
    /\ c \in DOMAIN bag => after[c] = bag[c]

\* A call that ends leaves the others as they are.
LEMMA CountsAfterEnd ==
    ASSUME NEW call \in DOMAIN calls, Positive(calls), Ended(call)
    PROVE  /\ \A c : c # call => Same(c, calls, calls')
           /\ calls[call] = 1 => call \notin DOMAIN calls'
           /\ DOMAIN calls' \subseteq DOMAIN calls
  <1> DEFINE one == SetToBag({call})
  <1>1. DOMAIN one = {call} /\ Positive(one) /\ one[call] = 1
    BY DEF SetToBag, Positive
  <1> HIDE DEF one
  <1>2. calls' = calls (-) one
    BY DEF Ended, one
  <1> DEFINE rest == calls (-) one
  <1>3. /\ DOMAIN rest \subseteq DOMAIN calls
        /\ \A c \in DOMAIN calls : c \notin DOMAIN one => c \in DOMAIN rest /\ rest[c] = calls[c]
        /\ \A c \in DOMAIN calls : c \in DOMAIN one /\ calls[c] = one[c] => c \notin DOMAIN rest
    BY <1>1, CountsOfDifference
  <1> HIDE DEF rest
  <1>4. calls' = rest
    BY <1>2 DEF rest
  <1> QED BY <1>1, <1>3, <1>4 DEF Same

\* A call that is followed by another one leaves the others as they are.
LEMMA CountsAfterFollowed ==
    ASSUME NEW call \in DOMAIN calls, NEW next, Positive(calls), Followed(call, next)
    PROVE  /\ \A c : c # call /\ c # next => Same(c, calls, calls')
           /\ DOMAIN calls' \subseteq DOMAIN calls \cup {next}
           /\ calls[call] = 1 /\ call # next => call \notin DOMAIN calls'
           /\ calls[call] = 1 /\ next = call => calls'[next] = 1
           /\ next \notin DOMAIN calls => calls'[next] = 1
  <1> DEFINE one == SetToBag({call})
             last == SetToBag({next})
             rest == calls (-) one
             sum == rest (+) last
  <1>1. /\ DOMAIN one = {call} /\ Positive(one) /\ one[call] = 1
        /\ DOMAIN last = {next} /\ Positive(last) /\ last[next] = 1
    BY DEF SetToBag, Positive
  <1>2. calls' = sum
    BY DEF Followed
  <1> HIDE DEF one, last
  <1>3. /\ DOMAIN rest \subseteq DOMAIN calls
        /\ \A c \in DOMAIN calls : c \notin DOMAIN one => c \in DOMAIN rest /\ rest[c] = calls[c]
        /\ \A c \in DOMAIN calls : c \in DOMAIN one /\ calls[c] = one[c] => c \notin DOMAIN rest
    BY <1>1, CountsOfDifference
  <1>4. Positive(rest)
    BY <1>1, DifferenceOfBags
  <1> HIDE DEF rest
  <1>5. /\ DOMAIN sum = DOMAIN rest \cup DOMAIN last
        /\ \A c \in DOMAIN rest : c \notin DOMAIN last => sum[c] = rest[c]
        /\ \A c \in DOMAIN last : c \notin DOMAIN rest => sum[c] = last[c]
    BY <1>1, <1>4, CountsOfSum
  <1> HIDE DEF sum
  <1> QED BY <1>1, <1>2, <1>3, <1>5 DEF Same

\* What is asked for when a file is left: what was, and the end of the file.
LEMMA CallsOfStop ==
    ASSUME Positive(calls)
    PROVE  DOMAIN Stopped \subseteq DOMAIN calls
             \cup {c \in {fetchLog(page, logs[page].end)} : page # None}
  <1>1. ASSUME NEW p PROVE DOMAIN Forgotten(p) \subseteq DOMAIN calls \cup {fetchLog(p, logs[p].end)}
    <2> DEFINE timer == RetryTimer(p)
               request == fetchLog(p, logs[p].end)
               rest == calls (-) Copies(timer, calls[timer])
               again == Copies(request, calls[timer])
    <2>1. CASE timer \in DOMAIN calls
      <3>1. calls[timer] \in Nat \ {0}
        BY <2>1 DEF Positive
      <3> HIDE DEF timer, request
      <3>2. Positive(rest) /\ DOMAIN rest \subseteq DOMAIN calls
        BY <3>1, CopiesOfCall, DifferenceOfBags
      <3>3. Positive(again) /\ DOMAIN again = {request}
        BY <3>1, CopiesOfCall
      <3> HIDE DEF rest, again
      <3>4. DOMAIN (rest (+) again) = DOMAIN rest \cup DOMAIN again
        BY <3>2, <3>3, SumOfBags
      <3>5. Forgotten(p) = rest (+) again
        BY <2>1 DEF Forgotten, rest, again, timer, request, BagToSet
      <3> QED BY <3>2, <3>3, <3>4, <3>5 DEF request
    <2>2. CASE timer \notin DOMAIN calls
      BY <2>2 DEF Forgotten, BagToSet
    <2> QED BY <2>1, <2>2
  <1> QED BY <1>1 DEF Stopped

----------------------------------------------------------------------------
(* What the agent answers.                                                  *)

\* No more characters are wide than there are bytes.
LEMMA WideCount ==
    ASSUME NEW p \in Path, NEW from \in Int, NEW to \in Int, from <= to
    PROVE  /\ Cardinality(WholeWide(p, from, to)) \in 0 .. to - from
           /\ Wide[p] = {} => Cardinality(WholeWide(p, from, to)) = 0
  <1> DEFINE whole == WholeWide(p, from, to)
  <1>1. Wide[p] \subseteq Nat
    BY WideAssumption
  <1>2. whole \subseteq from .. to - 1
    BY <1>1 DEF WholeWide
  <1> HIDE DEF whole
  <1>3. IsFiniteSet(from .. to - 1) /\ Cardinality(from .. to - 1) = to - from
    <2>1. from \in Int /\ to - 1 \in Int
      OBVIOUS
    <2>2. /\ IsFiniteSet(from .. to - 1)
          /\ Cardinality(from .. to - 1) = IF from > to - 1 THEN 0 ELSE (to - 1) - from + 1
      BY <2>1, FS_Interval
    <2> QED BY <2>2
  <1>4. IsFiniteSet(whole) /\ Cardinality(whole) <= to - from
    BY <1>2, <1>3, FS_Subset
  <1>5. Cardinality(whole) \in Nat
    BY <1>4, FS_CardinalityType
  <1>6. Wide[p] = {} => Cardinality(whole) = 0
    <2>1. Wide[p] = {} => whole = {}
      BY DEF whole, WholeWide
    <2> QED BY <2>1, FS_EmptySet
  <1> QED BY <1>4, <1>5, <1>6 DEF whole

\* Bytes of a file are decoded to as many characters at most, and to as many if
\* none of the file is wide.
LEMMA DecodedThere ==
    ASSUME NEW p \in Path, NEW from \in Nat, NEW to \in Nat, from <= to
    PROVE  LET piece == Decoded(p, from, to) IN
           /\ piece \in Piece /\ piece.from = from /\ piece.to <= to
           /\ Wide[p] = {} => piece.to = to /\ piece.wide = {}
  <1> DEFINE whole == WholeWide(p, from, to)
             count == Cardinality(whole)
             wide == {n - Cardinality(WholeWide(p, from, n)) : n \in whole}
  <1>1. count \in 0 .. to - from /\ (Wide[p] = {} => count = 0)
    BY WideCount
  <1>2. \A n \in whole : n \in Nat /\ from <= n
    <2>1. Wide[p] \subseteq Nat
      BY WideAssumption
    <2> QED BY <2>1 DEF WholeWide
  <1>3. wide \in SUBSET Int
    <2> SUFFICES ASSUME NEW n \in whole
                 PROVE  n - Cardinality(WholeWide(p, from, n)) \in Int
      OBVIOUS
    <2>1. n \in Int /\ from <= n
      BY <1>2
    <2>2. Cardinality(WholeWide(p, from, n)) \in 0 .. n - from
      BY <2>1, WideCount
    <2> QED BY <2>1, <2>2
  <1>4. Wide[p] = {} => wide = {}
    BY DEF WholeWide
  <1>5. Decoded(p, from, to) = [from |-> from, to |-> to - count, wide |-> wide]
    BY DEF Decoded
  <1> HIDE DEF wide, count
  <1> QED BY <1>1, <1>3, <1>4, <1>5 DEF Piece

\* What is read begins where it was asked for and lies in the file.
LEMMA ReadsThere ==
    ASSUME NEW p \in Path, size[p] \in Nat, NEW from \in Int, from >= -1, NEW length \in Nat
    PROVE  LET piece == Read(p, from, length) IN
           /\ piece \in Piece
           /\ Size(piece) > 0 => piece.from = from /\ from >= 0 /\ piece.to <= size[p]
           /\ Wide[p] = {} =>
                /\ piece.wide = {}
                /\ from >= 0 /\ from + length <= size[p] =>
                     piece.from = from /\ piece.to = from + length
  <1> DEFINE piece == Read(p, from, length)
  <1>1. CASE from = -1
    <2>1. piece = Decoded(p, size[p], size[p])
      BY <1>1 DEF Read
    <2>2. /\ piece \in Piece /\ piece.from = size[p] /\ piece.to <= size[p]
          /\ Wide[p] = {} => piece.wide = {}
      BY <2>1, DecodedThere
    <2>3. piece.to \in Nat
      BY <2>2 DEF Piece
    <2> HIDE DEF piece
    <2>4. ~ (Size(piece) > 0)
      BY <2>2, <2>3 DEF Size
    <2> QED BY <1>1, <2>2, <2>4 DEF piece
  <1>2. CASE from # -1
    <2> DEFINE to == IF from + length < size[p] THEN from + length
                     ELSE IF from < size[p] THEN size[p] ELSE from
    <2>1. piece = Decoded(p, from, to)
      BY <1>2 DEF Read
    <2>2. from \in Nat /\ to \in Nat /\ from <= to
      BY <1>2
    <2>3. to > from => to <= size[p]
      BY <1>2
    <2>4. from + length <= size[p] => to = from + length
      BY <1>2
    <2> HIDE DEF to
    <2>5. /\ piece \in Piece /\ piece.from = from /\ piece.to <= to
          /\ Wide[p] = {} => piece.to = to /\ piece.wide = {}
      BY <2>1, <2>2, DecodedThere
    <2>6. piece.to \in Nat
      BY <2>5 DEF Piece
    <2> HIDE DEF piece
    <2>7. Size(piece) > 0 => to > from
      BY <2>2, <2>5, <2>6 DEF Size
    <2>8. Size(piece) > 0 => piece.from = from /\ from >= 0 /\ piece.to <= size[p]
      BY <2>2, <2>3, <2>5, <2>6, <2>7
    <2> QED BY <2>4, <2>5, <2>8 DEF piece
  <1> QED BY <1>1, <1>2

----------------------------------------------------------------------------
(* The second invariant.                                                    *)

CallTyped(c) ==
    /\ c.path \in Path
    /\ c.kind = "tail" => c.from \in Int
    /\ c.kind = "previous" => c.from \in Nat /\ c.length \in Int

Typed ==
    /\ size \in [Path -> Nat]
    /\ logs \in [Path -> Buffer]
    /\ page \in Path \cup {None}
    /\ kept = {page} \ {None}
    /\ fetching \in BOOLEAN /\ loading \in BOOLEAN /\ offsetError \in BOOLEAN
    /\ failures \in 0..3
    /\ mixed \in [Path -> BOOLEAN]
    /\ \A c \in DOMAIN calls : CallTyped(c)

\* What a call of a file asks for fits what is kept of the file: the tail goes
\* on at the end, and a range ends where the text starts.
Fits(c, b) ==
    /\ c.kind = "offset" => b = EmptyBuffer
    /\ c.kind = "tail" => c.from = b.end
    /\ c.kind = "previous" =>
         /\ c.length > 0 /\ c.from + c.length = b.start
         /\ b.start < b.end

InFile(b, s) == 0 <= b.start /\ b.start <= b.end /\ b.end <= s

\* b is kept of the file p, of size s: one call asks for its tail, at most one
\* for a range, and they fit what is kept.
Served(p, bag, b, s) ==
    /\ \A c \in DOMAIN bag : c.path = p => bag[c] = 1 /\ Fits(c, b)
    /\ \A c, d \in DOMAIN bag :
         /\ c.path = p /\ d.path = p
         /\ c.kind = "previous" <=> d.kind = "previous"
         => c = d
    /\ requestOffset(p) \notin DOMAIN bag => InFile(b, s)
    /\ Marked(b) /\ KeptSize(b) <= maxFileSize

Unbroken == \A p \in kept :
    Wide[p] = {} /\ ~ mixed[p] => Served(p, calls, logs[p], size[p])

FileInv == Typed /\ Unbroken

\* Of a file of one-byte characters, the text is where it is taken to be.
PlainLogs == \A p \in Path : Wide[p] = {} => Plain(logs[p])

\* A call of another file changes nothing.
LEMMA ServedByOthers ==
    ASSUME NEW p, NEW b, NEW s, NEW bag, NEW after,
           \A c : c.path = p => Same(c, bag, after),
           Served(p, bag, b, s)
    PROVE  Served(p, after, b, s)
  <1>1. requestOffset(p).path = p
    BY DEF requestOffset
  <1> QED BY <1>1 DEF Served, Same

\* The tail is followed by one that fits what is now kept.
LEMMA ServedByTail ==
    ASSUME NEW call \in DOMAIN calls, NEW next, NEW p, NEW b, NEW s, NEW bufferAfter, NEW sizeAfter,
           Positive(calls), Followed(call, next), Served(p, calls, b, s),
           call.path = p, call.kind # "previous",
           next.path = p, next.kind # "previous", Fits(next, bufferAfter),
           \A c \in DOMAIN calls : c.path = p /\ c.kind = "previous" => Fits(c, bufferAfter),
           InFile(bufferAfter, sizeAfter), Marked(bufferAfter),
           KeptSize(bufferAfter) <= maxFileSize
    PROVE  Served(p, calls', bufferAfter, sizeAfter)
  <1>1. calls[call] = 1
    BY DEF Served
  <1>2. next \in DOMAIN calls => next = call
    BY DEF Served
  <1>3. calls'[next] = 1
    BY <1>1, <1>2, CountsAfterFollowed
  <1>4. ASSUME NEW c \in DOMAIN calls', c.path = p, c # next
        PROVE  c \in DOMAIN calls /\ c.kind = "previous" /\ calls'[c] = calls[c]
    <2>1. c \in DOMAIN calls /\ c # call
      BY <1>1, <1>4, CountsAfterFollowed
    <2>2. Same(c, calls, calls')
      BY <1>4, <2>1, CountsAfterFollowed
    <2>3. c.kind = "previous"
      BY <1>4, <2>1 DEF Served
    <2> QED BY <2>1, <2>2, <2>3 DEF Same
  <1>5. \A c \in DOMAIN calls' : c.path = p => calls'[c] = 1 /\ Fits(c, bufferAfter)
    BY <1>3, <1>4 DEF Served
  <1>6. ASSUME NEW c \in DOMAIN calls', NEW d \in DOMAIN calls', c.path = p, d.path = p,
               c.kind = "previous" <=> d.kind = "previous"
        PROVE  c = d
    <2>1. CASE c = next \/ d = next
      BY <1>4, <1>6, <2>1
    <2>2. CASE c # next /\ d # next
      BY <1>4, <1>6, <2>2 DEF Served
    <2> QED BY <2>1, <2>2
  <1> QED BY <1>5, <1>6 DEF Served

\* A range is over, and the tail still fits what is now kept.
LEMMA ServedByRange ==
    ASSUME NEW call \in DOMAIN calls, NEW p, NEW b, NEW s, NEW bufferAfter,
           Positive(calls), Ended(call), Served(p, calls, b, s),
           call.path = p, call.kind = "previous",
           bufferAfter.end = b.end, b # EmptyBuffer,
           InFile(bufferAfter, s), Marked(bufferAfter),
           KeptSize(bufferAfter) <= maxFileSize
    PROVE  Served(p, calls', bufferAfter, s)
  <1>1. calls[call] = 1
    BY DEF Served
  <1>2. ASSUME NEW c \in DOMAIN calls', c.path = p
        PROVE  c \in DOMAIN calls /\ c.kind # "previous" /\ calls'[c] = calls[c]
    <2>1. c \in DOMAIN calls /\ c # call
      BY <1>1, CountsAfterEnd
    <2>2. Same(c, calls, calls')
      BY <2>1, CountsAfterEnd
    <2>3. c.kind # "previous"
      BY <1>2, <2>1 DEF Served
    <2> QED BY <2>1, <2>2, <2>3 DEF Same
  <1>3. \A c \in DOMAIN calls' : c.path = p => calls'[c] = 1 /\ Fits(c, bufferAfter)
    BY <1>2 DEF Served, Fits
  <1>4. ASSUME NEW c \in DOMAIN calls', NEW d \in DOMAIN calls', c.path = p, d.path = p
        PROVE  c = d
    BY <1>2, <1>4 DEF Served
  <1> QED BY <1>3, <1>4 DEF Served

\* A piece that is kept of a file starts before it ends.
LEMMA MarkedOrder ==
    ASSUME NEW b \in Buffer, Marked(b)
    PROVE  b.start <= b.end
  <1>1. PICK m \in [0 .. Len(b.items) -> Int] : Marks(b, m)
    BY DEF Marked
  <1>2. \A i \in 0 .. Len(b.items) : b.start <= m[i] /\ m[i] <= b.end
    BY <1>1, MarksBetween
  <1>3. 0 \in 0 .. Len(b.items)
    BY BufferParts
  <1>4. m[0] = b.start
    BY <1>1 DEF Marks
  <1> QED BY <1>2, <1>3, <1>4

\* An empty buffer.
LEMMA EmptyFits ==
    /\ EmptyBuffer \in Buffer /\ EmptyBuffer.start = -1 /\ EmptyBuffer.end = -1
    /\ EmptyBuffer.items = <<>>
    /\ Marked(EmptyBuffer) /\ KeptSize(EmptyBuffer) <= maxFileSize
  <1>1. /\ EmptyBuffer \in Buffer /\ EmptyBuffer.start = -1 /\ EmptyBuffer.end = -1
        /\ EmptyBuffer.items = <<>>
    BY DEF EmptyBuffer, Buffer
  <1>2. KeptSize(EmptyBuffer) <= maxFileSize
    BY <1>1, BufferAssumption DEF KeptSize
  <1>3. Marked(EmptyBuffer)
    <2> DEFINE m == [i \in 0 .. 0 |-> -1]
    <2>1. m \in [0 .. 0 -> Int] /\ m[0] = -1
      OBVIOUS
    <2> HIDE DEF m
    <2>2. Marks(EmptyBuffer, m)
      BY <1>1, <2>1 DEF Marks
    <2> QED BY <1>1, <2>1, <2>2 DEF Marked
  <1> QED BY <1>1, <1>2, <1>3

\* Tailing starts with an empty piece of the file.
LEMMA InitializedFits ==
    ASSUME NEW b \in Buffer, NEW s \in Nat
    PROVE  /\ initialize(b, s) \in Buffer
           /\ b = EmptyBuffer =>
                /\ InFile(initialize(b, s), s) /\ Marked(initialize(b, s))
                /\ KeptSize(initialize(b, s)) <= maxFileSize
  <1> DEFINE at == IF s > PAGE_SIZE THEN s - PAGE_SIZE ELSE 0
             r == initialize(b, s)
  <1>1. at \in Nat /\ at <= s
    BY BufferAssumption
  <1>2. r = [b EXCEPT !.start = at, !.end = at]
    BY DEF initialize
  <1> HIDE DEF at, r
  <1>3. r = [items |-> b.items, start |-> at, end |-> at]
    BY <1>2 DEF Buffer
  <1>4. r \in Buffer /\ r.start = at /\ r.end = at /\ r.items = b.items
    BY <1>1, <1>3, BufferParts DEF Buffer, Piece
  <1>5. InFile(r, s) /\ KeptSize(r) <= maxFileSize
    BY <1>1, <1>4, BufferAssumption DEF InFile, KeptSize
  <1>6. ASSUME b = EmptyBuffer PROVE Marked(r)
    <2> DEFINE m == [i \in 0 .. 0 |-> at]
    <2>1. m \in [0 .. 0 -> Int] /\ m[0] = at
      BY <1>1
    <2> HIDE DEF m
    <2>2. r.items = <<>>
      BY <1>4, <1>6, EmptyFits
    <2>3. Marks(r, m)
      BY <1>4, <2>1, <2>2 DEF Marks
    <2> QED BY <2>1, <2>2, <2>3 DEF Marked
  <1> QED BY <1>4, <1>5, <1>6 DEF r

\* Typed, part by part.
LEMMA CallsAfterEnd ==
    ASSUME NEW call \in DOMAIN calls, Positive(calls), Ended(call),
           \A c \in DOMAIN calls : CallTyped(c)
    PROVE  \A c \in DOMAIN calls' : CallTyped(c)
  BY CountsAfterEnd

LEMMA CallsAfterFollowed ==
    ASSUME NEW call \in DOMAIN calls, NEW next, Positive(calls), Followed(call, next),
           CallTyped(next), \A c \in DOMAIN calls : CallTyped(c)
    PROVE  \A c \in DOMAIN calls' : CallTyped(c)
  BY CountsAfterFollowed

\* A call of a file is no call of another one.
LEMMA OthersAfterEnd ==
    ASSUME NEW call \in DOMAIN calls, NEW p, Positive(calls), Ended(call), call.path # p
    PROVE  \A c : c.path = p => Same(c, calls, calls')
  BY CountsAfterEnd

LEMMA OthersAfterFollowed ==
    ASSUME NEW call \in DOMAIN calls, NEW next, NEW p, Positive(calls),
           Followed(call, next), call.path # p, next.path # p
    PROVE  \A c : c.path = p => Same(c, calls, calls')
  BY CountsAfterFollowed

\* The flags of the page.
LEMMA ViewTypes ==
    ASSUME NEW p, Typed,
           \/ onMesosLogStoreSuccess(p) \/ onMesosLogStoreError(p)
           \/ onMesosLogStoreOffset(TRUE) \/ onMesosLogStoreOffset(FALSE)
           \/ UNCHANGED viewVars
    PROVE  /\ fetching' \in BOOLEAN /\ loading' \in BOOLEAN /\ offsetError' \in BOOLEAN
           /\ failures' \in 0 .. 3
  <1>0. /\ fetching \in BOOLEAN /\ loading \in BOOLEAN /\ offsetError \in BOOLEAN
        /\ failures \in 0 .. 3
    BY DEF Typed
  <1>1. CASE onMesosLogStoreSuccess(p)
    <2>1. CASE page = p
      <3>1. /\ failures' = 0 /\ fetching' = FALSE /\ loading' = FALSE
            /\ offsetError' = offsetError
        BY <1>1, <2>1 DEF onMesosLogStoreSuccess
      <3>2. failures' \in 0 .. 3
        BY <3>1
      <3> QED BY <1>0, <3>1, <3>2, Zenon
    <2>2. CASE page # p
      BY <1>0, <1>1, <2>2 DEF onMesosLogStoreSuccess, viewVars
    <2> QED BY <2>1, <2>2
  <1>2. CASE onMesosLogStoreError(p)
    <2>1. CASE page = p
      <3>1. /\ failures' = (IF failures < 3 THEN failures + 1 ELSE 3) /\ fetching' = FALSE
            /\ loading' = loading /\ offsetError' = offsetError
        BY <1>2, <2>1 DEF onMesosLogStoreError
      <3>2. failures' \in 0 .. 3
        BY <1>0, <3>1
      <3> QED BY <1>0, <3>1, <3>2, Zenon
    <2>2. CASE page # p
      BY <1>0, <1>2, <2>2 DEF onMesosLogStoreError, viewVars
    <2> QED BY <2>1, <2>2
  <1>3. CASE onMesosLogStoreOffset(TRUE) \/ onMesosLogStoreOffset(FALSE)
    BY <1>3 DEF onMesosLogStoreOffset, Typed
  <1>4. CASE UNCHANGED viewVars
    BY <1>4 DEF viewVars, Typed
  <1> QED BY <1>1, <1>2, <1>3, <1>4

\* The log of one file changes.
LEMMA LogTypes ==
    ASSUME NEW p \in Path, NEW b \in Buffer, logs \in [Path -> Buffer],
           logs' = [logs EXCEPT ![p] = b]
    PROVE  logs' \in [Path -> Buffer] /\ logs'[p] = b /\ \A q \in Path : q # p => logs'[q] = logs[q]
  OBVIOUS

\* Only what the page looks at is kept.
LEMMA OneIsKept ==
    ASSUME Typed, NEW p \in kept, NEW q \in kept
    PROVE  p = q /\ p \in Path
  BY DEF Typed

----------------------------------------------------------------------------
\* At first no file is kept.
LEMMA InitFileInv == Init => FileInv
  <1> SUFFICES ASSUME Init PROVE FileInv
    OBVIOUS
  <1>0. /\ size \in [Path -> FirstSizes] /\ logs = [p \in Path |-> EmptyBuffer] /\ kept = {}
        /\ calls = EmptyBag /\ page = None /\ fetching = FALSE /\ loading = TRUE
        /\ failures = 0 /\ offsetError = FALSE /\ mixed = [p \in Path |-> FALSE]
    BY DEF Init
  <1>1. size \in [Path -> Nat]
    BY <1>0, SizesAssumption
  <1>2. DOMAIN calls = {}
    BY <1>0 DEF EmptyBag, SetToBag
  <1>3. logs \in [Path -> Buffer]
    BY <1>0, EmptyFits
  <1>4. mixed \in [Path -> BOOLEAN] /\ kept = {page} \ {None}
    BY <1>0
  <1>5. \A c \in DOMAIN calls : CallTyped(c)
    BY <1>2
  <1>6. Typed
    <2>1. 0 \in 0 .. 3
      OBVIOUS
    <2>2. failures \in 0 .. 3
      BY <1>0, <2>1
    <2>3. fetching \in BOOLEAN /\ loading \in BOOLEAN /\ offsetError \in BOOLEAN
      BY <1>0, Zenon
    <2>4. page \in Path \cup {None}
      BY <1>0
    <2> QED BY <1>1, <1>3, <1>4, <1>5, <2>2, <2>3, <2>4, Zenon DEF Typed
  <1> QED BY <1>0, <1>6 DEF FileInv, Unbroken

\* The answer to what was asked of a file that is not kept.
LEMMA EndedFileInv ==
    ASSUME NEW call \in DOMAIN calls, IInv, FileInv, Ended(call), call.path \notin kept,
           UNCHANGED <<size, logVars, page, viewVars, mixed>>
    PROVE  FileInv'
  <1>0. /\ Typed /\ Unbroken /\ Positive(calls)
        /\ \A c \in DOMAIN calls : CallTyped(c)
    BY DEF FileInv, IInv, Typed
  <1>1. \A c \in DOMAIN calls' : CallTyped(c)
    BY <1>0, CallsAfterEnd
  <1>2. Typed'
    BY <1>0, <1>1 DEF Typed, viewVars, logVars
  <1>3. ASSUME NEW q \in kept, Wide[q] = {}, ~ mixed[q]
        PROVE  Served(q, calls', logs[q], size[q])
    <2>1. q # call.path /\ Served(q, calls, logs[q], size[q])
      BY <1>0, <1>3 DEF Unbroken
    <2>2. \A c : c.path = q => Same(c, calls, calls')
      BY <1>0, <2>1, OthersAfterEnd
    <2> QED BY <2>1, <2>2, ServedByOthers
  <1>4. Unbroken'
    BY <1>3 DEF Unbroken, logVars
  <1> QED BY <1>2, <1>4 DEF FileInv

\* While the tail is asked for, the end of the file is known.
LEMMA EndIsKnown ==
    ASSUME NEW p, NEW bag, NEW b, NEW s, NEW call \in DOMAIN bag, Served(p, bag, b, s),
           call.path = p, call.kind # "previous", call.kind # "offset"
    PROVE  InFile(b, s) /\ Marked(b) /\ KeptSize(b) <= maxFileSize
  <1>1. requestOffset(p).path = p /\ requestOffset(p).kind = "offset"
    BY DEF requestOffset
  <1>2. requestOffset(p) \notin DOMAIN bag
    BY <1>1 DEF Served
  <1> QED BY <1>2 DEF Served

\* The end of the file is known.
LEMMA OffsetFileInv ==
    ASSUME NEW p \in Path, IInv, FileInv, processOffset(p)
    PROVE  FileInv'
  <1> DEFINE call == requestOffset(p)
             tail == fetchLog(p, logs'[p].end)
  <1>0. /\ Typed /\ Unbroken /\ Positive(calls)
        /\ size \in [Path -> Nat] /\ logs \in [Path -> Buffer] /\ mixed \in [Path -> BOOLEAN]
        /\ \A c \in DOMAIN calls : CallTyped(c)
    BY DEF FileInv, IInv, Typed
  <1>1. call \in DOMAIN calls /\ call.path = p /\ call.kind = "offset"
    BY DEF processOffset, UnderWay, BagToSet, requestOffset
  <1>2. size' = size /\ kept' = kept /\ page' = page /\ mixed' = mixed
    BY DEF processOffset
  <1>3. tail.path = p /\ tail.kind = "tail" /\ tail.from = logs'[p].end
    BY DEF fetchLog
  <1> HIDE DEF call, tail
  <1>4. CASE p \notin kept
    <2>1. Ended(call) /\ UNCHANGED <<size, logVars, page, viewVars, mixed>>
      BY <1>4 DEF processOffset, call, logVars
    <2> QED BY <1>1, <1>4, <2>1, EndedFileInv
  <1>5. CASE p \in kept
    <2>1. /\ logs' = [logs EXCEPT ![p] = initialize(logs[p], size[p])]
          /\ Followed(call, tail) /\ onMesosLogStoreOffset(FALSE)
      BY <1>5 DEF processOffset, call, tail
    <2>2. logs[p] \in Buffer /\ size[p] \in Nat
      BY <1>0
    <2> DEFINE b == initialize(logs[p], size[p])
    <2>3. b \in Buffer
      BY <2>2, InitializedFits
    <2>4. logs' \in [Path -> Buffer] /\ logs'[p] = b
      <3> HIDE DEF b
      <3>1. logs' = [logs EXCEPT ![p] = b]
        BY <2>1 DEF b
      <3> QED BY <1>0, <2>3, <3>1, LogTypes
    <2>5. CallTyped(tail)
      <3> HIDE DEF b
      <3> QED BY <1>3, <2>3, <2>4, BufferParts DEF CallTyped
    <2>6. \A c \in DOMAIN calls' : CallTyped(c)
      BY <1>0, <1>1, <2>1, <2>5, CallsAfterFollowed
    <2>7. /\ fetching' \in BOOLEAN /\ loading' \in BOOLEAN /\ offsetError' \in BOOLEAN
          /\ failures' \in 0 .. 3
      BY <1>0, <2>1, ViewTypes
    <2>8. Typed'
      BY <1>0, <1>2, <2>4, <2>6, <2>7 DEF Typed
    <2>9. ASSUME NEW q \in kept, Wide[q] = {}, ~ mixed[q]
          PROVE  Served(q, calls', logs'[q], size[q])
      <3>1. q = p
        BY <1>0, <1>5, OneIsKept
      <3>2. Served(p, calls, logs[p], size[p])
        BY <1>0, <2>9, <3>1 DEF Unbroken
      <3>3. logs[p] = EmptyBuffer
        BY <1>1, <3>2 DEF Served, Fits
      <3>4. /\ InFile(b, size[p]) /\ Marked(b) /\ KeptSize(b) <= maxFileSize
        BY <2>2, <3>3, InitializedFits
      <3>5. \A c \in DOMAIN calls : c.path = p => c.kind # "previous"
        BY <3>2, <3>3, EmptyFits DEF Served, Fits
      <3>6. Fits(tail, b)
        BY <1>3, <2>4 DEF Fits
      <3>7. Served(p, calls', b, size[p])
        <4> HIDE DEF b
        <4> QED BY <1>0, <1>1, <1>3, <2>1, <3>2, <3>4, <3>5, <3>6, ServedByTail
      <3> QED BY <2>4, <3>1, <3>7
    <2>10. Unbroken'
      BY <1>2, <2>9 DEF Unbroken
    <2> QED BY <2>8, <2>10 DEF FileInv
  <1> QED BY <1>4, <1>5

\* A request of the tail is answered.
LEMMA EntryFileInv ==
    ASSUME NEW call \in UnderWay("tail"), call.from >= -1,
           IInv, FileInv, processLogEntry(call)
    PROVE  FileInv'
  <1> DEFINE p == call.path
             piece == Read(p, call.from, MAX_FILE_SIZE)
             tail == fetchLog(p, logs'[p].end)
  <1>0. /\ Typed /\ Unbroken /\ Positive(calls)
        /\ size \in [Path -> Nat] /\ logs \in [Path -> Buffer] /\ mixed \in [Path -> BOOLEAN]
        /\ \A c \in DOMAIN calls : CallTyped(c)
    BY DEF FileInv, IInv, Typed
  <1>1. call \in DOMAIN calls /\ call.kind = "tail"
    BY DEF UnderWay, BagToSet
  <1>2. p \in Path /\ call.from \in Int
    BY <1>0, <1>1 DEF CallTyped
  <1>3. size' = size /\ kept' = kept /\ page' = page
    BY DEF processLogEntry
  <1>4. tail.path = p /\ tail.kind = "tail" /\ tail.from = logs'[p].end
    BY DEF fetchLog
  <1>5. CASE p \notin kept
    <2>1. Ended(call) /\ UNCHANGED <<size, logVars, page, viewVars, mixed>>
      BY <1>5 DEF processLogEntry, logVars
    <2> QED BY <1>1, <1>5, <2>1, EndedFileInv
  <1>6. CASE p \in kept
    <2> DEFINE b == IF Size(piece) > 0 THEN add(logs[p], piece) ELSE logs[p]
    <2>1. /\ logs' = IF Size(piece) > 0 THEN [logs EXCEPT ![p] = add(logs[p], piece)] ELSE logs
          /\ Followed(call, tail) /\ onMesosLogStoreSuccess(p)
          /\ mixed' = [mixed EXCEPT ![p] =
               mixed[p] \/ (Previous(p) # {} /\ logs'[p].start # logs[p].start)]
      BY <1>6 DEF processLogEntry
    <2>2. logs[p] \in Buffer /\ size[p] \in Nat /\ MAX_FILE_SIZE \in Nat
      BY <1>0, <1>2, RequestAssumption
    <2>3. /\ piece \in Piece
          /\ Size(piece) > 0 => /\ piece.from = call.from /\ call.from >= 0
                                /\ piece.to <= size[p]
      BY <1>2, <2>2, ReadsThere
    <2> HIDE DEF piece
    <2>4. b \in Buffer
      BY <2>2, <2>3, AddTypes
    <2>5. logs' \in [Path -> Buffer] /\ logs'[p] = b
      <3>1. CASE Size(piece) > 0
        <4>1. logs' = [logs EXCEPT ![p] = b]
          BY <2>1, <3>1
        <4> HIDE DEF b, p
        <4> QED BY <1>0, <1>2, <2>4, <4>1, LogTypes
      <3>2. CASE ~ (Size(piece) > 0)
        BY <1>0, <2>1, <3>2
      <3> QED BY <3>1, <3>2
    <2>6. CallTyped(tail)
      <3> HIDE DEF b, p, tail
      <3> QED BY <1>2, <1>4, <2>4, <2>5, BufferParts DEF CallTyped
    <2>7. \A c \in DOMAIN calls' : CallTyped(c)
      <3> HIDE DEF tail
      <3> QED BY <1>0, <1>1, <2>1, <2>6, CallsAfterFollowed
    <2>8. /\ fetching' \in BOOLEAN /\ loading' \in BOOLEAN /\ offsetError' \in BOOLEAN
          /\ failures' \in 0 .. 3
      BY <1>0, <2>1, ViewTypes
    <2>9. mixed' \in [Path -> BOOLEAN]
      BY <1>0, <2>1
    <2>10. Typed'
      BY <1>0, <1>3, <2>5, <2>7, <2>8, <2>9 DEF Typed
    <2>11. ASSUME NEW q \in kept, Wide[q] = {}, ~ mixed'[q]
           PROVE  Served(q, calls', logs'[q], size[q])
      <3>1. q = p
        BY <1>0, <1>6, OneIsKept
      <3>2. Wide[p] = {} /\ ~ mixed[p] /\ (Previous(p) = {} \/ b.start = logs[p].start)
        BY <1>0, <1>2, <2>1, <2>5, <2>11, <3>1
      <3>3. Served(p, calls, logs[p], size[p])
        BY <1>0, <1>6, <3>2 DEF Unbroken
      <3>4. call.from = logs[p].end
        BY <1>1, <3>3 DEF Served, Fits
      <3>6. /\ InFile(logs[p], size[p]) /\ Marked(logs[p])
            /\ KeptSize(logs[p]) <= maxFileSize
        BY <1>1, <3>3, EndIsKnown
      <3>7. /\ logs[p].start \in Int /\ logs[p].end \in Int /\ b.start \in Int /\ b.end \in Int
        <4> HIDE DEF b
        <4> QED BY <2>2, <2>4, BufferParts
      <3>8. /\ InFile(b, size[p]) /\ Marked(b) /\ KeptSize(b) <= maxFileSize
            /\ logs[p].end <= b.end
        <4>1. CASE Size(piece) > 0
          <5>1. b = add(logs[p], piece)
            BY <4>1
          <5>2. /\ Marked(b) /\ KeptSize(b) <= maxFileSize
                /\ b.start >= logs[p].start /\ b.end = piece.to
            <6>1. piece.from = logs[p].end
              BY <2>3, <3>4, <4>1
            <6> HIDE DEF b
            <6> QED BY <2>2, <2>3, <3>6, <4>1, <5>1, <6>1, AddAdjoins
          <5>3. b.start <= b.end
            <6> HIDE DEF b
            <6> QED BY <2>4, <5>2, MarkedOrder
          <5>4. piece.from <= piece.to /\ piece.from = logs[p].end /\ piece.to <= size[p]
            BY <2>3, <3>4, <4>1 DEF Size, Piece
          <5> HIDE DEF b, p
          <5> QED BY <2>2, <3>6, <3>7, <5>2, <5>3, <5>4 DEF InFile
        <4>2. CASE ~ (Size(piece) > 0)
          BY <3>6, <3>7, <4>2
        <4> QED BY <4>1, <4>2
      <3>9. \A c \in DOMAIN calls : c.path = p /\ c.kind = "previous" => Fits(c, b)
        <4> SUFFICES ASSUME NEW c \in DOMAIN calls, c.path = p, c.kind = "previous"
                     PROVE  Fits(c, b)
          OBVIOUS
        <4>1. c \in Previous(p)
          BY DEF Previous, UnderWay, BagToSet
        <4>2. b.start = logs[p].start
          BY <3>2, <4>1
        <4>3. Fits(c, logs[p])
          BY <3>3 DEF Served
        <4> HIDE DEF b, p
        <4> QED BY <3>7, <3>8, <4>2, <4>3 DEF Fits
      <3>10. Fits(tail, b)
        BY <1>4, <2>5 DEF Fits
      <3>11. Served(p, calls', b, size[p])
        <4>1. call.path = p
          OBVIOUS
        <4> HIDE DEF b, p, tail
        <4> QED BY <1>0, <1>1, <1>4, <2>1, <3>3, <3>8, <3>9, <3>10, <4>1, ServedByTail
      <3> QED BY <2>5, <3>1, <3>11
    <2>12. Unbroken'
      BY <1>3, <2>11 DEF Unbroken
    <2> QED BY <2>10, <2>12 DEF FileInv
  <1> QED BY <1>5, <1>6

\* A call of the tail is followed by another one, and the log stays.
LEMMA FollowedFileInv ==
    ASSUME NEW call \in DOMAIN calls, NEW next, IInv, FileInv, Followed(call, next),
           call.kind # "previous", call.kind # "offset",
           next.path = call.path, next.kind \in {"tail", "retry timer"},
           next.kind = "tail" => next.from = logs[call.path].end,
           UNCHANGED <<size, logVars, page, mixed>>,
           /\ fetching' \in BOOLEAN /\ loading' \in BOOLEAN /\ offsetError' \in BOOLEAN
           /\ failures' \in 0 .. 3
    PROVE  FileInv'
  <1> DEFINE p == call.path
  <1>0. /\ Typed /\ Unbroken /\ Positive(calls) /\ logs \in [Path -> Buffer]
        /\ \A c \in DOMAIN calls : CallTyped(c)
    BY DEF FileInv, IInv, Typed
  <1>1. p \in Path
    BY <1>0 DEF CallTyped
  <1>2. CallTyped(next)
    <2>1. logs[p] \in Buffer
      BY <1>0, <1>1
    <2>2. logs[p].end \in Int
      BY <2>1, BufferParts
    <2> QED BY <1>1, <2>2 DEF CallTyped
  <1>3. \A c \in DOMAIN calls' : CallTyped(c)
    BY <1>0, <1>2, CallsAfterFollowed
  <1>4. Typed'
    BY <1>0, <1>3 DEF Typed, logVars
  <1>5. ASSUME NEW q \in kept, Wide[q] = {}, ~ mixed[q]
        PROVE  Served(q, calls', logs[q], size[q])
    <2>1. Served(q, calls, logs[q], size[q])
      BY <1>0, <1>5 DEF Unbroken
    <2>2. CASE q = p
      <3>1. InFile(logs[p], size[p]) /\ Marked(logs[p]) /\ KeptSize(logs[p]) <= maxFileSize
        BY <2>1, <2>2, EndIsKnown
      <3>2. Fits(next, logs[p])
        BY DEF Fits
      <3>3. \A c \in DOMAIN calls : c.path = p /\ c.kind = "previous" => Fits(c, logs[p])
        BY <2>1, <2>2 DEF Served
      <3>4. Served(p, calls', logs[p], size[p])
        <4>1. call.path = p /\ next.path = p /\ next.kind # "previous"
              /\ Served(p, calls, logs[p], size[p])
          BY <2>1, <2>2
        <4> HIDE DEF p
        <4> QED BY <1>0, <3>1, <3>2, <3>3, <4>1, ServedByTail
      <3> QED BY <2>2, <3>4
    <2>3. CASE q # p
      <3>1. \A c : c.path = q => Same(c, calls, calls')
        BY <1>0, <2>3, OthersAfterFollowed
      <3> QED BY <2>1, <3>1, ServedByOthers
    <2> QED BY <2>2, <2>3
  <1>6. Unbroken'
    BY <1>5 DEF Unbroken, logVars
  <1> QED BY <1>4, <1>6 DEF FileInv

\* The look-up of the end fails, and is tried again.
LEMMA OffsetErrorFileInv ==
    ASSUME NEW p \in Path, IInv, FileInv, processOffsetError(p)
    PROVE  FileInv'
  <1>1. Typed /\ Unbroken
    BY DEF FileInv
  <1>2. onMesosLogStoreOffset(TRUE) /\ UNCHANGED <<size, logVars, calls, page, mixed>>
    BY DEF processOffsetError, countVars
  <1>3. /\ fetching' \in BOOLEAN /\ loading' \in BOOLEAN /\ offsetError' \in BOOLEAN
        /\ failures' \in 0 .. 3
    BY <1>1, <1>2, ViewTypes
  <1>4. Typed'
    BY <1>1, <1>2, <1>3 DEF Typed, logVars, CallTyped
  <1>5. Unbroken'
    BY <1>1, <1>2 DEF Unbroken, logVars
  <1> QED BY <1>4, <1>5 DEF FileInv

\* A request of the tail fails.
LEMMA ErrorFileInv ==
    ASSUME NEW call \in UnderWay("tail"), IInv, FileInv, processLogError(call)
    PROVE  FileInv'
  <1>1. call \in DOMAIN calls /\ call.kind = "tail"
    BY DEF UnderWay, BagToSet
  <1>2. CASE call.path \notin kept
    <2>1. Ended(call) /\ UNCHANGED <<size, logVars, page, viewVars, mixed>>
      BY <1>2 DEF processLogError
    <2> QED BY <1>1, <1>2, <2>1, EndedFileInv
  <1>3. CASE call.path \in kept
    <2>1. /\ Followed(call, RetryTimer(call.path)) /\ onMesosLogStoreError(call.path)
          /\ UNCHANGED <<size, logVars, page, mixed>>
      BY <1>3 DEF processLogError
    <2>2. /\ fetching' \in BOOLEAN /\ loading' \in BOOLEAN /\ offsetError' \in BOOLEAN
          /\ failures' \in 0 .. 3
      BY <2>1, ViewTypes DEF FileInv
    <2>3. RetryTimer(call.path).path = call.path /\ RetryTimer(call.path).kind = "retry timer"
      BY DEF RetryTimer
    <2> QED BY <1>1, <2>1, <2>2, <2>3, FollowedFileInv
  <1> QED BY <1>2, <1>3

\* A retry timer sends its request.
LEMMA RetryFileInv == IInv /\ FileInv /\ RetryTimerFires => FileInv'
  <1> SUFFICES ASSUME IInv, FileInv, RetryTimerFires PROVE FileInv'
    OBVIOUS
  <1>1. PICK call \in UnderWay("retry timer") :
          Followed(call, fetchLog(call.path, logs[call.path].end))
    BY DEF RetryTimerFires
  <1> DEFINE next == fetchLog(call.path, logs[call.path].end)
  <1>2. call \in DOMAIN calls /\ call.kind = "retry timer"
    BY DEF UnderWay, BagToSet
  <1>3. next.path = call.path /\ next.kind = "tail" /\ next.from = logs[call.path].end
    BY DEF fetchLog
  <1>4. UNCHANGED <<size, logVars, page, mixed>> /\ UNCHANGED viewVars
    BY DEF RetryTimerFires
  <1>5. /\ fetching' \in BOOLEAN /\ loading' \in BOOLEAN /\ offsetError' \in BOOLEAN
        /\ failures' \in 0 .. 3
    BY <1>4, ViewTypes DEF FileInv
  <1> HIDE DEF next
  <1>6. Followed(call, next)
    BY <1>1 DEF next
  <1> QED BY <1>2, <1>3, <1>4, <1>5, <1>6, FollowedFileInv

\* A range is answered.
LEMMA PrependFileInv ==
    ASSUME NEW call \in UnderWay("previous"), IInv, FileInv, processLogPrepend(call)
    PROVE  FileInv'
  <1> DEFINE p == call.path
             length == IF call.length < 0 THEN MAX_FILE_SIZE ELSE call.length
             piece == Read(p, call.from, length)
  <1>0. /\ Typed /\ Unbroken /\ Positive(calls)
        /\ size \in [Path -> Nat] /\ logs \in [Path -> Buffer] /\ mixed \in [Path -> BOOLEAN]
        /\ \A c \in DOMAIN calls : CallTyped(c)
    BY DEF FileInv, IInv, Typed
  <1>1. call \in DOMAIN calls /\ call.kind = "previous"
    BY DEF UnderWay, BagToSet
  <1>2. p \in Path /\ call.from \in Nat /\ call.length \in Int
    BY <1>0, <1>1 DEF CallTyped
  <1>3. size' = size /\ kept' = kept /\ page' = page /\ Ended(call)
    BY DEF processLogPrepend
  <1>4. length \in Nat /\ (call.length >= 0 => length = call.length)
    BY <1>2, RequestAssumption
  <1>5. CASE p \notin kept
    <2>1. Ended(call) /\ UNCHANGED <<size, logVars, page, viewVars, mixed>>
      BY <1>5 DEF processLogPrepend, logVars
    <2> QED BY <1>1, <1>5, <2>1, EndedFileInv
  <1>6. CASE p \in kept
    <2> DEFINE b == IF Size(piece) > 0 THEN prepend(logs[p], piece) ELSE logs[p]
    <2>1. /\ logs' = IF Size(piece) > 0 THEN [logs EXCEPT ![p] = prepend(logs[p], piece)] ELSE logs
          /\ onMesosLogStoreSuccess(p)
          /\ mixed' = [mixed EXCEPT ![p] = mixed[p] \/ logs'[p].end < logs[p].end]
      BY <1>6 DEF processLogPrepend
    <2>2. logs[p] \in Buffer /\ size[p] \in Nat
      BY <1>0, <1>2
    <2> HIDE DEF length
    <2>3. /\ piece \in Piece
          /\ Size(piece) > 0 => piece.to <= size[p]
          /\ Wide[p] = {} /\ call.from + length <= size[p] =>
               piece.from = call.from /\ piece.to = call.from + length
      <3>1. call.from \in Int /\ call.from >= -1 /\ call.from >= 0
        BY <1>2
      <3> HIDE DEF p
      <3> QED BY <1>2, <1>4, <2>2, <3>1, ReadsThere
    <2> HIDE DEF piece
    <2>4. b \in Buffer
      BY <2>2, <2>3, AddTypes
    <2>5. logs' \in [Path -> Buffer] /\ logs'[p] = b
      <3>1. CASE Size(piece) > 0
        <4>1. logs' = [logs EXCEPT ![p] = b]
          BY <2>1, <3>1
        <4> HIDE DEF b, p
        <4> QED BY <1>0, <1>2, <2>4, <4>1, LogTypes
      <3>2. CASE ~ (Size(piece) > 0)
        BY <1>0, <2>1, <3>2
      <3> QED BY <3>1, <3>2
    <2>6. \A c \in DOMAIN calls' : CallTyped(c)
      BY <1>0, <1>1, <1>3, CallsAfterEnd
    <2>7. /\ fetching' \in BOOLEAN /\ loading' \in BOOLEAN /\ offsetError' \in BOOLEAN
          /\ failures' \in 0 .. 3
      BY <1>0, <2>1, ViewTypes
    <2>8. mixed' \in [Path -> BOOLEAN]
      BY <1>0, <2>1
    <2>9. Typed'
      BY <1>0, <1>3, <2>5, <2>6, <2>7, <2>8 DEF Typed
    <2>10. ASSUME NEW q \in kept, Wide[q] = {}, ~ mixed'[q]
           PROVE  Served(q, calls', logs'[q], size[q])
      <3>1. q = p
        BY <1>0, <1>6, OneIsKept
      <3>2. Wide[p] = {} /\ ~ mixed[p] /\ ~ (b.end < logs[p].end)
        BY <1>0, <1>2, <2>1, <2>5, <2>10, <3>1
      <3>3. Served(p, calls, logs[p], size[p])
        BY <1>0, <1>6, <3>2 DEF Unbroken
      <3>4. /\ call.length > 0 /\ call.from + call.length = logs[p].start
            /\ logs[p].start < logs[p].end
        BY <1>1, <3>3 DEF Served, Fits
      <3>5. logs[p] # EmptyBuffer
        BY <3>4, EmptyFits
      <3>6. requestOffset(p) \notin DOMAIN calls
        <4>1. requestOffset(p).path = p /\ requestOffset(p).kind = "offset"
          BY DEF requestOffset
        <4> HIDE DEF p
        <4> QED BY <3>3, <3>5, <4>1 DEF Served, Fits
      <3>7. /\ InFile(logs[p], size[p]) /\ Marked(logs[p])
            /\ KeptSize(logs[p]) <= maxFileSize
        BY <3>3, <3>6 DEF Served
      <3>8. /\ logs[p].start \in Int /\ logs[p].end \in Int /\ b.start \in Int /\ b.end \in Int
        <4> HIDE DEF b
        <4> QED BY <2>2, <2>4, BufferParts
      <3>9. /\ piece.from = call.from /\ piece.to = logs[p].start /\ Size(piece) > 0
        <4>1. length = call.length /\ call.from + length <= size[p]
          <5> HIDE DEF p
          <5> QED BY <1>2, <1>4, <2>2, <3>4, <3>7, <3>8 DEF InFile
        <4>2. piece.from = call.from /\ piece.to = call.from + length
          BY <2>3, <3>2, <4>1
        <4>3. piece.from = call.from /\ piece.to = logs[p].start
          BY <3>4, <4>1, <4>2
        <4> HIDE DEF p
        <4> QED BY <1>2, <3>4, <3>8, <4>3 DEF Size
      <3>10. b = prepend(logs[p], piece)
        BY <3>9
      <3> HIDE DEF b
      <3>11. /\ KeptSize(b) <= maxFileSize /\ b.start = piece.from /\ b.end <= logs[p].end
             /\ b.end = logs[p].end => Marked(b)
        BY <2>2, <2>3, <3>4, <3>7, <3>9, <3>10, PrependAdjoins
      <3>12. b.end = logs[p].end
        BY <3>2, <3>8, <3>11
      <3>13. InFile(b, size[p])
        <4> HIDE DEF p
        <4> QED BY <1>2, <2>2, <3>4, <3>7, <3>8, <3>9, <3>11, <3>12 DEF InFile
      <3>14. Served(p, calls', b, size[p])
        <4>1. call.path = p
          OBVIOUS
        <4> HIDE DEF p
        <4> QED BY <1>0, <1>1, <1>3, <3>3, <3>5, <3>11, <3>12, <3>13, <4>1, ServedByRange
      <3> QED BY <2>5, <3>1, <3>14
    <2>11. Unbroken'
      BY <1>3, <2>10 DEF Unbroken
    <2> QED BY <2>9, <2>11 DEF FileInv
  <1> QED BY <1>5, <1>6

\* A range fails, and is asked for as if it were the tail: from then on the log
\* may be mixed up.
LEMMA PrependErrorFileInv ==
    ASSUME NEW call \in UnderWay("previous"), IInv, FileInv, processLogPrependError(call)
    PROVE  FileInv'
  <1> DEFINE p == call.path
             next == fetchLog(p, logs[p].start - MAX_FILE_SIZE)
  <1>0. /\ Typed /\ Positive(calls)
        /\ logs \in [Path -> Buffer] /\ mixed \in [Path -> BOOLEAN]
        /\ \A c \in DOMAIN calls : CallTyped(c)
    BY DEF FileInv, IInv, Typed
  <1>1. call \in DOMAIN calls /\ call.kind = "previous"
    BY DEF UnderWay, BagToSet
  <1>2. p \in Path
    BY <1>0, <1>1 DEF CallTyped
  <1>3. CASE p \notin kept
    <2>1. Ended(call) /\ UNCHANGED <<size, logVars, page, viewVars, mixed>>
      BY <1>3 DEF processLogPrependError
    <2> QED BY <1>1, <1>3, <2>1, EndedFileInv
  <1>4. CASE p \in kept
    <2>1. /\ Followed(call, next) /\ mixed' = [mixed EXCEPT ![p] = TRUE]
          /\ onMesosLogStoreError(p)
          /\ UNCHANGED <<size, logVars, page>>
      BY <1>4 DEF processLogPrependError
    <2>2. next.path = p /\ next.kind = "tail" /\ next.from = logs[p].start - MAX_FILE_SIZE
      BY DEF fetchLog
    <2> HIDE DEF next
    <2>3. CallTyped(next)
      <3>1. logs[p] \in Buffer
        BY <1>0, <1>2
      <3>2. logs[p].start - MAX_FILE_SIZE \in Int
        BY <3>1, BufferParts, RequestAssumption
      <3> QED BY <1>2, <2>2, <3>2 DEF CallTyped
    <2>4. \A c \in DOMAIN calls' : CallTyped(c)
      BY <1>0, <1>1, <2>1, <2>3, CallsAfterFollowed
    <2>5. /\ fetching' \in BOOLEAN /\ loading' \in BOOLEAN /\ offsetError' \in BOOLEAN
          /\ failures' \in 0 .. 3
      BY <1>0, <2>1, ViewTypes
    <2>6. mixed' \in [Path -> BOOLEAN] /\ mixed'[p]
      BY <1>0, <1>2, <2>1
    <2>7. Typed'
      BY <1>0, <2>1, <2>4, <2>5, <2>6 DEF Typed, logVars
    <2>8. kept' = kept /\ \A q \in kept : q = p
      BY <1>0, <1>4, <2>1, OneIsKept DEF logVars
    <2>9. Unbroken'
      BY <2>6, <2>8 DEF Unbroken
    <2> QED BY <2>7, <2>9 DEF FileInv
  <1> QED BY <1>3, <1>4

\* What is asked for when a file is left has its types.
LEMMA StopTypes ==
    ASSUME IInv, Typed
    PROVE  \A c \in DOMAIN Stopped : CallTyped(c)
  <1>1. \A c \in DOMAIN calls : CallTyped(c)
    BY DEF Typed
  <1>2. ASSUME page # None PROVE CallTyped(fetchLog(page, logs[page].end))
    <2>1. page \in Path /\ logs[page] \in Buffer
      BY <1>2 DEF Typed
    <2>2. logs[page].end \in Int
      BY <2>1, BufferParts
    <2> QED BY <2>1, <2>2 DEF CallTyped, fetchLog
  <1> QED BY <1>1, <1>2, CallsOfStop DEF IInv

\* A file that is taken up is served by one request, or marked as mixed.
LEMMA OpenFileInv == ASSUME NEW p \in Path, IInv, FileInv, OpenFile(p) PROVE FileInv'
  <1> DEFINE one == SetToBag({requestOffset(p)})
  <1>0. /\ Typed /\ Positive(calls) /\ mixed \in [Path -> BOOLEAN]
    BY DEF FileInv, IInv, Typed
  <1>1. /\ page # p /\ page' = p /\ kept' = {p} /\ logs' = [q \in Path |-> EmptyBuffer]
        /\ mixed' = [mixed EXCEPT ![p] = \E c \in BagToSet(calls) : c.path = p]
        /\ fetching' = FALSE /\ loading' = TRUE /\ failures' = 0
        /\ size' = size /\ offsetError' = offsetError
        /\ calls' = Stopped (+) one
    BY DEF OpenFile, startTailing, NewView
  <1>2. DOMAIN one = {requestOffset(p)} /\ Positive(one) /\ one[requestOffset(p)] = 1
    BY DEF SetToBag, Positive
  <1>3. Positive(Stopped)
    BY <1>0, AfterStop
  <1>4. requestOffset(p).path = p /\ requestOffset(p).kind = "offset"
    BY DEF requestOffset
  <1> HIDE DEF one
  <1>5. /\ DOMAIN calls' = DOMAIN Stopped \cup {requestOffset(p)}
        /\ requestOffset(p) \notin DOMAIN Stopped => calls'[requestOffset(p)] = 1
    <2> DEFINE sum == Stopped (+) one
    <2>1. /\ DOMAIN sum = DOMAIN Stopped \cup DOMAIN one
          /\ \A c \in DOMAIN one : c \notin DOMAIN Stopped => sum[c] = one[c]
      BY <1>2, <1>3, CountsOfSum
    <2> HIDE DEF sum
    <2>2. calls' = sum
      BY <1>1 DEF sum
    <2> QED BY <1>2, <2>1, <2>2
  <1>6. \A c \in DOMAIN calls' : CallTyped(c)
    <2>1. CallTyped(requestOffset(p))
      BY <1>4 DEF CallTyped
    <2> QED BY <1>0, <1>5, <2>1, StopTypes
  <1>7. Typed'
    <2>1. logs' \in [Path -> Buffer]
      BY <1>1, EmptyFits
    <2>2. mixed' \in [Path -> BOOLEAN]
      BY <1>0, <1>1
    <2>3. kept' = {page'} \ {None} /\ page' \in Path \cup {None}
      BY <1>1, NoPathIsNone
    <2>4. failures' \in 0 .. 3
      BY <1>1
    <2>5. fetching' \in BOOLEAN /\ loading' \in BOOLEAN /\ offsetError' \in BOOLEAN
      BY <1>0, <1>1, Zenon DEF Typed
    <2>6. size' \in [Path -> Nat]
      BY <1>0, <1>1 DEF Typed
    <2> QED BY <1>6, <2>1, <2>2, <2>3, <2>4, <2>5, <2>6, Zenon DEF Typed
  <1>8. ASSUME ~ mixed'[p] PROVE Served(p, calls', EmptyBuffer, size'[p])
    <2>1. \A c \in DOMAIN calls : c.path # p
      BY <1>0, <1>1, <1>8 DEF BagToSet
    <2>2. \A c \in DOMAIN Stopped : c.path # p
      BY <1>0, <1>1, <2>1, CallsOfStop DEF fetchLog
    <2>3. \A c \in DOMAIN calls' : c.path = p => c = requestOffset(p)
      BY <1>5, <2>2
    <2>4. calls'[requestOffset(p)] = 1 /\ requestOffset(p) \in DOMAIN calls'
      BY <1>4, <1>5, <2>2
    <2>5. Fits(requestOffset(p), EmptyBuffer)
      BY <1>4 DEF Fits
    <2> QED BY <2>3, <2>4, <2>5, EmptyFits DEF Served
  <1>9. Unbroken'
    <2>1. logs'[p] = EmptyBuffer
      BY <1>1
    <2> QED BY <1>1, <1>8, <2>1 DEF Unbroken
  <1> QED BY <1>7, <1>9 DEF FileInv

\* No file is kept then.
LEMMA CloseFileInv == IInv /\ FileInv /\ Close => FileInv'
  <1> SUFFICES ASSUME IInv, FileInv, Close PROVE FileInv'
    OBVIOUS
  <1>0. Typed
    BY DEF FileInv
  <1>1. /\ page # None /\ page' = None /\ kept' = {} /\ calls' = Stopped
        /\ logs' = [logs EXCEPT ![page] = EmptyBuffer]
        /\ fetching' = FALSE /\ loading' = TRUE /\ failures' = 0 /\ offsetError' = FALSE
        /\ size' = size /\ mixed' = mixed
    BY DEF Close, NewView
  <1>2. \A c \in DOMAIN calls' : CallTyped(c)
    BY <1>0, <1>1, StopTypes
  <1>3. logs' \in [Path -> Buffer] /\ size' \in [Path -> Nat] /\ mixed' \in [Path -> BOOLEAN]
    BY <1>0, <1>1, EmptyFits DEF Typed
  <1>4. kept' = {page'} \ {None} /\ page' \in Path \cup {None} /\ failures' \in 0 .. 3
    BY <1>1
  <1>5. fetching' \in BOOLEAN /\ loading' \in BOOLEAN /\ offsetError' \in BOOLEAN
    BY <1>1, Zenon
  <1>6. Typed'
    BY <1>2, <1>3, <1>4, <1>5, Zenon DEF Typed
  <1> QED BY <1>1, <1>6 DEF FileInv, Unbroken

\* A range is asked for that ends where the text starts.
LEMMA ScrollFileInv == IInv /\ FileInv /\ PlainLogs /\ ScrollUp => FileInv'
  <1> SUFFICES ASSUME IInv, FileInv, PlainLogs, ScrollUp PROVE FileInv'
    OBVIOUS
  <1> DEFINE p == page
             start == logs[p].start
             call == IF start < MAX_FILE_SIZE THEN fetchPreviousLog(p, 0, start)
                     ELSE fetchPreviousLog(p, start - MAX_FILE_SIZE, MAX_FILE_SIZE)
             one == SetToBag({call})
  <1>0. /\ Typed /\ Unbroken /\ Positive(calls) /\ logs \in [Path -> Buffer]
        /\ mixed \in [Path -> BOOLEAN] /\ \A c \in DOMAIN calls : CallTyped(c)
    BY DEF FileInv, IInv, Typed
  <1>1. /\ p # None /\ getFullLog(logs[p]) # <<>> /\ start # 0
        /\ fetching' = TRUE /\ calls' = calls (+) one
        /\ mixed' = [mixed EXCEPT ![p] = mixed[p] \/ Previous(p) # {}]
        /\ UNCHANGED <<size, logs, kept, page, loading, failures, offsetError>>
    BY DEF ScrollUp, ViewIsShown, hasLoadedTop, getPreviousLogs, logVars
  <1>2. p \in Path /\ p \in kept
    BY <1>0, <1>1 DEF Typed
  <1>3. logs[p] \in Buffer /\ start \in Int /\ logs[p].end \in Int
    <2>1. logs[p] \in Buffer
      BY <1>0, <1>2
    <2> QED BY <2>1, BufferParts
  <1>4. /\ call.path = p /\ call.kind = "previous" /\ call.from \in Nat
        /\ call.length \in Int /\ call.from + call.length = start
        /\ start > 0 => call.length > 0
    <2> HIDE DEF start, p
    <2>1. CASE start < MAX_FILE_SIZE
      BY <1>3, <2>1 DEF fetchPreviousLog
    <2>2. CASE ~ (start < MAX_FILE_SIZE)
      BY <1>3, <2>2, RequestAssumption DEF fetchPreviousLog
    <2> QED BY <2>1, <2>2
  <1> HIDE DEF call
  <1>5. DOMAIN one = {call} /\ Positive(one) /\ one[call] = 1
    BY DEF SetToBag, Positive
  <1> HIDE DEF one
  <1>6. /\ DOMAIN calls' = DOMAIN calls \cup {call}
        /\ \A c \in DOMAIN calls : c # call => calls'[c] = calls[c]
        /\ call \notin DOMAIN calls => calls'[call] = 1
    <2> DEFINE sum == calls (+) one
    <2>1. /\ DOMAIN sum = DOMAIN calls \cup DOMAIN one
          /\ \A c \in DOMAIN calls : c \notin DOMAIN one => sum[c] = calls[c]
          /\ \A c \in DOMAIN one : c \notin DOMAIN calls => sum[c] = one[c]
      BY <1>0, <1>5, CountsOfSum
    <2> HIDE DEF sum
    <2>2. calls' = sum
      BY <1>1 DEF sum
    <2> QED BY <1>5, <2>1, <2>2
  <1>7. Typed'
    <2>1. \A c \in DOMAIN calls' : CallTyped(c)
      BY <1>0, <1>2, <1>4, <1>6 DEF CallTyped
    <2>2. mixed' \in [Path -> BOOLEAN]
      BY <1>0, <1>1, <1>2
    <2>3. fetching' \in BOOLEAN /\ loading' \in BOOLEAN /\ offsetError' \in BOOLEAN
      BY <1>0, <1>1, Zenon DEF Typed
    <2>4. /\ size' \in [Path -> Nat] /\ logs' \in [Path -> Buffer]
          /\ page' \in Path \cup {None} /\ kept' = {page'} \ {None} /\ failures' \in 0 .. 3
      BY <1>0, <1>1 DEF Typed
    <2> QED BY <2>1, <2>2, <2>3, <2>4, Zenon DEF Typed
  <1>8. ASSUME NEW q \in kept, Wide[q] = {}, ~ mixed'[q]
        PROVE  Served(q, calls', logs[q], size[q])
    <2>1. q = p
      BY <1>0, <1>2, OneIsKept
    <2>2. Wide[p] = {} /\ ~ mixed[p] /\ Previous(p) = {}
      BY <1>0, <1>1, <1>2, <1>8, <2>1
    <2>3. Served(p, calls, logs[p], size[p])
      BY <1>0, <1>2, <2>2 DEF Unbroken
    <2>4. start < logs[p].end
      <3>1. getFullLog(logs[p]) = [i \in 1 .. KeptSize(logs[p]) |-> start + i - 1]
        <4>1. Plain(logs[p])
          BY <1>0, <1>2, <2>2, OneIsKept DEF PlainLogs
        <4> QED BY <1>3, <2>3, <4>1, FullLogIsTheRange DEF Served
      <3>2. KeptSize(logs[p]) = logs[p].end - start
        BY DEF KeptSize
      <3>3. ASSUME ~ (start < logs[p].end) PROVE FALSE
        <4> DEFINE n == KeptSize(logs[p])
        <4>1. n \in Int /\ n <= 0
          <5> HIDE DEF p
          <5> QED BY <1>3, <3>2, <3>3
        <4> HIDE DEF n, start
        <4>2. 1 .. n = {}
          BY <4>1
        <4>3. [i \in 1 .. n |-> start + i - 1] = <<>>
          BY <4>2
        <4>4. getFullLog(logs[p]) = <<>>
          BY <3>1, <4>3 DEF n
        <4> QED BY <1>1, <4>4
      <3> QED BY <3>3
    <2>5. requestOffset(p) \notin DOMAIN calls
      <3>1. logs[p] # EmptyBuffer
        BY <2>4, EmptyFits
      <3>2. requestOffset(p).path = p /\ requestOffset(p).kind = "offset"
        BY DEF requestOffset
      <3> HIDE DEF p
      <3> QED BY <2>3, <3>1, <3>2 DEF Served, Fits
    <2>6. start > 0
      <3>1. InFile(logs[p], size[p])
        BY <2>3, <2>5 DEF Served
      <3> HIDE DEF p
      <3> QED BY <1>1, <1>3, <3>1 DEF InFile
    <2>7. Fits(call, logs[p])
      BY <1>4, <2>4, <2>6 DEF Fits
    <2>8. \A c \in DOMAIN calls : c.path = p => c.kind # "previous"
      BY <2>2 DEF Previous, UnderWay, BagToSet
    <2> HIDE DEF p, start
    <2>9. call \notin DOMAIN calls
      BY <1>4, <2>8
    <2>10. \A c \in DOMAIN calls' : c.path = p => calls'[c] = 1 /\ Fits(c, logs[p])
      BY <1>6, <2>3, <2>7, <2>9 DEF Served
    <2>11. ASSUME NEW c \in DOMAIN calls', NEW d \in DOMAIN calls', c.path = p, d.path = p,
                  c.kind = "previous" <=> d.kind = "previous"
           PROVE  c = d
      <3>1. CASE c = call \/ d = call
        BY <1>4, <1>6, <2>8, <2>11, <3>1
      <3>2. CASE c # call /\ d # call
        BY <1>6, <2>3, <2>11, <3>2 DEF Served
      <3> QED BY <3>1, <3>2
    <2>12. InFile(logs[p], size[p]) /\ Marked(logs[p]) /\ KeptSize(logs[p]) <= maxFileSize
      BY <2>3, <2>5 DEF Served
    <2>13. Served(p, calls', logs[p], size[p])
      BY <2>10, <2>11, <2>12 DEF Served
    <2> QED BY <2>1, <2>13
  <1>9. Unbroken'
    BY <1>1, <1>8 DEF Unbroken
  <1> QED BY <1>7, <1>9 DEF FileInv

\* A file grows, and what is kept of it lies in it still.
LEMMA WriteFileInv == ASSUME NEW p \in Path, FileInv, Write(p) PROVE FileInv'
  <1>0. Typed /\ Unbroken /\ size \in [Path -> Nat]
    BY DEF FileInv, Typed
  <1>1. /\ size' = [size EXCEPT ![p] = @ + 1]
        /\ UNCHANGED <<logs, kept, calls, page, viewVars, mixed>>
    BY DEF Write, logVars
  <1>2. size' \in [Path -> Nat] /\ \A q \in Path : size[q] <= size'[q]
    BY <1>0, <1>1
  <1>3. Typed'
    BY <1>0, <1>1, <1>2 DEF Typed, viewVars, CallTyped
  <1>4. ASSUME NEW q \in kept, Wide[q] = {}, ~ mixed[q]
        PROVE  Served(q, calls, logs[q], size'[q])
    <2>1. Served(q, calls, logs[q], size[q])
      BY <1>0, <1>4 DEF Unbroken
    <2>2. q \in Path /\ logs[q] \in Buffer
      BY <1>0, OneIsKept DEF Typed
    <2>3. size[q] \in Nat /\ size'[q] \in Nat /\ size[q] <= size'[q] /\ logs[q].end \in Int
      BY <1>0, <1>2, <2>2, BufferParts
    <2>4. InFile(logs[q], size[q]) => InFile(logs[q], size'[q])
      BY <2>3 DEF InFile
    <2> QED BY <2>1, <2>4 DEF Served
  <1>5. Unbroken'
    BY <1>1, <1>4 DEF Unbroken
  <1> QED BY <1>3, <1>5 DEF FileInv

\* Every step keeps what is served in order.
LEMMA NextFileInv == IInv /\ FileInv /\ PlainLogs /\ [Next]_vars => FileInv'
  <1> SUFFICES ASSUME IInv, FileInv, PlainLogs, [Next]_vars PROVE FileInv'
    OBVIOUS
  <1>1. CASE Answers
    BY <1>1, OffsetFileInv, OffsetErrorFileInv, EntryFileInv, ErrorFileInv,
       PrependFileInv, PrependErrorFileInv DEF Answers
  <1>2. CASE UNCHANGED vars
    BY <1>2 DEF vars, logVars, viewVars, FileInv, Typed, Unbroken, CallTyped
  <1> QED BY <1>1, <1>2, RetryFileInv, OpenFileInv, CloseFileInv, ScrollFileInv,
             WriteFileInv DEF Next

----------------------------------------------------------------------------
(* Plain files.                                                             *)

\* A log is emptied, started, or gets what the agent answered.
LEMMA NextPlainLogs == FileInv /\ PlainLogs /\ [Next]_vars => PlainLogs'
  <1> SUFFICES ASSUME FileInv, PlainLogs, [Next]_vars, NEW p \in Path, Wide[p] = {}
               PROVE  Plain(logs'[p])
    BY DEF PlainLogs
  <1>1. /\ Plain(logs[p]) /\ logs \in [Path -> Buffer] /\ size \in [Path -> Nat]
        /\ \A c \in DOMAIN calls : CallTyped(c)
    BY DEF PlainLogs, FileInv, Typed
  <1>2. Plain(EmptyBuffer)
    BY EmptyFits DEF Plain
  <1>3. ASSUME NEW q \in Path, processOffset(q) PROVE Plain(logs'[p])
    <2>1. initialize(logs[p], size[p]).items = logs[p].items
      BY <1>1 DEF initialize, Buffer
    <2>2. Plain(initialize(logs[p], size[p]))
      BY <1>1, <2>1 DEF Plain
    <2>3. logs' = logs \/ logs' = [logs EXCEPT ![q] = initialize(logs[q], size[q])]
      BY <1>3 DEF processOffset
    <2> QED BY <1>1, <2>2, <2>3
  <1>4. ASSUME NEW q \in Path, NEW from \in Int, from >= -1, NEW length \in Nat,
               \/ logs' = [logs EXCEPT ![q] = add(logs[q], Read(q, from, length))]
               \/ logs' = [logs EXCEPT ![q] = prepend(logs[q], Read(q, from, length))]
               \/ logs' = logs
        PROVE  Plain(logs'[p])
    <2>1. CASE q # p
      BY <1>1, <1>4, <2>1
    <2>2. CASE q = p
      <3> DEFINE piece == Read(p, from, length)
      <3>1. piece \in Piece /\ piece.wide = {}
        <4>1. size[p] \in Nat
          BY <1>1
        <4> QED BY <1>4, <4>1, ReadsThere
      <3> HIDE DEF piece
      <3>2. logs[p] \in Buffer
        BY <1>1
      <3>3. Plain(add(logs[p], piece)) /\ Plain(prepend(logs[p], piece))
        BY <1>1, <3>1, <3>2, AddPlain
      <3>4. \/ logs' = [logs EXCEPT ![p] = add(logs[p], piece)]
            \/ logs' = [logs EXCEPT ![p] = prepend(logs[p], piece)]
            \/ logs' = logs
        BY <1>4, <2>2 DEF piece
      <3> QED BY <1>1, <3>3, <3>4
    <2> QED BY <2>1, <2>2
  <1>5. ASSUME NEW call \in UnderWay("tail"), call.from >= -1, processLogEntry(call)
        PROVE  Plain(logs'[p])
    <2>1. call.path \in Path /\ call.from \in Int
      BY <1>1 DEF UnderWay, BagToSet, CallTyped
    <2>2. \/ logs' = [logs EXCEPT ![call.path] =
                         add(logs[call.path], Read(call.path, call.from, MAX_FILE_SIZE))]
          \/ logs' = logs
      BY <1>5 DEF processLogEntry
    <2> QED BY <1>4, <1>5, <2>1, <2>2, RequestAssumption
  <1>6. ASSUME NEW call \in UnderWay("previous"), processLogPrepend(call)
        PROVE  Plain(logs'[p])
    <2> DEFINE length == IF call.length < 0 THEN MAX_FILE_SIZE ELSE call.length
    <2>1. call.path \in Path /\ call.from \in Nat /\ call.length \in Int
      BY <1>1 DEF UnderWay, BagToSet, CallTyped
    <2>2. length \in Nat /\ call.from \in Int /\ call.from >= -1
      BY <2>1, RequestAssumption
    <2>3. \/ logs' = [logs EXCEPT ![call.path] =
                         prepend(logs[call.path], Read(call.path, call.from, length))]
          \/ logs' = logs
      BY <1>6 DEF processLogPrepend
    <2> HIDE DEF length
    <2> QED BY <1>4, <2>1, <2>2, <2>3
  <1>7. CASE Answers
    <2>1. ASSUME NEW q \in Path, processOffsetError(q) PROVE logs' = logs
      BY <2>1 DEF processOffsetError, logVars
    <2>2. ASSUME NEW call, processLogError(call) \/ processLogPrependError(call)
          PROVE  logs' = logs
      BY <2>2 DEF processLogError, processLogPrependError, logVars
    <2>3. \/ \E q \in Path : processOffset(q) \/ processOffsetError(q)
          \/ \E call \in UnderWay("tail") :
               \/ call.from >= -1 /\ processLogEntry(call)
               \/ processLogError(call)
          \/ \E call \in UnderWay("previous") :
               \/ processLogPrepend(call)
               \/ processLogPrependError(call)
      BY <1>7 DEF Answers
    <2> QED BY <1>1, <1>3, <1>5, <1>6, <2>1, <2>2, <2>3
  <1>8. ASSUME NEW q \in Path, OpenFile(q) PROVE Plain(logs'[p])
    <2>1. logs' = [x \in Path |-> EmptyBuffer]
      BY <1>8 DEF OpenFile, startTailing
    <2> QED BY <1>2, <2>1
  <1>9. CASE Close
    <2>1. logs' = [logs EXCEPT ![page] = EmptyBuffer]
      BY <1>9 DEF Close
    <2> QED BY <1>1, <1>2, <2>1
  <1>10. CASE RetryTimerFires \/ ScrollUp \/ (\E q \in Path : Write(q)) \/ UNCHANGED vars
    <2>1. logs' = logs
      BY <1>10 DEF RetryTimerFires, ScrollUp, Write, vars, logVars
    <2> QED BY <1>1, <2>1
  <1> QED BY <1>7, <1>8, <1>9, <1>10 DEF Next

LEMMA InitPlainLogs == Init => PlainLogs
  BY EmptyFits DEF Init, PlainLogs, Plain

\* Whatever is answered, fails, or is left of former tails, what MesosLogStore
\* and the page keep has its types, and every call under way is counted.
THEOREM TypeCorrectness == Spec => []TypeOK
  <1>1. IInv /\ FileInv => TypeOK
    BY DEF IInv, FileInv, Typed, TypeOK, Positive, BagToSet
  <1> QED BY InitIInv, NextIInv, InitFileInv, NextFileInv, InitPlainLogs, NextPlainLogs,
             <1>1, PTL DEF Spec

\* Of a file of one-byte characters, as long as its log is served by its own
\* tail and one range at a time, what LogBuffer.getFullLog shows is its text
\* from the start to the end of the buffer, without a gap or a repetition, and
\* no more than is to be kept.
THEOREM TextIsUnbroken == Spec => []ShownFileIsUnbroken
  <1>1. ASSUME FileInv, PlainLogs PROVE ShownFileIsUnbroken
    <2> SUFFICES ASSUME NEW p \in kept, Wide[p] = {}, ~ mixed[p]
                 PROVE  /\ getFullLog(logs[p]) =
                             [i \in 1 .. KeptSize(logs[p]) |-> logs[p].start + i - 1]
                        /\ KeptSize(logs[p]) <= maxFileSize
      BY DEF ShownFileIsUnbroken
    <2>1. Served(p, calls, logs[p], size[p])
      BY <1>1 DEF FileInv, Unbroken
    <2>2. logs[p] \in Buffer
      BY <1>1, OneIsKept DEF FileInv, Typed
    <2>3. Plain(logs[p])
      BY <1>1, OneIsKept DEF PlainLogs, FileInv
    <2> QED BY <2>1, <2>2, <2>3, FullLogIsTheRange DEF Served
  <1> QED BY InitIInv, NextIInv, InitFileInv, NextFileInv, InitPlainLogs, NextPlainLogs,
             <1>1, PTL DEF Spec
=============================================================================
