------------------------------ MODULE LogBuffer ------------------------------
(***************************************************************************)
(* plugins/services/src/js/structs/LogBuffer.ts: the pieces of a file read  *)
(* so far, with the offsets where what is kept of it starts and ends.       *)
(*                                                                         *)
(* An agent counts bytes, and the buffer counts the characters of what the  *)
(* agent answered.  A piece is not a text but where the buffer takes it to   *)
(* be: a character at each offset from `from` up to, and without, `to`.      *)
(* Those at `wide` are two bytes of the file, so that what follows them is   *)
(* not where it is taken to be.  The lines of the file end at the bytes      *)
(* Newline.                                                                *)
(***************************************************************************)
EXTENDS Integers, Sequences, FiniteSets

CONSTANTS
    PAGE_SIZE,     \* how much of the file initialize() goes back
    maxFileSize,   \* how much of it is kept
    Newline

ASSUME BufferAssumption == PAGE_SIZE \in Nat /\ maxFileSize \in Nat /\ Newline \subseteq Nat

Size(piece) == piece.to - piece.from

\* Where the character starts that is taken to be at the offset n.
Byte(piece, n) == n + Cardinality({w \in piece.wide : w < n})

\* The piece without its text up to the first newline, if it has one.
AfterNewline(piece) ==
    LET newlines == {n \in piece.from..piece.to - 1 : Byte(piece, n) \in Newline} IN
    IF newlines = {} THEN piece
    ELSE [piece EXCEPT !.from = 1 + CHOOSE n \in newlines : \A m \in newlines : n <= m]

truncateItemData(piece, sizeDiff) ==
    IF sizeDiff < Size(piece) THEN AfterNewline([piece EXCEPT !.from = @ + sizeDiff])
    ELSE [piece EXCEPT !.from = piece.to]

EmptyBuffer == [items |-> <<>>, start |-> -1, end |-> -1]

KeptSize(buffer) == buffer.end - buffer.start

initialize(buffer, offset) ==
    LET at == IF offset > PAGE_SIZE THEN offset - PAGE_SIZE ELSE 0 IN
    [buffer EXCEPT !.start = at, !.end = at]

\* One round of truncate, of the first item or, from the back, of the last: in
\* either case it is the beginning of the item that is cut off.
TruncateItem(buffer, fromBack) ==
    LET index == IF fromBack THEN Len(buffer.items) ELSE 1
        item == buffer.items[index]
        left == truncateItemData(item, KeptSize(buffer) - maxFileSize)
        newSize == KeptSize(buffer) - Size(item) + Size(left)
    IN  [items |-> IF Size(left) > 0 THEN [buffer.items EXCEPT ![index] = left]
                   ELSE IF fromBack THEN SubSeq(buffer.items, 1, index - 1)
                   ELSE Tail(buffer.items),
         start |-> IF fromBack THEN buffer.start ELSE buffer.end - newSize,
         end |-> IF fromBack THEN buffer.start + newSize ELSE buffer.end]

\* Rounds go on while too much is kept; each but the last one drops an item.
truncate(buffer, fromBack) ==
    LET after[n \in 0..Len(buffer.items)] ==
          IF n = 0 THEN buffer
          ELSE IF KeptSize(after[n - 1]) <= maxFileSize THEN after[n - 1]
          ELSE TruncateItem(after[n - 1], fromBack)
    IN  after[Len(buffer.items)]

\* Nothing was kept of the file so far, and what comes is not its beginning.
StartsWith(buffer, piece) == buffer.start = buffer.end /\ piece.from # 0

\* Mutation: the piece is put where it would be appended.
prepend_Appends(buffer, piece) ==
    truncate([items |-> Append(buffer.items, piece),
              start |-> piece.from,
              end |-> IF StartsWith(buffer, piece) THEN piece.to ELSE buffer.end], TRUE)

prepend(buffer, piece) ==
    truncate([items |-> <<piece>> \o buffer.items,
              start |-> piece.from,
              end |-> IF StartsWith(buffer, piece) THEN piece.to ELSE buffer.end], TRUE)

\* A log that does not begin with its file begins with a line.
add(buffer, piece) ==
    LET added == IF StartsWith(buffer, piece) THEN AfterNewline(piece) ELSE piece IN
    truncate([items |-> Append(buffer.items, added),
              start |-> IF StartsWith(buffer, piece) THEN added.from ELSE buffer.start,
              end |-> added.to], FALSE)

hasLoadedTop(buffer) == buffer.start = 0

\* getFullLog, as the bytes where its characters start.
getFullLog(buffer) ==
    LET upTo[n \in 0..Len(buffer.items)] ==
          IF n = 0 THEN <<>>
          ELSE upTo[n - 1] \o [i \in 1..Size(buffer.items[n]) |->
                             Byte(buffer.items[n], buffer.items[n].from + i - 1)]
    IN  upTo[Len(buffer.items)]
=============================================================================
