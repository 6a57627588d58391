------------------------------ MODULE RecordIO ------------------------------
(***************************************************************************)
(* The RecordIO reader of src/js/core/MesosStream.ts: the master frames    *)
(* every event as <length in decimal> <newline> <that many bytes>, the     *)
(* browser hands those bytes over in chunks cut anywhere, and record$ puts *)
(* the records together again in a growing buffer.                         *)
(*                                                                         *)
(* The buffer always holds a contiguous part of what was received, because *)
(* chunks are appended at its end and records cut off its front.  So it is *)
(* modelled by two offsets into the bytes of the connection: the buffer is *)
(* Wire[consumed + 1 .. received].                                         *)
(*                                                                         *)
(* One connection, from getReader() to the end of the stream.  The life of *)
(* connections (fetch, reconnection, sharing) is the module MesosStream.   *)
(***************************************************************************)
EXTENDS Naturals, Sequences

CONSTANTS
    Byte,          \* what a byte of the connection can be
    Newline,       \* the byte 10
    ParseInt(_),   \* parseInt(utf8.read(header), 10)
    Wire,          \* the bytes the master sends on this connection
    Frames,        \* how many complete records they hold
    Begin,         \* Begin[k]: bytes before the k-th frame
    NewlineAt      \* NewlineAt[k]: where the header of the k-th frame ends

\* What the master sends: frames, one after the other, and then possibly a
\* frame that is cut short, as when the connection ends in the middle of one.
ASSUME WireAssumption ==
    /\ Newline \in Byte
    /\ Wire \in Seq(Byte)
    /\ Frames \in Nat
    /\ Begin \in [1 .. Frames + 1 -> Nat]
    /\ NewlineAt \in [1 .. Frames -> Nat]
    /\ Begin[1] = 0
    /\ \A k \in 1 .. Frames + 1 : Begin[k] <= Len(Wire)
    /\ \A j, k \in 1 .. Frames + 1 : j <= k => Begin[j] <= Begin[k]

ASSUME FrameAssumption ==
    \A k \in 1 .. Frames :
        /\ Begin[k] < NewlineAt[k]
        /\ NewlineAt[k] <= Begin[k + 1]
        /\ Wire[NewlineAt[k]] = Newline
        /\ \A i \in Begin[k] + 1 .. NewlineAt[k] - 1 : Wire[i] # Newline
        /\ ParseInt(SubSeq(Wire, Begin[k] + 1, NewlineAt[k] - 1))
               = Begin[k + 1] - NewlineAt[k]

\* The bytes after the last complete frame: no header yet, or a header that
\* announces more bytes than follow.
ASSUME TailAssumption ==
    LET from == Begin[Frames + 1] IN
    \/ \A i \in from + 1 .. Len(Wire) : Wire[i] # Newline
    \/ \E i \in from + 1 .. Len(Wire) :
          /\ Wire[i] = Newline
          /\ \A j \in from + 1 .. i - 1 : Wire[j] # Newline
          /\ ParseInt(SubSeq(Wire, from + 1, i - 1)) \in Nat
          /\ ParseInt(SubSeq(Wire, from + 1, i - 1)) > Len(Wire) - i

\* The records the master meant to send, in order.
Sent == [k \in 1 .. Frames |-> SubSeq(Wire, NewlineAt[k] + 1, Begin[k + 1])]

VARIABLES
    received,      \* bytes handed over by reader.read() so far
    consumed,      \* bytes cut off the front of the buffer so far
    reader,        \* what the process() callback is doing
    records        \* the records passed to observer.next, in order

vars == <<received, consumed, reader, records>>

ReaderState == {"reading", "draining", "completed", "hung"}

----------------------------------------------------------------------------
\* buffer.indexOf(10) # -1, for the buffer Wire[from + 1 .. to].
HasNewline(from, to) == \E i \in from + 1 .. to : Wire[i] = Newline

\* buffer.indexOf(10), as an offset into Wire.
newlineIndex(from, to) ==
    CHOOSE i \in from + 1 .. to :
        /\ Wire[i] = Newline
        /\ \A j \in from + 1 .. i - 1 : Wire[j] # Newline

\* parseInt(utf8.read(buffer, 0, newlineIndex), 10).
recordLength(from, to) ==
    ParseInt(SubSeq(Wire, from + 1, newlineIndex(from, to) - 1))

\* Mutation: the length is compared strictly.
HasNextRecord_Strict(from, to) ==
    HasNewline(from, to) /\ to > newlineIndex(from, to) + recordLength(from, to)

\* getNextRecord finds a record, and does not return null.
HasNextRecord(from, to) ==
    /\ HasNewline(from, to)
    /\ to >= newlineIndex(from, to) + recordLength(from, to)

\* Mutation: the newline is taken for the first byte of the record.
getNextRecord_FromNewline(from, to) ==
    SubSeq(Wire, newlineIndex(from, to),
                 newlineIndex(from, to) + recordLength(from, to) - 1)

\* The bytes of that record.
getNextRecord(from, to) ==
    SubSeq(Wire, newlineIndex(from, to) + 1,
                 newlineIndex(from, to) + recordLength(from, to))

\* Mutation: nothing is cut off.
removeRecord_Forgotten(from, to) == from

\* removeRecord: the bytes consumed once that record is cut off.
removeRecord(from, to) == newlineIndex(from, to) + recordLength(from, to)

----------------------------------------------------------------------------
Init ==
    /\ received = 0
    /\ consumed = 0
    /\ reader = "reading"
    /\ records = <<>>

\* Mutation: a chunk is taken to be longer than it is.
ReadChunk_Overreads(size) ==
    /\ reader = "reading" /\ received < Len(Wire)
    /\ received' = received + size
    /\ reader' = "draining"
    /\ UNCHANGED <<consumed, records>>

\* reader.read() resolves with a chunk: concatBuffers appends it.
ReadChunk(size) ==
    /\ reader = "reading"
    /\ received + size <= Len(Wire)
    /\ received' = received + size
    /\ reader' = "draining"
    /\ UNCHANGED <<consumed, records>>

\* One turn of `while (record)`.  The loop runs inside one callback, so
\* nothing else happens to the connection between two turns.
EmitRecord ==
    /\ reader = "draining"
    /\ HasNextRecord(consumed, received)
    /\ records' = Append(records, getNextRecord(consumed, received))
    /\ consumed' = removeRecord(consumed, received)
    /\ UNCHANGED <<received, reader>>

\* No complete record is left: `return reader.read().then(process)`.
ReadAgain ==
    /\ reader = "draining"
    /\ ~HasNextRecord(consumed, received)
    /\ reader' = "reading"
    /\ UNCHANGED <<received, consumed, records>>

\* reader.read() resolves with done: the observer completes and whatever is
\* left in the buffer is dropped.  A connection may end after any byte.
Done ==
    /\ reader = "reading"
    /\ reader' = "completed"
    /\ UNCHANGED <<received, consumed, records>>

\* reader.read() rejects.  Nothing handles the rejection, so the observer
\* hears nothing: neither an error nor a completion.
ReadRejects ==
    /\ reader = "reading"
    /\ reader' = "hung"
    /\ UNCHANGED <<received, consumed, records>>

Next ==
    \/ \E size \in 1 .. Len(Wire) : ReadChunk(size)
    \/ EmitRecord
    \/ ReadAgain
    \/ Done
    \/ ReadRejects

Spec == Init /\ [][Next]_vars

----------------------------------------------------------------------------
\* Every variable holds a value of its type.
TypeOK ==
    /\ received \in 0 .. Len(Wire)
    /\ consumed \in 0 .. Len(Wire)
    /\ reader \in ReaderState
    /\ records \in Seq(Seq(Byte))

\* However the bytes are cut into chunks, the records emitted are the ones the
\* master sent, in that order, none skipped, repeated or cut: getNextRecord
\* and removeRecord agree on where a record ends, even when a header is split
\* over two chunks, a record is empty or its bytes contain a newline.
DeliveredInOrder ==
    /\ Len(records) <= Frames
    /\ \A k \in 1 .. Len(records) : records[k] = Sent[k]

\* A record that has been received completely never waits in the buffer for a
\* later chunk: when the reader reads again, all of them have been emitted.
NothingWithheld ==
    reader # "draining" =>
        \A k \in 1 .. Frames : Begin[k + 1] <= received => k <= Len(records)

\* The stream as its observer sees it implements RecordDelivery.
Delivery == INSTANCE RecordDelivery WITH
    delivered <- Len(records), ended <- reader \in {"completed", "hung"}

\* Every step of the reader delivers the next record sent, ends the stream, or
\* changes nothing the observer can see.
ImplementsDelivery == Delivery!Spec
=============================================================================
