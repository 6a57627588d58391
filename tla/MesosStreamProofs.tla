-------------------------- MODULE MesosStreamProofs --------------------------
(***************************************************************************)
(* What the two halves of core/MesosStream.ts keep to: the reader of       *)
(* RecordIO and the stream that its observers share.                       *)
(***************************************************************************)
EXTENDS RecordIO, SharedStream, SequenceTheorems, TLAPS

(***************************************************************************)
(* The reader of RecordIO delivers what the master sent, for every sequence*)
(* of records, every parser of headers and every way of cutting the bytes  *)
(* into chunks.  The argument: whenever the loop looks at the buffer, the  *)
(* buffer starts exactly where the next frame starts, so the first newline *)
(* in it is the one that ends that frame's header.                         *)
(***************************************************************************)
\* The buffer starts with the first frame that has not been emitted.
BufferStartsAtFrame ==
    /\ Len(records) <= Frames
    /\ consumed = Begin[Len(records) + 1]
    /\ consumed <= received

IInv == TypeOK /\ BufferStartsAtFrame /\ DeliveredInOrder /\ NothingWithheld

----------------------------------------------------------------------------
\* A buffer that starts with the k-th frame and holds a newline holds the one
\* that ends the header of the k-th frame, and finds that one first.
LEMMA HeaderFound ==
    ASSUME NEW k \in 1 .. Frames, NEW to \in 0 .. Len(Wire),
           HasNewline(Begin[k], to)
    PROVE  /\ newlineIndex(Begin[k], to) = NewlineAt[k]
           /\ NewlineAt[k] <= to
           /\ recordLength(Begin[k], to) = Begin[k + 1] - NewlineAt[k]
<1> DEFINE from == Begin[k]
           IsFirst(i) == /\ Wire[i] = Newline
                         /\ \A j \in from + 1 .. i - 1 : Wire[j] # Newline
<1>1. /\ from \in Nat
      /\ NewlineAt[k] \in Nat
      /\ from < NewlineAt[k]
      /\ IsFirst(NewlineAt[k])
  BY WireAssumption, FrameAssumption
<1>2. PICK i \in from + 1 .. to : Wire[i] = Newline
  BY DEF HasNewline
<1>3. NewlineAt[k] <= i
  <2>1. ~ (i \in from + 1 .. NewlineAt[k] - 1)
    BY <1>2, FrameAssumption
  <2> QED BY <1>1, <1>2, <2>1
<1>4. NewlineAt[k] \in from + 1 .. to
  BY <1>1, <1>2, <1>3
<1>5. \A j \in from + 1 .. to : IsFirst(j) => j = NewlineAt[k]
  <2> SUFFICES ASSUME NEW j \in from + 1 .. to, IsFirst(j)
               PROVE  j = NewlineAt[k]
    OBVIOUS
  <2>1. ~ (j < NewlineAt[k])
    BY <1>1, <1>4
  <2>2. ~ (NewlineAt[k] < j)
    BY <1>1, <1>4
  <2> QED BY <1>1, <2>1, <2>2
<1>6. newlineIndex(from, to) = NewlineAt[k]
  <2> HIDE DEF from
  <2> QED BY <1>1, <1>4, <1>5, Zenon DEF newlineIndex
<1>7. recordLength(from, to) = Begin[k + 1] - NewlineAt[k]
  BY <1>6, FrameAssumption DEF recordLength
<1> QED BY <1>2, <1>3, <1>4, <1>6, <1>7

\* At the start of the k-th frame, getNextRecord answers with the k-th record
\* exactly when the whole frame is in the buffer.
LEMMA NextRecordIsNextFrame ==
    ASSUME NEW k \in 1 .. Frames, NEW to \in 0 .. Len(Wire)
    PROVE  /\ HasNextRecord(Begin[k], to) <=> Begin[k + 1] <= to
           /\ HasNextRecord(Begin[k], to)
                => /\ getNextRecord(Begin[k], to) = Sent[k]
                   /\ removeRecord(Begin[k], to) = Begin[k + 1]
<1>1. /\ Begin[k] \in Nat
      /\ Begin[k + 1] \in Nat
      /\ NewlineAt[k] \in Nat
      /\ Begin[k] < NewlineAt[k]
      /\ NewlineAt[k] <= Begin[k + 1]
      /\ Wire[NewlineAt[k]] = Newline
  BY WireAssumption, FrameAssumption
<1>2. ASSUME HasNextRecord(Begin[k], to)
      PROVE  /\ Begin[k + 1] <= to
             /\ getNextRecord(Begin[k], to) = Sent[k]
             /\ removeRecord(Begin[k], to) = Begin[k + 1]
  <2>1. HasNewline(Begin[k], to)
    BY <1>2 DEF HasNextRecord
  <2>2. newlineIndex(Begin[k], to) + recordLength(Begin[k], to) = Begin[k + 1]
    BY <1>1, <2>1, HeaderFound
  <2>3. getNextRecord(Begin[k], to) = Sent[k]
    BY <2>1, <2>2, HeaderFound DEF getNextRecord, Sent
  <2> QED BY <1>2, <2>2, <2>3 DEF HasNextRecord, removeRecord
<1>3. ASSUME Begin[k + 1] <= to
      PROVE  HasNextRecord(Begin[k], to)
  <2>1. HasNewline(Begin[k], to)
    BY <1>1, <1>3 DEF HasNewline
  <2> QED BY <1>1, <1>3, <2>1, HeaderFound DEF HasNextRecord
<1> QED BY <1>2, <1>3

\* After the last complete frame there is no record to be found.
LEMMA NoRecordInTail ==
    ASSUME NEW to \in 0 .. Len(Wire)
    PROVE  ~ HasNextRecord(Begin[Frames + 1], to)
<1> DEFINE from == Begin[Frames + 1]
           IsFirst(i) == /\ Wire[i] = Newline
                         /\ \A j \in from + 1 .. i - 1 : Wire[j] # Newline
<1> SUFFICES ASSUME HasNextRecord(from, to) PROVE FALSE
  OBVIOUS
<1>1. from \in Nat /\ Len(Wire) \in Nat
  BY WireAssumption
<1>2. PICK n \in from + 1 .. to : Wire[n] = Newline
  BY DEF HasNextRecord, HasNewline
<1>3. PICK i \in from + 1 .. Len(Wire) :
          /\ IsFirst(i)
          /\ ParseInt(SubSeq(Wire, from + 1, i - 1)) \in Nat
          /\ ParseInt(SubSeq(Wire, from + 1, i - 1)) > Len(Wire) - i
  BY <1>1, <1>2, TailAssumption
<1>4. i <= n
  <2>1. ~ (n \in from + 1 .. i - 1)
    BY <1>2, <1>3
  <2> QED BY <1>1, <1>2, <1>3, <2>1
<1>5. i \in from + 1 .. to
  BY <1>1, <1>2, <1>4
<1>6. newlineIndex(from, to) = i
  <2>1. \A j \in from + 1 .. to : IsFirst(j) => j = i
    <3> SUFFICES ASSUME NEW j \in from + 1 .. to, IsFirst(j) PROVE j = i
      OBVIOUS
    <3>1. ~ (j < i) /\ ~ (i < j)
      BY <1>1, <1>3, <1>5
    <3> QED BY <1>1, <1>3, <3>1
  <2> HIDE DEF from
  <2> QED BY <1>3, <1>5, <2>1, Zenon DEF newlineIndex
<1> QED BY <1>1, <1>3, <1>5, <1>6 DEF HasNextRecord, recordLength

----------------------------------------------------------------------------
LEMMA SentType == Sent \in [1 .. Frames -> Seq(Byte)] /\ Len(Sent) = Frames
<1>1. ASSUME NEW k \in 1 .. Frames
      PROVE  SubSeq(Wire, NewlineAt[k] + 1, Begin[k + 1]) \in Seq(Byte)
  <2> DEFINE m == NewlineAt[k] + 1
             n == Begin[k + 1]
  <2>1. m \in 1 .. Len(Wire) + 1 /\ n \in 0 .. Len(Wire)
    <3>1. k + 1 \in 1 .. Frames + 1 /\ Len(Wire) \in Nat
      BY WireAssumption
    <3>2. n \in 0 .. Len(Wire) /\ NewlineAt[k] \in Nat
      BY <3>1, WireAssumption
    <3>3. NewlineAt[k] <= n
      BY FrameAssumption
    <3> QED BY <3>1, <3>2, <3>3
  <2> HIDE DEF m, n
  <2> QED BY <2>1, WireAssumption, SubSeqProperties
<1>2. Sent \in [1 .. Frames -> Seq(Byte)]
  BY <1>1 DEF Sent
<1> QED BY <1>2, WireAssumption DEF Sent

LEMMA InitEstablishes == Init => IInv
BY WireAssumption, FrameAssumption
   DEF Init, IInv, TypeOK, ReaderState, BufferStartsAtFrame, DeliveredInOrder,
       NothingWithheld

\* What EmitRecord does to a reader that satisfies the invariant: it appends
\* the next record sent, and cuts exactly its frame off the buffer.
LEMMA EmitDelivers ==
    ASSUME IInv, EmitRecord
    PROVE  /\ Len(records) < Frames
           /\ records' = Append(records, Sent[Len(records) + 1])
           /\ consumed' = Begin[Len(records) + 2]
           /\ consumed' <= received
<1> DEFINE k == Len(records) + 1
<1>1. received \in 0 .. Len(Wire) /\ Len(records) \in Nat
  BY DEF IInv, TypeOK
<1>2. k \in 1 .. Frames
  <2>1. Len(records) # Frames
    BY <1>1, NoRecordInTail DEF IInv, BufferStartsAtFrame, EmitRecord
  <2> QED BY <1>1, <2>1, WireAssumption DEF IInv, BufferStartsAtFrame
<1>3. consumed = Begin[k]
  BY DEF IInv, BufferStartsAtFrame
<1>4. /\ Begin[k + 1] <= received
      /\ getNextRecord(consumed, received) = Sent[k]
      /\ removeRecord(consumed, received) = Begin[k + 1]
  BY <1>1, <1>2, <1>3, NextRecordIsNextFrame DEF EmitRecord
<1> QED BY <1>1, <1>2, <1>4, WireAssumption DEF EmitRecord

\* When the loop finds no record, every complete frame has been emitted.
LEMMA ReadAgainLeavesNothing ==
    ASSUME IInv, ReadAgain
    PROVE  \A k \in 1 .. Frames : Begin[k + 1] <= received => k <= Len(records)
<1> SUFFICES ASSUME NEW k \in 1 .. Frames, Begin[k + 1] <= received,
                    ~ (k <= Len(records))
             PROVE  FALSE
  OBVIOUS
<1> DEFINE next == Len(records) + 1
<1>1. received \in 0 .. Len(Wire) /\ Len(records) \in Nat
  BY DEF IInv, TypeOK
<1>2. next \in 1 .. Frames /\ next <= k
  BY <1>1, WireAssumption
<1>3. Begin[next + 1] <= Begin[k + 1]
  BY <1>2, WireAssumption
<1>4. Begin[next + 1] <= received
  BY <1>1, <1>2, <1>3, WireAssumption
<1>5. HasNextRecord(consumed, received)
  BY <1>1, <1>2, <1>4, NextRecordIsNextFrame DEF IInv, BufferStartsAtFrame
<1> QED BY <1>5 DEF ReadAgain

LEMMA StepPreserves == IInv /\ [Next]_vars => IInv'
<1> SUFFICES ASSUME IInv, [Next]_vars PROVE IInv'
  OBVIOUS
<1> USE DEF IInv
<1>1. ASSUME NEW size \in 1 .. Len(Wire), ReadChunk(size) PROVE IInv'
  <2>1. TypeOK'
    BY <1>1, WireAssumption DEF ReadChunk, TypeOK, ReaderState
  <2>2. BufferStartsAtFrame' /\ DeliveredInOrder'
    BY <1>1, WireAssumption
       DEF ReadChunk, TypeOK, BufferStartsAtFrame, DeliveredInOrder
  <2>3. NothingWithheld'
    BY <1>1 DEF ReadChunk, NothingWithheld
  <2> QED BY <2>1, <2>2, <2>3
<1>2. CASE EmitRecord
  <2>1. /\ Len(records) < Frames
        /\ records' = Append(records, Sent[Len(records) + 1])
        /\ consumed' = Begin[Len(records) + 2]
        /\ consumed' <= received
        /\ UNCHANGED <<received, reader>>
        /\ reader = "draining"
    BY <1>2, EmitDelivers DEF EmitRecord
  <2>2. records \in Seq(Seq(Byte)) /\ Len(records) \in Nat
    BY DEF TypeOK
  <2>3. Sent[Len(records) + 1] \in Seq(Byte)
    BY <2>1, <2>2, SentType, WireAssumption
  <2>4. /\ records' \in Seq(Seq(Byte))
        /\ Len(records') = Len(records) + 1
        /\ \A k \in 1 .. Len(records) : records'[k] = records[k]
        /\ records'[Len(records) + 1] = Sent[Len(records) + 1]
    BY <2>1, <2>2, <2>3
  <2>5. TypeOK'
    BY <2>1, <2>2, <2>4, WireAssumption DEF TypeOK
  <2>6. BufferStartsAtFrame'
    BY <2>1, <2>2, <2>4, WireAssumption DEF BufferStartsAtFrame
  <2>7. DeliveredInOrder'
    <3>1. Len(records') <= Frames
      BY <2>1, <2>2, <2>4, WireAssumption
    <3>2. ASSUME NEW k \in 1 .. Len(records') PROVE records'[k] = Sent[k]
      <4>1. CASE k \in 1 .. Len(records)
        BY <4>1, <2>4 DEF DeliveredInOrder
      <4>2. CASE k = Len(records) + 1
        BY <4>2, <2>4
      <4> QED BY <4>1, <4>2, <2>2, <2>4
    <3> QED BY <3>1, <3>2 DEF DeliveredInOrder
  <2>8. NothingWithheld'
    BY <2>1 DEF NothingWithheld
  <2> QED BY <2>5, <2>6, <2>7, <2>8
<1>3. CASE ReadAgain
  <2>1. NothingWithheld'
    BY <1>3, ReadAgainLeavesNothing DEF ReadAgain, NothingWithheld
  <2> QED BY <1>3, <2>1
     DEF ReadAgain, TypeOK, ReaderState, BufferStartsAtFrame, DeliveredInOrder
<1>4. CASE Done
  BY <1>4 DEF Done, TypeOK, ReaderState, BufferStartsAtFrame,
              DeliveredInOrder, NothingWithheld
<1>5. CASE ReadRejects
  BY <1>5 DEF ReadRejects, TypeOK, ReaderState, BufferStartsAtFrame,
              DeliveredInOrder, NothingWithheld
<1>6. CASE UNCHANGED vars
  BY <1>6 DEF vars, TypeOK, BufferStartsAtFrame, DeliveredInOrder,
              NothingWithheld
<1> QED BY <1>1, <1>2, <1>3, <1>4, <1>5, <1>6 DEF Next

\* The inductive invariant holds of every behaviour of the reader.
THEOREM Invariance == Spec => []IInv
BY InitEstablishes, StepPreserves, PTL DEF Spec

\* The reader's variables keep their types: no sequence of chunks makes the
\* buffer start beyond what was received.
THEOREM TypeCorrect == Spec => []TypeOK
<1>1. IInv => TypeOK
  BY DEF IInv
<1> QED BY <1>1, Invariance, PTL

\* record$ hands over the records sent, in order, none lost, doubled or cut,
\* for every sequence of records and every chunking.
THEOREM InOrder == Spec => []DeliveredInOrder
<1>1. IInv => DeliveredInOrder
  BY DEF IInv
<1> QED BY <1>1, Invariance, PTL

\* No completely received record waits for the next chunk.
THEOREM NothingLeftInBuffer == Spec => []NothingWithheld
<1>1. IInv => NothingWithheld
  BY DEF IInv
<1> QED BY <1>1, Invariance, PTL

\* record$ implements the stream its observer is promised.
THEOREM Refinement == Spec => ImplementsDelivery
<1>1. Init => Delivery!Init
  BY DEF Init, Delivery!Init
<1>2. IInv /\ [Next]_vars => [Delivery!Next]_<<Len(records), reader \in {"completed", "hung"}>>
  <2> SUFFICES ASSUME IInv, [Next]_vars
               PROVE  [Delivery!Next]_<<Len(records), reader \in {"completed", "hung"}>>
    OBVIOUS
  <2> DEFINE gone == reader \in {"completed", "hung"}
  <2>1. CASE EmitRecord
    <3>1. /\ Len(records) < Len(Sent)
          /\ Len(records)' = Len(records) + 1
      BY <2>1, EmitDelivers, SentType, WireAssumption DEF IInv, TypeOK
    <3>2. gone = FALSE /\ gone' = gone
      BY <2>1 DEF EmitRecord
    <3> QED BY <3>1, <3>2 DEF Delivery!Next, Delivery!Deliver
  <2>2. CASE Done \/ ReadRejects
    <3>1. gone = FALSE /\ gone' = TRUE /\ Len(records)' = Len(records)
      BY <2>2 DEF Done, ReadRejects
    <3> QED BY <3>1 DEF Delivery!Next, Delivery!End
  <2>3. CASE \E size \in 1 .. Len(Wire) : ReadChunk(size)
    BY <2>3 DEF ReadChunk
  <2>4. CASE ReadAgain
    BY <2>4 DEF ReadAgain
  <2>5. CASE UNCHANGED vars
    BY <2>5 DEF vars
  <2> QED BY <2>1, <2>2, <2>3, <2>4, <2>5 DEF Next
<1> QED BY <1>1, <1>2, Invariance, PTL DEF Spec, ImplementsDelivery, Delivery!Spec

----------------------------------------------------------------------------
(***************************************************************************)
(* What the shared stream keeps to for any events, observers and bounds.   *)
(* The state of the subject, of the timer and of the latest connection     *)
(* determine each other: an active subject is fed, waits for its timer, or *)
(* hangs, and nothing else feeds or waits.  That nobody misses the latest  *)
(* event rests on the replay buffer being the last event of the log.       *)
(***************************************************************************)
StreamTyped ==
    /\ connections \in Seq(ConnectionState)
    /\ subject \in {"none", "active", "errored", "complete"}
    /\ repeat \in {"unused", "armed", "used"}
    /\ replay \in Seq(Event)
    /\ observers \subseteq Observer
    /\ log \in Seq(Event)
    /\ seen \in [Observer -> Seq(Event)]

\* The latest connection feeds the subject.
Feeds == CurrentIs("fetching") \/ CurrentIs("open")

\* Earlier connections feed nothing.
OnlyCurrentFeeds ==
    \A c \in DOMAIN connections :
        connections[c] \in {"fetching", "open"} => c = current

\* Who feeds, who waits, and for which subject.
SubjectIsServed ==
    /\ Feeds => subject = "active" /\ repeat # "armed"
    /\ repeat = "armed" => subject = "active"
    /\ subject = "active" => Feeds \/ repeat = "armed" \/ CurrentIs("hung")
    /\ observers # {} => subject = "active"

\* The replay buffer holds the last event of the log.
ReplayIsLast ==
    IF log = <<>> THEN replay = <<>> ELSE replay = <<log[Len(log)]>>

SharedInv ==
    /\ StreamTyped
    /\ OnlyCurrentFeeds
    /\ SubjectIsServed
    /\ ReplayIsLast
    /\ SubscribersSeeLatest

----------------------------------------------------------------------------
(* The operators.                                                          *)

\* Sequences with the same elements are the same.
LEMMA SameElements ==
    ASSUME NEW S, NEW s \in Seq(S), NEW t \in Seq(S), Len(s) = Len(t),
           \A i \in 1 .. Len(s) : s[i] = t[i]
    PROVE  s = t
OBVIOUS

\* A suffix, element by element.
LEMMA SuffixFacts ==
    ASSUME NEW S, NEW s \in Seq(S), NEW t \in Seq(S)
    PROVE  IsSuffix(s, t) <=>
               /\ Len(s) <= Len(t)
               /\ \A i \in 1 .. Len(s) : s[i] = t[Len(t) - Len(s) + i]
<1> DEFINE rs == [i \in 1 .. Len(s) |-> s[(Len(s) - i) + 1]]
           rt == [i \in 1 .. Len(t) |-> t[(Len(t) - i) + 1]]
<1>1. /\ rs \in Seq(S) /\ Len(rs) = Len(s)
      /\ rt \in Seq(S) /\ Len(rt) = Len(t)
      /\ Len(s) \in Nat /\ Len(t) \in Nat
  OBVIOUS
<1>2. IsSuffix(s, t) <=>
          Len(s) <= Len(t) /\ SubSeq(rs, 1, Len(s)) = SubSeq(rt, 1, Len(s))
  BY <1>1 DEF IsSuffix, IsPrefix, Reverse
<1>3. ASSUME Len(s) <= Len(t)
      PROVE  SubSeq(rs, 1, Len(s)) = SubSeq(rt, 1, Len(s)) <=>
                 \A j \in 1 .. Len(s) : rs[j] = rt[j]
  <2> DEFINE a == SubSeq(rs, 1, Len(s))
             b == SubSeq(rt, 1, Len(s))
  <2>1. /\ a \in Seq(S) /\ Len(a) = Len(s) /\ \A j \in 1 .. Len(s) : a[j] = rs[j]
        /\ b \in Seq(S) /\ Len(b) = Len(s) /\ \A j \in 1 .. Len(s) : b[j] = rt[j]
    <3> HIDE DEF rs, rt
    <3> QED BY <1>1, <1>3
  <2> HIDE DEF a, b, rs, rt
  <2>2. a = b <=> \A j \in 1 .. Len(s) : a[j] = b[j]
    BY <2>1, SameElements
  <2> QED BY <2>1, <2>2 DEF a, b
<1>4. ASSUME Len(s) <= Len(t)
      PROVE  (\A j \in 1 .. Len(s) : rs[j] = rt[j]) <=>
                 \A i \in 1 .. Len(s) : s[i] = t[Len(t) - Len(s) + i]
  <2>1. ASSUME \A j \in 1 .. Len(s) : rs[j] = rt[j], NEW i \in 1 .. Len(s)
        PROVE  s[i] = t[Len(t) - Len(s) + i]
    <3> DEFINE j == Len(s) - i + 1
    <3>1. j \in 1 .. Len(s) /\ j \in 1 .. Len(t) /\ Len(s) - j + 1 = i
          /\ Len(t) - j + 1 = Len(t) - Len(s) + i
      BY <1>1, <1>4
    <3>2. rs[j] = s[i] /\ rt[j] = t[Len(t) - Len(s) + i]
      BY <3>1
    <3> QED BY <2>1, <3>1, <3>2
  <2>2. ASSUME \A i \in 1 .. Len(s) : s[i] = t[Len(t) - Len(s) + i],
               NEW j \in 1 .. Len(s)
        PROVE  rs[j] = rt[j]
    <3>1. Len(s) - j + 1 \in 1 .. Len(s) /\ j \in 1 .. Len(t)
          /\ Len(t) - Len(s) + (Len(s) - j + 1) = Len(t) - j + 1
      BY <1>1, <1>4
    <3> QED BY <2>2, <3>1
  <2> QED BY <2>1, <2>2
<1> HIDE DEF rs, rt
<1> QED BY <1>2, <1>3, <1>4

\* A run that ends with the log still does when both get the same event.
LEMMA SuffixGrows ==
    ASSUME NEW s \in Seq(Event), NEW t \in Seq(Event), NEW e \in Event,
           IsSuffix(s, t)
    PROVE  IsSuffix(Append(s, e), Append(t, e))
<1>1. /\ Append(s, e) \in Seq(Event) /\ Len(Append(s, e)) = Len(s) + 1
      /\ Append(t, e) \in Seq(Event) /\ Len(Append(t, e)) = Len(t) + 1
      /\ Len(s) \in Nat /\ Len(t) \in Nat
  OBVIOUS
<1>2. Len(s) <= Len(t) /\ \A i \in 1 .. Len(s) : s[i] = t[Len(t) - Len(s) + i]
  BY SuffixFacts
<1>3. ASSUME NEW i \in 1 .. Len(s) + 1
      PROVE  Append(s, e)[i] = Append(t, e)[(Len(t) + 1) - (Len(s) + 1) + i]
  <2>1. CASE i = Len(s) + 1
    BY <1>1, <1>2, <2>1
  <2>2. CASE i # Len(s) + 1
    <3>1. i \in 1 .. Len(s) /\ Len(t) - Len(s) + i \in 1 .. Len(t)
      BY <1>1, <1>2, <2>2
    <3> QED BY <1>1, <1>2, <3>1
  <2> QED BY <2>1, <2>2
<1> DEFINE u == Append(s, e)
           v == Append(t, e)
<1>4. \A i \in 1 .. Len(s) + 1 : u[i] = v[(Len(t) + 1) - (Len(s) + 1) + i]
  BY <1>3
<1>5. /\ u \in Seq(Event) /\ Len(u) = Len(s) + 1
      /\ v \in Seq(Event) /\ Len(v) = Len(t) + 1
  BY <1>1
<1> HIDE DEF u, v
<1>6. Len(u) <= Len(v) /\ \A i \in 1 .. Len(u) : u[i] = v[Len(v) - Len(u) + i]
  <2>1. Len(u) <= Len(v)
    BY <1>1, <1>2, <1>5
  <2>2. (Len(t) + 1) - (Len(s) + 1) = Len(v) - Len(u)
    BY <1>5
  <2> QED BY <1>4, <1>5, <2>1, <2>2
<1>7. IsSuffix(u, v)
  BY <1>5, <1>6, SuffixFacts
<1> QED BY <1>7 DEF u, v

\* The current connection changes its state; the others keep theirs.
LEMMA BecomesFacts ==
    ASSUME connections \in Seq(ConnectionState), connections # <<>>,
           OnlyCurrentFeeds,
           NEW state \in ConnectionState, CurrentBecomes(state)
    PROVE  /\ connections' \in Seq(ConnectionState)
           /\ \A s : CurrentIs(s)' <=> s = state
           /\ OnlyCurrentFeeds'
BY DEF CurrentBecomes, CurrentIs, current, OnlyCurrentFeeds

\* A new connection is opened while none feeds.
LEMMA FetchFacts ==
    ASSUME connections \in Seq(ConnectionState), OnlyCurrentFeeds, ~Feeds, Fetch
    PROVE  /\ connections' \in Seq(ConnectionState)
           /\ \A s : CurrentIs(s)' <=> s = "fetching"
           /\ OnlyCurrentFeeds'
<1>1. /\ connections' \in Seq(ConnectionState)
      /\ Len(connections') = Len(connections) + 1
      /\ connections'[Len(connections) + 1] = "fetching"
      /\ connections' # <<>>
      /\ \A c \in 1 .. Len(connections) : connections'[c] = connections[c]
      /\ Len(connections) \in Nat
      /\ DOMAIN connections = 1 .. Len(connections)
      /\ DOMAIN connections' = 1 .. Len(connections) + 1
  BY DEF Fetch, ConnectionState
<1>2. \A s : CurrentIs(s)' <=> s = "fetching"
  BY <1>1 DEF CurrentIs, current
<1>3. ASSUME NEW c \in 1 .. Len(connections),
             connections[c] \in {"fetching", "open"}
      PROVE  FALSE
  <2>1. c = Len(connections)
    BY <1>1, <1>3 DEF OnlyCurrentFeeds, current
  <2>2. connections # <<>>
    BY <1>1, <1>3
  <2> QED BY <1>3, <2>1, <2>2 DEF Feeds, CurrentIs, current
<1> QED BY <1>1, <1>2, <1>3 DEF OnlyCurrentFeeds, current

\* The end of an abandoned connection concerns no other.
LEMMA AbandonedFacts ==
    ASSUME connections \in Seq(ConnectionState), OnlyCurrentFeeds, AbandonedEnds
    PROVE  /\ connections' \in Seq(ConnectionState)
           /\ \A s \in {"fetching", "open", "hung"} : CurrentIs(s)' <=> CurrentIs(s)
           /\ OnlyCurrentFeeds'
BY DEF AbandonedEnds, CurrentIs, current, ConnectionState, OnlyCurrentFeeds

----------------------------------------------------------------------------
(* The actions.                                                            *)

LEMMA SharedInitEstablishes == SharedInit => SharedInv
<1> SUFFICES ASSUME SharedInit PROVE SharedInv
  OBVIOUS
<1> USE DEF SharedInit, StreamInit
<1>1. StreamTyped
  BY DEF StreamTyped
<1>2. OnlyCurrentFeeds
  BY DEF OnlyCurrentFeeds
<1>3. SubjectIsServed
  BY DEF SubjectIsServed, Feeds, CurrentIs
<1>4. ReplayIsLast /\ SubscribersSeeLatest
  BY DEF ReplayIsLast, SubscribersSeeLatest
<1> QED BY <1>1, <1>2, <1>3, <1>4 DEF SharedInv

\* Who was handed an unbroken run keeps it, when nobody is handed anything.
LEMMA SilentKeeps ==
    ASSUME SharedInv, Silent, replay' = replay, observers' \subseteq observers
    PROVE  ReplayIsLast' /\ SubscribersSeeLatest'
BY DEF SharedInv, Silent, ReplayIsLast, SubscribersSeeLatest

\* Everybody who is subscribed is handed the event, which is then the latest.
LEMMA MulticastKeeps ==
    ASSUME SharedInv, NEW e \in Event, Multicast(e),
           replay' = <<e>>, observers' \subseteq observers
    PROVE  /\ log' \in Seq(Event)
           /\ seen' \in [Observer -> Seq(Event)]
           /\ ReplayIsLast'
           /\ SubscribersSeeLatest'
<1>1. log \in Seq(Event) /\ seen \in [Observer -> Seq(Event)]
      /\ observers \subseteq Observer
  BY DEF SharedInv, StreamTyped
<1>2. log' \in Seq(Event) /\ seen' \in [Observer -> Seq(Event)]
  BY <1>1 DEF Multicast
<1>3. ReplayIsLast'
  BY <1>1 DEF Multicast, ReplayIsLast
<1>4. ASSUME NEW o \in observers'
      PROVE  IsSuffix(seen'[o], log') /\ seen'[o] # <<>>
  <2>1. o \in observers /\ seen[o] \in Seq(Event) /\ IsSuffix(seen[o], log)
    BY <1>1 DEF SharedInv, SubscribersSeeLatest
  <2>2. seen'[o] = Append(seen[o], e) /\ log' = Append(log, e)
    BY <1>1, <2>1 DEF Multicast
  <2>3. IsSuffix(Append(seen[o], e), Append(log, e))
    BY <1>1, <2>1, SuffixGrows
  <2> QED BY <2>1, <2>2, <2>3
<1> QED BY <1>2, <1>3, <1>4 DEF SubscribersSeeLatest

\* A first subscription finds no request under way and empties the history.
LEMMA ConnectPreserves ==
    ASSUME SharedInv, NEW o \in Observer, SubscribeAndConnect(o),
           log' = <<>>, seen' = [seen EXCEPT ![o] = <<>>]
    PROVE  SharedInv'
<1> USE DEF SharedInv, SubscribeAndConnect
<1>1. ~Feeds
  BY DEF SubjectIsServed
<1>2. /\ connections' \in Seq(ConnectionState)
      /\ \A s : CurrentIs(s)' <=> s = "fetching"
      /\ OnlyCurrentFeeds'
  BY <1>1, FetchFacts DEF StreamTyped
<1>3. StreamTyped'
  BY <1>2 DEF StreamTyped
<1>4. SubjectIsServed'
  BY <1>2 DEF SubjectIsServed, Feeds
<1>5. ReplayIsLast'
  BY DEF ReplayIsLast
<1>6. SubscribersSeeLatest'
  <2>1. IsSuffix(<<>>, <<>>)
    BY DEF IsSuffix, IsPrefix, Reverse
  <2>2. observers' = {o} /\ seen'[o] = <<>> /\ log' = <<>>
    BY DEF StreamTyped
  <2> QED BY <2>1, <2>2 DEF SubscribersSeeLatest
<1> QED BY <1>2, <1>3, <1>4, <1>5, <1>6

\* A later subscriber is handed the last event, a suffix of the log.
LEMMA SharedPreserves ==
    ASSUME SharedInv, NEW o \in Observer, SubscribeShared(o),
           seen' = [seen EXCEPT ![o] = replay], log' = log
    PROVE  SharedInv'
<1> USE DEF SharedInv, SubscribeShared
<1>1. StreamTyped'
  BY DEF StreamTyped
<1>2. OnlyCurrentFeeds' /\ SubjectIsServed' /\ ReplayIsLast'
  BY DEF OnlyCurrentFeeds, current, SubjectIsServed, Feeds, CurrentIs, ReplayIsLast
<1>3. IsSuffix(replay, log) /\ (log # <<>> => replay # <<>>)
  <2>1. log \in Seq(Event) /\ replay \in Seq(Event)
    BY DEF StreamTyped
  <2>2. /\ Len(replay) <= Len(log)
        /\ \A i \in 1 .. Len(replay) : replay[i] = log[Len(log) - Len(replay) + i]
    <3>1. CASE log = <<>>
      BY <3>1 DEF ReplayIsLast
    <3>2. CASE log # <<>>
      <4>1. /\ Len(replay) = 1 /\ replay[1] = log[Len(log)]
            /\ Len(log) \in Nat /\ Len(log) >= 1
        BY <2>1, <3>2 DEF ReplayIsLast
      <4>2. \A i \in 1 .. 1 : i = 1 /\ Len(log) - 1 + i = Len(log)
        BY <4>1
      <4> QED BY <4>1, <4>2
    <3> QED BY <3>1, <3>2
  <2>3. IsSuffix(replay, log)
    BY <2>1, <2>2, SuffixFacts
  <2> QED BY <2>3 DEF ReplayIsLast
<1>4. ASSUME NEW p \in observers'
      PROVE  IsSuffix(seen'[p], log') /\ (log' # <<>> => seen'[p] # <<>>)
  <2>1. CASE p = o
    BY <1>3, <2>1 DEF StreamTyped
  <2>2. CASE p # o
    BY <2>2 DEF StreamTyped, SubscribersSeeLatest
  <2> QED BY <2>1, <2>2
<1> QED BY <1>1, <1>2, <1>4 DEF SubscribersSeeLatest

\* The source completes: a first time, and the timer is armed; or again, and
\* the subject is complete.
LEMMA CompletionServes ==
    ASSUME SharedInv, Feeds, NEW listening \in SUBSET observers,
           SourceCompletes(listening),
           \A s : CurrentIs(s)' <=> s = "ended"
    PROVE  /\ SubjectIsServed'
           /\ subject' \in {"none", "active", "errored", "complete"}
           /\ repeat' \in {"unused", "armed", "used"}
           /\ observers' \subseteq observers
BY DEF SharedInv, StreamTyped, SubjectIsServed, Feeds, SourceCompletes

\* An event arrives as a record.
LEMMA EmitPreserves ==
    ASSUME SharedInv, NEW e \in Event, NEW leaving \in SUBSET observers,
           Emit(e, leaving), Multicast(e)
    PROVE  SharedInv'
<1>1. observers' \subseteq observers /\ replay' = <<e>>
  BY DEF Emit
<1>2. /\ log' \in Seq(Event) /\ seen' \in [Observer -> Seq(Event)]
      /\ ReplayIsLast' /\ SubscribersSeeLatest'
  BY <1>1, MulticastKeeps
<1>3. StreamTyped'
  BY <1>2 DEF SharedInv, StreamTyped, Emit
<1>4. OnlyCurrentFeeds' /\ SubjectIsServed'
  BY DEF SharedInv, Emit, OnlyCurrentFeeds, current, SubjectIsServed, Feeds, CurrentIs
<1> QED BY <1>2, <1>3, <1>4 DEF SharedInv

\* An event arrives as the JSON body of the response, which ends the source.
LEMMA JsonPreserves ==
    ASSUME SharedInv, NEW e \in Event, NEW leaving \in SUBSET observers,
           ResponseIsJson(e, leaving), Multicast(e)
    PROVE  SharedInv'
<1>1. Feeds /\ connections # <<>> /\ replay' = <<e>>
  BY DEF ResponseIsJson, Feeds, CurrentIs
<1>2. /\ connections' \in Seq(ConnectionState)
      /\ \A s : CurrentIs(s)' <=> s = "ended"
      /\ OnlyCurrentFeeds'
  BY <1>1, BecomesFacts DEF SharedInv, StreamTyped, ResponseIsJson, ConnectionState
<1>3. /\ SubjectIsServed'
      /\ subject' \in {"none", "active", "errored", "complete"}
      /\ repeat' \in {"unused", "armed", "used"}
      /\ observers' \subseteq observers
  <2>1. (observers \ leaving) \in SUBSET observers
        /\ SourceCompletes(observers \ leaving)
    BY DEF ResponseIsJson
  <2> HIDE DEF SubjectIsServed, Feeds, SharedInv
  <2> QED BY <1>1, <1>2, <2>1, CompletionServes
<1>4. /\ log' \in Seq(Event) /\ seen' \in [Observer -> Seq(Event)]
      /\ ReplayIsLast' /\ SubscribersSeeLatest'
  BY <1>1, <1>3, MulticastKeeps
<1>5. StreamTyped'
  BY <1>1, <1>2, <1>3, <1>4 DEF SharedInv, StreamTyped
<1> QED BY <1>2, <1>3, <1>4, <1>5 DEF SharedInv

\* The response opens a body or fails.
LEMMA RespondPreserves == ASSUME SharedInv, Respond PROVE SharedInv'
<1> USE DEF Respond
<1>1. /\ replay' = replay /\ observers' \subseteq observers /\ Silent
      /\ connections # <<>> /\ Feeds
  BY DEF ResponseOpens, ResponseFails, SubjectErrors, Feeds, CurrentIs
<1>2. ReplayIsLast' /\ SubscribersSeeLatest'
  BY <1>1, SilentKeeps
<1>3. CASE ResponseOpens
  <2>1. /\ connections' \in Seq(ConnectionState)
        /\ \A s : CurrentIs(s)' <=> s = "open"
        /\ OnlyCurrentFeeds'
    BY <1>1, <1>3, BecomesFacts DEF SharedInv, StreamTyped, ResponseOpens, ConnectionState
  <2>2. StreamTyped'
    BY <1>1, <1>3, <2>1 DEF SharedInv, StreamTyped, ResponseOpens, Silent
  <2>3. SubjectIsServed'
    BY <1>1, <1>3, <2>1 DEF SharedInv, SubjectIsServed, Feeds, ResponseOpens
  <2> QED BY <1>2, <2>1, <2>2, <2>3 DEF SharedInv
<1>4. CASE ResponseFails
  <2>1. /\ connections' \in Seq(ConnectionState)
        /\ \A s : CurrentIs(s)' <=> s = "ended"
        /\ OnlyCurrentFeeds'
    BY <1>1, <1>4, BecomesFacts DEF SharedInv, StreamTyped, ResponseFails, ConnectionState
  <2>2. StreamTyped'
    BY <1>1, <1>4, <2>1 DEF SharedInv, StreamTyped, ResponseFails, SubjectErrors, Silent
  <2>3. SubjectIsServed'
    BY <1>1, <1>4, <2>1 DEF SharedInv, SubjectIsServed, Feeds, ResponseFails, SubjectErrors
  <2> QED BY <1>2, <2>1, <2>2, <2>3 DEF SharedInv
<1> QED BY <1>3, <1>4

\* An open connection fails, ends or breaks.
LEMMA LosePreserves == ASSUME SharedInv, Lose PROVE SharedInv'
<1> USE DEF Lose
<1>1. /\ replay' = replay /\ observers' \subseteq observers /\ Silent
      /\ connections # <<>> /\ Feeds
  BY DEF DecodeFails, ConnectionEnds, ConnectionBreaks, SubjectErrors,
         SourceCompletes, Feeds, CurrentIs
<1>2. ReplayIsLast' /\ SubscribersSeeLatest'
  BY <1>1, SilentKeeps
<1>3. CASE DecodeFails
  <2>1. /\ connections' \in Seq(ConnectionState)
        /\ \A s : CurrentIs(s)' <=> s = "abandoned"
        /\ OnlyCurrentFeeds'
    BY <1>1, <1>3, BecomesFacts DEF SharedInv, StreamTyped, DecodeFails, ConnectionState
  <2>2. StreamTyped'
    BY <1>1, <1>3, <2>1 DEF SharedInv, StreamTyped, DecodeFails, SubjectErrors, Silent
  <2>3. SubjectIsServed'
    BY <1>1, <1>3, <2>1 DEF SharedInv, SubjectIsServed, Feeds, DecodeFails, SubjectErrors
  <2> QED BY <1>2, <2>1, <2>2, <2>3 DEF SharedInv
<1>4. CASE ConnectionEnds
  <2>1. /\ connections' \in Seq(ConnectionState)
        /\ \A s : CurrentIs(s)' <=> s = "ended"
        /\ OnlyCurrentFeeds'
    BY <1>1, <1>4, BecomesFacts DEF SharedInv, StreamTyped, ConnectionEnds, ConnectionState
  <2>2. /\ SubjectIsServed'
        /\ subject' \in {"none", "active", "errored", "complete"}
        /\ repeat' \in {"unused", "armed", "used"}
        /\ observers' \subseteq observers
    BY <1>1, <1>4, <2>1, CompletionServes DEF ConnectionEnds
  <2>3. StreamTyped'
    BY <1>1, <1>4, <2>1, <2>2 DEF SharedInv, StreamTyped, Silent
  <2> QED BY <1>2, <2>1, <2>2, <2>3 DEF SharedInv
<1>5. CASE ConnectionBreaks
  <2>1. /\ connections' \in Seq(ConnectionState)
        /\ \A s : CurrentIs(s)' <=> s = "hung"
        /\ OnlyCurrentFeeds'
    BY <1>1, <1>5, BecomesFacts DEF SharedInv, StreamTyped, ConnectionBreaks, ConnectionState
  <2>2. StreamTyped'
    BY <1>1, <1>5, <2>1 DEF SharedInv, StreamTyped, ConnectionBreaks, Silent
  <2>3. SubjectIsServed'
    BY <1>1, <1>5, <2>1 DEF SharedInv, SubjectIsServed, Feeds, ConnectionBreaks
  <2> QED BY <1>2, <2>1, <2>2, <2>3 DEF SharedInv
<1> QED BY <1>3, <1>4, <1>5

LEMMA SharedStepPreserves == SharedInv /\ [SharedNext]_sharedVars => SharedInv'
<1> SUFFICES ASSUME SharedInv, [SharedNext]_sharedVars PROVE SharedInv'
  OBVIOUS
<1>1. ASSUME NEW o \in Observer, Subscribe(o) PROVE SharedInv'
  BY <1>1, ConnectPreserves, SharedPreserves DEF Subscribe
<1>2. ASSUME NEW o \in Observer, Leave(o) PROVE SharedInv'
  <2>1. /\ replay' = replay /\ observers' \subseteq observers /\ Silent
        /\ UNCHANGED <<connections, subject, repeat>>
    BY <1>2 DEF Leave, Unsubscribe
  <2>2. ReplayIsLast' /\ SubscribersSeeLatest'
    BY <2>1, SilentKeeps
  <2>3. StreamTyped' /\ OnlyCurrentFeeds' /\ SubjectIsServed'
    BY <2>1 DEF SharedInv, Silent, StreamTyped, OnlyCurrentFeeds, current,
                SubjectIsServed, Feeds, CurrentIs
  <2> QED BY <2>2, <2>3 DEF SharedInv
<1>3. ASSUME NEW e \in Event, Receive(e) PROVE SharedInv'
  BY <1>3, EmitPreserves, JsonPreserves DEF Receive
<1>4. CASE Respond
  BY <1>4, RespondPreserves
<1>5. CASE Lose
  BY <1>5, LosePreserves
<1>6. CASE Repeat
  <2>1. /\ replay' = replay /\ observers' = observers /\ Silent
        /\ subject' = subject /\ repeat' = "used" /\ repeat = "armed" /\ Fetch
    BY <1>6 DEF Repeat, Reconnect
  <2>2. ReplayIsLast' /\ SubscribersSeeLatest'
    BY <2>1, SilentKeeps
  <2>3. ~Feeds
    BY <2>1 DEF SharedInv, SubjectIsServed
  <2>4. /\ connections' \in Seq(ConnectionState)
        /\ \A s : CurrentIs(s)' <=> s = "fetching"
        /\ OnlyCurrentFeeds'
    BY <2>1, <2>3, FetchFacts DEF SharedInv, StreamTyped
  <2>5. StreamTyped' /\ SubjectIsServed'
    BY <2>1, <2>4 DEF SharedInv, Silent, StreamTyped, SubjectIsServed, Feeds
  <2> QED BY <2>2, <2>4, <2>5 DEF SharedInv
<1>7. CASE Drain
  <2>1. /\ replay' = replay /\ observers' = observers /\ Silent
        /\ UNCHANGED <<subject, repeat>> /\ AbandonedEnds
    BY <1>7 DEF Drain, AbandonedEnds
  <2>2. ReplayIsLast' /\ SubscribersSeeLatest'
    BY <2>1, SilentKeeps
  <2>3. /\ connections' \in Seq(ConnectionState)
        /\ \A s \in {"fetching", "open", "hung"} : CurrentIs(s)' <=> CurrentIs(s)
        /\ OnlyCurrentFeeds'
    BY <2>1, AbandonedFacts DEF SharedInv, StreamTyped
  <2>4. StreamTyped' /\ SubjectIsServed'
    BY <2>1, <2>3 DEF SharedInv, Silent, StreamTyped, SubjectIsServed, Feeds
  <2> QED BY <2>2, <2>3, <2>4 DEF SharedInv
<1>8. CASE UNCHANGED sharedVars
  BY <1>8 DEF sharedVars, streamVars, SharedInv, StreamTyped, OnlyCurrentFeeds, current,
              SubjectIsServed, Feeds, CurrentIs, ReplayIsLast, SubscribersSeeLatest
<1> QED BY <1>1, <1>2, <1>3, <1>4, <1>5, <1>6, <1>7, <1>8 DEF SharedNext

----------------------------------------------------------------------------
(* The theorems.                                                           *)

THEOREM Inductive == SharedSpec => []SharedInv
BY SharedInitEstablishes, SharedStepPreserves, PTL DEF SharedSpec

\* However many subscribe, leave, fail and reconnect, one request at a time
\* feeds the stream, and only while its subject is alive (MesosStream.ts:110).
THEOREM OneRequest == SharedSpec => []OneRequestFeeds
<1>1. SharedInv => OneRequestFeeds
  <2> SUFFICES ASSUME SharedInv PROVE OneRequestFeeds
    OBVIOUS
  <2>1. ASSUME NEW c \in DOMAIN connections,
               connections[c] \in {"fetching", "open"}
        PROVE  c = current /\ subject = "active"
    <3>1. c = current
      BY <2>1 DEF SharedInv, OnlyCurrentFeeds
    <3>2. connections # <<>>
      BY <2>1
    <3>3. Feeds
      BY <2>1, <3>1, <3>2 DEF Feeds, CurrentIs
    <3> QED BY <3>1, <3>3 DEF SharedInv, SubjectIsServed
  <2> QED BY <2>1 DEF OneRequestFeeds, Connected
<1> QED BY <1>1, Inductive, PTL

\* No observer is attached to a subject that nothing will ever feed, but for a
\* connection that broke without anybody noticing.
THEOREM Served == SharedSpec => []ObserversAreServed
<1>1. SharedInv => ObserversAreServed
  <2> SUFFICES ASSUME SharedInv, observers # {}
               PROVE  Connected \/ repeat = "armed" \/ CurrentIs("hung")
    BY DEF ObserversAreServed
  <2>1. Feeds \/ repeat = "armed" \/ CurrentIs("hung")
    BY DEF SharedInv, SubjectIsServed
  <2>2. Feeds => Connected
    <3>1. ASSUME connections # <<>> PROVE current \in DOMAIN connections
      BY <3>1 DEF current, SharedInv, StreamTyped
    <3> QED BY <3>1 DEF Feeds, CurrentIs, Connected
  <2> QED BY <2>1, <2>2
<1> QED BY <1>1, Inductive, PTL

\* Whenever it came, an observer has been handed an unbroken run of the latest
\* events and never lacks the last one.
THEOREM LatestSeen == SharedSpec => []SubscribersSeeLatest
<1>1. SharedInv => SubscribersSeeLatest
  BY DEF SharedInv
<1> QED BY <1>1, Inductive, PTL
=============================================================================
