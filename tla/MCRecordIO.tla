----------------------------- MODULE MCRecordIO -----------------------------
(***************************************************************************)
(* RecordIO on one connection with real byte values: a record of one byte, *)
(* an empty one, one whose bytes include newlines and digits, one of 12    *)
(* bytes (a header of two digits), one of one byte, and a frame that is    *)
(* cut short.                                                              *)
(***************************************************************************)
EXTENDS RecordIO, SequencesExt

NL == 10
Digit(d) == 48 + d

MCByte == 0 .. 255

\* parseInt of a header made of decimal digits.
Decimal(header) == FoldLeft(LAMBDA value, byte : 10 * value + (byte - 48), 0, header)

Frame == <<
    <<Digit(1), NL, 7>>,
    <<Digit(0), NL>>,
    <<Digit(3), NL, NL, Digit(2), NL>>,
    <<Digit(1), Digit(2), NL>> \o [i \in 1 .. 12 |-> i],
    <<Digit(1), NL, NL>> >>

Tail_ == <<Digit(2), NL, 9>>

MCWire == FlattenSeq(Frame) \o Tail_
MCFrames == Len(Frame)
MCBegin ==
    [k \in 1 .. MCFrames + 1 |-> Len(FlattenSeq(SubSeq(Frame, 1, k - 1)))]
MCNewlineAt ==
    [k \in 1 .. MCFrames |->
        MCBegin[k] + (CHOOSE i \in DOMAIN Frame[k] :
                        /\ Frame[k][i] = NL
                        /\ \A j \in 1 .. i - 1 : Frame[k][j] # NL)]

=============================================================================
