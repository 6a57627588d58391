--------------------------- MODULE RecordDelivery ---------------------------
(***************************************************************************)
(* What a record stream promises to its observer (MesosStream.ts, record$):*)
(* the records sent, one by one and in order, and nothing after the end.   *)
(* RecordIO implements it.                                                 *)
(***************************************************************************)
EXTENDS Naturals, Sequences

CONSTANT Sent      \* the records the master sends

VARIABLES
    delivered,     \* how many of them the observer has got
    ended          \* no record will follow

Init == delivered = 0 /\ ended = FALSE

\* observer.next(record): the first record not delivered yet.
Deliver ==
    /\ ~ended
    /\ delivered < Len(Sent)
    /\ delivered' = delivered + 1
    /\ UNCHANGED ended

\* observer.complete(), or silence for ever.
End ==
    /\ ~ended
    /\ ended' = TRUE
    /\ UNCHANGED delivered

Next == Deliver \/ End

Spec == Init /\ [][Next]_<<delivered, ended>>
=============================================================================
