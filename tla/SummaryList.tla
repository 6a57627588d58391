----------------------------- MODULE SummaryList -----------------------------
(***************************************************************************)
(* structs/SummaryList.ts: the history of the cluster's summaries.  There   *)
(* is one, which MesosSummaryStore keeps, and DCOSStore and the pages hold  *)
(* references to it.  Its entries are StateSummaries: a snapshot, and       *)
(* whether it is a successful one.                                          *)
(***************************************************************************)
EXTENDS Naturals, Sequences, SequencesExt

CONSTANT historyLength   \* maxLength of the list, Config.historyLength

ASSUME HistoryAssumption == historyLength \in Nat \ {0}

\* Mutation: the length is compared before the entry is added.
add_OffByOne(list, entry) ==
    Append(IF Len(list) > historyLength THEN Tail(list) ELSE list, entry)

\* add: past its maximal length the list loses its head.
add(list, entry) ==
    LET longer == Append(list, entry)
    IN  IF Len(longer) > historyLength THEN Tail(longer) ELSE longer

\* Mutation: the entries are searched from their head.
lastSuccessful_FromHead(list) ==
    LET found == {i \in DOMAIN list : list[i].successful}
        last == {i \in found : \A j \in found : i <= j}
    IN  IF last = {} THEN 0 ELSE list[CHOOSE i \in last : TRUE].snapshot

\* lastSuccessful() returns the successful entry closest to the end, or an
\* empty one, ...
lastSuccessful(list) ==
    LET found == {i \in DOMAIN list : list[i].successful}
        last == {i \in found : \A j \in found : j <= i}
    IN  IF last = {} THEN 0 ELSE list[CHOOSE i \in last : TRUE].snapshot

\* ... and leaves the list the other way round: reverse() works in place.
reversed(list) == Reverse(list)
=============================================================================
