---------------------------- MODULE SummaryProofs ----------------------------
(***************************************************************************)
(* Proofs about the two components the summaries of the cluster go through:*)
(* MesosSummaryStore, for every length of the history and any number of    *)
(* requests, listeners and reads, and CompositeState, for every set of     *)
(* hosts, any number of pages and any number of updates.                   *)
(***************************************************************************)
EXTENDS MesosSummaryStore, CompositeState, SubsequenceProofs, TLAPS

Snapshots == [snapshot : 0 .. MaxRequests, date : Int, successful : BOOLEAN]

\* The history is always as long as it may be.
SummaryTyped ==
    /\ states \in Seq(Snapshots) /\ Len(states) = historyLength
    /\ processed \in Seq(Snapshots)
    /\ lastRequestTime \in Nat /\ now \in Nat \ {0}
    /\ listeners \subseteq Listeners /\ requestInterval \in BOOLEAN
    /\ requests \in 1 .. MaxRequests /\ pending \subseteq 1 .. requests
    /\ slow \subseteq pending
    /\ reads \in Nat /\ served \in 0 .. MaxRequests

\* Successes are dated in order, the last of them no later than the last request
\* is: the next one will be dated after it.
DatedInOrder ==
    /\ \A i \in 1 .. Len(processed) :
         processed[i].successful => processed[i].date <= lastRequestTime
    /\ \A i, j \in 1 .. Len(processed) :
         i < j /\ processed[i].successful /\ processed[j].successful
           => processed[i].date < processed[j].date

SummaryInv == SummaryTyped /\ DatedInOrder /\ UnreadHistoryIsRecent

----------------------------------------------------------------------------
(* The operators.                                                          *)

\* A request that was made is answered by a snapshot, and dated by numbers.
LEMMA Entries ==
    ASSUME NEW r \in 1 .. MaxRequests, NEW date \in Int
    PROVE  /\ Entry(r, date) \in Snapshots /\ Failure(date) \in Snapshots
           /\ Entry(r, date).successful /\ Entry(r, date).date = date
           /\ ~ Failure(date).successful
<1>1. MaxRequests \in Nat \ {0}
  BY SummaryConstants, HistoryAssumption
<1>2. r \in 0 .. MaxRequests /\ 0 \in 0 .. MaxRequests
  BY <1>1
<1> QED BY <1>2 DEF Entry, Failure, Snapshots

\* A full history loses its head to the entry added.
LEMMA AddedLast ==
    ASSUME NEW list \in Seq(Snapshots), Len(list) = historyLength, NEW e \in Snapshots
    PROVE  /\ add(list, e) \in Seq(Snapshots) /\ Len(add(list, e)) = historyLength
           /\ add(list, e)[historyLength] = e
           /\ \A i \in 1 .. historyLength - 1 : add(list, e)[i] = list[i + 1]
<1> DEFINE longer == Append(list, e)
<1>1. historyLength \in Nat \ {0}
  BY SummaryConstants, HistoryAssumption
<1>2. /\ longer \in Seq(Snapshots) /\ Len(longer) = historyLength + 1
      /\ longer[historyLength + 1] = e
      /\ \A i \in 1 .. historyLength : longer[i] = list[i]
  BY <1>1
<1>3. add(list, e) = Tail(longer)
  BY <1>1, <1>2 DEF add
<1> HIDE DEF longer
<1>4. /\ Tail(longer) \in Seq(Snapshots) /\ Len(Tail(longer)) = historyLength
      /\ \A i \in 1 .. historyLength : Tail(longer)[i] = longer[i + 1]
  BY <1>1, <1>2
<1> QED BY <1>1, <1>2, <1>3, <1>4

\* What is left of a list of snapshots are its successes, in their order.
LEMMA SuccessesAreListed ==
    ASSUME NEW list \in Seq(Snapshots)
    PROVE  /\ Successful(list) \in Seq(Snapshots)
           /\ \E h \in Seq(Nat) :
                Lists(h, Successful(list), list,
                      {i \in DOMAIN list : list[i].successful}, Len(list))
  BY SubsequenceLists DEF Successful

\* A read serves a snapshot of the history, or the empty one.
LEMMA ReadServes ==
    ASSUME NEW list \in Seq(Snapshots)
    PROVE  /\ reversed(list) \in Seq(Snapshots) /\ Len(reversed(list)) = Len(list)
           /\ lastSuccessful(list) \in 0 .. MaxRequests
<1>1. reversed(list) \in Seq(Snapshots) /\ Len(reversed(list)) = Len(list)
  BY DEF reversed, Reverse
<1>2. MaxRequests \in Nat
  BY SummaryConstants
<1> DEFINE found == {i \in DOMAIN list : list[i].successful}
           last == {i \in found : \A j \in found : j <= i}
<1>3. CASE last = {}
  BY <1>1, <1>2, <1>3 DEF lastSuccessful
<1>4. CASE last # {}
  <2>1. (CHOOSE i \in last : TRUE) \in last
    BY <1>4
  <2>2. list[CHOOSE i \in last : TRUE] \in Snapshots
    BY <2>1
  <2> QED BY <1>1, <1>4, <2>2 DEF lastSuccessful, Snapshots
<1> QED BY <1>3, <1>4

\* A request, the first of an interval or one of it, is one of those allowed.
LEMMA Fetches ==
    ASSUME SummaryTyped, Fetch \/ UNCHANGED <<requests, pending>>
    PROVE  /\ requests' \in 1 .. MaxRequests /\ pending' \subseteq 1 .. requests'
           /\ pending \subseteq pending'
<1>1. MaxRequests \in Nat
  BY SummaryConstants, HistoryAssumption
<1>2. requests \in 1 .. MaxRequests /\ pending \subseteq 1 .. requests
  BY DEF SummaryTyped
<1>3. CASE requests < MaxRequests /\ Fetch
  <2>1. requests' = requests + 1 /\ pending' = pending \cup {requests + 1}
    BY <1>3 DEF Fetch
  <2>2. \A r \in 1 .. requests : r \in 1 .. requests + 1
    BY <1>2
  <2>3. requests + 1 \in 1 .. MaxRequests /\ requests + 1 \in 1 .. requests + 1
    BY <1>1, <1>2, <1>3
  <2> QED BY <1>2, <2>1, <2>2, <2>3
<1>4. CASE UNCHANGED <<requests, pending>>
  BY <1>2, <1>4
<1> QED BY <1>3, <1>4 DEF Fetch

----------------------------------------------------------------------------
LEMMA SummaryInitially == SummaryInit => SummaryInv
<1> SUFFICES ASSUME SummaryInit PROVE SummaryInv
  OBVIOUS
<1>0. historyLength \in Nat \ {0} /\ MaxRequests \in Nat \ {0}
  BY SummaryConstants, HistoryAssumption
<1>1. \A i \in 1 .. historyLength : Failure(i - historyLength) \in Snapshots
  BY <1>0, Entries
<1>2. states \in Seq(Snapshots) /\ Len(states) = historyLength
  BY <1>0, <1>1 DEF SummaryInit
<1>3. processed \in Seq(Snapshots) /\ Len(processed) = 0
  BY DEF SummaryInit
<1>4. SummaryTyped
  BY <1>0, <1>2, <1>3 DEF SummaryInit, SummaryTyped
<1>5. DatedInOrder
  BY <1>3 DEF DatedInOrder
<1>6. UnreadHistoryIsRecent
  BY <1>0, <1>2, <1>3 DEF UnreadHistoryIsRecent
<1> QED BY <1>4, <1>5, <1>6 DEF SummaryInv

\* The time of the next request is later than that of the last.
LEMMA NextIsLater ==
    ASSUME SummaryTyped
    PROVE  nextRequestTime \in Nat /\ lastRequestTime < nextRequestTime
  BY DEF SummaryTyped, nextRequestTime

\* An entry, if it is a success dated by the next request, keeps the order.
LEMMA ProcessesKeeps ==
    ASSUME SummaryInv, NEW e \in Snapshots, Processes(e),
           e.successful => e.date = nextRequestTime,
           pending' \subseteq pending, slow' \subseteq pending'
    PROVE  SummaryInv'
<1>0. historyLength \in Nat \ {0}
  BY SummaryConstants, HistoryAssumption
<1>1. SummaryTyped /\ DatedInOrder /\ UnreadHistoryIsRecent
  BY DEF SummaryInv
<1>2. nextRequestTime \in Nat /\ lastRequestTime < nextRequestTime
  BY <1>1, NextIsLater
<1>3. /\ states' \in Seq(Snapshots) /\ Len(states') = historyLength
      /\ states'[historyLength] = e
      /\ \A i \in 1 .. historyLength - 1 : states'[i] = states[i + 1]
  <2>1. states \in Seq(Snapshots) /\ Len(states) = historyLength
    BY <1>1 DEF SummaryTyped
  <2>2. states' = add(states, e)
    BY DEF Processes
  <2>3. /\ add(states, e) \in Seq(Snapshots) /\ Len(add(states, e)) = historyLength
        /\ add(states, e)[historyLength] = e
        /\ \A i \in 1 .. historyLength - 1 : add(states, e)[i] = states[i + 1]
    BY <2>1, AddedLast
  <2> QED BY <2>2, <2>3
<1> DEFINE n == Len(processed)
<1>4. n \in Nat
  BY <1>1 DEF SummaryTyped
<1>5. /\ processed' \in Seq(Snapshots) /\ Len(processed') = n + 1
      /\ processed'[n + 1] = e
      /\ \A i \in 1 .. n : processed'[i] = processed[i]
  BY <1>1 DEF SummaryTyped, Processes
<1>6. lastRequestTime' = nextRequestTime
  BY DEF Processes
<1>7. SummaryTyped'
  BY <1>1, <1>2, <1>3, <1>5, <1>6 DEF SummaryTyped, Processes
<1> HIDE DEF n
<1>8. DatedInOrder'
  <2>1. \A i \in 1 .. n : processed[i].successful
                            => processed[i].date <= lastRequestTime
    BY <1>1 DEF DatedInOrder, n
  <2>2. \A i \in 1 .. n : processed[i].date \in Int
    <3>1. \A i \in 1 .. n : processed[i] \in Snapshots
      BY <1>1 DEF SummaryTyped, n
    <3> QED BY <3>1 DEF Snapshots
  <2>3. lastRequestTime \in Nat
    BY <1>1 DEF SummaryTyped
  <2>4. \A i \in 1 .. n : processed[i].successful
                            => processed[i].date < nextRequestTime
    BY <1>2, <2>1, <2>2, <2>3
  <2>5. ASSUME NEW i \in 1 .. n + 1, processed'[i].successful
        PROVE  processed'[i].date <= lastRequestTime'
    <3>1. CASE i = n + 1
      BY <1>2, <1>5, <1>6, <2>5, <3>1
    <3>2. CASE i # n + 1
      <4>1. i \in 1 .. n
        BY <1>4, <3>2
      <4> QED BY <1>2, <1>5, <1>6, <2>2, <2>4, <2>5, <4>1
    <3> QED BY <3>1, <3>2
  <2>6. ASSUME NEW i \in 1 .. n + 1, NEW j \in 1 .. n + 1, i < j,
               processed'[i].successful, processed'[j].successful
        PROVE  processed'[i].date < processed'[j].date
    <3>1. i \in 1 .. n
      BY <1>4, <2>6
    <3>2. CASE j = n + 1
      BY <1>5, <2>4, <2>6, <3>1, <3>2
    <3>3. CASE j # n + 1
      <4>1. j \in 1 .. n
        BY <1>4, <3>3
      <4> QED BY <1>1, <1>5, <2>6, <3>1, <4>1 DEF DatedInOrder, n
    <3> QED BY <3>2, <3>3
  <2> QED BY <1>5, <2>5, <2>6 DEF DatedInOrder
<1>9. UnreadHistoryIsRecent'
  <2>1. reads' = reads
    BY DEF Processes
  <2>2. (reads' = 0 =>
            /\ Len(states') = historyLength
            /\ \A i \in 1 .. historyLength : Len(processed') - historyLength + i > 0 =>
                 states'[i] = processed'[Len(processed') - historyLength + i])
        => UnreadHistoryIsRecent'
    BY Zenon DEF UnreadHistoryIsRecent
  <2> SUFFICES ASSUME reads' = 0, NEW i \in 1 .. historyLength,
                      Len(processed') - historyLength + i > 0
               PROVE  states'[i] = processed'[Len(processed') - historyLength + i]
    BY <1>3, <2>2, Zenon
  <2>3. Len(processed') = n + 1
    BY <1>5
  <2>4. n + 1 - historyLength + i > 0
    BY <1>0, <1>4, <2>3
  <2> SUFFICES states'[i] = processed'[n + 1 - historyLength + i]
    BY <1>0, <1>4, <2>3
  <2>5. CASE i = historyLength
    <3>1. n + 1 - historyLength + i = n + 1
      BY <1>0, <1>4, <2>5
    <3> QED BY <1>3, <1>5, <2>5, <3>1
  <2>6. CASE i # historyLength
    <3> DEFINE k == n - historyLength + (i + 1)
    <3>1. /\ i \in 1 .. historyLength - 1 /\ i + 1 \in 1 .. historyLength
          /\ n + 1 - historyLength + i = k /\ k > 0 /\ k \in 1 .. n
      BY <1>0, <1>4, <2>6, <2>4
    <3>2. states[i + 1] = processed[k]
      BY <1>1, <2>1, <3>1 DEF UnreadHistoryIsRecent, n
    <3> HIDE DEF k
    <3> QED BY <1>3, <1>5, <3>1, <3>2
  <2> QED BY <2>5, <2>6
<1> QED BY <1>7, <1>8, <1>9 DEF SummaryInv

LEMMA AnswersKeep ==
    ASSUME SummaryInv, NEW r \in pending,
           processSummary(r) \/ processSummaryError(r) \/ RequestHangs(r)
    PROVE  SummaryInv'
<1>1. /\ r \in 1 .. MaxRequests /\ nextRequestTime \in Int /\ now \in Int
      /\ slow \subseteq pending
  <2>1. SummaryTyped
    BY DEF SummaryInv
  <2>2. MaxRequests \in Nat
    BY SummaryConstants, HistoryAssumption
  <2> QED BY <2>1, <2>2, NextIsLater DEF SummaryTyped
<1>2. CASE processSummary(r)
  <2>1. /\ Entry(r, nextRequestTime) \in Snapshots
        /\ Entry(r, nextRequestTime).date = nextRequestTime
    BY <1>1, Entries
  <2> QED BY <1>1, <1>2, <2>1, ProcessesKeeps DEF processSummary
<1>3. /\ Failure(now) \in Snapshots /\ ~ Failure(now).successful
  BY <1>1, Entries
<1>4. CASE processSummaryError(r)
  BY <1>1, <1>3, <1>4, ProcessesKeeps DEF processSummaryError
<1>5. CASE RequestHangs(r)
  BY <1>1, <1>3, <1>5, ProcessesKeeps DEF RequestHangs
<1> QED BY <1>2, <1>4, <1>5

\* The order of what was processed and the history depend on five variables.
LEMMA HistoryUntouched ==
    ASSUME SummaryInv,
           UNCHANGED <<states, processed, lastRequestTime, reads>>
    PROVE  DatedInOrder' /\ UnreadHistoryIsRecent'
  BY DEF SummaryInv, DatedInOrder, UnreadHistoryIsRecent

\* Intervals and listeners leave the history alone.
LEMMA PollingKeeps ==
    ASSUME SummaryInv,
           \/ Tick
           \/ addOtherListener
           \/ \E l \in Listeners : addChangeListener(l)
           \/ \E l \in Listeners : removeChangeListener(l)
           \/ UNCHANGED summaryVars
    PROVE  SummaryInv'
<1>1. /\ UNCHANGED <<states, processed, lastRequestTime, reads, served, slow>>
      /\ Fetch \/ UNCHANGED <<requests, pending>>
      /\ requestInterval' \in BOOLEAN \/ UNCHANGED requestInterval
      /\ listeners' \subseteq listeners \cup Listeners
      /\ now' \in {now, now + 1}
  BY DEF Tick, addOtherListener, addChangeListener, removeChangeListener, startPolling,
         summaryVars
<1>2. SummaryTyped
  BY DEF SummaryInv
<1>3. /\ requests' \in 1 .. MaxRequests /\ pending' \subseteq 1 .. requests'
      /\ pending \subseteq pending'
  BY <1>1, <1>2, Fetches
<1>4. now' \in Nat \ {0}
  BY <1>1, <1>2 DEF SummaryTyped
<1>5. SummaryTyped'
  BY <1>1, <1>2, <1>3, <1>4 DEF SummaryTyped
<1> QED BY <1>1, <1>5, HistoryUntouched DEF SummaryInv

\* A read turns the history round and leaves what was processed alone.
LEMMA ReadKeeps ==
    ASSUME SummaryInv, Read
    PROVE  SummaryInv'
<1>1. SummaryTyped /\ DatedInOrder
  BY DEF SummaryInv
<1>2. /\ states' \in Seq(Snapshots) /\ Len(states') = historyLength
      /\ served' \in 0 .. MaxRequests
  BY <1>1, ReadServes DEF SummaryTyped, Read
<1>3. SummaryTyped'
  BY <1>1, <1>2 DEF SummaryTyped, Read
<1>4. DatedInOrder'
  BY <1>1 DEF DatedInOrder, Read
<1>5. reads' # 0
  BY <1>1 DEF SummaryTyped, Read
<1> QED BY <1>3, <1>4, <1>5 DEF SummaryInv, UnreadHistoryIsRecent

LEMMA SummaryPreserved == SummaryInv /\ [SummaryNext]_summaryVars => SummaryInv'
<1> SUFFICES ASSUME SummaryInv, [SummaryNext]_summaryVars PROVE SummaryInv'
  OBVIOUS
<1>1. CASE \E r \in pending :
             processSummary(r) \/ processSummaryError(r) \/ RequestHangs(r)
  BY <1>1, AnswersKeep
<1>2. CASE Read
  BY <1>2, ReadKeeps
<1> QED BY <1>1, <1>2, PollingKeeps DEF SummaryNext

\* The invariant of the summary store holds in every state.
THEOREM SummaryInvariance == SummarySpec => []SummaryInv
  BY SummaryInitially, SummaryPreserved, PTL DEF SummarySpec

----------------------------------------------------------------------------
\* Every variable of the summary store keeps its type: no request is answered
\* that was not made, and what is served is an answer or the empty snapshot.
THEOREM SummaryTypeCorrect == SummarySpec => []SummaryTypeOK
<1>1. SummaryInv => SummaryTypeOK
  <2> SUFFICES ASSUME SummaryTyped PROVE SummaryTypeOK
    BY DEF SummaryInv
  <2>1. \A i \in DOMAIN states : states[i] \in Snapshots
    BY DEF SummaryTyped
  <2> QED BY <2>1 DEF SummaryTyped, SummaryTypeOK, Snapshots
<1> QED BY <1>1, SummaryInvariance, PTL

\* Until it is read, the history is the last entries processed, however late or
\* bunched the answers come.
THEOREM HistoryIsRecent == SummarySpec => []UnreadHistoryIsRecent
<1>1. SummaryInv => UnreadHistoryIsRecent
  BY DEF SummaryInv
<1> QED BY <1>1, SummaryInvariance, PTL

\* Successful snapshots are dated in the order they were processed.
THEOREM SuccessesInOrder == SummarySpec => []SuccessesKeepTheirOrder
<1>1. SummaryInv => SuccessesKeepTheirOrder
  <2> SUFFICES ASSUME SummaryInv PROVE SuccessesKeepTheirOrder
    OBVIOUS
  <2> DEFINE dated == Successful(processed)
             D == {i \in DOMAIN processed : processed[i].successful}
  <2>1. processed \in Seq(Snapshots) /\ DatedInOrder
    BY DEF SummaryInv, SummaryTyped
  <2>2. dated \in Seq(Snapshots)
    BY <2>1, SuccessesAreListed
  <2>3. PICK h \in Seq(Nat) : Lists(h, dated, processed, D, Len(processed))
    BY <2>1, SuccessesAreListed
  <2>4. /\ Len(h) = Len(dated)
        /\ \A k \in 1 .. Len(h) : /\ h[k] \in 1 .. Len(processed)
                                  /\ processed[h[k]].successful
                                  /\ dated[k] = processed[h[k]]
        /\ \A k, l \in 1 .. Len(h) : k < l => h[k] < h[l]
    <3> HIDE DEF dated
    <3> QED BY <2>3 DEF Lists
  <2> HIDE DEF dated
  <2> SUFFICES ASSUME NEW i \in 1 .. Len(dated) - 1
               PROVE  dated[i].date < dated[i + 1].date
    BY DEF SuccessesKeepTheirOrder, dated
  <2>5. i \in 1 .. Len(h) /\ i + 1 \in 1 .. Len(h) /\ i < i + 1
    BY <2>2, <2>4
  <2>6. h[i] < h[i + 1]
    BY <2>4, <2>5
  <2> QED BY <2>1, <2>4, <2>5, <2>6 DEF DatedInOrder
<1> QED BY <1>1, SummaryInvariance, PTL

----------------------------------------------------------------------------
(* The composite state.                                                    *)


\* What is shown always is some summary enriched with the memoized health.
ShownIsEnriched ==
    /\ data.slaves = enrichNodeDataWithHealthData(DOMAIN data.slaves, nodeHealthData)
    /\ nodesList # Null => nodesList = listOf(data)

\* The count is that of the pages, and nothing is put by without one.
CountIsRight ==
    /\ refCount = pages
    /\ pages = 0 => storedNodeHealth = Null /\ storedState = Null

\* The last summary is either put by or shown ...
StateIsSomewhere ==
    /\ storedState = Null =>
         data.serial = lastState.serial /\ DOMAIN data.slaves = lastState.hosts
    /\ storedState # Null => storedState = lastState

\* ... and so is the last report with data, unless it was lost.
HealthIsSomewhere ==
    ~lost =>
      /\ storedNodeHealth = Null => nodeHealthData = lastHealth
      /\ storedNodeHealth # Null => storedNodeHealth = lastHealth

IInv ==
    TypeOK /\ CountIsRight /\ StateIsSomewhere /\ HealthIsSomewhere /\ ShownIsEnriched

----------------------------------------------------------------------------
\* Enriching any hosts with any report gives slaves: of those hosts.
LEMMA EnrichmentIsSlaves ==
    ASSUME NEW S \in SUBSET Hosts, NEW r \in Report
    PROVE  /\ enrichNodeDataWithHealthData(S, r) \in Slaves
           /\ DOMAIN enrichNodeDataWithHealthData(S, r) = S
  <1>1. \A h \in S : healthOf(r, h) \in Health \cup {Missing}
    BY DEF healthOf, Report
  <1>2. enrichNodeDataWithHealthData(S, r) \in [S -> Health \cup {Missing}]
    BY <1>1 DEF enrichNodeDataWithHealthData
  <1> QED BY <1>2 DEF Slaves, enrichNodeDataWithHealthData

LEMMA NoReportIsReport == NoReport \in Report
  <1>1. NoReport \in [{} -> Health] BY DEF NoReport
  <1> QED BY <1>1 DEF Report

LEMMA NothingIsSlaves == [h \in {} |-> Missing] \in Slaves
  <1>1. [h \in {} |-> Missing] \in [{} -> Health \cup {Missing}] OBVIOUS
  <1> QED BY <1>1 DEF Slaves

\* A data record, and the list made of it, by their parts.
LEMMA ListOfData ==
    ASSUME NEW d \in [serial : Nat, slaves : Slaves, master_info : Nat]
    PROVE  listOf(d) \in NodesList /\ listOf(d) # Null
  BY NullAssumption DEF listOf, NodesList

LEMMA InitEstablishes == Init => IInv
  <1> SUFFICES ASSUME Init PROVE IInv OBVIOUS
  <1> USE DEF Init
  <1>1. TypeOK BY NoReportIsReport, NothingIsSlaves DEF TypeOK, NoSummary, Summary
  <1>2. CountIsRight BY DEF CountIsRight
  <1>3. StateIsSomewhere BY DEF StateIsSomewhere, NoSummary
  <1>4. HealthIsSomewhere BY DEF HealthIsSomewhere
  <1>5. ShownIsEnriched BY DEF ShownIsEnriched, enrichNodeDataWithHealthData
  <1> QED BY <1>1, <1>2, <1>3, <1>4, <1>5 DEF IInv

----------------------------------------------------------------------------
\* The data shown with another report merged into it.
LEMMA EnrichedData ==
    ASSUME IInv, NEW r \in Report
    PROVE  /\ Enriched(r) \in [serial : Nat, slaves : Slaves, master_info : Nat]
           /\ Enriched(r).serial = data.serial
           /\ Enriched(r).slaves = enrichNodeDataWithHealthData(DOMAIN data.slaves, r)
           /\ DOMAIN Enriched(r).slaves = DOMAIN data.slaves
  <1>1. data \in [serial : Nat, slaves : Slaves, master_info : Nat] BY DEF IInv, TypeOK
  <1>2. DOMAIN data.slaves \in SUBSET Hosts BY <1>1 DEF Slaves
  <1> QED BY <1>1, <1>2, EnrichmentIsSlaves DEF Enriched

LEMMA MergedData ==
    ASSUME IInv, NEW r \in Report, NEW s \in Summary
    PROVE  /\ Merged(s, r) \in [serial : Nat, slaves : Slaves, master_info : Nat]
           /\ Merged(s, r).serial = s.serial
           /\ Merged(s, r).slaves = enrichNodeDataWithHealthData(s.hosts, r)
           /\ DOMAIN Merged(s, r).slaves = s.hosts
  BY EnrichmentIsSlaves DEF Merged, Summary, IInv, TypeOK

LEMMA HealthStep ==
    ASSUME IInv, NEW report \in Report \cup {Null}, addNodeHealth(report)
    PROVE  IInv'
  <1> USE DEF addNodeHealth
  <1>0. report \in Report <=> report # Null BY NullAssumption
  <1>1. CASE isDisabled
    <2>1. /\ refCount > 0 /\ pages # 0
          /\ storedNodeHealth' = report
          /\ UNCHANGED <<nodeHealthData, data, nodesList, refCount, storedState,
                         masterInfo, pages, lastState>>
      BY <1>1 DEF isDisabled, IInv, CountIsRight, TypeOK
    <2>2. TypeOK' BY <1>0, <2>1 DEF IInv, TypeOK
    <2>3. CountIsRight' BY <2>1 DEF IInv, CountIsRight
    <2>4. StateIsSomewhere' BY <2>1 DEF IInv, StateIsSomewhere
    <2>5. HealthIsSomewhere' BY <2>1 DEF IInv, HealthIsSomewhere
    <2>6. ShownIsEnriched' BY <2>1 DEF IInv, ShownIsEnriched, listOf
    <2> QED BY <2>2, <2>3, <2>4, <2>5, <2>6 DEF IInv
  <1>2. CASE ~ isDisabled /\ report = Null
    <2>1. UNCHANGED <<nodeHealthData, data, nodesList, storedNodeHealth, refCount,
                      storedState, masterInfo, pages, lastState, lastHealth, lost>>
      BY <1>2 DEF IInv, TypeOK
    <2>2. TypeOK' BY <2>1 DEF IInv, TypeOK
    <2>3. CountIsRight' BY <2>1 DEF IInv, CountIsRight
    <2>4. StateIsSomewhere' BY <2>1 DEF IInv, StateIsSomewhere
    <2>5. HealthIsSomewhere' BY <2>1 DEF IInv, HealthIsSomewhere
    <2>6. ShownIsEnriched' BY <2>1 DEF IInv, ShownIsEnriched, listOf
    <2> QED BY <2>2, <2>3, <2>4, <2>5, <2>6 DEF IInv
  <1>3. CASE ~ isDisabled /\ report # Null
    <2>1. /\ refCount = 0 /\ pages = 0
          /\ nodeHealthData' = report /\ lastHealth' = report
          /\ data' = Enriched(report) /\ ListFollows(Enriched(report))
          /\ storedNodeHealth = Null
          /\ UNCHANGED <<storedNodeHealth, refCount, storedState, masterInfo, pages,
                         lastState>>
      BY <1>3 DEF isDisabled, IInv, CountIsRight, TypeOK
    <2>2. report \in Report BY <1>0, <1>3
    <2>3. /\ data' \in [serial : Nat, slaves : Slaves, master_info : Nat]
          /\ data'.serial = data.serial
          /\ data'.slaves = enrichNodeDataWithHealthData(DOMAIN data.slaves, report)
          /\ DOMAIN data'.slaves = DOMAIN data.slaves
      BY <2>1, <2>2, EnrichedData
    <2>4. nodesList' = Null \/ nodesList' = listOf(data') BY <2>1 DEF ListFollows
    <2>5. TypeOK' BY <2>1, <2>2, <2>3, <2>4, ListOfData DEF IInv, TypeOK
    <2>6. CountIsRight' BY <2>1 DEF IInv, CountIsRight
    <2>7. StateIsSomewhere' BY <2>1, <2>3 DEF IInv, StateIsSomewhere
    <2>8. HealthIsSomewhere' BY <2>1 DEF HealthIsSomewhere
    <2>9. ShownIsEnriched'
      BY <2>1, <2>3, <2>4 DEF ShownIsEnriched, listOf, enrichNodeDataWithHealthData, healthOf
    <2> QED BY <2>5, <2>6, <2>7, <2>8, <2>9 DEF IInv
  <1> QED BY <1>1, <1>2, <1>3

LEMMA StateStep ==
    ASSUME IInv, NEW hosts \in SUBSET Hosts, addState(hosts)
    PROVE  IInv'
  <1> DEFINE summary == [serial |-> updates + 1, hosts |-> hosts]
  <1> USE DEF addState
  <1>0. summary \in Summary /\ summary # Null
    BY NullAssumption DEF Summary, IInv, TypeOK
  <1>1. CASE isDisabled
    <2>1. /\ refCount > 0 /\ pages # 0
          /\ storedState' = summary /\ lastState' = summary
          /\ UNCHANGED <<data, nodesList, refCount, storedNodeHealth, nodeHealthData,
                         masterInfo, pages, lastHealth, lost>>
      BY <1>1 DEF isDisabled, IInv, CountIsRight, TypeOK
    <2>2. TypeOK' BY <1>0, <2>1 DEF IInv, TypeOK
    <2>3. CountIsRight' BY <2>1 DEF IInv, CountIsRight
    <2>4. StateIsSomewhere' BY <1>0, <2>1 DEF StateIsSomewhere
    <2>5. HealthIsSomewhere' BY <2>1 DEF IInv, HealthIsSomewhere
    <2>6. ShownIsEnriched' BY <2>1 DEF IInv, ShownIsEnriched, listOf
    <2> QED BY <2>2, <2>3, <2>4, <2>5, <2>6 DEF IInv
  <1>2. CASE ~ isDisabled
    <2>1. /\ refCount = 0 /\ pages = 0
          /\ lastState' = summary
          /\ data' = Merged(summary, nodeHealthData) /\ nodesList' = Null
          /\ storedState = Null
          /\ UNCHANGED <<storedState, refCount, storedNodeHealth, nodeHealthData,
                         masterInfo, pages, lastHealth, lost>>
      BY <1>2 DEF isDisabled, IInv, CountIsRight, TypeOK
    <2>2. /\ data' \in [serial : Nat, slaves : Slaves, master_info : Nat]
          /\ data'.serial = summary.serial
          /\ data'.slaves = enrichNodeDataWithHealthData(summary.hosts, nodeHealthData)
          /\ DOMAIN data'.slaves = summary.hosts
      BY <1>0, <2>1, MergedData DEF IInv, TypeOK
    <2>3. TypeOK' BY <1>0, <2>1, <2>2 DEF IInv, TypeOK
    <2>4. CountIsRight' BY <2>1 DEF IInv, CountIsRight
    <2>5. StateIsSomewhere' BY <2>1, <2>2 DEF StateIsSomewhere
    <2>6. HealthIsSomewhere' BY <2>1 DEF IInv, HealthIsSomewhere
    <2>7. ShownIsEnriched'
      BY <2>1, <2>2 DEF ShownIsEnriched, enrichNodeDataWithHealthData, healthOf
    <2> QED BY <2>3, <2>4, <2>5, <2>6, <2>7 DEF IInv
  <1> QED BY <1>1, <1>2

\* The steps that touch nothing but the counts, the master or the list.
LEMMA OtherSteps ==
    ASSUME IInv, addMasterInfo \/ disable \/ getNodesList \/ UNCHANGED vars
    PROVE  IInv'
  <1>0. UNCHANGED <<data, nodeHealthData, storedNodeHealth, storedState, lastState, lastHealth,
                  lost>>
    BY DEF addMasterInfo, disable, getNodesList, vars
  <1>1. nodesList' \in {nodesList, listOf(data)}
    BY DEF addMasterInfo, disable, getNodesList, vars
  <1>2. listOf(data) \in NodesList BY ListOfData DEF IInv, TypeOK
  <1>3. TypeOK'
    BY <1>0, <1>1, <1>2 DEF IInv, TypeOK, addMasterInfo, disable, getNodesList, vars
  <1>4. CountIsRight'
    BY <1>0 DEF IInv, TypeOK, CountIsRight, addMasterInfo, disable, getNodesList, vars
  <1>5. StateIsSomewhere' BY <1>0 DEF IInv, StateIsSomewhere
  <1>6. HealthIsSomewhere' BY <1>0 DEF IInv, HealthIsSomewhere
  <1>7. ShownIsEnriched' BY <1>0, <1>1 DEF IInv, ShownIsEnriched, listOf
  <1> QED BY <1>3, <1>4, <1>5, <1>6, <1>7 DEF IInv

\* Taking up what was put by shows the last summary with the last report.
LEMMA EnableStep ==
    ASSUME IInv, enable
    PROVE  IInv'
  <1> USE DEF enable
  <1>1. /\ refCount' = pages' /\ refCount' \in Nat
        /\ UNCHANGED <<masterInfo, updates, lastState, lastHealth, lost>>
    BY DEF IInv, CountIsRight, TypeOK
  <1>2. CASE refCount' > 0
    <2>1. UNCHANGED <<storedNodeHealth, storedState, nodeHealthData, data, nodesList>>
      BY <1>2
    <2>2. TypeOK' BY <1>1, <2>1 DEF IInv, TypeOK
    <2>3. CountIsRight' BY <1>1, <1>2, <2>1 DEF CountIsRight
    <2>4. StateIsSomewhere' BY <1>1, <2>1 DEF IInv, StateIsSomewhere
    <2>5. HealthIsSomewhere' BY <1>1, <2>1 DEF IInv, HealthIsSomewhere
    <2>6. ShownIsEnriched' BY <2>1 DEF IInv, ShownIsEnriched, listOf
    <2> QED BY <2>2, <2>3, <2>4, <2>5, <2>6 DEF IInv
  <1>3. CASE ~ (refCount' > 0)
    <2> DEFINE report == IF storedNodeHealth = Null THEN nodeHealthData ELSE storedNodeHealth
    <2> DEFINE shown == IF storedState # Null THEN Merged(storedState, report)
                        ELSE IF storedNodeHealth # Null THEN Enriched(report) ELSE data
    <2>1. /\ nodeHealthData' = report /\ data' = shown
          /\ storedNodeHealth' = Null /\ storedState' = Null
          /\ IF storedState # Null THEN nodesList' = Null ELSE ListFollows(shown)
      BY <1>3 DEF TakeUp
    <2>2. report \in Report BY DEF IInv, TypeOK
    <2>3. storedState # Null => storedState \in Summary /\ storedState = lastState
      BY DEF IInv, TypeOK, StateIsSomewhere
    <2>4. /\ data' \in [serial : Nat, slaves : Slaves, master_info : Nat]
          /\ data'.serial = lastState.serial
          /\ DOMAIN data'.slaves = lastState.hosts
          /\ data'.slaves = enrichNodeDataWithHealthData(lastState.hosts, report)
      <3>1. CASE storedState # Null BY <2>1, <2>2, <2>3, <3>1, MergedData
      <3>2. CASE storedState = Null /\ storedNodeHealth # Null
        BY <2>1, <2>2, <3>2, EnrichedData DEF IInv, StateIsSomewhere
      <3>3. CASE storedState = Null /\ storedNodeHealth = Null
        BY <2>1, <3>3 DEF IInv, TypeOK, StateIsSomewhere, ShownIsEnriched
      <3> QED BY <3>1, <3>2, <3>3
    <2>5. nodesList' = Null \/ nodesList' = listOf(data') BY <2>1 DEF ListFollows
    <2>6. TypeOK'
      BY <1>1, <2>1, <2>2, <2>4, <2>5, ListOfData DEF IInv, TypeOK
    <2>7. CountIsRight' BY <1>1, <2>1 DEF CountIsRight
    <2>8. StateIsSomewhere' BY <1>1, <2>1, <2>4 DEF StateIsSomewhere
    <2>9. HealthIsSomewhere' BY <1>1, <2>1 DEF IInv, HealthIsSomewhere
    <2>10. ShownIsEnriched'
      BY <2>1, <2>4, <2>5 DEF ShownIsEnriched, listOf, enrichNodeDataWithHealthData, healthOf
    <2> QED BY <2>6, <2>7, <2>8, <2>9, <2>10 DEF IInv
  <1> QED BY <1>2, <1>3

LEMMA Preserved == IInv /\ [Next]_vars => IInv'
  <1> SUFFICES ASSUME IInv, [Next]_vars PROVE IInv' OBVIOUS
  <1> QED BY HealthStep, StateStep, EnableStep, OtherSteps DEF Next

\* The inductive invariant holds in every state.
THEOREM Invariance == Spec => []IInv
  BY InitEstablishes, Preserved, PTL DEF Spec

----------------------------------------------------------------------------
\* Every variable keeps its type, whatever number of pages and updates.
THEOREM TypeCorrect == Spec => []TypeOK
  BY Invariance, PTL DEF IInv

\* A list of nodes handed out is never behind the composite state.
THEOREM ListIsCurrent == Spec => []NodesListIsCurrent
  <1>1. IInv => NodesListIsCurrent BY DEF IInv, ShownIsEnriched, NodesListIsCurrent
  <1> QED BY <1>1, Invariance, PTL

\* Whenever nobody has it disabled the composite state is the last summary, with
\* the last report that had data unless one without data replaced it put by.
THEOREM LatestIsShown == Spec => []EnabledShowsLatest
  <1>1. IInv => EnabledShowsLatest
    BY DEF IInv, CountIsRight, StateIsSomewhere, HealthIsSomewhere, ShownIsEnriched,
           EnabledShowsLatest
  <1> QED BY <1>1, Invariance, PTL

\* While it stays disabled the data does not change.
THEOREM Frozen == Spec => FrozenWhileDisabled
  <1>1. IInv /\ [Next]_vars => [pages > 0 /\ pages' > 0 => data' = data]_vars
    <2> SUFFICES ASSUME IInv, Next, pages > 0, pages' > 0 PROVE data' = data
      BY DEF vars
    <2>1. refCount > 0 /\ isDisabled BY DEF IInv, CountIsRight, isDisabled
    <2>2. CASE enable
      <3>1. refCount' = pages' BY <2>2 DEF IInv, CountIsRight, enable
      <3> QED BY <2>2, <3>1 DEF enable
    <2> QED
      BY <2>1, <2>2 DEF Next, addNodeHealth, addState, addMasterInfo, disable, getNodesList
  <1> QED BY <1>1, Invariance, PTL DEF Spec, FrozenWhileDisabled
=============================================================================
