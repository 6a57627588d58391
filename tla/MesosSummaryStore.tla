-------------------------- MODULE MesosSummaryStore --------------------------
(***************************************************************************)
(* src/js/stores/MesosSummaryStore.ts, its actions in                      *)
(* events/MesosSummaryActions.ts and the history it keeps, a SummaryList:  *)
(* the cluster's state-summary is polled, every answer and every failure   *)
(* becomes one entry of a history of bounded length, and the pages read    *)
(* the last successful one of it.                                          *)
(*                                                                         *)
(* Time counts refresh intervals.  A snapshot is the number of the request *)
(* it answers; the empty one the list makes up when it has none is 0.      *)
(***************************************************************************)
EXTENDS Integers, SummaryList, Subsequences

CONSTANTS
    Listeners,       \* callbacks on MESOS_SUMMARY_CHANGE
    MaxRequests,     \* bound: requests made
    MaxReads         \* bound: reads of the last successful snapshot

ASSUME SummaryConstants ==
    MaxRequests \in Nat \ {0} /\ MaxReads \in Nat

VARIABLES
    states,           \* the SummaryList
    lastRequestTime,  \* 0: none yet
    listeners,
    requestInterval,  \* whether the interval is set
    now,
    requests,         \* number of requests made
    pending,          \* those not answered
    slow,             \* those of them that were reported as hanging
    processed,        \* history: the entries added since init(), oldest first
    reads,            \* history: number of reads
    served            \* history: what the last read returned
summaryVars ==
    <<states, lastRequestTime, listeners, requestInterval, now, requests,
      pending, slow, processed, reads, served>>

Entry(snapshot, date) == [snapshot |-> snapshot, date |-> date, successful |-> TRUE]
Failure(date) == [snapshot |-> 0, date |-> date, successful |-> FALSE]

Successful(list) == Subsequence(list, {i \in DOMAIN list : list[i].successful})

\* Mutation: successes are dated by the clock too.
nextRequestTime_Now == now

\* getNextRequestTime
nextRequestTime == IF lastRequestTime = 0 THEN now ELSE lastRequestTime + 1

shouldPoll(ls) == ls # {}

Fetch ==
    IF requests < MaxRequests
      THEN requests' = requests + 1 /\ pending' = pending \cup {requests + 1}
      ELSE UNCHANGED <<requests, pending>>

startPolling ==
    IF requestInterval THEN UNCHANGED <<requestInterval, requests, pending>>
    ELSE requestInterval' = TRUE /\ Fetch

\* init(): a history full of failures in the past, and the polling begins.
SummaryInit ==
    /\ states = [i \in 1..historyLength |-> Failure(i - historyLength)]
    /\ lastRequestTime = 0
    /\ listeners = {}
    /\ requestInterval = TRUE
    /\ now = 1
    /\ requests = 1 /\ pending = {1} /\ slow = {}
    /\ processed = <<>> /\ reads = 0 /\ served = 0

----------------------------------------------------------------------------
Processes(entry) ==
    /\ states' = add(states, entry)
    /\ processed' = Append(processed, entry)
    /\ lastRequestTime' = nextRequestTime
    /\ UNCHANGED <<listeners, requestInterval, now, requests, reads, served>>

\* processSummary: dated by the requests before it.
processSummary(r) ==
    /\ r \in pending /\ pending' = pending \ {r} /\ slow' = slow \ {r}
    /\ Processes(Entry(r, nextRequestTime))

\* processSummaryError, of an error or an empty answer: dated by the clock.
processSummaryError(r) ==
    /\ r \in pending /\ pending' = pending \ {r} /\ slow' = slow \ {r}
    /\ Processes(Failure(now))

\* Mutation: a request that hangs is given up.
RequestHangs_GivesUp(r) ==
    /\ r \in pending /\ slow' = slow \cup {r}
    /\ Processes(Failure(now))
    /\ pending' = pending \ {r}

\* REQUEST_SUMMARY_ONGOING: counted as a failure, and answered later all the same.
RequestHangs(r) ==
    /\ r \in pending \ slow /\ slow' = slow \cup {r}
    /\ Processes(Failure(now))
    /\ UNCHANGED pending

Tick ==
    /\ requestInterval /\ requests < MaxRequests
    /\ now' = now + 1
    /\ Fetch
    /\ UNCHANGED <<states, lastRequestTime, listeners, requestInterval, slow,
                   processed, reads, served>>

addChangeListener(l) ==
    /\ l \notin listeners
    /\ listeners' = listeners \cup {l}
    /\ IF ~ shouldPoll(listeners') THEN startPolling
       ELSE UNCHANGED <<requestInterval, requests, pending>>
    /\ UNCHANGED <<states, lastRequestTime, now, slow, processed, reads, served>>

\* A listener of another event, say of MESOS_SUMMARY_REQUEST_ERROR.
addOtherListener ==
    /\ IF ~ shouldPoll(listeners) THEN startPolling
       ELSE UNCHANGED <<requestInterval, requests, pending>>
    /\ UNCHANGED <<states, lastRequestTime, listeners, now, slow, processed, reads, served>>

\* A callback that does not listen may be removed too.
removeChangeListener(l) ==
    /\ listeners' = listeners \ {l}
    /\ requestInterval' = (requestInterval /\ shouldPoll(listeners'))
    /\ UNCHANGED <<states, lastRequestTime, now, requests, pending, slow,
                   processed, reads, served>>

\* A page renders: getMesosState, getActiveServices, buildServiceTree ...
Read ==
    /\ reads < MaxReads /\ reads' = reads + 1
    /\ served' = lastSuccessful(states)
    /\ states' = reversed(states)
    /\ UNCHANGED <<lastRequestTime, listeners, requestInterval, now, requests,
                   pending, slow, processed>>

SummaryNext ==
    \/ \E r \in pending : processSummary(r) \/ processSummaryError(r) \/ RequestHangs(r)
    \/ Tick
    \/ \E l \in Listeners : addChangeListener(l)
    \/ addOtherListener
    \/ \E l \in Listeners : removeChangeListener(l)
    \/ Read

SummarySpec == SummaryInit /\ [][SummaryNext]_summaryVars

----------------------------------------------------------------------------
SummaryTypeOK ==
    /\ \A i \in DOMAIN states : states[i] \in
         [snapshot : 0..MaxRequests, date : Int, successful : BOOLEAN]
    /\ lastRequestTime \in Nat
    /\ listeners \subseteq Listeners
    /\ requestInterval \in BOOLEAN
    /\ slow \subseteq pending /\ pending \subseteq 1..requests
    /\ requests \in 1..MaxRequests
    /\ served \in 0..MaxRequests

\* Unless it was read, the history is the last entries processed, in order,
\* neither more nor fewer than it is long: what it serves survives as many
\* failures as that, less one.
UnreadHistoryIsRecent ==
    reads = 0 =>
      /\ Len(states) = historyLength
      /\ \A i \in 1..historyLength : Len(processed) - historyLength + i > 0 =>
           states[i] = processed[Len(processed) - historyLength + i]

\* The charts sort the history by date, so successful snapshots must be dated
\* in the order they were processed, however late or bunched the answers come.
SuccessesKeepTheirOrder ==
    LET dated == Successful(processed)
    IN  \A i \in 1..Len(dated) - 1 : dated[i].date < dated[i + 1].date

\* "finds last StateSummary with successful snapshot": of two reads in a row
\* the second returns the oldest.
ServesLastSuccessful ==
    [][reads' # reads =>
         LET found == Successful(processed)
         IN  Len(processed) <= historyLength =>
               served' = IF found = <<>> THEN 0 ELSE found[Len(found)].snapshot]_summaryVars
=============================================================================
