---------------------------- MODULE MesosLogStore ----------------------------
(***************************************************************************)
(* plugins/services/src/js/stores/MesosLogStore.ts with its requests in     *)
(* events/MesosLogActions.ts, and the page that uses it, MesosLogContainer   *)
(* with its LogView: a file of a task's sandbox is tailed by a chain of     *)
(* requests and timers, each started by the answer to the one before, and   *)
(* earlier parts are fetched when the user scrolls up.                      *)
(*                                                                         *)
(* The callers of stopTailing all clear the buffer, so a log that is kept   *)
(* is tailed.                                                              *)
(***************************************************************************)
EXTENDS LogBuffer, Bags

CONSTANTS
    Path,
    None,
    MAX_FILE_SIZE,   \* how much is requested at once
    FirstSizes,      \* of the files
    Wide,            \* of each file, the first bytes of its two-byte characters
    MaxSize,         \* bound: of a file
    MaxOpened,       \* bound: how often the page takes up a file
    MaxRanges,       \* bound: how often an earlier range is requested
    MaxItems         \* bound: the pieces of a log

ASSUME NoPathIsNone == None \notin Path
ASSUME RequestAssumption == MAX_FILE_SIZE \in Nat \ {0}
ASSUME SizesAssumption == FirstSizes \subseteq Nat
ASSUME WideAssumption ==
    /\ Wide \in [Path -> SUBSET Nat]
    /\ \A p \in Path : \A n \in Wide[p] : n + 1 \notin Wide[p] \cup Newline /\ n \notin Newline

VARIABLES
    size,         \* of each file, on its agent
    logs,         \* logs[path].logBuffer, empty where logs[path] is null
    kept,         \* the paths whose logs[path] is not null
    calls,        \* the bag of requests under way, and of retry timers
    page,         \* filePath of the page, or None
    fetching,     \* isFetchingPrevious
    loading,      \* isLoading
    failures,     \* hasLoadingError, up to the 3 that matter
    offsetError,  \* hasOffsetLoadingError
    opened,       \* how often the page took up a file
    ranges,       \* how often it scrolled up to earlier text
    mixed         \* history: logs that something else served than their tail and
                  \* one range at a time, or that were cut from the back

viewVars == <<fetching, loading, failures, offsetError>>
countVars == <<opened, ranges>>
logVars == <<logs, kept>>
vars == <<size, logVars, calls, page, viewVars, countVars, mixed>>

Init ==
    /\ size \in [Path -> FirstSizes]
    /\ logs = [p \in Path |-> EmptyBuffer] /\ kept = {}
    /\ calls = EmptyBag
    /\ page = None
    /\ fetching = FALSE /\ loading = TRUE /\ failures = 0 /\ offsetError = FALSE
    /\ opened = 0 /\ ranges = 0
    /\ mixed = [p \in Path |-> FALSE]

----------------------------------------------------------------------------
(* Requests.  One that a timer sends later is modelled from the time the     *)
(* timer is set: it may take any time to be answered.                       *)

requestOffset(p) == [kind |-> "offset", path |-> p]

fetchLog(p, from) == [kind |-> "tail", path |-> p, from |-> from]

\* The timer after an error, which looks up the end when it sends the request.
RetryTimer(p) == [kind |-> "retry timer", path |-> p]

fetchPreviousLog(p, from, length) ==
    [kind |-> "previous", path |-> p, from |-> from, length |-> length]

UnderWay(kind) == {c \in BagToSet(calls) : c.kind = kind}
Previous(p) == {c \in UnderWay("previous") : c.path = p}

\* A call is over, and the given one made.
Followed(call, next) == calls' = (calls (-) SetToBag({call})) (+) SetToBag({next})
Ended(call) == calls' = calls (-) SetToBag({call})

\* The two-byte characters of a file that are wholly among some of its bytes.
WholeWide(p, from, to) == {n \in Wide[p] : from <= n /\ n + 1 < to}

\* Bytes of a file as the text they are decoded to: of half a character, too,
\* there is a character.
Decoded(p, from, to) ==
    LET whole == WholeWide(p, from, to) IN
    [from |-> from,
     to |-> to - Cardinality(whole),
     wide |-> {n - Cardinality(WholeWide(p, from, n)) : n \in whole}]

\* What the agent answers to a request of so much of a file.  The offset -1
\* asks for the size alone.
Read(p, from, length) ==
    IF from = -1 THEN Decoded(p, size[p], size[p])
    ELSE Decoded(p, from, IF from + length < size[p] THEN from + length
                          ELSE IF from < size[p] THEN size[p] ELSE from)

----------------------------------------------------------------------------
(* What the page makes of the events.                                       *)

onMesosLogStoreSuccess(p) ==
    IF page = p
      THEN /\ failures' = 0 /\ fetching' = FALSE /\ loading' = FALSE
           /\ UNCHANGED offsetError
      ELSE UNCHANGED viewVars

onMesosLogStoreError(p) ==
    IF page = p
      THEN /\ failures' = IF failures < 3 THEN failures + 1 ELSE 3
           /\ fetching' = FALSE
           /\ UNCHANGED <<loading, offsetError>>
      ELSE UNCHANGED viewVars

\* Of whichever file.
onMesosLogStoreOffset(failed) ==
    /\ offsetError' = IF page = None THEN offsetError ELSE failed
    /\ UNCHANGED <<fetching, loading, failures>>

----------------------------------------------------------------------------
(* The answers.                                                             *)

processOffset(p) ==
    /\ requestOffset(p) \in UnderWay("offset")
    /\ IF p \notin kept
         THEN Ended(requestOffset(p)) /\ UNCHANGED <<logs, viewVars>>
         ELSE /\ logs' = [logs EXCEPT ![p] = initialize(@, size[p])]
              /\ Followed(requestOffset(p), fetchLog(p, logs'[p].end))
              /\ onMesosLogStoreOffset(FALSE)
    /\ UNCHANGED <<size, kept, page, countVars, mixed>>

\* Tried again whether the file is still looked at or not.
processOffsetError(p) ==
    /\ requestOffset(p) \in UnderWay("offset")
    /\ onMesosLogStoreOffset(TRUE)
    /\ UNCHANGED <<size, logVars, calls, page, countVars, mixed>>

processLogEntry(call) ==
    LET p == call.path
        piece == Read(p, call.from, MAX_FILE_SIZE)
    IN
    /\ IF p \notin kept
         THEN Ended(call) /\ UNCHANGED <<logs, mixed, viewVars>>
         ELSE /\ logs' = IF Size(piece) > 0 THEN [logs EXCEPT ![p] = add(@, piece)] ELSE logs
              /\ Followed(call, fetchLog(p, logs'[p].end))
              /\ mixed' = [mixed EXCEPT ![p] =
                   @ \/ (Previous(p) # {} /\ logs'[p].start # logs[p].start)]
              /\ onMesosLogStoreSuccess(p)
    /\ UNCHANGED <<size, kept, page, countVars>>

\* Mutation: the tail is given up.
processLogError_GivesUp(call) ==
    /\ Ended(call)
    /\ IF call.path \notin kept THEN UNCHANGED viewVars ELSE onMesosLogStoreError(call.path)
    /\ UNCHANGED <<size, logVars, page, countVars, mixed>>

processLogError(call) ==
    /\ IF call.path \notin kept
         THEN Ended(call) /\ UNCHANGED viewVars
         ELSE Followed(call, RetryTimer(call.path)) /\ onMesosLogStoreError(call.path)
    /\ UNCHANGED <<size, logVars, page, countVars, mixed>>

\* A range that makes the log too large cuts the last piece from its beginning.
processLogPrepend(call) ==
    LET p == call.path
        piece == Read(p, call.from, IF call.length < 0 THEN MAX_FILE_SIZE ELSE call.length)
    IN
    /\ Ended(call)
    /\ IF p \notin kept
         THEN UNCHANGED <<logs, mixed, viewVars>>
         ELSE /\ logs' = IF Size(piece) > 0 THEN [logs EXCEPT ![p] = prepend(@, piece)] ELSE logs
              /\ mixed' = [mixed EXCEPT ![p] = @ \/ logs'[p].end < logs[p].end]
              /\ onMesosLogStoreSuccess(p)
    /\ UNCHANGED <<size, kept, page, countVars>>

\* What is requested again is requested as if it were the tail.
processLogPrependError(call) ==
    LET p == call.path IN
    /\ IF p \notin kept
         THEN Ended(call) /\ UNCHANGED <<mixed, viewVars>>
         ELSE /\ Followed(call, fetchLog(p, logs[p].start - MAX_FILE_SIZE))
              /\ mixed' = [mixed EXCEPT ![p] = TRUE]
              /\ onMesosLogStoreError(p)
    /\ UNCHANGED <<size, logVars, page, countVars>>

\* Bound: a log that was mixed up may repeat what it holds without end.
Bounded(p) == Len(logs[p].items) < MaxItems

\* The agent refuses other offsets below zero.
Answers ==
    \/ \E p \in Path : processOffset(p) \/ processOffsetError(p)
    \/ \E call \in UnderWay("tail") :
         \/ call.from >= -1 /\ Bounded(call.path) /\ processLogEntry(call)
         \/ processLogError(call)
    \/ \E call \in UnderWay("previous") :
         \/ Bounded(call.path) /\ processLogPrepend(call)
         \/ processLogPrependError(call)

RetryTimerFires ==
    /\ \E call \in UnderWay("retry timer") :
         Followed(call, fetchLog(call.path, logs[call.path].end))
    /\ UNCHANGED <<size, logVars, page, viewVars, countVars, mixed>>

----------------------------------------------------------------------------
(* The page.                                                                *)

Copies(call, n) == [c \in {call} |-> n]

\* The closure of a timer keeps the buffer that is forgotten, with its end.
Forgotten(p) ==
    LET retries == calls[RetryTimer(p)]
        request == fetchLog(p, logs[p].end)
    IN  IF RetryTimer(p) \in BagToSet(calls)
          THEN (calls (-) Copies(RetryTimer(p), retries)) (+) Copies(request, retries)
          ELSE calls

\* stopTailing(p, true), if a file was looked at.
Stopped == IF page = None THEN calls ELSE Forgotten(page)

\* The file is taken up: its buffer was cleared when it was left.
startTailing(p) ==
    /\ calls' = Stopped (+) SetToBag({requestOffset(p)})
    /\ kept' = {p} /\ logs' = [q \in Path |-> EmptyBuffer]
    /\ mixed' = [mixed EXCEPT ![p] = \E c \in BagToSet(calls) : c.path = p]

NewView == fetching' = FALSE /\ loading' = TRUE /\ failures' = 0

\* componentDidMount, or UNSAFE_componentWillReceiveProps with another file,
\* which leaves the offset error of the last one.
OpenFile(p) ==
    /\ opened < MaxOpened /\ opened' = opened + 1
    /\ page # p /\ page' = p
    /\ startTailing(p)
    /\ NewView /\ UNCHANGED <<size, offsetError, ranges>>

\* Mutation: the tail is stopped, but the buffer not cleared.
Close_KeepsBuffer ==
    /\ page # None /\ page' = None
    /\ calls' = Stopped
    /\ NewView /\ offsetError' = FALSE
    /\ UNCHANGED <<size, logVars, countVars, mixed>>

\* componentWillUnmount; what a later page starts with.
Close ==
    /\ page # None /\ page' = None
    /\ calls' = Stopped
    /\ kept' = {} /\ logs' = [logs EXCEPT ![page] = EmptyBuffer]
    /\ NewView /\ offsetError' = FALSE
    /\ UNCHANGED <<size, countVars, mixed>>

\* The LogView is there, with text to scroll.
ViewIsShown ==
    /\ page # None /\ ~ loading /\ failures < 3 /\ ~ offsetError
    /\ getFullLog(logs[page]) # <<>>

getPreviousLogs(p) ==
    LET start == logs[p].start IN
    calls' = calls (+) SetToBag({
        IF start < MAX_FILE_SIZE THEN fetchPreviousLog(p, 0, start)
        ELSE fetchPreviousLog(p, start - MAX_FILE_SIZE, MAX_FILE_SIZE)})

\* checkIfCloseToTop, and handleFetchPreviousLog: the flag is down again once
\* the tail was answered, and a second range is fetched beside the first.
ScrollUp ==
    /\ ViewIsShown /\ ~ hasLoadedTop(logs[page])
    /\ ranges < MaxRanges /\ ranges' = ranges + 1
    /\ ~ fetching /\ fetching' = TRUE
    /\ getPreviousLogs(page)
    /\ mixed' = [mixed EXCEPT ![page] = @ \/ Previous(page) # {}]
    /\ UNCHANGED <<size, logVars, page, loading, failures, offsetError, opened>>

\* The task writes.
Write(p) ==
    /\ size[p] < MaxSize /\ size' = [size EXCEPT ![p] = @ + 1]
    /\ UNCHANGED <<logVars, calls, page, viewVars, countVars, mixed>>

Next ==
    \/ Answers
    \/ RetryTimerFires
    \/ \E p \in Path : OpenFile(p) \/ Write(p)
    \/ Close
    \/ ScrollUp

Spec == Init /\ [][Next]_vars

----------------------------------------------------------------------------
Buffer == [items : Seq([from : Nat, to : Nat, wide : SUBSET Int]), start : Int, end : Int]

TypeOK ==
    /\ size \in [Path -> Nat]
    /\ logs \in [Path -> Buffer]
    /\ page \in Path \cup {None}
    /\ kept = {page} \ {None}
    /\ fetching \in BOOLEAN /\ loading \in BOOLEAN /\ offsetError \in BOOLEAN
    /\ failures \in 0..3
    /\ \A c \in BagToSet(calls) : calls[c] \in Nat \ {0}

\* However the file grows, its log is cut from the front and its tail fails and
\* is tried again, the text kept of a file of one-byte characters is its text
\* from the start to the end of the buffer, and not too much of it.  Nothing is
\* claimed of a file with wider characters, nor of a log that something else
\* served than one tail and one range at a time, none of which failed or made
\* it so large that it was cut from the back.
ShownFileIsUnbroken ==
    \A p \in kept : Wide[p] = {} /\ ~ mixed[p] =>
      /\ getFullLog(logs[p]) =
           [i \in 1..KeptSize(logs[p]) |-> logs[p].start + i - 1]
      /\ KeptSize(logs[p]) <= maxFileSize

\* Whatever fails, and whatever is left of former tails, a file that is looked
\* at is asked for again: a request of its tail, or a timer that will send it,
\* is under way.
TailGoesOn ==
    \A p \in kept :
      \E c \in BagToSet(calls) : c.path = p /\ c.kind # "previous"
=============================================================================
