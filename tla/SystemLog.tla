------------------------------ MODULE SystemLog ------------------------------
(***************************************************************************)
(* The log of a task, from the node's journal to the page: the event       *)
(* sources and the throttle of events/SystemLogActions.ts and              *)
(* utils/SystemLogUtil.ts, the logs kept by stores/SystemLogStore.ts, and  *)
(* the one page that uses them, TaskSystemLogsContainer.tsx.               *)
(*                                                                         *)
(* The page tails one stream of the task (STDOUT, STDERR ...) from its     *)
(* last entry on, and loads earlier entries a page at a time.  The id of a *)
(* subscription is the symbol of its URL, and the URL depends on the       *)
(* stream alone, so here streams are ids and URLs.  The page never passes  *)
(* a cursor or an id to startTailing.                                      *)
(*                                                                         *)
(* Entries of a stream are the numbers of the journal's lines; 0 stands    *)
(* for an event whose data did not parse.                                  *)
(***************************************************************************)
EXTENDS Naturals, Sequences, FiniteSets, SequencesExt, Subsequences

CONSTANTS
    Streams,
    FirstStream,    \* the one selected when the page opens
    None,           \* no stream, no log
    PageSize,       \* PAGE_ENTRY_COUNT
    MaxEntries,     \* bound: entries of a stream
    MaxGarbled,     \* bound: events that do not parse
    MaxTails,       \* bound: calls of startTailing
    MaxMounts       \* bound: times the page is opened

ASSUME ConstantsAssumption ==
    /\ FirstStream \in Streams /\ None \notin Streams
    /\ PageSize \in Nat \ {0}
    /\ MaxEntries \in Nat /\ MaxGarbled \in Nat /\ MaxTails \in Nat /\ MaxMounts \in Nat

VARIABLES
    journal,   \* entries written on the node, per stream
    tails,     \* the tails started so far, open or not, with their throttles
    ranges,    \* the open event sources of fetchRange
    logs,      \* SystemLogStore.logs
    page,      \* state of the page
    asked,     \* requests for the names of the streams not answered yet
    mounts,    \* times the page was opened
    garbled,   \* history: <<stream, entry>> that arrived but did not parse
    stray      \* history: a page got the names of the streams twice
vars == <<journal, tails, ranges, logs, page, asked, mounts, garbled, stray>>

\* next: what the node sends next; timer, held: of the accumulating throttle;
\* notice: startTailing's own timer is running.
Tail_ == [stream : Streams, open : BOOLEAN, first : Nat, next : Nat,
          timer : BOOLEAN, held : Seq(Nat), notice : BOOLEAN]

\* cursor: the entry to read backwards from; next: entries left before it.
Range_ == [stream : Streams, cursor : Nat, next : Nat, items : Seq(Nat)]

Log == [entries : Seq(Nat), hasLoadedTop : BOOLEAN]
ASSUME NoneAssumption == None \notin Log
EmptyLog == [entries |-> <<>>, hasLoadedTop |-> FALSE]

Page == [mounted : BOOLEAN, subscriptionID : Streams \cup {None},
         isLoading : BOOLEAN, isFetchingPrevious : BOOLEAN, hasError : BOOLEAN]
FreshPage == [mounted |-> TRUE, subscriptionID |-> None, isLoading |-> TRUE,
              isFetchingPrevious |-> FALSE, hasError |-> FALSE]

Init ==
    /\ \E n \in 1..MaxEntries : journal = [s \in Streams |-> n]
    /\ tails = <<>>
    /\ ranges = {}
    /\ logs = [s \in Streams |-> None]
    /\ page = [FreshPage EXCEPT !.mounted = FALSE]
    /\ asked = 0 /\ mounts = 0
    /\ garbled = {}
    /\ stray = FALSE

----------------------------------------------------------------------------
(* A callback runs from the event source through the store to the page and *)
(* back: its steps map a record of logs, ranges and page to the next one.  *)

Now == [logs |-> logs, ranges |-> ranges, page |-> page]

Becomes(w) == logs' = w.logs /\ ranges' = w.ranges /\ page' = w.page

logOf(w, s) == IF w.logs[s] = None THEN EmptyLog ELSE w.logs[s]

hasLoadedTop(w, s) == w.logs[s] # None /\ w.logs[s].hasLoadedTop

\* Mutation: the cursor is not checked.
fetchRange_Unchecked(w, s) ==
    LET entries == logOf(w, s).entries
        cursor == IF entries = <<>> THEN 0 ELSE entries[1]
    IN  [w EXCEPT !.ranges = @ \cup
            {[stream |-> s, cursor |-> cursor, next |-> cursor - 1, items |-> <<>>]}]

\* SystemLogStore.fetchRange: nothing happens without an entry to start from,
\* or at the top.  Another source of the same URL is closed.
fetchRange(w, s) ==
    LET entries == logOf(w, s).entries
        cursor == entries[1]
        same == {r \in w.ranges : r.stream = s /\ r.cursor = cursor}
    IN  IF entries = <<>> \/ hasLoadedTop(w, s) THEN w
        ELSE IF cursor = 0 THEN w
        ELSE [w EXCEPT !.ranges = (@ \ same) \cup
                {[stream |-> s, cursor |-> cursor, next |-> cursor - 1, items |-> <<>>]}]

\* The page marks that it is fetching, whether or not that comes to anything.
handleFetchPreviousLog(w, s) ==
    IF w.page.isFetchingPrevious THEN w
    ELSE fetchRange([w EXCEPT !.page.isFetchingPrevious = TRUE], s)

\* onSystemLogStoreSuccess and onSystemLogStoreError.
Shown(w, s) == w.page.mounted /\ w.page.subscriptionID = s

PageHears(w, s, direction) ==
    LET fetched == IF w.page.isLoading THEN handleFetchPreviousLog(w, s) ELSE w
    IN  IF ~ Shown(w, s) THEN w
        ELSE [fetched EXCEPT !.page.hasError = FALSE, !.page.isLoading = FALSE,
                !.page.isFetchingPrevious = @ /\ direction # "PREPEND"]

PageHearsError(w, s, direction) ==
    IF ~ Shown(w, s) THEN w
    ELSE [w EXCEPT !.page.hasError = TRUE, !.page.isLoading = FALSE,
             !.page.isFetchingPrevious = @ /\ direction # "PREPEND"]

processLogAppend(w, s, entries) ==
    PageHears([w EXCEPT !.logs[s] = [logOf(w, s) EXCEPT !.entries = @ \o entries]],
              s, "APPEND")

\* Mutation: the range is put after the entries known.
processLogPrepend_Appends(w, s, firstEntry, entries) ==
    PageHears([w EXCEPT !.logs[s] = [entries |-> logOf(w, s).entries \o entries,
                                     hasLoadedTop |-> firstEntry]],
              s, "PREPEND")

processLogPrepend(w, s, firstEntry, entries) ==
    PageHears([w EXCEPT !.logs[s] = [entries |-> entries \o logOf(w, s).entries,
                                     hasLoadedTop |-> firstEntry]],
              s, "PREPEND")

\* processLogError and processLogPrependError: a log is made for the error.
processError(w, s, direction) ==
    PageHearsError([w EXCEPT !.logs[s] = logOf(w, s)], s, direction)

----------------------------------------------------------------------------
(* Tails.                                                                  *)

\* unsubscribe: no event of the source is heard any more.  The throttle's
\* timer, and what the throttle holds, are left alone.
Closed(ts, s) ==
    [i \in DOMAIN ts |-> IF ts[i].stream = s THEN [ts[i] EXCEPT !.open = FALSE] ELSE ts[i]]

\* stopTailing(s, true)
Stopped(w, s) == IF s = None THEN w ELSE [w EXCEPT !.logs[s] = None]

\* startTailing: an open source of the same URL is closed first.  With
\* skip_prev = 1 the node starts with the last entry it has.
Started(ts, s) ==
    Append(Closed(ts, s),
           [stream |-> s, open |-> TRUE, first |-> journal[s], next |-> journal[s],
            timer |-> FALSE, held |-> <<>>, notice |-> TRUE])

Parsed(events) == Subsequence(events, {i \in DOMAIN events : events[i] # 0})

\* messageListener: events that do not parse are reported, the others shown.
messageListener(w, s, events) ==
    LET parsed == Parsed(events)
        reported == IF Len(parsed) < Len(events) THEN processError(w, s, "APPEND") ELSE w
    IN  IF parsed = <<>> THEN reported ELSE processLogAppend(reported, s, parsed)

\* Mutation: the first of the events that come while the timer runs is lost.
Throttled_KeepsLast(i, e) ==
    /\ tails' = [tails EXCEPT ![i].next = @ + 1, ![i].timer = TRUE,
                              ![i].held = IF tails[i].timer THEN <<e>> ELSE <<>>]
    /\ Becomes(IF tails[i].timer THEN Now ELSE messageListener(Now, tails[i].stream, <<e>>))

\* accumulatedThrottle: passed on at once, or held until the timer fires.
Throttled(i, e) ==
    /\ tails' = [tails EXCEPT ![i].next = @ + 1, ![i].timer = TRUE,
                              ![i].held = IF tails[i].timer THEN Append(@, e) ELSE @]
    /\ Becomes(IF tails[i].timer THEN Now ELSE messageListener(Now, tails[i].stream, <<e>>))

Message(i) ==
    LET tail == tails[i] IN
    /\ tail.open /\ tail.next <= journal[tail.stream]
    /\ \/ Throttled(i, tail.next) /\ UNCHANGED garbled
       \/ /\ Cardinality(garbled) < MaxGarbled /\ Throttled(i, 0)
          /\ garbled' = garbled \cup {<<tail.stream, tail.next>>}
    /\ UNCHANGED <<journal, asked, mounts, stray>>

\* The throttle's timer fires, also after the tail was stopped.
TimerFires(i) ==
    /\ tails[i].timer
    /\ tails' = [tails EXCEPT ![i].timer = FALSE, ![i].held = <<>>]
    /\ Becomes(messageListener(Now, tails[i].stream, tails[i].held))
    /\ UNCHANGED <<journal, asked, mounts, garbled, stray>>

\* The connection is interrupted; the browser takes it up again by itself.
\* Assumption about what is not in the repository: the EventSource tells the server
\* the event it had last, and the server goes on with the next line, so that
\* tails[i].next stays as it is.
TailErrors(i) ==
    /\ tails[i].open
    /\ Becomes(processError(Now, tails[i].stream, "APPEND"))
    /\ UNCHANGED <<journal, tails, asked, mounts, garbled, stray>>

\* Nothing came for two refresh intervals: the page is told all the same.
NoticeFires(i) ==
    /\ tails[i].notice
    /\ tails' = [tails EXCEPT ![i].notice = FALSE]
    /\ Becomes(IF logs[tails[i].stream] = None
               THEN PageHears(Now, tails[i].stream, "APPEND") ELSE Now)
    /\ UNCHANGED <<journal, asked, mounts, garbled, stray>>

----------------------------------------------------------------------------
(* Ranges.                                                                 *)

\* One more entry, the next one backwards.  One that does not parse is
\* reported, and put among the items as undefined.
RangeMessage(r) ==
    /\ r.next > 0 /\ Len(r.items) < PageSize
    /\ \/ /\ ranges' = (ranges \ {r}) \cup {[r EXCEPT !.items = <<r.next>> \o @, !.next = @ - 1]}
          /\ UNCHANGED <<logs, page, garbled>>
       \/ LET w == processError(Now, r.stream, "PREPEND") IN
          /\ Cardinality(garbled) < MaxGarbled
          /\ logs' = w.logs /\ page' = w.page
          /\ ranges' = (ranges \ {r}) \cup {[r EXCEPT !.items = <<0>> \o @, !.next = @ - 1]}
          /\ garbled' = garbled \cup {<<r.stream, r.next>>}
    /\ UNCHANGED <<journal, tails, asked, mounts, stray>>

\* The source ends: it has sent all, or it is interrupted.  The eventPhase of
\* either event is 2 while its listener runs (AT_TARGET), and so is the
\* constant EventSource.CLOSED: both are taken as the end of the range.
RangeEnds(r) ==
    /\ Becomes(processLogPrepend([Now EXCEPT !.ranges = @ \ {r}], r.stream,
                                 Len(r.items) < PageSize, r.items))
    /\ UNCHANGED <<journal, tails, asked, mounts, garbled, stray>>

----------------------------------------------------------------------------
(* The page.                                                               *)

Write(s) ==
    /\ journal[s] < MaxEntries
    /\ journal' = [journal EXCEPT ![s] = @ + 1]
    /\ UNCHANGED <<tails, ranges, logs, page, asked, mounts, garbled, stray>>

\* componentDidMount: fetchStreamTypes.
Mount ==
    /\ ~ page.mounted /\ mounts < MaxMounts
    /\ mounts' = mounts + 1 /\ asked' = asked + 1
    /\ page' = FreshPage
    /\ UNCHANGED <<journal, tails, ranges, logs, garbled, stray>>

\* onSystemLogStoreStreamSuccess.  The answer may be to an earlier page.
StreamTypesArrive ==
    /\ asked > 0 /\ asked' = asked - 1
    /\ IF page.mounted
       THEN /\ Len(tails) < MaxTails
            /\ tails' = Started(tails, FirstStream)
            /\ page' = [page EXCEPT !.subscriptionID = FirstStream, !.hasError = FALSE]
            /\ stray' = (stray \/ page.subscriptionID # None)
       ELSE UNCHANGED <<tails, page, stray>>
    /\ UNCHANGED <<journal, ranges, logs, mounts, garbled>>

StreamTypesFail ==
    /\ asked > 0 /\ asked' = asked - 1
    /\ page' = IF page.mounted
               THEN [page EXCEPT !.hasError = TRUE, !.isLoading = FALSE] ELSE page
    /\ UNCHANGED <<journal, tails, ranges, logs, mounts, garbled, stray>>

\* Mutation: the stream shown before is not stopped.
handleViewChange_KeepsTail(s) ==
    /\ page.mounted /\ page.subscriptionID # None /\ Len(tails) < MaxTails
    /\ tails' = Started(tails, s)
    /\ logs' = Stopped(Now, page.subscriptionID).logs
    /\ page' = [page EXCEPT !.subscriptionID = s, !.isLoading = TRUE]
    /\ UNCHANGED <<journal, ranges, asked, mounts, garbled, stray>>

handleViewChange(s) ==
    /\ page.mounted /\ page.subscriptionID # None /\ Len(tails) < MaxTails
    /\ tails' = Started(Closed(tails, page.subscriptionID), s)
    /\ logs' = Stopped(Now, page.subscriptionID).logs
    /\ page' = [page EXCEPT !.subscriptionID = s, !.isLoading = TRUE]
    /\ UNCHANGED <<journal, ranges, asked, mounts, garbled, stray>>

\* The log view, which is shown unless there is an error or nothing yet, is
\* scrolled to its top.
ScrollUp ==
    LET s == page.subscriptionID IN
    /\ page.mounted /\ s # None /\ ~ page.hasError /\ ~ page.isLoading
    /\ ~ hasLoadedTop(Now, s)
    /\ Becomes(handleFetchPreviousLog(Now, s))
    /\ UNCHANGED <<journal, tails, asked, mounts, garbled, stray>>

\* componentWillUnmount
Unmount ==
    /\ page.mounted
    /\ tails' = Closed(tails, page.subscriptionID)
    /\ logs' = Stopped(Now, page.subscriptionID).logs
    /\ page' = [FreshPage EXCEPT !.mounted = FALSE]
    /\ UNCHANGED <<journal, ranges, asked, mounts, garbled, stray>>

Next ==
    \/ \E s \in Streams : Write(s) \/ handleViewChange(s)
    \/ \E i \in DOMAIN tails : Message(i) \/ TimerFires(i) \/ TailErrors(i) \/ NoticeFires(i)
    \/ \E r \in ranges : RangeMessage(r) \/ RangeEnds(r)
    \/ Mount \/ StreamTypesArrive \/ StreamTypesFail \/ ScrollUp \/ Unmount

Spec == Init /\ [][Next]_vars

----------------------------------------------------------------------------
TypeOK ==
    /\ journal \in [Streams -> 1..MaxEntries]
    /\ tails \in Seq(Tail_) /\ Len(tails) <= MaxTails
    /\ ranges \subseteq Range_
    /\ logs \in [Streams -> Log \cup {None}]
    /\ page \in Page
    /\ asked \in 0..MaxMounts /\ mounts \in 0..MaxMounts
    /\ garbled \subseteq Streams \X (1..MaxEntries)
    /\ stray \in BOOLEAN

NotParsed(s) == {n \in 1..MaxEntries : <<s, n>> \in garbled}

\* The one tail of a stream that is shown and was tailed once only.
OnlyTail(i) ==
    /\ Shown(Now, tails[i].stream)
    /\ \A j \in DOMAIN tails : tails[j].stream = tails[i].stream => j = i

\* The log shown is an unbroken run of the journal, except for lines that did
\* not parse: the events the throttle gathers, the ranges put before them and
\* the errors in between leave no gap, repeat no line and keep their order.
\* Not so when a stream is tailed a second time: what the throttle or a range
\* of the first time still holds is put in its log too.
ShownLogIsUnbroken ==
    \A i \in DOMAIN tails : OnlyTail(i) =>
        LET lines == Parsed(logOf(Now, tails[i].stream).entries)
        IN  \A k \in 1..Len(lines) - 1 :
               /\ lines[k] < lines[k + 1]
               /\ lines[k] + 1 .. lines[k + 1] - 1 \subseteq NotParsed(tails[i].stream)

\* Nothing that arrived is lost between the event source and the log shown:
\* it is in the log, or the throttle holds it and its timer runs.
NothingLostInThrottle ==
    \A i \in DOMAIN tails :
        /\ tails[i].held # <<>> => tails[i].timer
        /\ OnlyTail(i) =>
              tails[i].first .. tails[i].next - 1 \subseteq
                  ToSet(logOf(Now, tails[i].stream).entries) \cup ToSet(tails[i].held)
                      \cup NotParsed(tails[i].stream)

\* Of the connections that tail a stream only that of the stream shown is open,
\* and no stream is tailed twice.  The first half excepts what follows once the
\* names of the streams arrived twice (for a page that was closed before, and for
\* this one), since the page then does not stop the tail it had.  Nothing is said
\* of the connections for ranges: they stay open until they end by themselves.
OneTailOpen ==
    \A i \in DOMAIN tails : tails[i].open =>
        /\ ~ stray => Shown(Now, tails[i].stream)
        /\ \A j \in DOMAIN tails : tails[j].open /\ tails[j].stream = tails[i].stream => j = i
=============================================================================
