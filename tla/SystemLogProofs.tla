--------------------------- MODULE SystemLogProofs ---------------------------
(***************************************************************************)
(* Proofs about SystemLog, for any streams, any length of logs and pages,  *)
(* and any number of tails and of times the page is opened.                *)
(*                                                                         *)
(* IInv: no connection is left open behind the user's back.                *)
(*                                                                         *)
(* LogInv: the entries of the log shown, what the throttle holds and what  *)
(* the ranges have read so far are adjacent stretches of the journal.  It  *)
(* rests on a range starting at the entry the log then starts with, and on *)
(* there being one range from an entry at most.                            *)
(***************************************************************************)
EXTENDS SystemLog, SubsequenceProofs, SequenceTheorems, TLAPS

\* The part of the state the connections depend on.
Shapes ==
    /\ journal \in [Streams -> Nat]
    /\ tails \in Seq(Tail_)
    /\ page \in Page
    /\ stray \in BOOLEAN

\* An open tail is that of the stream shown, unless the names came twice ...
OpenIsShown ==
    \A i \in DOMAIN tails : tails[i].open /\ ~ stray =>
        page.mounted /\ page.subscriptionID = tails[i].stream

\* ... and no stream has two of them.
OnePerStream ==
    \A i, j \in DOMAIN tails :
        tails[i].open /\ tails[j].open /\ tails[i].stream = tails[j].stream => i = j

IInv == Shapes /\ OpenIsShown /\ OnePerStream

\* What callbacks map: records of logs, ranges and a page.
World(w) == w \in [logs : {w.logs}, ranges : {w.ranges}, page : Page]

\* The same page shows the same stream.
SameView(v, w) ==
    /\ v.page.mounted = w.page.mounted
    /\ v.page.subscriptionID = w.page.subscriptionID

----------------------------------------------------------------------------
\* No event of a source and no timer changes which stream is shown.

LEMMA FetchRangeView ==
    ASSUME NEW w, World(w), NEW s PROVE World(fetchRange(w, s)) /\ SameView(fetchRange(w, s), w)
  BY DEF World, SameView, fetchRange

LEMMA FetchPreviousView ==
    ASSUME NEW w, World(w), NEW s
    PROVE  World(handleFetchPreviousLog(w, s)) /\ SameView(handleFetchPreviousLog(w, s), w)
  <1> DEFINE waiting == [w EXCEPT !.page.isFetchingPrevious = TRUE]
  <1>1. World(waiting) /\ SameView(waiting, w) BY DEF World, SameView, Page
  <1> HIDE DEF waiting
  <1>2. World(fetchRange(waiting, s)) /\ SameView(fetchRange(waiting, s), waiting)
    BY <1>1, FetchRangeView
  <1> QED BY <1>1, <1>2 DEF handleFetchPreviousLog, SameView, waiting

LEMMA HearsView ==
    ASSUME NEW w, World(w), NEW s, NEW direction
    PROVE  World(PageHears(w, s, direction)) /\ SameView(PageHears(w, s, direction), w)
  <1> DEFINE fetched == IF w.page.isLoading THEN handleFetchPreviousLog(w, s) ELSE w
             heard == [fetched EXCEPT !.page.hasError = FALSE, !.page.isLoading = FALSE,
                         !.page.isFetchingPrevious = @ /\ direction # "PREPEND"]
  <1>1. World(fetched) /\ SameView(fetched, w) BY FetchPreviousView DEF SameView
  <1> HIDE DEF fetched
  <1>2. World(heard) /\ SameView(heard, fetched)
    <2> DEFINE p == fetched.page
               q == [p EXCEPT !.hasError = FALSE, !.isLoading = FALSE,
                       !.isFetchingPrevious = @ /\ direction # "PREPEND"]
    <2>1. p \in Page BY <1>1 DEF World
    <2>2. heard \in [logs : {heard.logs}, ranges : {heard.ranges}, page : {q}]
      BY <1>1 DEF World
    <2>3. q \in Page /\ q.mounted = p.mounted /\ q.subscriptionID = p.subscriptionID
      BY <2>1 DEF Page
    <2> QED BY <2>2, <2>3 DEF World, SameView
  <1>3. PageHears(w, s, direction) = IF ~ Shown(w, s) THEN w ELSE heard
    BY DEF PageHears, fetched
  <1> QED BY <1>1, <1>2, <1>3 DEF SameView

LEMMA HearsErrorView ==
    ASSUME NEW w, World(w), NEW s, NEW direction
    PROVE  /\ World(PageHearsError(w, s, direction))
           /\ SameView(PageHearsError(w, s, direction), w)
  BY DEF World, SameView, PageHearsError, Page

LEMMA AppendView ==
    ASSUME NEW w, World(w), NEW s, NEW entries
    PROVE  /\ World(processLogAppend(w, s, entries))
           /\ SameView(processLogAppend(w, s, entries), w)
  <1> DEFINE longer == [w EXCEPT !.logs[s] = [logOf(w, s) EXCEPT !.entries = @ \o entries]]
  <1>1. World(longer) /\ SameView(longer, w) BY DEF World, SameView
  <1> HIDE DEF longer
  <1>2. World(PageHears(longer, s, "APPEND")) /\ SameView(PageHears(longer, s, "APPEND"), longer)
    BY <1>1, HearsView
  <1> QED BY <1>1, <1>2 DEF processLogAppend, SameView, longer

LEMMA PrependView ==
    ASSUME NEW w, World(w), NEW s, NEW first, NEW entries
    PROVE  /\ World(processLogPrepend(w, s, first, entries))
           /\ SameView(processLogPrepend(w, s, first, entries), w)
  <1> DEFINE longer == [w EXCEPT !.logs[s] = [entries |-> entries \o logOf(w, s).entries,
                                              hasLoadedTop |-> first]]
  <1>1. World(longer) /\ SameView(longer, w) BY DEF World, SameView
  <1> HIDE DEF longer
  <1>2. World(PageHears(longer, s, "PREPEND")) /\ SameView(PageHears(longer, s, "PREPEND"), longer)
    BY <1>1, HearsView
  <1> QED BY <1>1, <1>2 DEF processLogPrepend, SameView, longer

LEMMA ErrorView ==
    ASSUME NEW w, World(w), NEW s, NEW direction
    PROVE  /\ World(processError(w, s, direction))
           /\ SameView(processError(w, s, direction), w)
  <1> DEFINE made == [w EXCEPT !.logs[s] = logOf(w, s)]
  <1>1. World(made) /\ SameView(made, w) BY DEF World, SameView
  <1> HIDE DEF made
  <1>2. /\ World(PageHearsError(made, s, direction))
        /\ SameView(PageHearsError(made, s, direction), made)
    BY <1>1, HearsErrorView
  <1> QED BY <1>1, <1>2 DEF processError, SameView, made

LEMMA ListenerView ==
    ASSUME NEW w, World(w), NEW s, NEW events
    PROVE  /\ World(messageListener(w, s, events))
           /\ SameView(messageListener(w, s, events), w)
  <1> DEFINE parsed == Parsed(events)
             reported == IF Len(parsed) < Len(events) THEN processError(w, s, "APPEND") ELSE w
  <1>1. World(reported) /\ SameView(reported, w) BY ErrorView DEF SameView
  <1>2. messageListener(w, s, events) =
          IF parsed = <<>> THEN reported ELSE processLogAppend(reported, s, parsed)
    BY DEF messageListener
  <1> HIDE DEF parsed, reported
  <1>3. /\ World(processLogAppend(reported, s, parsed))
        /\ SameView(processLogAppend(reported, s, parsed), reported)
    BY <1>1, AppendView
  <1> QED BY <1>1, <1>2, <1>3 DEF SameView

----------------------------------------------------------------------------
\* What a closed and what a started tail leaves of the others.

LEMMA ClosedTails ==
    ASSUME NEW ts \in Seq(Tail_), NEW s
    PROVE  /\ Closed(ts, s) \in Seq(Tail_) /\ Len(Closed(ts, s)) = Len(ts)
           /\ \A i \in DOMAIN ts : /\ Closed(ts, s)[i].stream = ts[i].stream
                                   /\ Closed(ts, s)[i].open => (ts[i].open /\ ts[i].stream # s)
  <1>1. Len(ts) \in Nat /\ DOMAIN ts = 1..Len(ts) BY LenProperties
  <1>2. ASSUME NEW i \in DOMAIN ts
        PROVE  /\ Closed(ts, s)[i] \in Tail_ /\ Closed(ts, s)[i].stream = ts[i].stream
               /\ Closed(ts, s)[i].open => (ts[i].open /\ ts[i].stream # s)
    <2>1. ts[i] \in Tail_ BY <1>1, ElementOfSeq
    <2>2. Closed(ts, s)[i] =
            IF ts[i].stream = s THEN [ts[i] EXCEPT !.open = FALSE] ELSE ts[i]
      BY DEF Closed
    <2>3. CASE ts[i].stream = s BY <2>1, <2>2, <2>3 DEF Tail_
    <2>4. CASE ts[i].stream # s BY <2>1, <2>2, <2>4
    <2> QED BY <2>3, <2>4
  <1>3. DOMAIN Closed(ts, s) = 1..Len(ts) BY <1>1 DEF Closed
  <1>4. Closed(ts, s) = [i \in 1..Len(ts) |-> Closed(ts, s)[i]] BY <1>1 DEF Closed
  <1>5. \A i \in 1..Len(ts) : Closed(ts, s)[i] \in Tail_ BY <1>1, <1>2
  <1>6. Closed(ts, s) \in Seq(Tail_) /\ Len(Closed(ts, s)) = Len(ts)
    <2> DEFINE c == Closed(ts, s)
    <2> HIDE DEF c
    <2>1. c = [i \in 1..Len(ts) |-> c[i]] /\ \A i \in 1..Len(ts) : c[i] \in Tail_
      BY <1>4, <1>5 DEF c
    <2>2. c \in Seq(Tail_) BY <1>1, <2>1, IsASeq
    <2> QED BY <1>1, <1>3, <2>2, LenProperties DEF c
  <1> QED BY <1>2, <1>6

LEMMA StartedTails ==
    ASSUME NEW ts \in Seq(Tail_), NEW s \in Streams, journal \in [Streams -> Nat]
    PROVE  /\ Started(ts, s) \in Seq(Tail_) /\ DOMAIN Started(ts, s) = 1..Len(ts) + 1
           /\ Started(ts, s)[Len(ts) + 1].stream = s
           /\ \A i \in DOMAIN ts : Started(ts, s)[i] = Closed(ts, s)[i]
  <1> DEFINE new == [stream |-> s, open |-> TRUE, first |-> journal[s], next |-> journal[s],
                     timer |-> FALSE, held |-> <<>>, notice |-> TRUE]
  <1>1. new \in Tail_ BY DEF Tail_
  <1>2. Closed(ts, s) \in Seq(Tail_) /\ Len(Closed(ts, s)) = Len(ts) BY ClosedTails
  <1>3. new.stream = s OBVIOUS
  <1>4. Started(ts, s) = Append(Closed(ts, s), new) BY DEF Started
  <1> HIDE DEF new
  <1> QED BY <1>1, <1>2, <1>3, <1>4, AppendProperties

\* Starting a tail keeps one at most of every stream.
LEMMA StartedOnce ==
    ASSUME IInv, NEW ts \in Seq(Tail_), NEW s \in Streams,
           Len(ts) = Len(tails),
           \A i \in DOMAIN tails : /\ ts[i].stream = tails[i].stream
                                   /\ (ts[i].open => tails[i].open),
           tails' = Started(ts, s)
    PROVE  OnePerStream'
  <1> DEFINE n == Len(ts) + 1
  <1>1. tails \in Seq(Tail_) /\ journal \in [Streams -> Nat] BY DEF IInv, Shapes
  <1>2. /\ DOMAIN tails' = 1..n /\ tails'[n].stream = s
        /\ \A i \in 1..Len(ts) : tails'[i] = Closed(ts, s)[i]
    <2>1. DOMAIN ts = 1..Len(ts) BY LenProperties
    <2>2. journal \in [Streams -> Nat] BY <1>1
    <2>3. /\ DOMAIN Started(ts, s) = 1..Len(ts) + 1
          /\ Started(ts, s)[Len(ts) + 1].stream = s
          /\ \A i \in DOMAIN ts : Started(ts, s)[i] = Closed(ts, s)[i]
      BY <2>2, StartedTails
    <2> QED BY <2>1, <2>3
  <1>3. \A i \in 1..Len(ts) : /\ tails'[i].stream = tails[i].stream
                              /\ (tails'[i].open => (tails[i].open /\ tails[i].stream # s))
    <2>1. DOMAIN ts = 1..Len(ts) /\ DOMAIN tails = 1..Len(ts)
      BY <1>1, LenProperties
    <2> QED BY <1>2, <2>1, ClosedTails
  <1>4. ASSUME NEW i \in 1..n, NEW j \in 1..n, tails'[i].open, tails'[j].open,
               tails'[i].stream = tails'[j].stream
        PROVE  i = j
    <2>1. CASE i \in 1..Len(ts) /\ j \in 1..Len(ts)
      BY <1>1, <1>3, <1>4, <2>1 DEF IInv, OnePerStream
    <2>2. CASE ~ (i \in 1..Len(ts) /\ j \in 1..Len(ts))
      <3>1. i = n \/ j = n BY <2>2
      <3>2. i # n => i \in 1..Len(ts) OBVIOUS
      <3>3. j # n => j \in 1..Len(ts) OBVIOUS
      <3> QED BY <1>2, <1>3, <1>4, <3>1, <3>2, <3>3
    <2> QED BY <2>1, <2>2
  <1> QED BY <1>2, <1>4 DEF OnePerStream

\* A step that starts and closes no tail, and shows no other stream.
LEMMA QuietStep ==
    ASSUME IInv, Shapes', stray' = stray, DOMAIN tails' = DOMAIN tails,
           \A i \in DOMAIN tails : tails'[i].stream = tails[i].stream
                                 /\ tails'[i].open = tails[i].open,
           page'.mounted = page.mounted, page'.subscriptionID = page.subscriptionID
    PROVE  IInv'
  <1>1. OpenIsShown' BY DEF IInv, OpenIsShown
  <1>2. OnePerStream' BY DEF IInv, OnePerStream
  <1> QED BY <1>1, <1>2 DEF IInv

\* A callback shows no other stream.
LEMMA CallbackView ==
    ASSUME IInv, NEW w, World(w), SameView(w, Now), page' = w.page
    PROVE  /\ page' \in Page /\ page'.mounted = page.mounted
           /\ page'.subscriptionID = page.subscriptionID
  BY DEF World, SameView, Now

LEMMA NowIsWorld == ASSUME IInv PROVE World(Now)
  BY DEF World, Now, IInv, Shapes

\* A callback that shows no other stream and changes fields of one tail only.
LEMMA TailCallback ==
    ASSUME IInv, NEW i \in DOMAIN tails, NEW tail \in Tail_, NEW w,
           tail.stream = tails[i].stream, tail.open = tails[i].open,
           tails' = [tails EXCEPT ![i] = tail], World(w), SameView(w, Now), Becomes(w),
           UNCHANGED <<journal, stray>>
    PROVE  IInv'
  <1>1. tails \in Seq(Tail_) BY DEF IInv, Shapes
  <1>2. Len(tails) \in Nat /\ DOMAIN tails = 1..Len(tails) BY <1>1, LenProperties
  <1>3. /\ tails' \in Seq(Tail_) /\ Len(tails') = Len(tails)
        /\ \A j \in 1..Len(tails) : tails'[j] = IF j = i THEN tail ELSE tails[j]
    BY <1>1, <1>2, ExceptSeq
  <1>4. /\ page' \in Page /\ page'.mounted = page.mounted
        /\ page'.subscriptionID = page.subscriptionID
    BY CallbackView DEF Becomes
  <1>5. Shapes' BY <1>3, <1>4 DEF IInv, Shapes
  <1>6. DOMAIN tails' = DOMAIN tails BY <1>2, <1>3, LenProperties
  <1>7. \A j \in DOMAIN tails : tails'[j].stream = tails[j].stream
                                /\ tails'[j].open = tails[j].open
    BY <1>2, <1>3
  <1> QED BY <1>4, <1>5, <1>6, <1>7, QuietStep

\* One that changes no tail.
LEMMA OtherCallback ==
    ASSUME IInv, NEW w, World(w), SameView(w, Now), page' = w.page,
           UNCHANGED <<journal, tails, stray>>
    PROVE  IInv'
  <1>1. /\ page' \in Page /\ page'.mounted = page.mounted
        /\ page'.subscriptionID = page.subscriptionID
    BY CallbackView
  <1>2. Shapes' BY <1>1 DEF IInv, Shapes
  <1> QED BY <1>1, <1>2, QuietStep

LEMMA ThrottledStep ==
    ASSUME IInv, NEW i \in DOMAIN tails, NEW e \in Nat, Throttled(i, e),
           UNCHANGED <<journal, stray>>
    PROVE  IInv'
  <1> DEFINE held == IF tails[i].timer THEN Append(tails[i].held, e) ELSE tails[i].held
             tail == [tails[i] EXCEPT !.next = @ + 1, !.timer = TRUE, !.held = held]
             w == IF tails[i].timer THEN Now ELSE messageListener(Now, tails[i].stream, <<e>>)
  <1>1. tails[i] \in Tail_ BY ElementOfSeq, LenProperties DEF IInv, Shapes
  <1>2. tails[i].held \in Seq(Nat) BY <1>1 DEF Tail_
  <1>3. held \in Seq(Nat) BY <1>2, AppendProperties
  <1>4. tails' = [tails EXCEPT ![i] = tail] BY <1>1 DEF Throttled, Tail_
  <1> HIDE DEF held
  <1>5. tail \in Tail_ /\ tail.stream = tails[i].stream /\ tail.open = tails[i].open
    <2>1. tails[i].next + 1 \in Nat BY <1>1 DEF Tail_
    <2>2. tail \in Tail_ BY <1>1, <1>3, <2>1 DEF Tail_
    <2>3. tail.stream = tails[i].stream BY <1>1 DEF Tail_
    <2>4. tail.open = tails[i].open BY <1>1 DEF Tail_
    <2> QED BY <2>2, <2>3, <2>4
  <1>6. World(w) /\ SameView(w, Now) BY NowIsWorld, ListenerView DEF SameView
  <1>7. Becomes(w) BY DEF Throttled
  <1> HIDE DEF tail, w
  <1> QED BY <1>4, <1>5, <1>6, <1>7, TailCallback

LEMMA MessageStep ==
    ASSUME IInv, NEW i \in DOMAIN tails, Message(i) PROVE IInv'
  <1>1. tails[i] \in Tail_ BY ElementOfSeq, LenProperties DEF IInv, Shapes
  <1>2. tails[i].next \in Nat /\ 0 \in Nat BY <1>1 DEF Tail_
  <1>3. Throttled(i, tails[i].next) \/ Throttled(i, 0) BY DEF Message
  <1>4. UNCHANGED <<journal, stray>> BY DEF Message
  <1> QED BY <1>2, <1>3, <1>4, ThrottledStep

LEMMA TimerStep ==
    ASSUME IInv, NEW i \in DOMAIN tails, TimerFires(i) PROVE IInv'
  <1> DEFINE tail == [tails[i] EXCEPT !.timer = FALSE, !.held = <<>>]
             w == messageListener(Now, tails[i].stream, tails[i].held)
  <1>1. tails[i] \in Tail_ BY ElementOfSeq, LenProperties DEF IInv, Shapes
  <1>2. tails' = [tails EXCEPT ![i] = tail] BY <1>1 DEF TimerFires, Tail_
  <1>3. tail \in Tail_ /\ tail.stream = tails[i].stream /\ tail.open = tails[i].open
    <2>1. <<>> \in Seq(Nat) BY EmptySeq
    <2>2. tail \in Tail_ BY <1>1, <2>1 DEF Tail_
    <2>3. tail.stream = tails[i].stream BY <1>1 DEF Tail_
    <2>4. tail.open = tails[i].open BY <1>1 DEF Tail_
    <2> QED BY <2>2, <2>3, <2>4
  <1>4. World(w) /\ SameView(w, Now) BY NowIsWorld, ListenerView
  <1>5. Becomes(w) /\ UNCHANGED <<journal, stray>> BY DEF TimerFires
  <1> HIDE DEF tail, w
  <1> QED BY <1>2, <1>3, <1>4, <1>5, TailCallback

LEMMA NoticeStep ==
    ASSUME IInv, NEW i \in DOMAIN tails, NoticeFires(i) PROVE IInv'
  <1> DEFINE tail == [tails[i] EXCEPT !.notice = FALSE]
             w == IF logs[tails[i].stream] = None
                  THEN PageHears(Now, tails[i].stream, "APPEND") ELSE Now
  <1>1. tails[i] \in Tail_ BY ElementOfSeq, LenProperties DEF IInv, Shapes
  <1>2. tails' = [tails EXCEPT ![i] = tail] BY <1>1 DEF NoticeFires, Tail_
  <1>3. tail \in Tail_ /\ tail.stream = tails[i].stream /\ tail.open = tails[i].open
    BY <1>1 DEF Tail_
  <1>4. World(w) /\ SameView(w, Now) BY NowIsWorld, HearsView DEF SameView
  <1>5. Becomes(w) /\ UNCHANGED <<journal, stray>> BY DEF NoticeFires
  <1> HIDE DEF tail, w
  <1> QED BY <1>2, <1>3, <1>4, <1>5, TailCallback

LEMMA ErrorStep ==
    ASSUME IInv, NEW i \in DOMAIN tails, TailErrors(i) PROVE IInv'
  <1> DEFINE w == processError(Now, tails[i].stream, "APPEND")
  <1>1. World(w) /\ SameView(w, Now) BY NowIsWorld, ErrorView
  <1>2. page' = w.page /\ UNCHANGED <<journal, tails, stray>> BY DEF TailErrors, Becomes
  <1> HIDE DEF w
  <1> QED BY <1>1, <1>2, OtherCallback

----------------------------------------------------------------------------
LEMMA RangeMessageStep ==
    ASSUME IInv, NEW r \in ranges, RangeMessage(r) PROVE IInv'
  <1> DEFINE w == processError(Now, r.stream, "PREPEND")
  <1>1. World(w) /\ SameView(w, Now) BY NowIsWorld, ErrorView
  <1>2. UNCHANGED <<journal, tails, stray>> BY DEF RangeMessage
  <1>3. page' = page \/ page' = w.page BY DEF RangeMessage
  <1>4. CASE page' = page
    <2>1. page' = Now.page BY <1>4 DEF Now
    <2> QED BY <1>2, <2>1, NowIsWorld, OtherCallback DEF SameView
  <1>5. CASE page' = w.page
    <2> HIDE DEF w
    <2> QED BY <1>1, <1>2, <1>5, OtherCallback
  <1> QED BY <1>3, <1>4, <1>5

LEMMA RangeEndsStep ==
    ASSUME IInv, NEW r \in ranges, RangeEnds(r) PROVE IInv'
  <1> DEFINE v == [Now EXCEPT !.ranges = @ \ {r}]
             w == processLogPrepend(v, r.stream, Len(r.items) < PageSize, r.items)
  <1>1. World(v) /\ SameView(v, Now) BY NowIsWorld DEF World, SameView
  <1>2. page' = w.page /\ UNCHANGED <<journal, tails, stray>> BY DEF RangeEnds, Becomes
  <1> HIDE DEF v
  <1>3. World(w) /\ SameView(w, v) BY <1>1, PrependView
  <1>4. SameView(w, Now) BY <1>1, <1>3 DEF SameView
  <1> HIDE DEF w
  <1> QED BY <1>2, <1>3, <1>4, OtherCallback

LEMMA ScrollUpStep ==
    ASSUME IInv, ScrollUp PROVE IInv'
  <1> DEFINE w == handleFetchPreviousLog(Now, page.subscriptionID)
  <1>1. World(w) /\ SameView(w, Now) BY NowIsWorld, FetchPreviousView
  <1>2. page' = w.page /\ UNCHANGED <<journal, tails, stray>> BY DEF ScrollUp, Becomes
  <1> HIDE DEF w
  <1> QED BY <1>1, <1>2, OtherCallback

LEMMA WriteStep ==
    ASSUME IInv, NEW s \in Streams, Write(s) PROVE IInv'
  <1>1. Shapes' BY DEF Write, IInv, Shapes
  <1>2. UNCHANGED <<tails, page, stray>> BY DEF Write
  <1> QED BY <1>1, <1>2, QuietStep

----------------------------------------------------------------------------
\* No stream is None, so while none is shown and the names came once, no tail
\* is open; and a page that leaves its stream closes the only one.

LEMMA MountStep ==
    ASSUME IInv, Mount PROVE IInv'
  <1>1. UNCHANGED <<journal, tails, stray>> /\ ~ page.mounted /\ page' = FreshPage
    BY DEF Mount
  <1>2. FreshPage \in Page BY DEF FreshPage, Page
  <1>3. Shapes' BY <1>1, <1>2 DEF IInv, Shapes
  <1>4. OpenIsShown' BY <1>1 DEF IInv, OpenIsShown
  <1>5. OnePerStream' BY <1>1 DEF IInv, OnePerStream
  <1> QED BY <1>3, <1>4, <1>5 DEF IInv

LEMMA UnmountStep ==
    ASSUME IInv, Unmount PROVE IInv'
  <1>1. /\ tails' = Closed(tails, page.subscriptionID) /\ UNCHANGED <<journal, stray>>
        /\ page' = [FreshPage EXCEPT !.mounted = FALSE]
    BY DEF Unmount
  <1>2. tails \in Seq(Tail_) BY DEF IInv, Shapes
  <1>3. page' \in Page BY <1>1 DEF FreshPage, Page
  <1>4. tails' \in Seq(Tail_) /\ DOMAIN tails' = DOMAIN tails
    BY <1>1, <1>2, ClosedTails, LenProperties
  <1>5. \A i \in DOMAIN tails :
          /\ tails'[i].stream = tails[i].stream
          /\ (tails'[i].open => (tails[i].open /\ tails[i].stream # page.subscriptionID))
    BY <1>1, <1>2, ClosedTails
  <1>6. Shapes' BY <1>1, <1>3, <1>4 DEF IInv, Shapes
  <1>7. OpenIsShown' BY <1>1, <1>4, <1>5 DEF IInv, OpenIsShown
  <1>8. OnePerStream' BY <1>4, <1>5 DEF IInv, OnePerStream
  <1> QED BY <1>6, <1>7, <1>8 DEF IInv

\* A tail of s is started after others were closed, or not, and s is shown.
LEMMA StartStep ==
    ASSUME IInv, NEW s \in Streams, NEW ts \in Seq(Tail_), Len(ts) = Len(tails),
           \A i \in DOMAIN tails : /\ ts[i].stream = tails[i].stream
                                   /\ (ts[i].open => tails[i].open),
           ~ stray' => \A i \in DOMAIN tails : ~ ts[i].open,
           tails' = Started(ts, s), journal' = journal, stray' \in BOOLEAN,
           page' \in Page, page'.mounted, page'.subscriptionID = s
    PROVE  IInv'
  <1>1. journal \in [Streams -> Nat] /\ tails \in Seq(Tail_) BY DEF IInv, Shapes
  <1>2. DOMAIN ts = 1..Len(ts) /\ DOMAIN tails = 1..Len(ts) BY <1>1, LenProperties
  <1>3. /\ tails' \in Seq(Tail_) /\ DOMAIN tails' = 1..Len(ts) + 1
        /\ tails'[Len(ts) + 1].stream = s
        /\ \A i \in 1..Len(ts) : tails'[i] = Closed(ts, s)[i]
    <2>1. journal \in [Streams -> Nat] BY <1>1
    <2>2. /\ Started(ts, s) \in Seq(Tail_) /\ DOMAIN Started(ts, s) = 1..Len(ts) + 1
          /\ Started(ts, s)[Len(ts) + 1].stream = s
          /\ \A i \in DOMAIN ts : Started(ts, s)[i] = Closed(ts, s)[i]
      BY <2>1, StartedTails
    <2> QED BY <1>2, <2>2
  <1>4. Shapes' BY <1>1, <1>3 DEF Shapes
  <1>5. OnePerStream' BY StartedOnce
  <1>6. OpenIsShown'
    <2> SUFFICES ASSUME NEW i \in 1..Len(ts) + 1, tails'[i].open, ~ stray'
                 PROVE  tails'[i].stream = s
      BY <1>3 DEF OpenIsShown
    <2>1. CASE i \in 1..Len(ts)
      <3>1. tails'[i].open => ts[i].open BY <1>2, <1>3, <2>1, ClosedTails
      <3> QED BY <1>2, <2>1, <3>1
    <2>2. CASE i \notin 1..Len(ts)
      <3>1. Len(ts) \in Nat BY LenProperties
      <3>2. i = Len(ts) + 1 BY <2>2, <3>1
      <3> QED BY <1>3, <3>2
    <2> QED BY <2>1, <2>2
  <1> QED BY <1>4, <1>5, <1>6 DEF IInv

LEMMA ViewChangeStep ==
    ASSUME IInv, NEW s \in Streams, handleViewChange(s) PROVE IInv'
  <1> DEFINE ts == Closed(tails, page.subscriptionID)
  <1>1. /\ tails' = Started(ts, s) /\ UNCHANGED <<journal, stray>> /\ page.mounted
        /\ page' = [page EXCEPT !.subscriptionID = s, !.isLoading = TRUE]
    BY DEF handleViewChange
  <1>2. tails \in Seq(Tail_) /\ page \in Page /\ stray \in BOOLEAN BY DEF IInv, Shapes
  <1>3. /\ page' \in Page /\ page'.mounted /\ page'.subscriptionID = s
    BY <1>1, <1>2 DEF Page
  <1>4. ts \in Seq(Tail_) /\ Len(ts) = Len(tails) BY <1>2, ClosedTails
  <1>5. \A i \in DOMAIN tails :
          /\ ts[i].stream = tails[i].stream
          /\ (ts[i].open => (tails[i].open /\ tails[i].stream # page.subscriptionID))
    BY <1>2, ClosedTails
  <1>6. ~ stray' => \A i \in DOMAIN tails : ~ ts[i].open
    BY <1>1, <1>5 DEF IInv, OpenIsShown
  <1> HIDE DEF ts
  <1> QED BY <1>1, <1>2, <1>3, <1>4, <1>5, <1>6, StartStep

LEMMA StreamTypesStep ==
    ASSUME IInv, StreamTypesArrive PROVE IInv'
  <1>1. CASE ~ page.mounted
    <2>1. UNCHANGED <<journal, tails, page, stray>> BY <1>1 DEF StreamTypesArrive
    <2>2. Shapes' BY <2>1 DEF IInv, Shapes
    <2> QED BY <2>1, <2>2, QuietStep
  <1>2. CASE page.mounted
    <2>1. /\ tails' = Started(tails, FirstStream) /\ journal' = journal
          /\ page' = [page EXCEPT !.subscriptionID = FirstStream, !.hasError = FALSE]
      BY <1>2 DEF StreamTypesArrive
    <2>2. stray' = (stray \/ page.subscriptionID # None) BY <1>2 DEF StreamTypesArrive
    <2>3. tails \in Seq(Tail_) /\ page \in Page BY DEF IInv, Shapes
    <2>4. FirstStream \in Streams /\ None \notin Streams BY ConstantsAssumption
    <2>5. page' \in Page /\ page'.mounted /\ page'.subscriptionID = FirstStream
      BY <1>2, <2>1, <2>3, <2>4 DEF Page
    <2>6. stray' \in BOOLEAN BY <2>2
    <2>7. ~ stray' => \A i \in DOMAIN tails : ~ tails[i].open
      <3> SUFFICES ASSUME ~ stray', NEW i \in DOMAIN tails, tails[i].open PROVE FALSE
        OBVIOUS
      <3>1. ~ stray /\ page.subscriptionID = None BY <2>2
      <3>2. page.subscriptionID = tails[i].stream BY <3>1 DEF IInv, OpenIsShown
      <3>3. tails[i] \in Tail_ BY <2>3, ElementOfSeq, LenProperties
      <3>4. tails[i].stream \in Streams BY <3>3 DEF Tail_
      <3> QED BY <2>4, <3>1, <3>2, <3>4
    <2> QED BY <2>1, <2>3, <2>4, <2>5, <2>6, <2>7, StartStep
  <1> QED BY <1>1, <1>2

LEMMA StreamTypesFailStep ==
    ASSUME IInv, StreamTypesFail PROVE IInv'
  <1>1. page \in Page BY DEF IInv, Shapes
  <1>2. /\ UNCHANGED <<journal, tails, stray>>
        /\ page' = IF page.mounted
                   THEN [page EXCEPT !.hasError = TRUE, !.isLoading = FALSE] ELSE page
    BY DEF StreamTypesFail
  <1>3. /\ page' \in Page /\ page'.mounted = page.mounted
        /\ page'.subscriptionID = page.subscriptionID
    BY <1>1, <1>2 DEF Page
  <1>4. Shapes' BY <1>2, <1>3 DEF IInv, Shapes
  <1> QED BY <1>2, <1>3, <1>4, QuietStep

----------------------------------------------------------------------------
LEMMA InitEstablishes == Init => IInv
  <1> SUFFICES ASSUME Init PROVE IInv OBVIOUS
  <1>1. journal \in [Streams -> Nat] BY ConstantsAssumption DEF Init
  <1>2. page \in Page BY DEF Init, FreshPage, Page
  <1>3. tails = <<>> /\ stray = FALSE BY DEF Init
  <1>4. Shapes BY <1>1, <1>2, <1>3, EmptySeq DEF Shapes
  <1>5. OpenIsShown /\ OnePerStream BY <1>3 DEF OpenIsShown, OnePerStream
  <1> QED BY <1>4, <1>5 DEF IInv

LEMMA StepPreserves == IInv /\ [Next]_vars => IInv'
  <1> SUFFICES ASSUME IInv, [Next]_vars PROVE IInv' OBVIOUS
  <1>1. CASE UNCHANGED vars
    <2>1. UNCHANGED <<journal, tails, page, stray>> BY <1>1 DEF vars
    <2>2. Shapes' BY <2>1 DEF IInv, Shapes
    <2> QED BY <2>1, <2>2, QuietStep
  <1>2. ASSUME NEW s \in Streams, Write(s) \/ handleViewChange(s) PROVE IInv'
    BY <1>2, WriteStep, ViewChangeStep
  <1>3. ASSUME NEW i \in DOMAIN tails,
               Message(i) \/ TimerFires(i) \/ TailErrors(i) \/ NoticeFires(i)
        PROVE  IInv'
    BY <1>3, MessageStep, TimerStep, ErrorStep, NoticeStep
  <1>4. ASSUME NEW r \in ranges, RangeMessage(r) \/ RangeEnds(r) PROVE IInv'
    BY <1>4, RangeMessageStep, RangeEndsStep
  <1>5. CASE Mount \/ StreamTypesArrive \/ StreamTypesFail \/ ScrollUp \/ Unmount
    BY <1>5, MountStep, StreamTypesStep, StreamTypesFailStep, ScrollUpStep, UnmountStep
  <1> QED BY <1>1, <1>2, <1>3, <1>4, <1>5 DEF Next

LEMMA OneTailFollows == IInv => OneTailOpen
  <1> SUFFICES ASSUME IInv, NEW i \in DOMAIN tails, tails[i].open
               PROVE  /\ ~ stray => Shown(Now, tails[i].stream)
                      /\ \A j \in DOMAIN tails :
                           tails[j].open /\ tails[j].stream = tails[i].stream => j = i
    BY DEF OneTailOpen
  <1>1. ~ stray => Shown(Now, tails[i].stream) BY DEF IInv, OpenIsShown, Shown, Now
  <1>2. \A j \in DOMAIN tails : tails[j].open /\ tails[j].stream = tails[i].stream => j = i
    BY DEF IInv, OnePerStream
  <1> QED BY <1>1, <1>2

\* startTailing, stopTailing and the page leave one tail of a stream open at most,
\* that of the stream shown unless the names of the streams came twice, however
\* their calls, late answers, ranges, timers and interruptions interleave (SystemLogActions.ts, startTail and stopTail).
THEOREM OneConnection == Spec => []OneTailOpen
  <1>1. Spec => []IInv BY InitEstablishes, StepPreserves, PTL DEF Spec
  <1> QED BY <1>1, OneTailFollows, PTL

----------------------------------------------------------------------------
(* What was shown and what is held of a stream fits together.              *)

\* The entries q are the lines lo to hi - 1, in their order, but for those in
\* G, which may be missing; a 0 stands for none.
Covers(q, G, lo, hi) ==
    /\ lo <= hi
    /\ \A k \in 1 .. Len(q) : q[k] # 0 => lo <= q[k] /\ q[k] < hi
    /\ \A k, l \in 1 .. Len(q) : k < l /\ q[k] # 0 /\ q[l] # 0 => q[k] < q[l]
    /\ \A m \in lo .. hi - 1 : m \in G \/ \E k \in 1 .. Len(q) : q[k] = m

LEMMA CoversMore ==
    ASSUME NEW q, NEW G, NEW H, NEW lo \in Nat, NEW hi \in Nat,
           Covers(q, G, lo, hi), G \subseteq H
    PROVE  Covers(q, H, lo, hi)
  BY DEF Covers

LEMMA CoversNothing ==
    ASSUME NEW G, NEW n \in Nat PROVE Covers(<<>>, G, n, n)
  <1>1. Len(<<>>) = 0 BY EmptySeq
  <1> QED BY <1>1 DEF Covers

\* One event: the line, or 0 for a line that did not parse.
LEMMA CoversLine ==
    ASSUME NEW G, NEW n \in Nat, NEW e \in Nat, e = n \/ (e = 0 /\ n \in G)
    PROVE  Covers(<<e>>, G, n, n + 1)
  <1>1. Len(<<e>>) = 1 /\ <<e>>[1] = e OBVIOUS
  <1>2. n .. n + 1 - 1 = {n} /\ n <= n + 1 /\ n < n + 1 OBVIOUS
  <1>3. 1 .. 1 = {1} OBVIOUS
  <1> QED BY <1>1, <1>2, <1>3 DEF Covers

LEMMA CoversConcat ==
    ASSUME NEW q \in Seq(Nat), NEW p \in Seq(Nat), NEW G,
           NEW lo \in Nat, NEW mid \in Nat, NEW hi \in Nat,
           Covers(q, G, lo, mid), Covers(p, G, mid, hi)
    PROVE  Covers(q \o p, G, lo, hi)
  <1> DEFINE c == q \o p
             n == Len(q)
             m == Len(p)
  <1>1. n \in Nat /\ m \in Nat BY LenProperties
  <1>2. Len(c) = n + m /\ \A k \in 1 .. n + m : c[k] = IF k <= n THEN q[k] ELSE p[k - n]
    BY ConcatProperties
  <1>3. \A k \in 1 .. n : q[k] \in Nat BY ElementOfSeq
  <1>4. \A k \in 1 .. m : p[k] \in Nat BY ElementOfSeq
  <1> HIDE DEF c, n, m
  <1>5. /\ lo <= mid
        /\ \A k \in 1 .. n : q[k] # 0 => lo <= q[k] /\ q[k] < mid
        /\ \A k, l \in 1 .. n : k < l /\ q[k] # 0 /\ q[l] # 0 => q[k] < q[l]
        /\ \A j \in lo .. mid - 1 : j \in G \/ \E k \in 1 .. n : q[k] = j
    BY DEF Covers, n
  <1>6. /\ mid <= hi
        /\ \A k \in 1 .. m : p[k] # 0 => mid <= p[k] /\ p[k] < hi
        /\ \A k, l \in 1 .. m : k < l /\ p[k] # 0 /\ p[l] # 0 => p[k] < p[l]
        /\ \A j \in mid .. hi - 1 : j \in G \/ \E k \in 1 .. m : p[k] = j
    BY DEF Covers, m
  <1>7. \A k \in 1 .. n + m : (k <= n /\ k \in 1 .. n) \/ (~ k <= n /\ k - n \in 1 .. m)
    BY <1>1
  <1>8. ASSUME NEW k \in 1 .. n + m, c[k] # 0 PROVE lo <= c[k] /\ c[k] < hi
    <2>1. CASE k <= n
      BY <1>2, <1>3, <1>5, <1>6, <1>7, <1>8, <2>1
    <2>2. CASE ~ k <= n
      BY <1>2, <1>4, <1>5, <1>6, <1>7, <1>8, <2>2
    <2> QED BY <2>1, <2>2
  <1>9. ASSUME NEW k \in 1 .. n + m, NEW l \in 1 .. n + m, k < l, c[k] # 0, c[l] # 0
        PROVE  c[k] < c[l]
    <2>1. CASE l <= n
      <3>1. k <= n /\ k \in 1 .. n /\ l \in 1 .. n BY <1>1, <1>9, <2>1
      <3> QED BY <1>2, <1>5, <1>9, <2>1, <3>1
    <2>2. CASE k <= n /\ ~ l <= n
      <3>1. k \in 1 .. n /\ l - n \in 1 .. m /\ c[k] = q[k] /\ c[l] = p[l - n]
        BY <1>2, <1>7, <2>2
      <3>2. q[k] < mid /\ mid <= p[l - n] BY <1>5, <1>6, <1>9, <3>1
      <3> QED BY <1>3, <1>4, <3>1, <3>2
    <2>3. CASE ~ k <= n
      <3>1. ~ l <= n BY <1>1, <1>9, <2>3
      <3>2. k - n \in 1 .. m /\ l - n \in 1 .. m /\ c[k] = p[k - n] /\ c[l] = p[l - n]
        BY <1>2, <1>7, <2>3, <3>1
      <3>3. k - n < l - n BY <1>1, <1>9
      <3> QED BY <1>6, <1>9, <3>2, <3>3
    <2> QED BY <2>1, <2>2, <2>3
  <1>10. ASSUME NEW j \in lo .. hi - 1, j \notin G PROVE \E k \in 1 .. n + m : c[k] = j
    <2>1. CASE j < mid
      <3>1. PICK k \in 1 .. n : q[k] = j BY <1>5, <1>10, <2>1
      <3>2. k \in 1 .. n + m /\ k <= n BY <1>1
      <3> QED BY <1>2, <3>1, <3>2
    <2>2. CASE ~ j < mid
      <3>1. PICK k \in 1 .. m : p[k] = j BY <1>6, <1>10, <2>2
      <3>2. \E i \in 1 .. n + m : ~ (i <= n) /\ i - n = k
        <4>1. n + k \in 1 .. n + m /\ ~ (n + k <= n) /\ (n + k) - n = k BY <1>1
        <4> QED BY <4>1
      <3>3. PICK i \in 1 .. n + m : ~ (i <= n) /\ i - n = k BY <3>2
      <3>4. c[i] = p[k] BY <1>2, <3>3
      <3> QED BY <3>1, <3>3, <3>4
    <2> QED BY <2>1, <2>2
  <1>11. lo <= hi BY <1>5, <1>6
  <1> QED BY <1>2, <1>8, <1>9, <1>10, <1>11 DEF Covers, c

\* What begins with a line covers from that line on.
LEMMA CoversFromHead ==
    ASSUME NEW q \in Seq(Nat), NEW G, NEW lo \in Nat \ {0}, NEW hi \in Nat,
           Covers(q, G, lo, hi), q # <<>>, q[1] # 0
    PROVE  /\ lo <= q[1] /\ Covers(q, G, q[1], hi)
           /\ \A m \in lo .. q[1] - 1 : m \in G
  <1>1. Len(q) \in Nat \ {0} BY EmptySeq
  <1>2. \A k \in 1 .. Len(q) : q[k] \in Nat BY ElementOfSeq
  <1>3. 1 \in 1 .. Len(q) /\ \A k \in 1 .. Len(q) : k = 1 \/ 1 < k BY <1>1
  <1>4. \A k \in 1 .. Len(q) : q[k] # 0 => q[1] <= q[k]
    BY <1>2, <1>3 DEF Covers
  <1>5. lo <= q[1] /\ q[1] < hi BY <1>3 DEF Covers
  <1>6. \A m \in lo .. q[1] - 1 : m \in G
    <2> SUFFICES ASSUME NEW m \in lo .. q[1] - 1, m \notin G PROVE FALSE OBVIOUS
    <2>1. m \in lo .. hi - 1 /\ m < q[1] BY <1>2, <1>3, <1>5
    <2>2. PICK k \in 1 .. Len(q) : q[k] = m BY <2>1 DEF Covers
    <2>3. m # 0 OBVIOUS
    <2>4. q[1] <= m BY <1>4, <2>2, <2>3
    <2> QED BY <1>2, <1>3, <2>1, <2>4
  <1>7. q[1] .. hi - 1 \subseteq lo .. hi - 1 BY <1>2, <1>3, <1>5
  <1>8. q[1] <= hi BY <1>2, <1>3, <1>5
  <1>9. \A k \in 1 .. Len(q) : q[k] # 0 => q[1] <= q[k] /\ q[k] < hi BY <1>4 DEF Covers
  <1> QED BY <1>5, <1>6, <1>7, <1>8, <1>9 DEF Covers

\* It covers from further back when all the lines in between did not parse.
LEMMA CoversFromBefore ==
    ASSUME NEW q \in Seq(Nat), NEW G, NEW lo \in Nat, NEW mid \in Nat, NEW hi \in Nat,
           Covers(q, G, mid, hi), lo <= mid, \A m \in lo .. mid - 1 : m \in G
    PROVE  Covers(q, G, lo, hi)
  <1>1. \A m \in lo .. hi - 1 : m \in lo .. mid - 1 \/ m \in mid .. hi - 1 OBVIOUS
  <1>2. \A k \in 1 .. Len(q) : q[k] \in Nat BY ElementOfSeq
  <1>3. lo <= hi BY DEF Covers
  <1>4. \A k \in 1 .. Len(q) : q[k] # 0 => lo <= q[k] /\ q[k] < hi BY <1>2 DEF Covers
  <1>5. \A m \in lo .. hi - 1 : m \in G \/ \E k \in 1 .. Len(q) : q[k] = m
    BY <1>1 DEF Covers
  <1> QED BY <1>3, <1>4, <1>5 DEF Covers

\* Parsed drops the events that did not parse, and nothing else.
LEMMA ParsedLines ==
    ASSUME NEW S, NEW q \in Seq(S)
    PROVE  /\ Parsed(q) \in Seq(S)
           /\ \E h \in Seq(Nat) :
                 /\ Len(h) = Len(Parsed(q))
                 /\ \A k \in 1 .. Len(h) : h[k] \in 1 .. Len(q) /\ q[h[k]] # 0
                                           /\ Parsed(q)[k] = q[h[k]]
                 /\ \A k, l \in 1 .. Len(h) : k < l => h[k] < h[l]
                 /\ \A i \in 1 .. Len(q) : q[i] # 0 => \E k \in 1 .. Len(h) : h[k] = i
  <1> DEFINE D == {i \in DOMAIN q : q[i] # 0}
             p == Subsequence(q, D)
  <1>1. DOMAIN q = 1 .. Len(q) BY LenProperties
  <1>2. Parsed(q) = p BY DEF Parsed
  <1>3. \A i : i \in D <=> i \in 1 .. Len(q) /\ q[i] # 0 BY <1>1
  <1> HIDE DEF D
  <1>4. p \in Seq(S) /\ \E h \in Seq(Nat) : Lists(h, p, q, D, Len(q))
    BY SubsequenceLists
  <1> HIDE DEF p
  <1>5. PICK h \in Seq(Nat) : Lists(h, p, q, D, Len(q)) BY <1>4
  <1>6. /\ Len(h) = Len(p)
        /\ \A k \in 1 .. Len(h) : h[k] \in 1 .. Len(q) /\ h[k] \in D /\ p[k] = q[h[k]]
        /\ \A k, l \in 1 .. Len(h) : k < l => h[k] < h[l]
        /\ \A i \in 1 .. Len(q) : i \in D => \E k \in 1 .. Len(h) : h[k] = i
    BY <1>5 DEF Lists
  <1>7. \A k \in 1 .. Len(h) : q[h[k]] # 0 BY <1>3, <1>6
  <1>8. \A i \in 1 .. Len(q) : q[i] # 0 => \E k \in 1 .. Len(h) : h[k] = i BY <1>3, <1>6
  <1> QED BY <1>2, <1>4, <1>6, <1>7, <1>8

LEMMA CoversParsed ==
    ASSUME NEW q \in Seq(Nat), NEW G, NEW lo \in Nat \ {0}, NEW hi \in Nat,
           Covers(q, G, lo, hi)
    PROVE  Covers(Parsed(q), G, lo, hi) /\ \A k \in 1 .. Len(Parsed(q)) : Parsed(q)[k] # 0
  <1> DEFINE p == Parsed(q)
  <1>1. PICK h \in Seq(Nat) :
          /\ Len(h) = Len(p)
          /\ \A k \in 1 .. Len(h) : h[k] \in 1 .. Len(q) /\ q[h[k]] # 0 /\ p[k] = q[h[k]]
          /\ \A k, l \in 1 .. Len(h) : k < l => h[k] < h[l]
          /\ \A i \in 1 .. Len(q) : q[i] # 0 => \E k \in 1 .. Len(h) : h[k] = i
    BY ParsedLines
  <1> HIDE DEF p
  <1>2. \A k \in 1 .. Len(p) : h[k] \in 1 .. Len(q) /\ p[k] = q[h[k]] /\ p[k] # 0 BY <1>1
  <1>3. \A k \in 1 .. Len(p) : lo <= p[k] /\ p[k] < hi BY <1>2 DEF Covers
  <1>4. ASSUME NEW k \in 1 .. Len(p), NEW l \in 1 .. Len(p), k < l PROVE p[k] < p[l]
    <2>1. h[k] < h[l] /\ h[k] \in 1 .. Len(q) /\ h[l] \in 1 .. Len(q) BY <1>1, <1>4
    <2>2. q[h[k]] < q[h[l]] BY <1>2, <2>1 DEF Covers
    <2> QED BY <1>2, <2>2
  <1>5. ASSUME NEW m \in lo .. hi - 1, m \notin G PROVE \E k \in 1 .. Len(p) : p[k] = m
    <2>1. PICK i \in 1 .. Len(q) : q[i] = m BY <1>5 DEF Covers
    <2>2. m # 0 BY <1>5
    <2>3. PICK k \in 1 .. Len(h) : h[k] = i BY <1>1, <2>1, <2>2
    <2> QED BY <1>1, <2>1, <2>3
  <1>6. lo <= hi BY DEF Covers
  <1>7. Covers(p, G, lo, hi) BY <1>3, <1>4, <1>5, <1>6 DEF Covers
  <1> QED BY <1>2, <1>7 DEF p

\* Lines that cover a stretch follow each other, but for those in G.
LEMMA CoversUnbroken ==
    ASSUME NEW p \in Seq(Nat), NEW G, NEW lo \in Nat, NEW hi \in Nat, Covers(p, G, lo, hi),
           \A k \in 1 .. Len(p) : p[k] # 0, NEW k \in 1 .. Len(p) - 1
    PROVE  p[k] < p[k + 1] /\ p[k] + 1 .. p[k + 1] - 1 \subseteq G
  <1>1. Len(p) \in Nat BY LenProperties
  <1>2. k \in 1 .. Len(p) /\ k + 1 \in 1 .. Len(p) /\ k < k + 1 BY <1>1
  <1>3. \A l \in 1 .. Len(p) : p[l] \in Nat BY ElementOfSeq
  <1>4. p[k] < p[k + 1] BY <1>2 DEF Covers
  <1>5. ASSUME NEW m \in p[k] + 1 .. p[k + 1] - 1, m \notin G PROVE FALSE
    <2>1. lo <= p[k] /\ p[k + 1] < hi BY <1>2 DEF Covers
    <2>2. p[k] \in Nat /\ p[k + 1] \in Nat BY <1>2, <1>3
    <2>3. m \in lo .. hi - 1 /\ p[k] < m /\ m < p[k + 1] BY <2>1, <2>2
    <2>4. PICK l \in 1 .. Len(p) : p[l] = m BY <1>5, <2>3 DEF Covers
    <2>5. l < k \/ l = k \/ l = k + 1 \/ k + 1 < l BY <1>1
    <2>6. CASE l < k
      <3>1. p[l] < p[k] BY <1>2, <2>6 DEF Covers
      <3> QED BY <1>3, <2>2, <2>3, <2>4, <3>1
    <2>7. CASE k + 1 < l
      <3>1. p[k + 1] < p[l] BY <1>2, <2>7 DEF Covers
      <3> QED BY <1>3, <2>2, <2>3, <2>4, <3>1
    <2> QED BY <2>2, <2>3, <2>4, <2>5, <2>6, <2>7
  <1> QED BY <1>4, <1>5

----------------------------------------------------------------------------
\* The types of the logs and the ranges, tighter than Log and Range_; a stream
\* has one range at most from the same line, which it reads backwards from.
Entry == 0 .. MaxEntries
Lines == [entries : Seq(Entry), hasLoadedTop : BOOLEAN]
Reads == [stream : Streams, cursor : 1 .. MaxEntries, next : 0 .. MaxEntries,
          items : Seq(Entry)]

OncePerCursor(R) ==
    \A r1, r2 \in R : r1.stream = r2.stream /\ r1.cursor = r2.cursor => r1 = r2

GoodRanges(R) ==
    /\ R \subseteq Reads
    /\ \A r \in R : r.next < r.cursor
    /\ OncePerCursor(R)

Good(w) ==
    /\ w \in [logs : [Streams -> Lines \cup {None}], ranges : {w.ranges}, page : Page]
    /\ GoodRanges(w.ranges)

\* The range the page asks for above the entries E of s.
Above(E, s) == {r \in Reads : /\ r.stream = s /\ E # <<>> /\ E[1] # 0 /\ r.cursor = E[1]
                              /\ r.next = E[1] - 1 /\ r.items = <<>>}

\* v is w after a callback about s, which leaves the entries E in its log.
After(v, w, s, E) ==
    /\ Good(v)
    /\ \A t \in Streams : t # s => v.logs[t] = w.logs[t]
    /\ logOf(v, s).entries = E
    /\ v.ranges \subseteq w.ranges \cup Above(E, s)

LEMMA LinesAreLogs == Lines \subseteq Log /\ None \notin Lines /\ EmptyLog \in Lines
  <1>1. Entry \subseteq Nat BY ConstantsAssumption DEF Entry
  <1>2. \A q \in Seq(Entry) : q \in Seq(Nat) BY <1>1, SeqMonotonic
  <1>3. Lines \subseteq Log BY <1>2 DEF Lines, Log
  <1>4. <<>> \in Seq(Entry) BY EmptySeq
  <1>5. EmptyLog \in Lines BY <1>4 DEF EmptyLog, Lines
  <1> QED BY <1>3, <1>5, NoneAssumption

LEMMA LogOfTyped ==
    ASSUME NEW w, Good(w), NEW s \in Streams
    PROVE  /\ logOf(w, s) \in Lines /\ logOf(w, s).entries \in Seq(Entry)
           /\ logOf(w, s).entries # <<>> => w.logs[s] # None
  <1>1. w.logs[s] \in Lines \cup {None} BY DEF Good
  <1>2. logOf(w, s) \in Lines BY <1>1, LinesAreLogs DEF logOf
  <1>3. logOf(w, s).entries \in Seq(Entry) BY <1>2 DEF Lines
  <1> QED BY <1>2, <1>3 DEF logOf, EmptyLog

LEMMA FetchRangeAfter ==
    ASSUME NEW w, Good(w), NEW s \in Streams
    PROVE  After(fetchRange(w, s), w, s, logOf(w, s).entries) /\ fetchRange(w, s).logs = w.logs
  <1> DEFINE E == logOf(w, s).entries
             same == {r \in w.ranges : r.stream = s /\ r.cursor = E[1]}
             new == [stream |-> s, cursor |-> E[1], next |-> E[1] - 1, items |-> <<>>]
             R == (w.ranges \ same) \cup {new}
  <1>1. fetchRange(w, s) = w \/ (E # <<>> /\ E[1] # 0 /\ fetchRange(w, s) = [w EXCEPT !.ranges = R])
    BY DEF fetchRange
  <1>2. E \in Seq(Entry) BY LogOfTyped
  <1>3. CASE fetchRange(w, s) = w
    BY <1>3 DEF After
  <1>4. CASE E # <<>> /\ E[1] # 0 /\ fetchRange(w, s) = [w EXCEPT !.ranges = R]
    <2>1. Len(E) \in Nat \ {0} BY <1>2, <1>4, EmptySeq
    <2>2. 1 \in 1 .. Len(E) BY <2>1
    <2>3. E[1] \in Entry BY <1>2, <2>2, ElementOfSeq
    <2>4. E[1] \in 1 .. MaxEntries /\ E[1] - 1 \in 0 .. MaxEntries /\ E[1] - 1 < E[1]
      BY <1>4, <2>3, ConstantsAssumption DEF Entry
    <2>5. <<>> \in Seq(Entry) BY EmptySeq
    <2>6. new \in Reads BY <2>4, <2>5 DEF Reads
    <2>7. new \in Above(E, s) BY <1>4, <2>6 DEF Above
    <2>8. GoodRanges(R)
      <3>1. R \subseteq Reads BY <2>6 DEF Good, GoodRanges
      <3>2. \A r \in R : r.next < r.cursor BY <2>4 DEF Good, GoodRanges
      <3>3. \A r \in w.ranges \ same : ~ (r.stream = new.stream /\ r.cursor = new.cursor)
        OBVIOUS
      <3>4. \A r1, r2 \in w.ranges : r1.stream = r2.stream /\ r1.cursor = r2.cursor => r1 = r2
        BY DEF Good, GoodRanges, OncePerCursor
      <3> HIDE DEF new, same
      <3>5. OncePerCursor(R) BY <3>3, <3>4 DEF OncePerCursor
      <3> QED BY <3>1, <3>2, <3>5 DEF GoodRanges
    <2>9. R \subseteq w.ranges \cup Above(E, s) BY <2>7
    <2> HIDE DEF R
    <2> DEFINE v == [w EXCEPT !.ranges = R]
    <2>10. v.ranges = R /\ v.logs = w.logs /\ Good(v) BY <2>8 DEF Good
    <2>11. logOf(v, s).entries = E BY <2>10 DEF logOf
    <2> HIDE DEF v
    <2>12. After(v, w, s, E) BY <2>9, <2>10, <2>11 DEF After
    <2> QED BY <1>4, <2>10, <2>12 DEF v
  <1> QED BY <1>1, <1>3, <1>4

\* Steps of the page that ask for nothing.
LEMMA SameButPage ==
    ASSUME NEW w, Good(w), NEW p \in Page, NEW s \in Streams
    PROVE  After([w EXCEPT !.page = p], w, s, logOf(w, s).entries)
  <1> DEFINE v == [w EXCEPT !.page = p]
  <1>1. v.ranges = w.ranges /\ v.logs = w.logs /\ Good(v) BY DEF Good
  <1>2. logOf(v, s).entries = logOf(w, s).entries BY <1>1 DEF logOf
  <1> HIDE DEF v
  <1>3. After(v, w, s, logOf(w, s).entries) BY <1>1, <1>2 DEF After
  <1> QED BY <1>3 DEF v

LEMMA AfterAfter ==
    ASSUME NEW u, NEW v, NEW w, NEW s \in Streams, NEW E,
           After(v, w, s, E), After(u, v, s, E)
    PROVE  After(u, w, s, E)
  BY DEF After

LEMMA FetchPreviousAfter ==
    ASSUME NEW w, Good(w), NEW s \in Streams
    PROVE  /\ After(handleFetchPreviousLog(w, s), w, s, logOf(w, s).entries)
           /\ handleFetchPreviousLog(w, s).logs = w.logs
  <1> DEFINE E == logOf(w, s).entries
             waiting == [w EXCEPT !.page.isFetchingPrevious = TRUE]
             p == [w.page EXCEPT !.isFetchingPrevious = TRUE]
  <1>1. w.page \in Page BY DEF Good
  <1>2. waiting = [w EXCEPT !.page = p] /\ waiting.logs = w.logs BY DEF Good
  <1>3. p \in Page BY <1>1 DEF Page
  <1> HIDE DEF waiting
  <1>4. After(waiting, w, s, E) BY <1>2, <1>3, SameButPage
  <1>5. Good(waiting) /\ logOf(waiting, s).entries = E BY <1>4 DEF After
  <1>6. After(fetchRange(waiting, s), waiting, s, E) /\ fetchRange(waiting, s).logs = waiting.logs
    BY <1>5, FetchRangeAfter
  <1>7. After(fetchRange(waiting, s), w, s, E) BY <1>4, <1>6, AfterAfter
  <1>8. After(w, w, s, E) BY DEF After
  <1> QED BY <1>2, <1>6, <1>7, <1>8 DEF handleFetchPreviousLog, waiting

LEMMA HearsAfter ==
    ASSUME NEW w, Good(w), NEW s \in Streams, NEW direction
    PROVE  After(PageHears(w, s, direction), w, s, logOf(w, s).entries)
  <1> DEFINE E == logOf(w, s).entries
             fetched == IF w.page.isLoading THEN handleFetchPreviousLog(w, s) ELSE w
             p == [fetched.page EXCEPT !.hasError = FALSE, !.isLoading = FALSE,
                     !.isFetchingPrevious = @ /\ direction # "PREPEND"]
             heard == [fetched EXCEPT !.page.hasError = FALSE, !.page.isLoading = FALSE,
                         !.page.isFetchingPrevious = @ /\ direction # "PREPEND"]
  <1>1. After(w, w, s, E) BY DEF After
  <1>2. After(fetched, w, s, E) BY <1>1, FetchPreviousAfter
  <1> HIDE DEF fetched
  <1>3. Good(fetched) /\ logOf(fetched, s).entries = E BY <1>2 DEF After
  <1>4. fetched.page \in Page BY <1>3 DEF Good
  <1>5. heard = [fetched EXCEPT !.page = p] BY <1>3 DEF Good, Page
  <1>6. p \in Page BY <1>4 DEF Page
  <1> HIDE DEF p
  <1>7. After([fetched EXCEPT !.page = p], fetched, s, E) BY <1>3, <1>6, SameButPage
  <1>8. After(heard, w, s, E) BY <1>2, <1>5, <1>7, AfterAfter
  <1>9. PageHears(w, s, direction) = IF ~ Shown(w, s) THEN w ELSE heard
    BY DEF PageHears, fetched
  <1> QED BY <1>1, <1>8, <1>9

\* A log is put in place of another.
LEMMA LogPut ==
    ASSUME NEW w, Good(w), NEW s \in Streams, NEW l \in Lines
    PROVE  /\ Good([w EXCEPT !.logs[s] = l])
           /\ After([w EXCEPT !.logs[s] = l], w, s, l.entries)
           /\ [w EXCEPT !.logs[s] = l].ranges = w.ranges
  <1> DEFINE v == [w EXCEPT !.logs[s] = l]
             L == [w.logs EXCEPT ![s] = l]
  <1>1. L \in [Streams -> Lines \cup {None}] /\ L[s] = l
        /\ \A t \in Streams : t # s => L[t] = w.logs[t]
    BY DEF Good
  <1>2. v.logs = L /\ v.ranges = w.ranges /\ v.page = w.page
        /\ v \in [logs : {L}, ranges : {w.ranges}, page : {w.page}]
    BY DEF Good
  <1> HIDE DEF L, v
  <1>3. w.page \in Page /\ GoodRanges(w.ranges) BY DEF Good
  <1>4. Good(v) BY <1>1, <1>2, <1>3 DEF Good
  <1>5. l # None BY LinesAreLogs
  <1>6. logOf(v, s).entries = l.entries BY <1>1, <1>2, <1>5 DEF logOf
  <1>7. After(v, w, s, l.entries) BY <1>1, <1>2, <1>4, <1>6 DEF After
  <1> QED BY <1>2, <1>4, <1>7 DEF v

LEMMA AppendAfter ==
    ASSUME NEW w, Good(w), NEW s \in Streams, NEW entries \in Seq(Entry)
    PROVE  After(processLogAppend(w, s, entries), w, s, logOf(w, s).entries \o entries)
  <1> DEFINE E == logOf(w, s).entries
             l == [logOf(w, s) EXCEPT !.entries = @ \o entries]
             v == [w EXCEPT !.logs[s] = l]
  <1>1. logOf(w, s) \in Lines /\ E \in Seq(Entry) BY LogOfTyped
  <1>2. E \o entries \in Seq(Entry) BY <1>1, ConcatProperties
  <1>3. l \in Lines /\ l.entries = E \o entries BY <1>1, <1>2 DEF Lines
  <1>4. processLogAppend(w, s, entries) = PageHears(v, s, "APPEND") BY DEF processLogAppend
  <1> HIDE DEF l
  <1>5. Good(v) /\ After(v, w, s, E \o entries) BY <1>3, LogPut
  <1> HIDE DEF v
  <1>6. logOf(v, s).entries = E \o entries BY <1>5 DEF After
  <1>7. After(PageHears(v, s, "APPEND"), v, s, E \o entries) BY <1>5, <1>6, HearsAfter
  <1> QED BY <1>4, <1>5, <1>7, AfterAfter

LEMMA PrependAfter ==
    ASSUME NEW w, Good(w), NEW s \in Streams, NEW first \in BOOLEAN,
           NEW entries \in Seq(Entry)
    PROVE  After(processLogPrepend(w, s, first, entries), w, s, entries \o logOf(w, s).entries)
  <1> DEFINE E == logOf(w, s).entries
             l == [entries |-> entries \o E, hasLoadedTop |-> first]
             v == [w EXCEPT !.logs[s] = l]
  <1>1. E \in Seq(Entry) BY LogOfTyped
  <1>2. entries \o E \in Seq(Entry) BY <1>1, ConcatProperties
  <1>3. l \in Lines /\ l.entries = entries \o E BY <1>1, <1>2 DEF Lines
  <1>4. processLogPrepend(w, s, first, entries) = PageHears(v, s, "PREPEND")
    BY DEF processLogPrepend
  <1> HIDE DEF l
  <1>5. Good(v) /\ After(v, w, s, entries \o E) BY <1>3, LogPut
  <1> HIDE DEF v
  <1>6. logOf(v, s).entries = entries \o E BY <1>5 DEF After
  <1>7. After(PageHears(v, s, "PREPEND"), v, s, entries \o E) BY <1>5, <1>6, HearsAfter
  <1> QED BY <1>4, <1>5, <1>7, AfterAfter

LEMMA ErrorAfter ==
    ASSUME NEW w, Good(w), NEW s \in Streams, NEW direction
    PROVE  /\ After(processError(w, s, direction), w, s, logOf(w, s).entries)
           /\ processError(w, s, direction).ranges = w.ranges
  <1> DEFINE E == logOf(w, s).entries
             l == logOf(w, s)
             v == [w EXCEPT !.logs[s] = l]
             p == [v.page EXCEPT !.hasError = TRUE, !.isLoading = FALSE,
                     !.isFetchingPrevious = @ /\ direction # "PREPEND"]
             heard == [v EXCEPT !.page.hasError = TRUE, !.page.isLoading = FALSE,
                         !.page.isFetchingPrevious = @ /\ direction # "PREPEND"]
  <1>1. l \in Lines BY LogOfTyped
  <1>2. processError(w, s, direction) = IF ~ Shown(v, s) THEN v ELSE heard
    BY DEF processError, PageHearsError
  <1>3. Good(v) /\ After(v, w, s, E) /\ v.ranges = w.ranges BY <1>1, LogPut
  <1> HIDE DEF v
  <1>4. logOf(v, s).entries = E BY <1>3 DEF After
  <1>5. v.page \in Page BY <1>3 DEF Good
  <1>6. heard = [v EXCEPT !.page = p] /\ heard.ranges = v.ranges BY <1>3 DEF Good, Page
  <1>7. p \in Page BY <1>5 DEF Page
  <1> HIDE DEF p
  <1>8. After([v EXCEPT !.page = p], v, s, E) BY <1>3, <1>4, <1>7, SameButPage
  <1>9. After(heard, w, s, E) BY <1>3, <1>6, <1>8, AfterAfter
  <1> QED BY <1>2, <1>3, <1>6, <1>9

LEMMA ListenerAfter ==
    ASSUME NEW w, Good(w), NEW s \in Streams, NEW events \in Seq(Entry)
    PROVE  After(messageListener(w, s, events), w, s, logOf(w, s).entries \o Parsed(events))
  <1> DEFINE E == logOf(w, s).entries
             parsed == Parsed(events)
             reported == IF Len(parsed) < Len(events) THEN processError(w, s, "APPEND") ELSE w
  <1>1. parsed \in Seq(Entry) BY ParsedLines
  <1>2. E \in Seq(Entry) BY LogOfTyped
  <1>3. After(w, w, s, E) BY DEF After
  <1>4. After(reported, w, s, E) /\ reported.ranges = w.ranges BY <1>3, ErrorAfter
  <1>5. messageListener(w, s, events) =
          IF parsed = <<>> THEN reported ELSE processLogAppend(reported, s, parsed)
    BY DEF messageListener
  <1> HIDE DEF parsed, reported
  <1>6. Good(reported) /\ logOf(reported, s).entries = E BY <1>4 DEF After
  <1>7. After(processLogAppend(reported, s, parsed), reported, s, E \o parsed)
    BY <1>1, <1>6, AppendAfter
  <1>8. After(processLogAppend(reported, s, parsed), w, s, E \o parsed)
    BY <1>4, <1>7 DEF After
  <1>9. E \o <<>> = E BY <1>2, ConcatEmptySeq
  <1> QED BY <1>4, <1>5, <1>8, <1>9 DEF parsed

----------------------------------------------------------------------------
\* The ranges asked for above the entries E of s: what they have read so far
\* joins E on.
RangesFit(R, s, E, G) ==
    \A r \in R : r.stream = s =>
        /\ E # <<>> /\ r.cursor = E[1]
        /\ Covers(r.items, G, r.next + 1, r.cursor)

\* What the throttle holds joins the entries shown on, which reach back to the
\* first line of the tail at least.
LogFits(E, held, G, first, next) ==
    \E lo \in 1 .. first, mid \in 1 .. next : Covers(E, G, lo, mid) /\ Covers(held, G, mid, next)

FitsTail(w, tail, G) ==
    /\ RangesFit(w.ranges, tail.stream, logOf(w, tail.stream).entries, G)
    /\ LogFits(logOf(w, tail.stream).entries, tail.held, G, tail.first, tail.next)

Tails == [stream : Streams, open : BOOLEAN, first : 1 .. MaxEntries,
          next : 1 .. MaxEntries + 1, timer : BOOLEAN, held : Seq(Entry), notice : BOOLEAN]

Places == Streams \X (1 .. MaxEntries)

Typed ==
    /\ journal \in [Streams -> 1 .. MaxEntries]
    /\ tails \in Seq(Tails) /\ Len(tails) <= MaxTails
    /\ Good(Now)
    /\ mounts \in 0 .. MaxMounts /\ asked \in 0 .. mounts
    /\ garbled \subseteq Places

\* The throttle holds entries while its timer runs only.
HeldIsTimed == \A i \in DOMAIN tails : tails[i].held # <<>> => tails[i].timer

\* A stream that was never tailed has no log and no range.
Untailed ==
    \A s \in Streams : (\A i \in DOMAIN tails : tails[i].stream # s) =>
        logs[s] = None /\ \A r \in ranges : r.stream # s

\* Lines of s that did not parse, of those in g.
Lost(g, s) == {n \in 1 .. MaxEntries : <<s, n>> \in g}

Fit == \A i \in DOMAIN tails :
    OnlyTail(i) => FitsTail(Now, tails[i], Lost(garbled, tails[i].stream))

LogInv == Typed /\ HeldIsTimed /\ Untailed /\ Fit

LEMMA RangesStillFit ==
    ASSUME NEW R, NEW T, NEW s, NEW E, NEW F, NEW G, NEW H,
           RangesFit(R, s, E, G), R \subseteq Reads, T \subseteq R \cup Above(F, s), G \subseteq H,
           E # <<>> => F # <<>> /\ F[1] = E[1]
    PROVE  RangesFit(T, s, F, H)
  <1> SUFFICES ASSUME NEW r \in T, r.stream = s
               PROVE  F # <<>> /\ r.cursor = F[1] /\ Covers(r.items, H, r.next + 1, r.cursor)
    BY DEF RangesFit
  <1>1. CASE r \in R
    <2>1. E # <<>> /\ r.cursor = E[1] /\ Covers(r.items, G, r.next + 1, r.cursor)
      BY <1>1 DEF RangesFit
    <2>2. r.next + 1 \in Nat /\ r.cursor \in Nat BY <1>1, ConstantsAssumption DEF Reads
    <2> QED BY <2>1, <2>2, CoversMore
  <1>2. CASE r \in Above(F, s)
    <2>1. /\ F # <<>> /\ r.cursor = F[1] /\ r.next = F[1] - 1 /\ r.items = <<>>
          /\ r.cursor \in 1 .. MaxEntries
      BY <1>2 DEF Above, Reads
    <2>2. r.next + 1 = r.cursor /\ r.cursor \in Nat BY <2>1, ConstantsAssumption
    <2> QED BY <2>1, <2>2, CoversNothing
  <1> QED BY <1>1, <1>2

LEMMA FitsMore ==
    ASSUME NEW v, NEW w, NEW tail \in Tails, NEW G, NEW H, v.ranges \subseteq Reads,
           FitsTail(v, tail, G), G \subseteq H, v.logs[tail.stream] = w.logs[tail.stream],
           \A r \in w.ranges : r.stream = tail.stream => r \in v.ranges
    PROVE  FitsTail(w, tail, H)
  <1> DEFINE s == tail.stream
             E == logOf(v, s).entries
  <1>1. logOf(w, s).entries = E BY DEF logOf
  <1>2. RangesFit(v.ranges, s, E, G) BY DEF FitsTail
  <1>3. RangesFit(w.ranges, s, E, H)
    <2> DEFINE T == {r \in w.ranges : r.stream = s}
    <2>1. T \subseteq v.ranges \cup Above(E, s) OBVIOUS
    <2> HIDE DEF T
    <2>2. RangesFit(T, s, E, H) BY <1>2, <2>1, RangesStillFit
    <2> QED BY <2>2 DEF RangesFit, T
  <1>4. PICK lo \in 1 .. tail.first, mid \in 1 .. tail.next :
          Covers(E, G, lo, mid) /\ Covers(tail.held, G, mid, tail.next)
    BY DEF FitsTail, LogFits
  <1>5. tail.first \in Nat /\ tail.next \in Nat BY ConstantsAssumption DEF Tails
  <1>6. lo \in Nat /\ mid \in Nat BY <1>5
  <1>7. Covers(E, H, lo, mid) /\ Covers(tail.held, H, mid, tail.next)
    BY <1>4, <1>5, <1>6, CoversMore
  <1>8. LogFits(E, tail.held, H, tail.first, tail.next) BY <1>7 DEF LogFits
  <1> QED BY <1>1, <1>3, <1>8 DEF FitsTail

\* Entries that join the log on are put after it.
LEMMA AppendFits ==
    ASSUME NEW v, Good(v), NEW w, NEW tail \in Tails, NEW new \in Tails, NEW G, NEW H,
           NEW p \in Seq(Entry),
           FitsTail(v, tail, G), G \subseteq H,
           After(w, v, tail.stream, logOf(v, tail.stream).entries \o p),
           new.stream = tail.stream, new.first = tail.first,
           \A mid \in 1 .. tail.next : Covers(tail.held, H, mid, tail.next) =>
               \E m \in 1 .. new.next : Covers(p, H, mid, m) /\ Covers(new.held, H, m, new.next)
    PROVE  FitsTail(w, new, H)
  <1> DEFINE s == tail.stream
             E == logOf(v, s).entries
             F == E \o p
  <1>0. s \in Streams /\ tail.first \in Nat /\ tail.next \in Nat /\ new.next \in Nat
    BY ConstantsAssumption DEF Tails
  <1>1. E \in Seq(Entry) BY <1>0, LogOfTyped
  <1>2. Entry \subseteq Nat BY ConstantsAssumption DEF Entry
  <1>3. E \in Seq(Nat) /\ p \in Seq(Nat) BY <1>1, <1>2, SeqMonotonic
  <1>4. E # <<>> => F # <<>> /\ F[1] = E[1]
    <2> SUFFICES ASSUME E # <<>> PROVE F # <<>> /\ F[1] = E[1] OBVIOUS
    <2>1. Len(E) \in Nat \ {0} BY <1>1, EmptySeq
    <2>2. Len(p) \in Nat BY LenProperties
    <2>3. Len(F) = Len(E) + Len(p) /\ F[1] = E[1] BY <1>1, <2>1, <2>2, ConcatProperties
    <2>4. Len(F) # 0 BY <2>1, <2>2, <2>3
    <2> HIDE DEF E, F
    <2> QED BY <2>3, <2>4, EmptySeq
  <1> HIDE DEF E
  <1>5. logOf(w, s).entries = F /\ w.ranges \subseteq v.ranges \cup Above(F, s)
    BY DEF After, E
  <1> HIDE DEF F
  <1>6. RangesFit(w.ranges, s, F, H)
    <2>1. v.ranges \subseteq Reads BY DEF Good, GoodRanges
    <2>2. RangesFit(v.ranges, s, E, G) BY DEF FitsTail, E
    <2> QED BY <1>4, <1>5, <2>1, <2>2, RangesStillFit
  <1>7. PICK lo \in 1 .. tail.first, mid \in 1 .. tail.next :
          Covers(E, G, lo, mid) /\ Covers(tail.held, G, mid, tail.next)
    BY DEF FitsTail, LogFits, E
  <1>8. lo \in Nat /\ mid \in Nat BY <1>0
  <1>9. Covers(E, H, lo, mid) /\ Covers(tail.held, H, mid, tail.next)
    BY <1>0, <1>7, <1>8, CoversMore
  <1>10. PICK m \in 1 .. new.next : Covers(p, H, mid, m) /\ Covers(new.held, H, m, new.next)
    BY <1>9
  <1>11. m \in Nat BY <1>0
  <1>12. Covers(F, H, lo, m) BY <1>3, <1>8, <1>9, <1>10, <1>11, CoversConcat DEF F
  <1>13. LogFits(F, new.held, H, new.first, new.next) BY <1>10, <1>12 DEF LogFits
  <1> QED BY <1>5, <1>6, <1>13 DEF FitsTail

\* Nothing is put in the log.
LEMMA SameFits ==
    ASSUME NEW v, Good(v), NEW w, NEW tail \in Tails, NEW new \in Tails, NEW G, NEW H,
           FitsTail(v, tail, G), G \subseteq H,
           After(w, v, tail.stream, logOf(v, tail.stream).entries),
           new.stream = tail.stream, new.first = tail.first,
           new.next = tail.next, new.held = tail.held
    PROVE  FitsTail(w, new, H)
  <1> DEFINE E == logOf(v, tail.stream).entries
  <1>0. tail.stream \in Streams /\ tail.next \in Nat BY ConstantsAssumption DEF Tails
  <1>1. E \in Seq(Entry) BY <1>0, LogOfTyped
  <1>2. E \o <<>> = E /\ <<>> \in Seq(Entry) BY <1>1, ConcatEmptySeq, EmptySeq
  <1>3. After(w, v, tail.stream, E \o <<>>) BY <1>2
  <1>4. \A mid \in 1 .. tail.next : Covers(tail.held, H, mid, tail.next) =>
          \E m \in 1 .. new.next : Covers(<<>>, H, mid, m) /\ Covers(new.held, H, m, new.next)
    <2> SUFFICES ASSUME NEW mid \in 1 .. tail.next, Covers(tail.held, H, mid, tail.next)
                 PROVE  Covers(<<>>, H, mid, mid)
      OBVIOUS
    <2>1. mid \in Nat BY <1>0
    <2> QED BY <2>1, CoversNothing
  <1> HIDE DEF E
  <1> QED BY <1>2, <1>3, <1>4, AppendFits DEF E

\* A range is put before the log it was asked for above.
LEMMA PrependFits ==
    ASSUME NEW v, Good(v), NEW w, NEW tail \in Tails, NEW G, NEW r \in v.ranges,
           FitsTail(v, tail, G), r.stream = tail.stream,
           After(w, [v EXCEPT !.ranges = @ \ {r}], tail.stream,
                 r.items \o logOf(v, tail.stream).entries)
    PROVE  FitsTail(w, tail, G)
  <1> DEFINE s == tail.stream
             E == logOf(v, s).entries
             F == r.items \o E
             R == v.ranges \ {r}
  <1>0. s \in Streams /\ tail.first \in Nat /\ tail.next \in Nat
    BY ConstantsAssumption DEF Tails
  <1>1. E \in Seq(Entry) BY <1>0, LogOfTyped
  <1>2. Entry \subseteq Nat BY ConstantsAssumption DEF Entry
  <1>3. r \in Reads /\ r.next < r.cursor BY DEF Good, GoodRanges
  <1>4. /\ r.items \in Seq(Entry) /\ r.cursor \in Nat /\ r.cursor # 0
        /\ r.next \in Nat /\ r.next + 1 \in Nat /\ r.next + 1 # 0 /\ r.next + 1 <= r.cursor
    BY <1>3, ConstantsAssumption DEF Reads
  <1>5. E \in Seq(Nat) /\ r.items \in Seq(Nat) BY <1>1, <1>2, <1>4, SeqMonotonic
  <1>6. E # <<>> /\ r.cursor = E[1] /\ Covers(r.items, G, r.next + 1, r.cursor)
    BY DEF FitsTail, RangesFit
  <1>7. PICK lo \in 1 .. tail.first, mid \in 1 .. tail.next :
          Covers(E, G, lo, mid) /\ Covers(tail.held, G, mid, tail.next)
    BY DEF FitsTail, LogFits
  <1>8. lo \in Nat \ {0} /\ mid \in Nat BY <1>0
  <1>9. \A r1 \in R : r1.stream # s
    <2>1. RangesFit(v.ranges, s, E, G) BY DEF FitsTail
    <2>2. \A r1 \in v.ranges : r1.stream = s => r1.cursor = r.cursor
      BY <1>6, <2>1 DEF RangesFit
    <2>3. OncePerCursor(v.ranges) BY DEF Good, GoodRanges
    <2> QED BY <2>2, <2>3 DEF OncePerCursor
  <1>10. logOf(w, s).entries = F /\ w.ranges \subseteq R \cup Above(F, s)
    <2>1. [v EXCEPT !.ranges = @ \ {r}].ranges = R BY DEF Good
    <2> QED BY <2>1 DEF After
  <1> HIDE DEF E, F
  <1>11. RangesFit(w.ranges, s, F, G)
    <2>1. RangesFit(R, s, <<>>, G) BY <1>9 DEF RangesFit
    <2>2. R \subseteq Reads BY DEF Good, GoodRanges
    <2> HIDE DEF R
    <2> QED BY <1>10, <2>1, <2>2, RangesStillFit
  <1>12. lo <= E[1] /\ Covers(E, G, E[1], mid) /\ \A m \in lo .. E[1] - 1 : m \in G
    BY <1>4, <1>5, <1>6, <1>7, <1>8, CoversFromHead
  <1>13. Covers(F, G, r.next + 1, mid)
    BY <1>4, <1>5, <1>6, <1>8, <1>12, CoversConcat DEF F
  <1>14. \E m \in 1 .. tail.first : Covers(F, G, m, mid)
    <2>1. CASE r.next + 1 <= lo
      <3>1. r.next + 1 \in 1 .. tail.first BY <1>0, <1>4, <1>8, <2>1
      <3> QED BY <1>13, <3>1
    <2>2. CASE lo <= r.next + 1
      <3> DEFINE c == r.next + 1
      <3>1. c \in Nat /\ lo <= c /\ c <= E[1] /\ E[1] \in Nat BY <1>4, <1>6, <2>2
      <3>2. Covers(F, G, c, mid) BY <1>13
      <3> HIDE DEF c
      <3>3. \A m \in lo .. c - 1 : m \in G BY <1>8, <1>12, <3>1
      <3>4. F \in Seq(Nat) BY <1>5, ConcatProperties DEF F
      <3>5. Covers(F, G, lo, mid) BY <1>8, <3>1, <3>2, <3>3, <3>4, CoversFromBefore
      <3> QED BY <3>5
    <2> QED BY <1>4, <1>8, <2>1, <2>2
  <1>15. LogFits(F, tail.held, G, tail.first, tail.next) BY <1>7, <1>14 DEF LogFits
  <1> QED BY <1>10, <1>11, <1>15 DEF FitsTail

\* A callback about the stream s, which was tailed, or else has nothing.
Callback(w, s) ==
    /\ Good(w) /\ SameView(w, Now) /\ Becomes(w)
    /\ \A t \in Streams : t # s => w.logs[t] = logs[t]
    /\ \A r \in w.ranges : r.stream # s => r \in ranges
    /\ \/ \E i \in DOMAIN tails : tails[i].stream = s
       \/ w.logs = logs /\ w.ranges \subseteq ranges
    /\ UNCHANGED <<journal, asked, mounts>>
    /\ garbled \subseteq garbled' /\ garbled' \subseteq Places

\* It changes at most tails of s, which stay tails of s.
SameTails(s) ==
    /\ tails' \in Seq(Tails) /\ Len(tails') = Len(tails)
    /\ \A j \in DOMAIN tails : /\ tails'[j].stream = tails[j].stream
                               /\ tails[j].stream # s => tails'[j] = tails[j]
                               /\ tails'[j].held # <<>> => tails'[j].timer

LEMMA NowAfter == ASSUME NEW w, Good(w), Becomes(w) PROVE Now' = w /\ Good(Now)'
  <1>1. w = [logs |-> w.logs, ranges |-> w.ranges, page |-> w.page] BY DEF Good
  <1>2. Now' = [logs |-> logs', ranges |-> ranges', page |-> page'] BY DEF Now
  <1>3. Now' = w BY <1>1, <1>2 DEF Becomes
  <1>4. Good(Now') BY <1>3
  <1> QED BY <1>3, <1>4

LEMMA CallbackKeeps ==
    ASSUME LogInv, NEW w, NEW s \in Streams, Callback(w, s), SameTails(s),
           \A i \in DOMAIN tails : tails[i].stream = s /\ OnlyTail(i) =>
               FitsTail(w, tails'[i], Lost(garbled', s))
    PROVE  LogInv'
  <1>1. /\ Now' = w /\ Good(Now') /\ Good(Now)
        /\ page'.mounted = page.mounted /\ page'.subscriptionID = page.subscriptionID
    <2>1. Now' = w /\ Good(Now)' BY NowAfter DEF Callback
    <2>2. page' = w.page BY DEF Callback, Becomes
    <2>3. Now.page = page BY DEF Now
    <2> QED BY <2>1, <2>2, <2>3 DEF Callback, SameView, LogInv, Typed
  <1>2. tails \in Seq(Tails) BY DEF LogInv, Typed
  <1>3. DOMAIN tails = 1 .. Len(tails) /\ DOMAIN tails' = DOMAIN tails
    BY <1>2, LenProperties DEF SameTails
  <1>4. Typed'
    BY <1>1 DEF LogInv, Typed, Callback, SameTails
  <1>5. HeldIsTimed' BY <1>3 DEF HeldIsTimed, SameTails
  <1>6. Untailed'
    <2> SUFFICES ASSUME NEW t \in Streams, \A i \in DOMAIN tails' : tails'[i].stream # t
                 PROVE  logs'[t] = None /\ \A r \in ranges' : r.stream # t
      BY DEF Untailed
    <2>1. \A i \in DOMAIN tails : tails[i].stream # t BY <1>3 DEF SameTails
    <2>2. logs[t] = None /\ \A r \in ranges : r.stream # t BY <2>1 DEF LogInv, Untailed
    <2>3. logs' = w.logs /\ ranges' = w.ranges BY DEF Callback, Becomes
    <2>4. CASE \E i \in DOMAIN tails : tails[i].stream = s
      <3>1. t # s BY <2>1, <2>4
      <3> QED BY <2>2, <2>3, <3>1 DEF Callback
    <2>5. CASE w.logs = logs /\ w.ranges \subseteq ranges BY <2>2, <2>3, <2>5
    <2> QED BY <2>4, <2>5 DEF Callback
  <1>7. Fit'
    <2> SUFFICES ASSUME NEW i \in DOMAIN tails', OnlyTail(i)'
                 PROVE  FitsTail(w, tails'[i], Lost(garbled', tails'[i].stream))
      BY <1>1 DEF Fit
    <2>1. i \in DOMAIN tails /\ tails'[i].stream = tails[i].stream BY <1>3 DEF SameTails
    <2>2. OnlyTail(i)
      BY <1>1, <1>3, <2>1 DEF OnlyTail, Shown, Now, SameTails
    <2>3. CASE tails[i].stream = s
      <3>1. tails'[i].stream = s BY <2>1, <2>3
      <3>2. FitsTail(w, tails'[i], Lost(garbled', s)) BY <2>1, <2>2, <2>3
      <3> QED BY <3>1, <3>2
    <2>4. CASE tails[i].stream # s
      <3> DEFINE tail == tails[i]
                 t == tail.stream
      <3>1. tails'[i] = tail BY <2>1, <2>4 DEF SameTails
      <3>2. tail \in Tails BY <1>2, <1>3, <2>1, ElementOfSeq
      <3>3. t \in Streams BY <3>2 DEF Tails
      <3>4. FitsTail(Now, tail, Lost(garbled, t)) BY <2>1, <2>2 DEF LogInv, Fit
      <3>5. Lost(garbled, t) \subseteq Lost(garbled', t) BY DEF Lost, Callback
      <3>6. Now.logs[t] = w.logs[t] BY <2>4, <3>3 DEF Callback, Now
      <3>7. \A r \in w.ranges : r.stream = t => r \in Now.ranges BY <2>4 DEF Callback, Now
      <3>8. Now.ranges \subseteq Reads BY <1>1 DEF Good, GoodRanges
      <3> HIDE DEF tail
      <3>9. FitsTail(w, tail, Lost(garbled', t)) BY <3>2, <3>4, <3>5, <3>6, <3>7, <3>8, FitsMore
      <3> QED BY <3>1, <3>9 DEF tail
    <2> QED BY <2>3, <2>4
  <1> QED BY <1>4, <1>5, <1>6, <1>7 DEF LogInv

LEMMA GoodWorld == ASSUME NEW w, Good(w) PROVE World(w)
  BY DEF Good, World

\* A callback of the tail i, which becomes tail.
LEMMA TailCallbackKeeps ==
    ASSUME LogInv, NEW i \in DOMAIN tails, NEW tail \in Tails, NEW w, NEW E,
           tail.stream = tails[i].stream, tail.held # <<>> => tail.timer,
           tails' = [tails EXCEPT ![i] = tail],
           After(w, Now, tail.stream, E), SameView(w, Now), Becomes(w),
           UNCHANGED <<journal, asked, mounts>>,
           garbled \subseteq garbled', garbled' \subseteq Places,
           OnlyTail(i) => FitsTail(w, tail, Lost(garbled', tail.stream))
    PROVE  LogInv'
  <1> DEFINE s == tail.stream
  <1>1. tails \in Seq(Tails) BY DEF LogInv, Typed
  <1>2. DOMAIN tails = 1 .. Len(tails) BY <1>1, LenProperties
  <1>3. s \in Streams BY DEF Tails
  <1>4. /\ tails' \in Seq(Tails) /\ Len(tails') = Len(tails)
        /\ \A j \in 1 .. Len(tails) : tails'[j] = IF j = i THEN tail ELSE tails[j]
    BY <1>1, <1>2, ExceptSeq
  <1>5. \A j \in DOMAIN tails : /\ tails'[j].stream = tails[j].stream
                                /\ tails[j].stream # s => tails'[j] = tails[j]
                                /\ tails'[j].held # <<>> => tails'[j].timer
    BY <1>2, <1>4 DEF LogInv, HeldIsTimed
  <1>6. SameTails(s) BY <1>4, <1>5 DEF SameTails
  <1>7. Callback(w, s)
    <2>1. \A r \in Above(E, s) : r.stream = s BY DEF Above
    <2>2. Good(w) BY DEF After
    <2>3. \A t \in Streams : t # s => w.logs[t] = logs[t] BY DEF After, Now
    <2>4. \A r \in w.ranges : r.stream # s => r \in ranges BY <2>1 DEF After, Now
    <2> QED BY <2>2, <2>3, <2>4 DEF Callback
  <1>8. ASSUME NEW j \in DOMAIN tails, tails[j].stream = s, OnlyTail(j)
        PROVE  FitsTail(w, tails'[j], Lost(garbled', s))
    <2>1. i = j BY <1>8 DEF OnlyTail
    <2>2. tails'[i] = tail BY <1>2, <1>4
    <2> QED BY <1>8, <2>1, <2>2
  <1> QED BY <1>3, <1>6, <1>7, <1>8, CallbackKeeps

\* What the tail i is, and what its callbacks start from.
LEMMA TailNow ==
    ASSUME LogInv, NEW i \in DOMAIN tails
    PROVE  /\ Good(Now) /\ World(Now) /\ tails[i] \in Tails /\ tails[i].stream \in Streams
           /\ tails[i].held \in Seq(Entry)
           /\ tails[i].held # <<>> => tails[i].timer
           /\ garbled \subseteq Places
           /\ OnlyTail(i) => FitsTail(Now, tails[i], Lost(garbled, tails[i].stream))
  <1>1. tails \in Seq(Tails) /\ Good(Now) BY DEF LogInv, Typed
  <1>2. tails[i] \in Tails BY <1>1, ElementOfSeq, LenProperties
  <1>3. tails[i].stream \in Streams /\ tails[i].held \in Seq(Entry) BY <1>2 DEF Tails
  <1>4. World(Now) BY <1>1, GoodWorld
  <1>5. garbled \subseteq Places BY DEF LogInv, Typed
  <1>6. tails[i].held # <<>> => tails[i].timer BY DEF LogInv, HeldIsTimed
  <1>7. OnlyTail(i) => FitsTail(Now, tails[i], Lost(garbled, tails[i].stream))
    BY DEF LogInv, Fit
  <1> QED BY <1>1, <1>2, <1>3, <1>4, <1>5, <1>6, <1>7

LEMMA LostMore ==
    ASSUME garbled \subseteq garbled', NEW s PROVE Lost(garbled, s) \subseteq Lost(garbled', s)
  BY DEF Lost

LEMMA NoticeKeeps ==
    ASSUME LogInv, NEW i \in DOMAIN tails, NoticeFires(i) PROVE LogInv'
  <1> DEFINE old == tails[i]
             tail == [old EXCEPT !.notice = FALSE]
             s == old.stream
             w == IF logs[s] = None THEN PageHears(Now, s, "APPEND") ELSE Now
             E == logOf(Now, s).entries
  <1>1. /\ Good(Now) /\ World(Now) /\ old \in Tails /\ s \in Streams
        /\ old.held # <<>> => old.timer
        /\ garbled \subseteq Places
        /\ OnlyTail(i) => FitsTail(Now, old, Lost(garbled, s))
    BY TailNow
  <1>2. tails' = [tails EXCEPT ![i] = tail] BY <1>1 DEF NoticeFires, Tails
  <1>3. /\ tail \in Tails /\ tail.stream = s /\ tail.first = old.first
        /\ tail.next = old.next /\ tail.held = old.held /\ tail.timer = old.timer
    BY <1>1 DEF Tails
  <1>4. Becomes(w) /\ UNCHANGED <<journal, asked, mounts>> /\ garbled' = garbled BY DEF NoticeFires
  <1>5. After(w, Now, s, E)
    <2>1. After(Now, Now, s, E) BY <1>1 DEF After
    <2> QED BY <1>1, <2>1, HearsAfter
  <1>6. SameView(w, Now) BY <1>1, HearsView DEF SameView
  <1> HIDE DEF old, tail, w
  <1>7. FitsTail(Now, old, Lost(garbled, s)) => FitsTail(w, tail, Lost(garbled, s))
    BY <1>1, <1>3, <1>5, SameFits
  <1>8. Lost(garbled', s) = Lost(garbled, s) BY <1>4
  <1>9. /\ garbled \subseteq garbled' /\ garbled' \subseteq Places
        /\ UNCHANGED <<journal, asked, mounts>>
    BY <1>1, <1>4
  <1>10. OnlyTail(i) => FitsTail(w, tail, Lost(garbled', tail.stream))
    BY <1>1, <1>3, <1>7, <1>8
  <1> QED BY <1>1, <1>2, <1>3, <1>4, <1>5, <1>6, <1>9, <1>10, TailCallbackKeeps DEF old

LEMMA ErrorKeeps ==
    ASSUME LogInv, NEW i \in DOMAIN tails, TailErrors(i) PROVE LogInv'
  <1> DEFINE old == tails[i]
             s == old.stream
             w == processError(Now, s, "APPEND")
             E == logOf(Now, s).entries
  <1>1. /\ Good(Now) /\ World(Now) /\ old \in Tails /\ s \in Streams
        /\ old.held # <<>> => old.timer
        /\ garbled \subseteq Places
        /\ OnlyTail(i) => FitsTail(Now, old, Lost(garbled, s))
    BY TailNow
  <1>2. Becomes(w) /\ UNCHANGED <<journal, asked, mounts>> /\ garbled' = garbled /\ tails' = tails
    BY DEF TailErrors
  <1>3. tails' = [tails EXCEPT ![i] = old]
    <2>1. tails \in Seq(Tails) BY DEF LogInv, Typed
    <2>2. tails \in [1 .. Len(tails) -> Tails] BY <2>1, LenProperties
    <2> QED BY <1>2, <2>2
  <1>4. After(w, Now, s, E) BY <1>1, ErrorAfter
  <1>5. SameView(w, Now) BY <1>1, ErrorView
  <1> HIDE DEF old, w
  <1>6. FitsTail(Now, old, Lost(garbled, s)) => FitsTail(w, old, Lost(garbled, s))
    BY <1>1, <1>4, SameFits
  <1>7. Lost(garbled', s) = Lost(garbled, s) BY <1>2
  <1>8. /\ garbled \subseteq garbled' /\ garbled' \subseteq Places
        /\ UNCHANGED <<journal, asked, mounts>>
    BY <1>1, <1>2
  <1>9. OnlyTail(i) => FitsTail(w, old, Lost(garbled', old.stream))
    BY <1>1, <1>6, <1>7
  <1> QED BY <1>1, <1>2, <1>3, <1>4, <1>5, <1>8, <1>9, TailCallbackKeeps DEF old

\* An event arrives, which is line next or 0: it is passed on or held.
LEMMA ThrottledKeeps ==
    ASSUME LogInv, NEW i \in DOMAIN tails, NEW e \in Entry, Throttled(i, e),
           tails[i].next \in 1 .. MaxEntries,
           e = tails[i].next \/ (e = 0 /\ tails[i].next \in Lost(garbled', tails[i].stream)),
           UNCHANGED <<journal, asked, mounts>>,
           garbled \subseteq garbled', garbled' \subseteq Places
    PROVE  LogInv'
  <1> DEFINE old == tails[i]
             n == old.next
             held == IF old.timer THEN Append(old.held, e) ELSE old.held
             tail == [old EXCEPT !.next = @ + 1, !.timer = TRUE, !.held = held]
             s == old.stream
             E == logOf(Now, s).entries
             H == Lost(garbled', s)
             w == IF old.timer THEN Now ELSE messageListener(Now, s, <<e>>)
             p == IF old.timer THEN <<>> ELSE Parsed(<<e>>)
  <1>1. /\ Good(Now) /\ World(Now) /\ old \in Tails /\ s \in Streams
        /\ old.held \in Seq(Entry)
        /\ old.held # <<>> => old.timer
        /\ OnlyTail(i) => FitsTail(Now, old, Lost(garbled, s))
    BY TailNow
  <1>2. n + 1 \in 1 .. MaxEntries + 1 /\ n \in Nat \ {0} /\ n + 1 \in Nat
    BY ConstantsAssumption
  <1>3. <<e>> \in Seq(Entry) /\ held \in Seq(Entry) BY <1>1, AppendProperties
  <1>4. tails' = [tails EXCEPT ![i] = tail] BY <1>1 DEF Throttled, Tails
  <1>5. Becomes(w) BY DEF Throttled
  <1> HIDE DEF held
  <1>6. /\ tail \in Tails /\ tail.stream = s /\ tail.first = old.first
        /\ tail.next = n + 1 /\ tail.held = held /\ tail.timer = TRUE
    BY <1>1, <1>2, <1>3 DEF Tails
  <1>7. E \in Seq(Entry) BY <1>1, LogOfTyped
  <1>8. p \in Seq(Entry) BY <1>3, EmptySeq, ParsedLines
  <1>9. After(w, Now, s, E \o p)
    <2>1. After(Now, Now, s, E) /\ E \o <<>> = E BY <1>1, <1>7, ConcatEmptySeq DEF After
    <2>2. After(messageListener(Now, s, <<e>>), Now, s, E \o Parsed(<<e>>))
      BY <1>1, <1>3, ListenerAfter
    <2> QED BY <2>1, <2>2
  <1>10. SameView(w, Now) BY <1>1, ListenerView DEF SameView
  <1>11. ASSUME NEW mid \in 1 .. n, Covers(old.held, H, mid, n)
         PROVE  \E m \in 1 .. n + 1 : Covers(p, H, mid, m) /\ Covers(held, H, m, n + 1)
    <2>1. mid \in Nat \ {0} /\ mid \in 1 .. n + 1 BY <1>2
    <2>2. Entry \subseteq Nat BY ConstantsAssumption DEF Entry
    <2>3. old.held \in Seq(Nat) /\ <<e>> \in Seq(Nat) BY <1>1, <1>3, <2>2, SeqMonotonic
    <2>4. e \in Nat BY <2>2
    <2>5. Covers(<<e>>, H, n, n + 1) BY <1>2, <2>4, CoversLine
    <2>6. Covers(old.held \o <<e>>, H, mid, n + 1)
      BY <1>2, <1>11, <2>1, <2>3, <2>5, CoversConcat
    <2>7. CASE old.timer
      <3>1. held = old.held \o <<e>> BY <2>3, <2>4, <2>7, AppendIsConcat DEF held
      <3>2. Covers(p, H, mid, mid) BY <2>1, <2>7, CoversNothing
      <3> QED BY <2>1, <2>6, <3>1, <3>2
    <2>8. CASE ~ old.timer
      <3>1. old.held = <<>> BY <1>1, <2>8
      <3>2. <<>> \o <<e>> = <<e>> BY <2>3, ConcatEmptySeq
      <3>3. Covers(<<e>>, H, mid, n + 1) BY <2>6, <3>1, <3>2
      <3>4. Covers(p, H, mid, n + 1) BY <1>2, <2>1, <2>3, <2>8, <3>3, CoversParsed
      <3>5. Covers(held, H, n + 1, n + 1) BY <1>2, <2>8, <3>1, CoversNothing DEF held
      <3>6. n + 1 \in 1 .. n + 1 BY <1>2
      <3> QED BY <3>4, <3>5, <3>6
    <2> QED BY <2>7, <2>8
  <1>12. Lost(garbled, s) \subseteq H BY LostMore
  <1> HIDE DEF tail, w, p, E, H
  <1>13. FitsTail(Now, old, Lost(garbled, s)) => FitsTail(w, tail, H)
    <2> SUFFICES ASSUME FitsTail(Now, old, Lost(garbled, s)) PROVE FitsTail(w, tail, H)
      OBVIOUS
    <2>1. \A mid \in 1 .. old.next : Covers(old.held, H, mid, old.next) =>
            \E m \in 1 .. tail.next : Covers(p, H, mid, m) /\ Covers(tail.held, H, m, tail.next)
      BY <1>6, <1>11
    <2>2. After(w, Now, old.stream, logOf(Now, old.stream).entries \o p) BY <1>9 DEF E
    <2> HIDE DEF old
    <2> QED BY <1>1, <1>6, <1>8, <1>12, <2>1, <2>2, AppendFits
  <1>14. OnlyTail(i) => FitsTail(w, tail, Lost(garbled', tail.stream))
    BY <1>1, <1>6, <1>13 DEF H
  <1> HIDE DEF old
  <1>15. tail.stream = tails[i].stream BY <1>6 DEF old
  <1>16. After(w, Now, tail.stream, E \o p) BY <1>6, <1>9
  <1>17. tail.held # <<>> => tail.timer BY <1>6
  <1> QED BY <1>4, <1>5, <1>6, <1>10, <1>14, <1>15, <1>16, <1>17, TailCallbackKeeps

LEMMA MessageKeeps ==
    ASSUME LogInv, NEW i \in DOMAIN tails, Message(i) PROVE LogInv'
  <1> DEFINE old == tails[i]
             n == old.next
             s == old.stream
  <1>1. old \in Tails /\ s \in Streams /\ garbled \subseteq Places BY TailNow
  <1>2. journal[s] \in 1 .. MaxEntries BY <1>1 DEF LogInv, Typed
  <1>3. n <= journal[s] /\ UNCHANGED <<journal, asked, mounts>> BY DEF Message
  <1>4. n \in 1 .. MaxEntries /\ n \in Entry /\ 0 \in Entry
    BY <1>1, <1>2, <1>3, ConstantsAssumption DEF Tails, Entry
  <1>5. CASE Throttled(i, n) /\ garbled' = garbled
    BY <1>1, <1>3, <1>4, <1>5, ThrottledKeeps
  <1>6. CASE Throttled(i, 0) /\ garbled' = garbled \cup {<<s, n>>}
    <2>1. garbled' \subseteq Places BY <1>1, <1>4, <1>6 DEF Places
    <2>2. n \in Lost(garbled', s) BY <1>4, <1>6 DEF Lost
    <2>3. garbled \subseteq garbled' BY <1>6
    <2> QED BY <1>3, <1>4, <1>6, <2>1, <2>2, <2>3, ThrottledKeeps
  <1> QED BY <1>5, <1>6 DEF Message

LEMMA TimerKeeps ==
    ASSUME LogInv, NEW i \in DOMAIN tails, TimerFires(i) PROVE LogInv'
  <1> DEFINE old == tails[i]
             tail == [old EXCEPT !.timer = FALSE, !.held = <<>>]
             s == old.stream
             E == logOf(Now, s).entries
             H == Lost(garbled', s)
             w == messageListener(Now, s, old.held)
             p == Parsed(old.held)
  <1>1. /\ Good(Now) /\ World(Now) /\ old \in Tails /\ s \in Streams
        /\ old.held \in Seq(Entry)
        /\ garbled \subseteq Places
        /\ OnlyTail(i) => FitsTail(Now, old, Lost(garbled, s))
    BY TailNow
  <1>2. tails' = [tails EXCEPT ![i] = tail] BY <1>1 DEF TimerFires, Tails
  <1>3. Becomes(w) /\ UNCHANGED <<journal, asked, mounts>> /\ garbled' = garbled
    BY DEF TimerFires
  <1>4. <<>> \in Seq(Entry) BY EmptySeq
  <1>5. /\ tail \in Tails /\ tail.stream = s /\ tail.first = old.first
        /\ tail.next = old.next /\ tail.held = <<>>
    BY <1>1, <1>4 DEF Tails
  <1>6. p \in Seq(Entry) BY <1>1, ParsedLines
  <1>7. After(w, Now, s, E \o p) BY <1>1, ListenerAfter
  <1>8. SameView(w, Now) BY <1>1, ListenerView
  <1>9. ASSUME NEW mid \in 1 .. old.next, Covers(old.held, H, mid, old.next)
        PROVE  \E m \in 1 .. old.next : Covers(p, H, mid, m) /\ Covers(<<>>, H, m, old.next)
    <2>1. old.next \in Nat \ {0} BY <1>1, ConstantsAssumption DEF Tails
    <2>2. mid \in Nat \ {0} /\ old.next \in 1 .. old.next BY <2>1
    <2>3. Entry \subseteq Nat BY ConstantsAssumption DEF Entry
    <2>4. old.held \in Seq(Nat) BY <1>1, <2>3, SeqMonotonic
    <2>5. Covers(p, H, mid, old.next) BY <1>9, <2>1, <2>2, <2>4, CoversParsed
    <2>6. Covers(<<>>, H, old.next, old.next) BY <2>1, CoversNothing
    <2> QED BY <2>2, <2>5, <2>6
  <1>10. Lost(garbled, s) \subseteq H BY <1>3
  <1> HIDE DEF tail, w, p, E, H
  <1>11. FitsTail(Now, old, Lost(garbled, s)) => FitsTail(w, tail, H)
    <2> SUFFICES ASSUME FitsTail(Now, old, Lost(garbled, s)) PROVE FitsTail(w, tail, H)
      OBVIOUS
    <2>1. \A mid \in 1 .. old.next : Covers(old.held, H, mid, old.next) =>
            \E m \in 1 .. tail.next : Covers(p, H, mid, m) /\ Covers(tail.held, H, m, tail.next)
      BY <1>5, <1>9
    <2>2. After(w, Now, old.stream, logOf(Now, old.stream).entries \o p) BY <1>7 DEF E
    <2>3. /\ tail \in Tails /\ tail.stream = old.stream /\ tail.first = old.first
          /\ Good(Now) /\ old \in Tails
      BY <1>1, <1>5
    <2> DEFINE G == Lost(garbled, s)
    <2>4. FitsTail(Now, old, G) /\ G \subseteq H BY <1>10
    <2> HIDE DEF old, G
    <2> QED BY <1>6, <2>1, <2>2, <2>3, <2>4, AppendFits
  <1>12. OnlyTail(i) => FitsTail(w, tail, Lost(garbled', tail.stream))
    BY <1>1, <1>5, <1>11 DEF H
  <1> HIDE DEF old
  <1>13. tail.stream = tails[i].stream BY <1>5 DEF old
  <1>14. After(w, Now, tail.stream, E \o p) BY <1>5, <1>7
  <1>15. tail.held # <<>> => tail.timer BY <1>5
  <1>16. /\ garbled \subseteq garbled' /\ garbled' \subseteq Places
         /\ UNCHANGED <<journal, asked, mounts>>
    BY <1>1, <1>3
  <1>17. Becomes(w) BY <1>3
  <1>18. tail \in Tails BY <1>5
  <1> QED BY <1>2, <1>8, <1>12, <1>13, <1>14, <1>15, <1>16, <1>17, <1>18, TailCallbackKeeps

----------------------------------------------------------------------------
\* The range r is read one line on; e is that line, or 0.
ReadOn(r, e) == [r EXCEPT !.items = <<e>> \o @, !.next = @ - 1]
OneRead(R, r, e) == (R \ {r}) \cup {ReadOn(r, e)}

LEMMA ReadOnGood ==
    ASSUME NEW R, GoodRanges(R), NEW r \in R, NEW e \in Entry, r.next > 0
    PROVE  /\ GoodRanges(OneRead(R, r, e))
           /\ ReadOn(r, e).stream = r.stream /\ ReadOn(r, e).cursor = r.cursor
           /\ ReadOn(r, e).next = r.next - 1 /\ ReadOn(r, e).items = <<e>> \o r.items
  <1> DEFINE q == ReadOn(r, e)
  <1>1. r \in Reads /\ r.next < r.cursor BY DEF GoodRanges
  <1>2. r.items \in Seq(Entry) /\ <<e>> \in Seq(Entry) BY <1>1 DEF Reads
  <1>3. <<e>> \o r.items \in Seq(Entry) BY <1>2, ConcatProperties
  <1>4. r.next \in 1 .. MaxEntries /\ r.cursor \in 1 .. MaxEntries
    BY <1>1, ConstantsAssumption DEF Reads
  <1>5. r.next - 1 \in 0 .. MaxEntries /\ r.next - 1 < r.cursor
    BY <1>1, <1>4, ConstantsAssumption
  <1>6. /\ q \in Reads /\ q.stream = r.stream /\ q.cursor = r.cursor
        /\ q.next = r.next - 1 /\ q.items = <<e>> \o r.items
    BY <1>1, <1>3, <1>5 DEF Reads, ReadOn
  <1> HIDE DEF q
  <1> DEFINE T == (R \ {r}) \cup {q}
  <1>7. T \subseteq Reads BY <1>6 DEF GoodRanges
  <1>8. \A t \in T : t.next < t.cursor BY <1>5, <1>6 DEF GoodRanges
  <1>9. OncePerCursor(T)
    <2> SUFFICES ASSUME NEW r1 \in T, NEW r2 \in T,
                        r1.stream = r2.stream, r1.cursor = r2.cursor
                 PROVE  r1 = r2
      BY DEF OncePerCursor
    <2>1. \A t1, t2 \in R : t1.stream = t2.stream /\ t1.cursor = t2.cursor => t1 = t2
      BY DEF GoodRanges, OncePerCursor
    <2> QED BY <1>6, <2>1
  <1>10. GoodRanges(T) BY <1>7, <1>8, <1>9 DEF GoodRanges
  <1> QED BY <1>6, <1>10 DEF q, OneRead

\* What has been read still joins the log on.
LEMMA ReadOnFits ==
    ASSUME NEW R, GoodRanges(R), NEW r \in R, NEW e \in Entry, NEW s, NEW E, NEW H,
           r.next > 0, e = r.next \/ (e = 0 /\ r.next \in H), RangesFit(R, s, E, H)
    PROVE  r.stream = s => RangesFit(OneRead(R, r, e), s, E, H)
  <1> SUFFICES ASSUME r.stream = s PROVE RangesFit(OneRead(R, r, e), s, E, H) OBVIOUS
  <1> DEFINE q == ReadOn(r, e)
             n == r.next
  <1>1. r \in Reads BY DEF GoodRanges
  <1>2. /\ n \in Nat \ {0} /\ n + 1 \in Nat /\ r.cursor \in Nat /\ r.items \in Seq(Entry)
        /\ <<e>> \in Seq(Entry)
    BY <1>1, ConstantsAssumption DEF Reads
  <1>3. Entry \subseteq Nat BY ConstantsAssumption DEF Entry
  <1>4. r.items \in Seq(Nat) /\ <<e>> \in Seq(Nat) /\ e \in Nat
    BY <1>2, <1>3, SeqMonotonic
  <1>5. E # <<>> /\ r.cursor = E[1] /\ Covers(r.items, H, n + 1, r.cursor) BY DEF RangesFit
  <1>6. Covers(<<e>>, H, n, n + 1) BY <1>2, <1>4, CoversLine
  <1>7. Covers(<<e>> \o r.items, H, n, r.cursor)
    BY <1>2, <1>4, <1>5, <1>6, CoversConcat
  <1>8. /\ q.stream = r.stream /\ q.cursor = r.cursor
        /\ q.next = n - 1 /\ q.items = <<e>> \o r.items
    BY ReadOnGood
  <1>9. q.next + 1 = n BY <1>2, <1>8
  <1>10. Covers(q.items, H, q.next + 1, q.cursor) BY <1>7, <1>8, <1>9
  <1> HIDE DEF q
  <1>11. \A t \in OneRead(R, r, e) : t = q \/ t \in R BY DEF OneRead, q
  <1> QED BY <1>5, <1>8, <1>10, <1>11 DEF RangesFit

\* A callback of a range of a stream that was tailed, if any.
LEMMA RangeCallbackKeeps ==
    ASSUME LogInv, NEW r \in ranges, NEW w, Callback(w, r.stream), tails' = tails,
           \A i \in DOMAIN tails :
              /\ tails[i] \in Tails /\ tails[i].stream = r.stream
              /\ FitsTail(Now, tails[i], Lost(garbled, r.stream))
              => FitsTail(w, tails[i], Lost(garbled', r.stream))
    PROVE  LogInv'
  <1>1. Good(Now) BY DEF LogInv, Typed
  <1>2. r \in Reads BY <1>1 DEF Good, GoodRanges, Now
  <1>3. r.stream \in Streams BY <1>2 DEF Reads
  <1>4. tails \in Seq(Tails) BY DEF LogInv, Typed
  <1>5. \A j \in DOMAIN tails : /\ tails'[j].stream = tails[j].stream
                                /\ tails[j].stream # r.stream => tails'[j] = tails[j]
                                /\ tails'[j].held # <<>> => tails'[j].timer
    BY DEF LogInv, HeldIsTimed
  <1>6. SameTails(r.stream) BY <1>4, <1>5 DEF SameTails
  <1>7. ASSUME NEW i \in DOMAIN tails, tails[i].stream = r.stream, OnlyTail(i)
        PROVE  FitsTail(w, tails'[i], Lost(garbled', r.stream))
    <2>1. tails[i] \in Tails /\ FitsTail(Now, tails[i], Lost(garbled, tails[i].stream))
      BY <1>7, TailNow
    <2> QED BY <1>7, <2>1
  <1> QED BY <1>3, <1>6, <1>7, CallbackKeeps

\* A stream with a range was tailed.
LEMMA RangeTailed ==
    ASSUME LogInv, NEW r \in ranges
    PROVE  /\ Good(Now) /\ World(Now) /\ Now.ranges = ranges /\ Now.logs = logs
           /\ r \in Reads /\ r.stream \in Streams
           /\ garbled \subseteq Places
           /\ \E i \in DOMAIN tails : tails[i].stream = r.stream
  <1>1. Good(Now) BY DEF LogInv, Typed
  <1>2. Now.ranges = ranges /\ Now.logs = logs BY DEF Now
  <1>3. r \in Reads BY <1>1, <1>2 DEF Good, GoodRanges
  <1>4. r.stream \in Streams BY <1>3 DEF Reads
  <1>5. garbled \subseteq Places BY DEF LogInv, Typed
  <1>6. \E i \in DOMAIN tails : tails[i].stream = r.stream BY <1>4 DEF LogInv, Untailed
  <1> QED BY <1>1, <1>2, <1>3, <1>4, <1>5, <1>6, GoodWorld

\* A line, or one that did not parse, is read after v, where nothing was put
\* in the log.
LEMMA ReadKeeps ==
    ASSUME LogInv, NEW r \in ranges, NEW v, NEW e \in Entry, r.next > 0,
           e = r.next \/ (e = 0 /\ r.next \in Lost(garbled', r.stream)),
           After(v, Now, r.stream, logOf(Now, r.stream).entries), v.ranges = ranges,
           SameView(v, Now), logs' = v.logs, page' = v.page, ranges' = OneRead(ranges, r, e),
           UNCHANGED <<journal, tails, asked, mounts>>,
           garbled \subseteq garbled', garbled' \subseteq Places
    PROVE  LogInv'
  <1> DEFINE s == r.stream
             T == OneRead(ranges, r, e)
             w == [v EXCEPT !.ranges = T]
  <1>1. /\ Good(Now) /\ Now.ranges = ranges /\ Now.logs = logs
        /\ r \in Reads /\ s \in Streams
        /\ \E i \in DOMAIN tails : tails[i].stream = s
    BY RangeTailed
  <1>2. Good(v) BY DEF After
  <1>3. GoodRanges(ranges) BY <1>2 DEF Good
  <1>4. GoodRanges(T) /\ ReadOn(r, e).stream = s BY <1>3, ReadOnGood
  <1>5. \A t \in T : t.stream # s => t \in ranges BY <1>4 DEF OneRead
  <1> HIDE DEF T
  <1>6. w.logs = v.logs /\ w.ranges = T /\ w.page = v.page /\ Good(w)
    BY <1>2, <1>4 DEF Good
  <1>7. Becomes(w) BY <1>6 DEF Becomes, T
  <1>8. SameView(w, Now) BY <1>6 DEF SameView
  <1>9. Callback(w, s)
    <2>1. \A t \in Streams : t # s => w.logs[t] = logs[t] BY <1>1, <1>6 DEF After
    <2>2. UNCHANGED <<journal, asked, mounts>> OBVIOUS
    <2> HIDE DEF w
    <2>3. garbled' \subseteq Streams \X (1 .. MaxEntries) BY DEF Places
    <2> QED BY <1>1, <1>5, <1>6, <1>7, <1>8, <2>1, <2>2, <2>3 DEF Callback, Places
  <1>10. ASSUME NEW i \in DOMAIN tails, tails[i] \in Tails, tails[i].stream = s,
                FitsTail(Now, tails[i], Lost(garbled, s))
         PROVE  FitsTail(w, tails[i], Lost(garbled', s))
    <2> DEFINE tail == tails[i]
               G == Lost(garbled, s)
               H == Lost(garbled', s)
               E == logOf(v, s).entries
    <2>1. G \subseteq H BY LostMore
    <2>2. tail \in Tails /\ tail.stream = s /\ FitsTail(Now, tail, G) BY <1>10
    <2> HIDE DEF tail, G
    <2>3. FitsTail(v, tail, H)
      <3>1. After(v, Now, tail.stream, logOf(Now, tail.stream).entries) BY <2>2
      <3> HIDE DEF H
      <3> QED BY <1>1, <2>1, <2>2, <3>1, SameFits
    <2>4. RangesFit(ranges, s, E, H) BY <2>2, <2>3 DEF FitsTail
    <2>5. RangesFit(T, s, E, H) BY <1>3, <2>4, ReadOnFits DEF T
    <2>6. logOf(w, s).entries = E BY <1>6 DEF logOf
    <2>7. FitsTail(w, tail, H) BY <1>6, <2>2, <2>3, <2>5, <2>6 DEF FitsTail
    <2> QED BY <2>7 DEF tail
  <1> HIDE DEF w
  <1> QED BY <1>9, <1>10, RangeCallbackKeeps

LEMMA RangeMessageKeeps ==
    ASSUME LogInv, NEW r \in ranges, RangeMessage(r) PROVE LogInv'
  <1> DEFINE s == r.stream
             n == r.next
             v == processError(Now, s, "PREPEND")
  <1>1. /\ Good(Now) /\ World(Now) /\ Now.ranges = ranges /\ Now.logs = logs
        /\ r \in Reads /\ s \in Streams /\ garbled \subseteq Places
    BY RangeTailed
  <1>2. n > 0 /\ UNCHANGED <<journal, tails, asked, mounts>> BY DEF RangeMessage
  <1>3. n \in 1 .. MaxEntries /\ n \in Entry /\ 0 \in Entry
    BY <1>1, <1>2, ConstantsAssumption DEF Reads, Entry
  <1>4. CASE /\ ranges' = OneRead(ranges, r, n)
             /\ logs' = logs /\ page' = page /\ garbled' = garbled
    <2>1. After(Now, Now, s, logOf(Now, s).entries) BY <1>1 DEF After
    <2>2. SameView(Now, Now) BY DEF SameView
    <2>3. Now.page = page BY DEF Now
    <2>4. garbled \subseteq garbled' /\ garbled' \subseteq Places BY <1>1, <1>4
    <2> QED BY <1>1, <1>2, <1>3, <1>4, <2>1, <2>2, <2>3, <2>4, ReadKeeps
  <1>5. CASE /\ ranges' = OneRead(ranges, r, 0) /\ logs' = v.logs /\ page' = v.page
             /\ garbled' = garbled \cup {<<s, n>>}
    <2>1. After(v, Now, s, logOf(Now, s).entries) /\ v.ranges = ranges BY <1>1, ErrorAfter
    <2>2. SameView(v, Now) BY <1>1, ErrorView
    <2>3. garbled' \subseteq Places BY <1>1, <1>3, <1>5 DEF Places
    <2>4. n \in Lost(garbled', s) BY <1>3, <1>5 DEF Lost
    <2>5. garbled \subseteq garbled' BY <1>5
    <2> HIDE DEF v
    <2> QED BY <1>2, <1>3, <1>5, <2>1, <2>2, <2>3, <2>4, <2>5, ReadKeeps
  <1> QED BY <1>4, <1>5 DEF RangeMessage, OneRead, ReadOn

LEMMA RangeEndsKeeps ==
    ASSUME LogInv, NEW r \in ranges, RangeEnds(r) PROVE LogInv'
  <1> DEFINE s == r.stream
             E == logOf(Now, s).entries
             v == [Now EXCEPT !.ranges = @ \ {r}]
             first == Len(r.items) < PageSize
             w == processLogPrepend(v, s, first, r.items)
  <1>1. /\ Good(Now) /\ World(Now) /\ Now.ranges = ranges /\ Now.logs = logs
        /\ r \in Reads /\ s \in Streams /\ garbled \subseteq Places
        /\ \E i \in DOMAIN tails : tails[i].stream = s
    BY RangeTailed
  <1>2. Becomes(w) /\ UNCHANGED <<journal, tails, asked, mounts>> /\ garbled' = garbled
    BY DEF RangeEnds
  <1>3. r.items \in Seq(Entry) BY <1>1 DEF Reads
  <1>4. first \in BOOLEAN OBVIOUS
  <1>5. v.logs = logs /\ v.ranges = ranges \ {r} /\ v.page = Now.page /\ Good(v)
    <2>1. GoodRanges(ranges) BY <1>1 DEF Good
    <2>2. GoodRanges(ranges \ {r}) BY <2>1 DEF GoodRanges, OncePerCursor
    <2> QED BY <1>1, <2>2 DEF Good
  <1>6. logOf(v, s).entries = E BY <1>1, <1>5 DEF logOf
  <1>7. SameView(v, Now) /\ World(v) BY <1>5, GoodWorld DEF SameView
  <1> HIDE DEF v, first
  <1>8. After(w, v, s, r.items \o E) BY <1>1, <1>3, <1>4, <1>5, <1>6, PrependAfter
  <1>9. SameView(w, v) BY <1>7, PrependView
  <1> HIDE DEF w
  <1>10. SameView(w, Now) BY <1>7, <1>9 DEF SameView
  <1>11. Callback(w, s)
    <2>1. Good(w) BY <1>8 DEF After
    <2>2. \A t \in Streams : t # s => w.logs[t] = logs[t] BY <1>5, <1>8 DEF After
    <2>3. \A t \in w.ranges : t.stream # s => t \in ranges BY <1>5, <1>8 DEF After, Above
    <2>4. UNCHANGED <<journal, asked, mounts>> BY <1>2
    <2>5. garbled \subseteq garbled' /\ garbled' \subseteq Streams \X (1 .. MaxEntries)
      <3>1. garbled \subseteq Streams \X (1 .. MaxEntries) BY <1>1 DEF Places
      <3> QED BY <1>2, <3>1
    <2> QED BY <1>1, <1>2, <1>10, <2>1, <2>2, <2>3, <2>4, <2>5 DEF Callback, Places
  <1>12. ASSUME NEW i \in DOMAIN tails, tails[i] \in Tails, tails[i].stream = s,
                FitsTail(Now, tails[i], Lost(garbled, s))
         PROVE  FitsTail(w, tails[i], Lost(garbled', s))
    <2> DEFINE tail == tails[i]
               G == Lost(garbled, s)
    <2>1. tail \in Tails /\ r.stream = tail.stream /\ FitsTail(Now, tail, G) BY <1>12
    <2>2. After(w, [Now EXCEPT !.ranges = @ \ {r}], tail.stream,
                r.items \o logOf(Now, tail.stream).entries)
      BY <1>8, <1>12 DEF v
    <2>3. r \in Now.ranges BY <1>1
    <2> HIDE DEF tail, G
    <2>4. FitsTail(w, tail, G) BY <1>1, <2>1, <2>2, <2>3, PrependFits
    <2> QED BY <1>2, <2>4 DEF tail, G
  <1>13. tails' = tails BY <1>2
  <1> QED BY <1>11, <1>12, <1>13, RangeCallbackKeeps

LEMMA ScrollUpKeeps ==
    ASSUME LogInv, ScrollUp PROVE LogInv'
  <1> DEFINE s == page.subscriptionID
             w == handleFetchPreviousLog(Now, s)
             E == logOf(Now, s).entries
  <1>1. Good(Now) BY DEF LogInv, Typed
  <1>2. page \in Page BY <1>1 DEF Good, Now
  <1>3. s \in Streams BY <1>2 DEF ScrollUp, Page
  <1>4. Becomes(w) /\ UNCHANGED <<journal, tails, asked, mounts>> /\ garbled' = garbled
    BY DEF ScrollUp
  <1>5. After(w, Now, s, E) /\ w.logs = logs
    BY <1>1, <1>3, FetchPreviousAfter DEF Now
  <1>6. SameView(w, Now) BY <1>1, GoodWorld, FetchPreviousView
  <1> HIDE DEF w, s
  <1>7. w.ranges \subseteq ranges \cup Above(E, s) /\ Good(w) BY <1>5 DEF After, Now
  <1>8. \/ \E i \in DOMAIN tails : tails[i].stream = s
        \/ w.logs = logs /\ w.ranges \subseteq ranges
    <2> SUFFICES ASSUME \A i \in DOMAIN tails : tails[i].stream # s
                 PROVE  w.ranges \subseteq ranges
      BY <1>5
    <2>1. logs[s] = None BY <1>3 DEF LogInv, Untailed
    <2>2. E = <<>> BY <2>1 DEF logOf, Now, EmptyLog
    <2>3. Above(E, s) = {} BY <2>2 DEF Above
    <2> QED BY <1>7, <2>3
  <1>9. garbled \subseteq Places BY DEF LogInv, Typed
  <1>10. Callback(w, s)
    <2>1. \A t \in Streams : t # s => w.logs[t] = logs[t] BY <1>5
    <2>2. \A t \in w.ranges : t.stream # s => t \in ranges BY <1>7 DEF Above
    <2>3. UNCHANGED <<journal, asked, mounts>> BY <1>4
    <2>4. garbled \subseteq garbled' /\ garbled' \subseteq Streams \X (1 .. MaxEntries)
      <3>1. garbled \subseteq Streams \X (1 .. MaxEntries) BY <1>9 DEF Places
      <3> QED BY <1>4, <3>1
    <2> QED BY <1>4, <1>6, <1>7, <1>8, <2>1, <2>2, <2>3, <2>4 DEF Callback, Places
  <1>11. tails' = tails /\ tails \in Seq(Tails) BY <1>4 DEF LogInv, Typed
  <1>12. \A j \in DOMAIN tails : tails[j].held # <<>> => tails[j].timer
    BY DEF LogInv, HeldIsTimed
  <1>13. SameTails(s) BY <1>11, <1>12 DEF SameTails
  <1>14. ASSUME NEW i \in DOMAIN tails, tails[i].stream = s, OnlyTail(i)
         PROVE  FitsTail(w, tails'[i], Lost(garbled', s))
    <2> DEFINE tail == tails[i]
               G == Lost(garbled, s)
    <2>1. tail \in Tails /\ tail.stream = s /\ FitsTail(Now, tail, G)
      <3>1. tails[i] \in Tails /\ FitsTail(Now, tails[i], Lost(garbled, tails[i].stream))
        BY <1>14, TailNow
      <3> QED BY <1>14, <3>1
    <2>2. After(w, Now, tail.stream, logOf(Now, tail.stream).entries) BY <1>5, <2>1
    <2> HIDE DEF tail, G
    <2>3. FitsTail(w, tail, G) BY <1>1, <2>1, <2>2, SameFits
    <2> QED BY <1>4, <1>11, <2>3 DEF tail, G
  <1> QED BY <1>3, <1>10, <1>13, <1>14, CallbackKeeps

----------------------------------------------------------------------------
\* Steps of the page and of the node that touch no tail, log or range.
LEMMA UntouchedKeeps ==
    ASSUME LogInv, tails' = tails, ranges' = ranges, logs' = logs, garbled' = garbled,
           journal' \in [Streams -> 1 .. MaxEntries], page' \in Page,
           mounts' \in 0 .. MaxMounts, asked' \in 0 .. mounts',
           \A i \in DOMAIN tails : OnlyTail(i)' => OnlyTail(i)
    PROVE  LogInv'
  <1>1. Good(Now) BY DEF LogInv, Typed
  <1>2. /\ Now = [logs |-> logs, ranges |-> ranges, page |-> page]
        /\ Now' = [logs |-> logs, ranges |-> ranges, page |-> page']
    BY DEF Now
  <1>3. Good(Now')
    <2>1. logs \in [Streams -> Lines \cup {None}] /\ GoodRanges(ranges)
      BY <1>1, <1>2 DEF Good
    <2> QED BY <1>2, <2>1 DEF Good
  <1>4. Typed' BY <1>3 DEF LogInv, Typed
  <1>5. HeldIsTimed' BY DEF LogInv, HeldIsTimed
  <1>6. Untailed' BY DEF LogInv, Untailed
  <1>7. Fit'
    <2> SUFFICES ASSUME NEW i \in DOMAIN tails, OnlyTail(i)'
                 PROVE  FitsTail(Now', tails[i], Lost(garbled, tails[i].stream))
      BY DEF Fit
    <2> DEFINE tail == tails[i]
               G == Lost(garbled, tails[i].stream)
    <2>1. tail \in Tails /\ FitsTail(Now, tail, G) BY TailNow
    <2>2. Now.ranges \subseteq Reads BY <1>1 DEF Good, GoodRanges
    <2>3. Now.logs = Now'.logs /\ Now'.ranges = Now.ranges BY <1>2
    <2> HIDE DEF tail, G
    <2>4. FitsTail(Now', tail, G) BY <2>1, <2>2, <2>3, FitsMore
    <2> QED BY <2>4 DEF tail, G
  <1> QED BY <1>4, <1>5, <1>6, <1>7 DEF LogInv

\* The counts, the journal and the page.
LEMMA Counts ==
    ASSUME LogInv
    PROVE  /\ journal \in [Streams -> 1 .. MaxEntries] /\ page \in Page
           /\ mounts \in Nat /\ mounts \in 0 .. MaxMounts /\ asked \in 0 .. mounts
           /\ asked > 0 => asked - 1 \in 0 .. mounts
           /\ mounts < MaxMounts => mounts + 1 \in 0 .. MaxMounts /\ asked + 1 \in 0 .. mounts + 1
  <1>1. journal \in [Streams -> 1 .. MaxEntries] BY DEF LogInv, Typed
  <1>2. mounts \in 0 .. MaxMounts /\ asked \in 0 .. mounts BY DEF LogInv, Typed
  <1>3. page \in Page BY DEF LogInv, Typed, Good, Now
  <1> QED BY <1>1, <1>2, <1>3, ConstantsAssumption

LEMMA WriteKeeps ==
    ASSUME LogInv, NEW s \in Streams, Write(s) PROVE LogInv'
  <1>1. /\ tails' = tails /\ ranges' = ranges /\ logs' = logs /\ garbled' = garbled
        /\ page' = page /\ mounts' = mounts /\ asked' = asked
        /\ journal[s] < MaxEntries /\ journal' = [journal EXCEPT ![s] = @ + 1]
    BY DEF Write
  <1>2. journal' \in [Streams -> 1 .. MaxEntries] BY <1>1, Counts, ConstantsAssumption
  <1>3. \A i \in DOMAIN tails : OnlyTail(i)' => OnlyTail(i) BY <1>1 DEF OnlyTail, Shown, Now
  <1> QED BY <1>1, <1>2, <1>3, Counts, UntouchedKeeps

LEMMA MountKeeps ==
    ASSUME LogInv, Mount PROVE LogInv'
  <1>1. /\ tails' = tails /\ ranges' = ranges /\ logs' = logs /\ garbled' = garbled
        /\ journal' = journal /\ mounts' = mounts + 1 /\ asked' = asked + 1
        /\ page' = FreshPage /\ mounts < MaxMounts
    BY DEF Mount
  <1>2. page' \in Page BY <1>1 DEF FreshPage, Page
  <1>3. \A i \in DOMAIN tails : ~ OnlyTail(i)'
    <2> SUFFICES ASSUME NEW i \in DOMAIN tails, OnlyTail(i)' PROVE FALSE OBVIOUS
    <2>1. tails[i].stream = None BY <1>1 DEF OnlyTail, Shown, Now, FreshPage
    <2>2. tails[i].stream \in Streams BY TailNow
    <2> QED BY <2>1, <2>2, ConstantsAssumption
  <1> QED BY <1>1, <1>2, <1>3, Counts, UntouchedKeeps

LEMMA StreamTypesFailKeeps ==
    ASSUME LogInv, StreamTypesFail PROVE LogInv'
  <1>1. /\ tails' = tails /\ ranges' = ranges /\ logs' = logs /\ garbled' = garbled
        /\ journal' = journal /\ mounts' = mounts /\ asked > 0 /\ asked' = asked - 1
        /\ page' = IF page.mounted
                   THEN [page EXCEPT !.hasError = TRUE, !.isLoading = FALSE] ELSE page
    BY DEF StreamTypesFail
  <1>2. /\ page' \in Page /\ page'.mounted = page.mounted
        /\ page'.subscriptionID = page.subscriptionID
    BY <1>1, Counts DEF Page
  <1>3. \A i \in DOMAIN tails : OnlyTail(i)' => OnlyTail(i)
    BY <1>1, <1>2 DEF OnlyTail, Shown, Now
  <1> QED BY <1>1, <1>2, <1>3, Counts, UntouchedKeeps

\* What closing a tail leaves of the others.
LEMMA ClosedKeeps ==
    ASSUME NEW ts \in Seq(Tails), NEW s
    PROVE  /\ Closed(ts, s) \in Seq(Tails) /\ Len(Closed(ts, s)) = Len(ts)
           /\ \A i \in DOMAIN ts : /\ Closed(ts, s)[i].stream = ts[i].stream
                                   /\ Closed(ts, s)[i].held = ts[i].held
                                   /\ Closed(ts, s)[i].timer = ts[i].timer
  <1>1. Len(ts) \in Nat /\ DOMAIN ts = 1..Len(ts) BY LenProperties
  <1>2. ASSUME NEW i \in DOMAIN ts
        PROVE  /\ Closed(ts, s)[i] \in Tails /\ Closed(ts, s)[i].stream = ts[i].stream
               /\ Closed(ts, s)[i].held = ts[i].held /\ Closed(ts, s)[i].timer = ts[i].timer
    <2>1. ts[i] \in Tails BY <1>1, ElementOfSeq
    <2>2. Closed(ts, s)[i] =
            IF ts[i].stream = s THEN [ts[i] EXCEPT !.open = FALSE] ELSE ts[i]
      BY DEF Closed
    <2>3. CASE ts[i].stream = s BY <2>1, <2>2, <2>3 DEF Tails
    <2>4. CASE ts[i].stream # s BY <2>1, <2>2, <2>4
    <2> QED BY <2>3, <2>4
  <1>3. DOMAIN Closed(ts, s) = 1..Len(ts) BY <1>1 DEF Closed
  <1>4. Closed(ts, s) = [i \in 1..Len(ts) |-> Closed(ts, s)[i]] BY <1>1 DEF Closed
  <1>5. \A i \in 1..Len(ts) : Closed(ts, s)[i] \in Tails BY <1>1, <1>2
  <1>6. Closed(ts, s) \in Seq(Tails) /\ Len(Closed(ts, s)) = Len(ts)
    <2> DEFINE c == Closed(ts, s)
    <2> HIDE DEF c
    <2>1. c = [i \in 1..Len(ts) |-> c[i]] /\ \A i \in 1..Len(ts) : c[i] \in Tails
      BY <1>4, <1>5 DEF c
    <2>2. c \in Seq(Tails) BY <1>1, <2>1, IsASeq
    <2> QED BY <1>1, <1>3, <2>2, LenProperties DEF c
  <1> QED BY <1>2, <1>6

\* Logs are only cleared.
Cleared == /\ \A t \in Streams : logs'[t] \in {logs[t], None}
           /\ logs' \in [Streams -> Lines \cup {None}]

LEMMA StoppedClears ==
    ASSUME LogInv, NEW s, logs' = Stopped(Now, s).logs PROVE Cleared
  <1>1. logs \in [Streams -> Lines \cup {None}] BY DEF LogInv, Typed, Good, Now
  <1>2. logs' = logs \/ logs' = [logs EXCEPT ![s] = None] BY DEF Stopped, Now
  <1> QED BY <1>1, <1>2 DEF Cleared

LEMMA ClearedGood ==
    ASSUME LogInv, Cleared, ranges' = ranges, page' \in Page PROVE Good(Now')
  <1>1. Now' = [logs |-> logs', ranges |-> ranges, page |-> page'] BY DEF Now
  <1>2. GoodRanges(ranges) BY DEF LogInv, Typed, Good, Now
  <1> QED BY <1>1, <1>2 DEF Good, Cleared

LEMMA UnmountKeeps ==
    ASSUME LogInv, Unmount PROVE LogInv'
  <1>1. /\ tails' = Closed(tails, page.subscriptionID)
        /\ logs' = Stopped(Now, page.subscriptionID).logs
        /\ page' = [FreshPage EXCEPT !.mounted = FALSE]
        /\ ranges' = ranges /\ garbled' = garbled
        /\ journal' = journal /\ asked' = asked /\ mounts' = mounts
    BY DEF Unmount
  <1>2. page' \in Page /\ page'.mounted = FALSE BY <1>1 DEF FreshPage, Page
  <1>3. Cleared BY <1>1, StoppedClears
  <1>4. Good(Now') BY <1>1, <1>2, <1>3, ClearedGood
  <1>5. tails \in Seq(Tails) /\ Len(tails) <= MaxTails BY DEF LogInv, Typed
  <1>6. /\ tails' \in Seq(Tails) /\ Len(tails') = Len(tails)
        /\ \A i \in DOMAIN tails : /\ tails'[i].stream = tails[i].stream
                                   /\ tails'[i].held = tails[i].held
                                   /\ tails'[i].timer = tails[i].timer
    BY <1>1, <1>5, ClosedKeeps
  <1>7. DOMAIN tails' = DOMAIN tails BY <1>5, <1>6, LenProperties
  <1>8. Typed' BY <1>1, <1>4, <1>5, <1>6 DEF LogInv, Typed
  <1>9. HeldIsTimed' BY <1>6, <1>7 DEF LogInv, HeldIsTimed
  <1>10. Untailed' BY <1>1, <1>3, <1>6, <1>7 DEF LogInv, Untailed, Cleared
  <1>11. Fit' BY <1>2 DEF Fit, OnlyTail, Shown, Now
  <1> QED BY <1>8, <1>9, <1>10, <1>11 DEF LogInv

\* A tail of s is started after others were closed, or not, and s is shown.
LEMMA StartKeeps ==
    ASSUME LogInv, NEW s \in Streams, NEW ts \in Seq(Tails), Len(ts) = Len(tails),
           \A i \in DOMAIN tails : /\ ts[i].stream = tails[i].stream
                                   /\ ts[i].held = tails[i].held
                                   /\ ts[i].timer = tails[i].timer,
           Len(tails) < MaxTails, tails' = Started(ts, s), Cleared, ranges' = ranges,
           journal' = journal, garbled' = garbled, page' \in Page, page'.subscriptionID = s,
           mounts' = mounts, asked' \in 0 .. mounts
    PROVE  LogInv'
  <1> DEFINE n == Len(tails) + 1
             new == [stream |-> s, open |-> TRUE, first |-> journal[s], next |-> journal[s],
                     timer |-> FALSE, held |-> <<>>, notice |-> TRUE]
  <1>1. tails \in Seq(Tails) BY DEF LogInv, Typed
  <1>2. Len(tails) \in Nat /\ DOMAIN tails = 1 .. Len(tails) /\ DOMAIN ts = 1 .. Len(tails)
    BY <1>1, LenProperties
  <1>3. journal[s] \in 1 .. MaxEntries /\ journal[s] \in 1 .. MaxEntries + 1
    BY Counts, ConstantsAssumption
  <1>4. <<>> \in Seq(Entry) BY EmptySeq
  <1>5. /\ new \in Tails /\ new.stream = s /\ new.held = <<>>
        /\ new.first = journal[s] /\ new.next = journal[s]
    BY <1>3, <1>4 DEF Tails
  <1>6. tails' = Append(Closed(ts, s), new) BY DEF Started
  <1>7. /\ Closed(ts, s) \in Seq(Tails) /\ Len(Closed(ts, s)) = Len(tails)
        /\ \A i \in DOMAIN tails : /\ Closed(ts, s)[i].stream = tails[i].stream
                                   /\ Closed(ts, s)[i].held = tails[i].held
                                   /\ Closed(ts, s)[i].timer = tails[i].timer
    BY <1>2, ClosedKeeps
  <1> HIDE DEF new
  <1>8. /\ tails' \in Seq(Tails) /\ Len(tails') = n /\ tails'[n] = new
        /\ \A i \in 1 .. Len(tails) : tails'[i] = Closed(ts, s)[i]
    BY <1>5, <1>6, <1>7, AppendProperties
  <1>9. DOMAIN tails' = 1 .. n BY <1>8, LenProperties
  <1>10. \A i \in 1 .. n : i = n \/ i \in 1 .. Len(tails) BY <1>2
  <1>11. n <= MaxTails BY <1>2, ConstantsAssumption
  <1>12. n \in 1 .. n /\ \A i \in 1 .. Len(tails) : i \in 1 .. n BY <1>2
  <1> HIDE DEF n
  <1>13. \A i \in 1 .. Len(tails) : /\ tails'[i].stream = tails[i].stream
                                    /\ tails'[i].held = tails[i].held
                                    /\ tails'[i].timer = tails[i].timer
    BY <1>2, <1>7, <1>8
  <1>14. Good(Now') BY ClearedGood
  <1>15. Typed'
    <2>1. Len(tails') <= MaxTails BY <1>8, <1>11
    <2>2. /\ journal \in [Streams -> 1 .. MaxEntries] /\ mounts \in 0 .. MaxMounts
          /\ garbled \subseteq Streams \X (1 .. MaxEntries)
      BY DEF LogInv, Typed, Places
    <2> QED BY <1>8, <1>14, <2>1, <2>2 DEF Typed, Places
  <1>16. HeldIsTimed'
    BY <1>2, <1>5, <1>8, <1>9, <1>10, <1>13 DEF LogInv, HeldIsTimed
  <1>17. Untailed' BY <1>2, <1>9, <1>12, <1>13 DEF LogInv, Untailed, Cleared
  <1>18. Fit'
    <2> SUFFICES ASSUME NEW i \in 1 .. n, OnlyTail(i)'
                 PROVE  FitsTail(Now', tails'[i], Lost(garbled, tails'[i].stream))
      BY <1>9 DEF Fit
    <2>1. tails'[i].stream = s BY DEF OnlyTail, Shown, Now
    <2>2. tails'[n].stream = s BY <1>5, <1>8
    <2>3. i = n BY <1>9, <1>12, <2>1, <2>2 DEF OnlyTail
    <2>4. \A j \in 1 .. Len(tails) : j # n BY <1>2 DEF n
    <2>5. \A j \in 1 .. Len(tails) : tails'[j].stream # s
      BY <1>9, <1>12, <2>1, <2>3, <2>4 DEF OnlyTail
    <2>6. \A j \in DOMAIN tails : tails[j].stream # s BY <1>2, <1>13, <2>5
    <2>7. logs[s] = None /\ \A r \in ranges : r.stream # s BY <2>6 DEF LogInv, Untailed
    <2>8. logs'[s] = None BY <2>7 DEF Cleared
    <2> DEFINE G == Lost(garbled, s)
               k == journal[s]
    <2>9. logOf(Now', s).entries = <<>> BY <2>8 DEF logOf, Now, EmptyLog
    <2>10. RangesFit(Now'.ranges, s, <<>>, G) BY <2>7 DEF RangesFit, Now
    <2>11. k \in Nat /\ k \in 1 .. k BY <1>3, ConstantsAssumption
    <2> HIDE DEF G, k
    <2>12. Covers(<<>>, G, k, k) BY <2>11, CoversNothing
    <2>13. LogFits(<<>>, <<>>, G, k, k) BY <2>11, <2>12 DEF LogFits
    <2>14. FitsTail(Now', new, G) BY <1>5, <2>9, <2>10, <2>13 DEF FitsTail, k
    <2> QED BY <1>5, <1>8, <2>3, <2>14 DEF G
  <1> QED BY <1>15, <1>16, <1>17, <1>18 DEF LogInv

LEMMA ViewChangeKeeps ==
    ASSUME LogInv, NEW s \in Streams, handleViewChange(s) PROVE LogInv'
  <1> DEFINE ts == Closed(tails, page.subscriptionID)
  <1>1. /\ tails' = Started(ts, s) /\ Len(tails) < MaxTails
        /\ logs' = Stopped(Now, page.subscriptionID).logs
        /\ page' = [page EXCEPT !.subscriptionID = s, !.isLoading = TRUE]
        /\ journal' = journal /\ ranges' = ranges /\ garbled' = garbled
        /\ asked' = asked /\ mounts' = mounts
    BY DEF handleViewChange
  <1>2. page' \in Page /\ page'.subscriptionID = s BY <1>1, Counts DEF Page
  <1>3. Cleared BY <1>1, StoppedClears
  <1>4. tails \in Seq(Tails) BY DEF LogInv, Typed
  <1>5. /\ ts \in Seq(Tails) /\ Len(ts) = Len(tails)
        /\ \A i \in DOMAIN tails : /\ ts[i].stream = tails[i].stream
                                   /\ ts[i].held = tails[i].held
                                   /\ ts[i].timer = tails[i].timer
    BY <1>4, ClosedKeeps
  <1>6. asked' \in 0 .. mounts BY <1>1, Counts
  <1> HIDE DEF ts
  <1> QED BY <1>1, <1>2, <1>3, <1>5, <1>6, StartKeeps

LEMMA StreamTypesKeeps ==
    ASSUME LogInv, StreamTypesArrive PROVE LogInv'
  <1>1. /\ asked > 0 /\ asked' = asked - 1
        /\ journal' = journal /\ ranges' = ranges /\ logs' = logs /\ garbled' = garbled
        /\ mounts' = mounts
    BY DEF StreamTypesArrive
  <1>2. asked' \in 0 .. mounts BY <1>1, Counts
  <1>3. CASE ~ page.mounted
    <2>1. tails' = tails /\ page' = page BY <1>3 DEF StreamTypesArrive
    <2>2. \A i \in DOMAIN tails : OnlyTail(i)' => OnlyTail(i)
      BY <1>1, <2>1 DEF OnlyTail, Shown, Now
    <2> QED BY <1>1, <1>2, <2>1, <2>2, Counts, UntouchedKeeps
  <1>4. CASE page.mounted
    <2>1. /\ Len(tails) < MaxTails /\ tails' = Started(tails, FirstStream)
          /\ page' = [page EXCEPT !.subscriptionID = FirstStream, !.hasError = FALSE]
      BY <1>4 DEF StreamTypesArrive
    <2>2. FirstStream \in Streams BY ConstantsAssumption
    <2>3. page' \in Page /\ page'.subscriptionID = FirstStream
      BY <2>1, <2>2, Counts DEF Page
    <2>4. logs \in [Streams -> Lines \cup {None}] BY DEF LogInv, Typed, Good, Now
    <2>5. Cleared BY <1>1, <2>4 DEF Cleared
    <2>6. tails \in Seq(Tails) BY DEF LogInv, Typed
    <2> QED BY <1>1, <1>2, <2>1, <2>2, <2>3, <2>5, <2>6, StartKeeps
  <1> QED BY <1>3, <1>4

----------------------------------------------------------------------------
LEMMA InitFits == Init => LogInv
  <1> SUFFICES ASSUME Init PROVE LogInv OBVIOUS
  <1>1. /\ tails = <<>> /\ ranges = {} /\ logs = [s \in Streams |-> None]
        /\ asked = 0 /\ mounts = 0 /\ garbled = {}
        /\ page = [FreshPage EXCEPT !.mounted = FALSE]
    BY DEF Init
  <1>2. journal \in [Streams -> 1 .. MaxEntries] BY ConstantsAssumption DEF Init
  <1>3. page \in Page BY <1>1 DEF FreshPage, Page
  <1>4. Good(Now)
    <2>1. GoodRanges(ranges) BY <1>1 DEF GoodRanges, OncePerCursor
    <2>2. logs \in [Streams -> Lines \cup {None}] BY <1>1
    <2> QED BY <1>3, <2>1, <2>2 DEF Good, Now
  <1>5. tails \in Seq(Tails) /\ Len(tails) = 0 /\ DOMAIN tails = {} BY <1>1, EmptySeq
  <1>6. Typed
    <2>1. garbled \subseteq Streams \X (1 .. MaxEntries) BY <1>1
    <2>2. Len(tails) <= MaxTails BY <1>5, ConstantsAssumption
    <2>3. mounts \in 0 .. MaxMounts /\ asked \in 0 .. mounts BY <1>1, ConstantsAssumption
    <2> QED BY <1>2, <1>4, <1>5, <2>1, <2>2, <2>3 DEF Typed, Places
  <1>7. HeldIsTimed /\ Fit BY <1>5 DEF HeldIsTimed, Fit
  <1>8. Untailed BY <1>1 DEF Untailed
  <1> QED BY <1>6, <1>7, <1>8 DEF LogInv

LEMMA StepFits == LogInv /\ [Next]_vars => LogInv'
  <1> SUFFICES ASSUME LogInv, [Next]_vars PROVE LogInv' OBVIOUS
  <1>1. CASE UNCHANGED vars
    <2>1. /\ tails' = tails /\ ranges' = ranges /\ logs' = logs /\ garbled' = garbled
          /\ journal' = journal /\ page' = page /\ mounts' = mounts /\ asked' = asked
      BY <1>1 DEF vars
    <2>2. \A i \in DOMAIN tails : OnlyTail(i)' => OnlyTail(i)
      BY <2>1 DEF OnlyTail, Shown, Now
    <2> QED BY <2>1, <2>2, Counts, UntouchedKeeps
  <1>2. ASSUME NEW s \in Streams, Write(s) \/ handleViewChange(s) PROVE LogInv'
    BY <1>2, WriteKeeps, ViewChangeKeeps
  <1>3. ASSUME NEW i \in DOMAIN tails,
               Message(i) \/ TimerFires(i) \/ TailErrors(i) \/ NoticeFires(i)
        PROVE  LogInv'
    BY <1>3, MessageKeeps, TimerKeeps, ErrorKeeps, NoticeKeeps
  <1>4. ASSUME NEW r \in ranges, RangeMessage(r) \/ RangeEnds(r) PROVE LogInv'
    BY <1>4, RangeMessageKeeps, RangeEndsKeeps
  <1>5. CASE Mount \/ StreamTypesArrive \/ StreamTypesFail \/ ScrollUp \/ Unmount
    BY <1>5, MountKeeps, StreamTypesKeeps, StreamTypesFailKeeps, ScrollUpKeeps, UnmountKeeps
  <1> QED BY <1>1, <1>2, <1>3, <1>4, <1>5 DEF Next

LEMMA LostIsNotParsed == \A s : Lost(garbled, s) = NotParsed(s)
  BY DEF Lost, NotParsed

LEMMA UnbrokenFollows == LogInv => ShownLogIsUnbroken
  <1> SUFFICES ASSUME LogInv, NEW i \in DOMAIN tails, OnlyTail(i)
               PROVE  LET lines == Parsed(logOf(Now, tails[i].stream).entries)
                      IN  \A k \in 1..Len(lines) - 1 :
                             /\ lines[k] < lines[k + 1]
                             /\ lines[k] + 1 .. lines[k + 1] - 1
                                  \subseteq NotParsed(tails[i].stream)
    BY DEF ShownLogIsUnbroken
  <1> DEFINE s == tails[i].stream
             E == logOf(Now, s).entries
             G == NotParsed(s)
             lines == Parsed(E)
  <1>1. Good(Now) /\ tails[i] \in Tails /\ s \in Streams BY TailNow
  <1>2. FitsTail(Now, tails[i], G) BY TailNow, LostIsNotParsed
  <1>3. E \in Seq(Entry) BY <1>1, LogOfTyped
  <1>4. Entry \subseteq Nat BY ConstantsAssumption DEF Entry
  <1>5. E \in Seq(Nat) BY <1>3, <1>4, SeqMonotonic
  <1>6. PICK lo \in 1 .. tails[i].first, mid \in 1 .. tails[i].next : Covers(E, G, lo, mid)
    BY <1>2 DEF FitsTail, LogFits
  <1>7. lo \in Nat \ {0} /\ mid \in Nat BY <1>1, ConstantsAssumption DEF Tails
  <1> HIDE DEF E, G
  <1>8. lines \in Seq(Nat) BY <1>5, ParsedLines
  <1>9. Covers(lines, G, lo, mid) /\ \A k \in 1 .. Len(lines) : lines[k] # 0
    BY <1>5, <1>6, <1>7, CoversParsed
  <1> HIDE DEF lines
  <1>10. ASSUME NEW k \in 1 .. Len(lines) - 1
         PROVE  lines[k] < lines[k + 1] /\ lines[k] + 1 .. lines[k + 1] - 1 \subseteq G
    BY <1>7, <1>8, <1>9, CoversUnbroken
  <1> QED BY <1>10 DEF lines, E, G

LEMMA NothingLostFollows == LogInv => NothingLostInThrottle
  <1> SUFFICES ASSUME LogInv, NEW i \in DOMAIN tails
               PROVE  /\ tails[i].held # <<>> => tails[i].timer
                      /\ OnlyTail(i) =>
                            tails[i].first .. tails[i].next - 1 \subseteq
                               ToSet(logOf(Now, tails[i].stream).entries)
                                 \cup ToSet(tails[i].held) \cup NotParsed(tails[i].stream)
    BY DEF NothingLostInThrottle
  <1> DEFINE tail == tails[i]
             E == logOf(Now, tail.stream).entries
             G == NotParsed(tail.stream)
  <1>1. Good(Now) /\ tail \in Tails /\ tail.stream \in Streams /\ tail.held \in Seq(Entry)
    BY TailNow
  <1>2. E \in Seq(Entry) BY <1>1, LogOfTyped
  <1>3. DOMAIN E = 1 .. Len(E) /\ DOMAIN tail.held = 1 .. Len(tail.held)
    BY <1>1, <1>2, LenProperties
  <1>4. tail.held # <<>> => tail.timer BY TailNow
  <1>5. ASSUME OnlyTail(i), NEW m \in tail.first .. tail.next - 1, m \notin G
        PROVE  m \in ToSet(E) \cup ToSet(tail.held)
    <2>1. FitsTail(Now, tail, G) BY <1>5, TailNow, LostIsNotParsed
    <2>2. PICK lo \in 1 .. tail.first, mid \in 1 .. tail.next :
            Covers(E, G, lo, mid) /\ Covers(tail.held, G, mid, tail.next)
      BY <2>1 DEF FitsTail, LogFits
    <2>3. tail.first \in Nat /\ tail.next \in Nat BY <1>1, ConstantsAssumption DEF Tails
    <2>4. m \in lo .. mid - 1 \/ m \in mid .. tail.next - 1 BY <2>3
    <2> HIDE DEF tail, E, G
    <2>5. CASE m \in lo .. mid - 1
      <3>1. \E k \in 1 .. Len(E) : E[k] = m BY <1>5, <2>2, <2>5 DEF Covers
      <3> QED BY <1>3, <3>1 DEF ToSet
    <2>6. CASE m \in mid .. tail.next - 1
      <3>1. \E k \in 1 .. Len(tail.held) : tail.held[k] = m
        BY <1>5, <2>2, <2>6 DEF Covers
      <3> QED BY <1>3, <3>1 DEF ToSet
    <2> QED BY <2>4, <2>5, <2>6
  <1> HIDE DEF G, E
  <1>6. OnlyTail(i) => tail.first .. tail.next - 1 \subseteq ToSet(E) \cup ToSet(tail.held) \cup G
    BY <1>5
  <1> QED BY <1>4, <1>6 DEF E, G

LEMMA TypesFollow == LogInv /\ IInv => TypeOK
  <1> SUFFICES ASSUME LogInv, IInv PROVE TypeOK OBVIOUS
  <1>1. Entry \subseteq Nat BY ConstantsAssumption DEF Entry
  <1>2. \A q \in Seq(Entry) : q \in Seq(Nat) BY <1>1, SeqMonotonic
  <1>3. Good(Now) BY DEF LogInv, Typed
  <1>4. logs \in [Streams -> Lines \cup {None}] /\ page \in Page /\ GoodRanges(ranges)
    BY <1>3 DEF Good, Now
  <1>5. logs \in [Streams -> Log \cup {None}] BY <1>4, LinesAreLogs
  <1>6. Reads \subseteq Range_ BY <1>2, ConstantsAssumption DEF Reads, Range_
  <1>7. ranges \subseteq Range_ BY <1>4, <1>6 DEF GoodRanges
  <1>8. tails \in Seq(Tail_) /\ stray \in BOOLEAN BY DEF IInv, Shapes
  <1>9. Len(tails) <= MaxTails /\ journal \in [Streams -> 1 .. MaxEntries]
    BY DEF LogInv, Typed
  <1>10. asked \in 0 .. MaxMounts /\ mounts \in 0 .. MaxMounts
    BY ConstantsAssumption DEF LogInv, Typed
  <1>11. garbled \subseteq Streams \X (1 .. MaxEntries) BY DEF LogInv, Typed, Places
  <1> QED BY <1>4, <1>5, <1>7, <1>8, <1>9, <1>10, <1>11 DEF TypeOK

LEMMA Invariants == Spec => [](IInv /\ LogInv)
  <1>1. Init => IInv /\ LogInv BY InitEstablishes, InitFits
  <1>2. (IInv /\ LogInv) /\ [Next]_vars => (IInv /\ LogInv)' BY StepPreserves, StepFits
  <1> QED BY <1>1, <1>2, PTL DEF Spec

\* The tails, ranges, logs and page are what SystemLogStore and the page take
\* them for.
THEOREM TypeCorrectness == Spec => []TypeOK
  <1> QED BY Invariants, TypesFollow, PTL

\* The log shown has no gap, no repetition and no line out of its order, but
\* for lines that did not parse, however the events of its tail, the throttle,
\* the ranges above it and the errors interleave (SystemLogStore.ts,
\* processLogAppend and processLogPrepend).
THEOREM Unbroken == Spec => []ShownLogIsUnbroken
  <1> QED BY Invariants, UnbrokenFollows, PTL

\* No line is lost between the event source and the log: what the throttle
\* holds, its timer passes on (accumulatedThrottle of SystemLogActions.ts).
THEOREM NothingLost == Spec => []NothingLostInThrottle
  <1> QED BY Invariants, NothingLostFollows, PTL
=============================================================================
