-------------------------- MODULE MesosStateProofs --------------------------
(***************************************************************************)
(* What MesosStateStore keeps to for every number of events, connections   *)
(* and retries, and what its copy of the cluster is for every number of    *)
(* agents, frameworks and tasks.                                           *)
(*                                                                         *)
(* The first part, of the pipeline, rests on three relations between it    *)
(* and the stream: the replay buffer holds the latest event sent; outside  *)
(* the live stage that event has not been applied; and the stage decides   *)
(* which observer, if any, is subscribed.  The second part, of the copy,   *)
(* rests on what the master keeps to and on what the rows of the copy have *)
(* been since they were read (ReplicaInv).                                 *)
(***************************************************************************)
EXTENDS MesosStateStore, MesosStateReplica, SubsequenceProofs, FiniteSetTheorems, TLAPS


\* A subject that errored has no connection and no reconnection timer.
StreamConsistent ==
    /\ Stream!CurrentIs("fetching") \/ Stream!CurrentIs("open")
           => subject = "active" /\ repeat # "armed"
    /\ repeat = "armed" => subject = "active"

\* The replay buffer holds the latest event.
ReplayIsLatest ==
    /\ replay # <<>> => replay[1].seq = sent
    /\ greeted => replay # <<>>

\* Which observer stands for the store.
ObserverOfPhase ==
    /\ "take" \in observers =>
           /\ phase \in {"waiting", "failing"}
           /\ replay = <<>>
           /\ phase = "waiting" => ~gotEvent
    /\ "data" \in observers => phase \in {"live", "failing"}
    /\ phase = "live" /\ subject = "active" => "data" \in observers

\* What zip holds is what the stage after it needs.
ZipHolds ==
    /\ phase \in {"waiting", "zipped"} /\ gotEvent /\ subject = "active"
           => replay # <<>>
    /\ phase = "zipped" => gotEvent \/ subject = "complete"
    /\ gotMaster => masterInfo
    /\ phase = "zipped" => gotMaster \/ (subject = "complete" /\ replay = <<>>)
    /\ phase = "live" => masterInfo \/ (subject = "complete" /\ replay = <<>>)

\* What has been applied, against what has been sent.
AppliedBehindSent ==
    /\ Newest(lastMesosState) <= sent
    /\ phase # "live" /\ subject \in {"active", "complete"} /\ replay # <<>>
           => Newest(lastMesosState) < sent
    /\ retries = 0 /\ phase \notin {"live", "failing", "dead"}
           => lastMesosState = <<>>

IInv ==
    /\ TypeOK
    /\ StreamConsistent
    /\ ReplayIsLatest
    /\ ObserverOfPhase
    /\ ZipHolds
    /\ AppliedBehindSent
    /\ LiveIsCurrent
    /\ NothingMissedWhileLive
    /\ NoDataBeforeMaster

----------------------------------------------------------------------------
(* The operators.                                                          *)

\* Folding one event into a state makes it the newest one, and forgets none: an
\* update leaves the events before it, a snapshot stands for them.
LEMMA ParseFacts ==
    ASSUME NEW state \in Seq(Event), NEW e \in Event
    PROVE  /\ Parse(state, e) \in Seq(Event)
           /\ Newest(Parse(state, e)) = e.seq
           /\ Knows(Parse(state, e), e.seq)
           /\ e.kind # "snapshot"
                => \A n \in Nat : Knows(state, n) => Knows(Parse(state, e), n)
           /\ e.kind = "snapshot"
                => \A n \in Nat : n < e.seq => Knows(Parse(state, e), n)
<1>1. CASE e.kind = "snapshot"
  <2> DEFINE t == <<e>>
  <2>1. t \in Seq(Event) /\ Len(t) = 1 /\ t[1] = e /\ t # <<>>
    OBVIOUS
  <2>2. Knows(t, e.seq) /\ \A n \in Nat : n < e.seq => Knows(t, n)
    BY <1>1, <2>1 DEF Knows
  <2>3. Newest(t) = e.seq
    BY <2>1 DEF Newest
  <2> QED BY <1>1, <2>1, <2>2, <2>3 DEF Parse
<1>2. CASE e.kind # "snapshot"
  <2> DEFINE t == Append(state, e)
  <2>1. /\ t \in Seq(Event)
        /\ Len(t) = Len(state) + 1
        /\ t[Len(state) + 1] = e
        /\ \A i \in 1 .. Len(state) : t[i] = state[i]
        /\ Len(state) \in Nat
    OBVIOUS
  <2>2. t # <<>> /\ Newest(t) = e.seq
    BY <2>1 DEF Newest
  <2>3. Knows(t, e.seq)
    BY <2>1 DEF Knows
  <2>4. ASSUME NEW n \in Nat, Knows(state, n)
        PROVE  Knows(t, n)
    <3>1. CASE \E i \in 1 .. Len(state) : state[i].seq = n
      BY <2>1, <3>1 DEF Knows
    <3>2. CASE state # <<>> /\ state[1].kind = "snapshot" /\ state[1].seq > n
      <4>1. 1 \in 1 .. Len(state)
        BY <3>2
      <4> QED BY <2>1, <2>2, <3>2, <4>1 DEF Knows
    <3> QED BY <2>4, <3>1, <3>2 DEF Knows
  <2> QED BY <1>2, <2>1, <2>2, <2>3, <2>4 DEF Parse
<1> QED BY <1>1, <1>2

LEMMA NewestIsNat ==
    ASSUME NEW state \in Seq(Event) PROVE Newest(state) \in Nat
<1>1. CASE state = <<>>
  BY <1>1 DEF Newest
<1>2. CASE state # <<>>
  <2>1. state[Len(state)] \in Event
    BY <1>2
  <2> QED BY <1>2, <2>1 DEF Newest, Event
<1> QED BY <1>1, <1>2

\* The current connection changes its state.
LEMMA BecomesFacts ==
    ASSUME connections \in Seq(Stream!ConnectionState), connections # <<>>,
           NEW state \in Stream!ConnectionState, Stream!CurrentBecomes(state)
    PROVE  /\ connections' \in Seq(Stream!ConnectionState)
           /\ \A s : Stream!CurrentIs(s)' <=> s = state
BY DEF Stream!CurrentBecomes, Stream!CurrentIs, Stream!current

\* A new connection is opened.
LEMMA FetchFacts ==
    ASSUME connections \in Seq(Stream!ConnectionState), Stream!Fetch
    PROVE  /\ connections' \in Seq(Stream!ConnectionState)
           /\ \A s : Stream!CurrentIs(s)' <=> s = "fetching"
BY DEF Stream!Fetch, Stream!CurrentIs, Stream!current, Stream!ConnectionState

\* The end of an abandoned connection opens none.
LEMMA AbandonedFacts ==
    ASSUME connections \in Seq(Stream!ConnectionState), Stream!AbandonedEnds
    PROVE  /\ connections' \in Seq(Stream!ConnectionState)
           /\ \A s \in {"fetching", "open"} :
                  Stream!CurrentIs(s)' <=> Stream!CurrentIs(s)
BY DEF Stream!AbandonedEnds, Stream!CurrentIs, Stream!current, Stream!ConnectionState

----------------------------------------------------------------------------
LEMMA InitEstablishes == Init => IInv
<1> SUFFICES ASSUME Init PROVE IInv
  OBVIOUS
<1> USE DEF Init, Stream!StreamInit
<1>1. /\ greeted \in BOOLEAN /\ listeners \in BOOLEAN /\ gotMaster \in BOOLEAN
      /\ gotEvent \in BOOLEAN /\ sample \in BOOLEAN /\ masterInfo \in BOOLEAN
      /\ ready \in BOOLEAN
  BY Zenon
<1>2. TypeOK
  BY <1>1, BoundsAssumption DEF TypeOK, Phase, Synchronous, Observer
<1>3. StreamConsistent /\ ReplayIsLatest /\ ObserverOfPhase /\ ZipHolds
  BY DEF StreamConsistent, Stream!CurrentIs, ReplayIsLatest, ObserverOfPhase,
         ZipHolds
<1>4. /\ AppliedBehindSent /\ LiveIsCurrent /\ NothingMissedWhileLive
      /\ NoDataBeforeMaster
  BY DEF AppliedBehindSent, LiveIsCurrent, NothingMissedWhileLive,
         NoDataBeforeMaster, Newest, Knows
<1> QED BY <1>2, <1>3, <1>4 DEF IInv

\* Steps that leave the stream, the events and the applied state alone.
LEMMA QuietSteps ==
    ASSUME IInv,
           \/ PageRequestsMaster \/ MasterAnswers \/ MasterAnswersGarbage
           \/ MasterRequestFails \/ MasterRequestRetries
           \/ AddChangeListener \/ RemoveChangeListener \/ BackoffOver
           \/ IntervalTick \/ EmitChange
    PROVE  IInv'
<1> USE BoundsAssumption DEF IInv, streamVars, storeVars, masterVars, Idle,
        Phase, Synchronous
<1>1. UNCHANGED <<streamVars, sent, greeted, retries, liveSince, lastMesosState, ready>>
  BY DEF PageRequestsMaster, MasterAnswers, MasterAnswersGarbage,
         MasterRequestFails, MasterRequestRetries, AddChangeListener,
         RemoveChangeListener, BackoffOver, IntervalTick, EmitChange
<1>2. StreamConsistent' /\ ReplayIsLatest' /\ NothingMissedWhileLive'
  <2>1. StreamConsistent' /\ ReplayIsLatest'
    BY <1>1 DEF StreamConsistent, Stream!CurrentIs, Stream!current, ReplayIsLatest
  <2>2. phase' = "live" => phase = "live"
    BY DEF PageRequestsMaster, MasterAnswers, MasterAnswersGarbage,
           MasterRequestFails, MasterRequestRetries, AddChangeListener,
           RemoveChangeListener, BackoffOver, IntervalTick, EmitChange,
           StoreGetsMaster
  <2> QED BY <1>1, <2>1, <2>2 DEF NothingMissedWhileLive, Knows
<1>3. TypeOK'
  <2>1. /\ gotMaster' \in BOOLEAN /\ masterInfo' \in BOOLEAN
        /\ listeners' \in BOOLEAN /\ sample' \in BOOLEAN
        /\ gotEvent' \in BOOLEAN
    BY Zenon
       DEF TypeOK, StoreGetsMaster, PageRequestsMaster, MasterAnswers,
           MasterAnswersGarbage, MasterRequestFails, MasterRequestRetries,
           AddChangeListener, RemoveChangeListener, BackoffOver,
           IntervalTick, EmitChange
  <2>2. /\ master' \in {"idle", "requesting", "retrying", "answered", "garbled", "failed"}
        /\ masterErrors' \in 0 .. MaxRetries
        /\ phase' \in Phase
    BY DEF TypeOK, StoreGetsMaster, PageRequestsMaster, MasterAnswers,
           MasterAnswersGarbage, MasterRequestFails, MasterRequestRetries,
           AddChangeListener, RemoveChangeListener, BackoffOver,
           IntervalTick, EmitChange
  <2> QED BY <1>1, <2>1, <2>2 DEF TypeOK
<1>4. CASE PageRequestsMaster \/ MasterRequestRetries
  BY <1>1, <1>2, <1>3, <1>4
     DEF PageRequestsMaster, MasterRequestRetries, ObserverOfPhase,
         ZipHolds, AppliedBehindSent, LiveIsCurrent, NoDataBeforeMaster, Newest
<1>5. CASE MasterAnswers
  BY <1>1, <1>2, <1>3, <1>5
     DEF MasterAnswers, StoreAwaitsMaster, StoreGetsMaster,
         ObserverOfPhase, ZipHolds, AppliedBehindSent, LiveIsCurrent,
         NoDataBeforeMaster, Newest
<1>6. CASE MasterAnswersGarbage \/ MasterRequestFails
  BY <1>1, <1>2, <1>3, <1>6
     DEF MasterAnswersGarbage, MasterRequestFails, StoreAwaitsMaster,
         ObserverOfPhase, ZipHolds, AppliedBehindSent, LiveIsCurrent,
         NoDataBeforeMaster, Newest
<1>7. CASE AddChangeListener \/ RemoveChangeListener \/ BackoffOver
  BY <1>1, <1>2, <1>3, <1>7
     DEF AddChangeListener, RemoveChangeListener, BackoffOver,
         ObserverOfPhase, ZipHolds, AppliedBehindSent, LiveIsCurrent,
         NoDataBeforeMaster, Newest
<1>8. CASE IntervalTick \/ EmitChange
  BY <1>1, <1>2, <1>3, <1>8
     DEF IntervalTick, EmitChange, ObserverOfPhase, ZipHolds,
         AppliedBehindSent, LiveIsCurrent, NoDataBeforeMaster, Newest
<1> QED BY <1>4, <1>5, <1>6, <1>7, <1>8

\* The pipeline fails, and waits or gives up.
LEMMA RetryStep == IInv /\ Retry => IInv'
<1> SUFFICES ASSUME IInv, Retry PROVE IInv'
  OBVIOUS
<1> USE DEF IInv, Retry, masterVars
<1>1. TypeOK'
  <2>1. sample' \in BOOLEAN
    BY Zenon
  <2> QED BY <2>1, BoundsAssumption DEF TypeOK, Phase, Synchronous
<1>2. StreamConsistent' /\ ReplayIsLatest'
  BY DEF StreamConsistent, Stream!CurrentIs, Stream!current, ReplayIsLatest
<1>3. ObserverOfPhase' /\ ZipHolds'
  BY DEF ObserverOfPhase, ZipHolds
<1>4. AppliedBehindSent'
  BY BoundsAssumption DEF AppliedBehindSent, Newest, TypeOK
<1>5. LiveIsCurrent' /\ NothingMissedWhileLive' /\ NoDataBeforeMaster'
  BY BoundsAssumption
     DEF LiveIsCurrent, NothingMissedWhileLive, Knows, NoDataBeforeMaster, TypeOK
<1> QED BY <1>1, <1>2, <1>3, <1>4, <1>5

\* The connection moves, or a new one is opened, without the store hearing.
LEMMA StreamMovesStep == IInv /\ (StreamMoves \/ StreamReconnects) => IInv'
<1> SUFFICES ASSUME IInv, StreamMoves \/ StreamReconnects PROVE IInv'
  OBVIOUS
<1> USE DEF IInv, masterVars, storeVars
<1>1. /\ connections' \in Seq(Stream!ConnectionState)
      /\ StreamConsistent'
      /\ repeat' \in {"unused", "armed", "used"}
      /\ UNCHANGED <<subject, replay, observers, sent, masterVars, storeVars>>
      /\ greeted' => greeted
      /\ greeted' \in BOOLEAN
  <2>1. CASE Stream!ResponseOpens /\ StreamMoves
    <3>1. connections # <<>> /\ Stream!CurrentBecomes("open")
      BY <2>1 DEF Stream!ResponseOpens, Stream!CurrentIs
    <3>2. /\ connections' \in Seq(Stream!ConnectionState)
          /\ \A x : Stream!CurrentIs(x)' <=> x = "open"
      BY <3>1, BecomesFacts DEF TypeOK, Stream!ConnectionState
    <3> QED BY <2>1, <3>2 DEF Stream!ResponseOpens, StreamMoves, StreamConsistent, TypeOK
  <2>2. CASE Stream!ConnectionBreaks /\ StreamMoves
    <3>1. connections # <<>> /\ Stream!CurrentBecomes("hung")
      BY <2>2 DEF Stream!ConnectionBreaks, Stream!CurrentIs
    <3>2. /\ connections' \in Seq(Stream!ConnectionState)
          /\ \A x : Stream!CurrentIs(x)' <=> x = "hung"
      BY <3>1, BecomesFacts DEF TypeOK, Stream!ConnectionState
    <3> QED BY <2>2, <3>2 DEF Stream!ConnectionBreaks, StreamMoves, StreamConsistent, TypeOK
  <2>3. CASE Stream!AbandonedEnds /\ StreamMoves
    <3>1. /\ connections' \in Seq(Stream!ConnectionState)
          /\ \A x \in {"fetching", "open"} :
                 Stream!CurrentIs(x)' <=> Stream!CurrentIs(x)
      BY <2>3, AbandonedFacts DEF TypeOK
    <3> QED BY <2>3, <3>1 DEF Stream!AbandonedEnds, StreamMoves, StreamConsistent, TypeOK
  <2>4. CASE StreamReconnects
    <3>1. Stream!Fetch
      BY <2>4 DEF StreamReconnects, Stream!Reconnect
    <3>2. /\ connections' \in Seq(Stream!ConnectionState)
          /\ \A x : Stream!CurrentIs(x)' <=> x = "fetching"
      BY <3>1, FetchFacts DEF TypeOK
    <3> QED BY <2>4, <3>2 DEF StreamReconnects, Stream!Reconnect, StreamConsistent, TypeOK
  <2> QED BY <2>1, <2>2, <2>3, <2>4 DEF StreamMoves
<1>2. TypeOK'
  BY <1>1 DEF TypeOK
<1>3. ReplayIsLatest' /\ ObserverOfPhase' /\ ZipHolds'
  BY <1>1 DEF ReplayIsLatest, ObserverOfPhase, ZipHolds
<1>4. AppliedBehindSent'
  BY <1>1 DEF AppliedBehindSent, Newest
<1>5. LiveIsCurrent' /\ NothingMissedWhileLive' /\ NoDataBeforeMaster'
  BY <1>1 DEF LiveIsCurrent, NothingMissedWhileLive, Knows, NoDataBeforeMaster, Newest
<1> QED BY <1>1, <1>2, <1>3, <1>4, <1>5

\* The stream fails, with or without an observer.
LEMMA StreamFailsStep == IInv /\ StreamFails => IInv'
<1> SUFFICES ASSUME IInv, StreamFails PROVE IInv'
  OBVIOUS
<1> USE DEF IInv, masterVars
<1>1. /\ connections' \in Seq(Stream!ConnectionState)
      /\ ~ Stream!CurrentIs("fetching")' /\ ~ Stream!CurrentIs("open")'
  <2>1. PICK x \in {"ended", "abandoned"} :
            connections # <<>> /\ Stream!CurrentBecomes(x)
    BY DEF StreamFails, Stream!ResponseFails, Stream!DecodeFails, Stream!CurrentIs
  <2> QED BY <2>1, BecomesFacts DEF TypeOK, Stream!ConnectionState
<1>2. /\ subject' = "errored" /\ observers' = {}
      /\ UNCHANGED <<repeat, replay, sent, greeted, masterVars, listeners,
                     gotMaster, gotEvent, retries, liveSince, sample, lastMesosState,
                     masterInfo, ready>>
      /\ phase' = IF observers # {} THEN "failing" ELSE phase
      /\ subject = "active" /\ repeat # "armed"
      /\ phase \notin Synchronous
  BY DEF StreamFails, Stream!ResponseFails, Stream!DecodeFails,
         Stream!SubjectErrors, StreamConsistent, Idle
<1>3. observers # {} => phase \in {"waiting", "live"}
  <2>1. observers # {} => "take" \in observers \/ "data" \in observers
    BY DEF TypeOK, Observer
  <2> QED BY <1>2, <2>1 DEF ObserverOfPhase, Synchronous
<1>4. TypeOK'
  BY <1>1, <1>2 DEF TypeOK, Phase, Synchronous
<1>5. StreamConsistent' /\ ReplayIsLatest'
  BY <1>1, <1>2 DEF StreamConsistent, ReplayIsLatest
<1>6. ObserverOfPhase' /\ ZipHolds'
  BY <1>2, <1>3 DEF ObserverOfPhase, ZipHolds, Synchronous
<1>7. AppliedBehindSent'
  BY <1>2, <1>3 DEF AppliedBehindSent, Newest
<1>8. LiveIsCurrent' /\ NothingMissedWhileLive' /\ NoDataBeforeMaster'
  BY <1>2 DEF LiveIsCurrent, NothingMissedWhileLive, Knows, NoDataBeforeMaster, Newest
<1> QED BY <1>4, <1>5, <1>6, <1>7, <1>8

\* The connection ends: the timer is armed, or the stream completes.
LEMMA StreamEndsStep == IInv /\ StreamEnds => IInv'
<1> SUFFICES ASSUME IInv, StreamEnds PROVE IInv'
  OBVIOUS
<1> USE DEF IInv, masterVars
<1>1. /\ connections' \in Seq(Stream!ConnectionState)
      /\ ~ Stream!CurrentIs("fetching")' /\ ~ Stream!CurrentIs("open")'
  <2>1. connections # <<>> /\ Stream!CurrentBecomes("ended")
    BY DEF StreamEnds, Stream!ConnectionEnds, Stream!CurrentIs
  <2> QED BY <2>1, BecomesFacts DEF TypeOK, Stream!ConnectionState
<1>2. /\ subject = "active" /\ phase \notin Synchronous
      /\ UNCHANGED <<replay, sent, greeted, masterVars, listeners, gotMaster,
                     gotEvent, retries, liveSince, sample, lastMesosState, masterInfo,
                     ready>>
  BY DEF StreamEnds, Stream!ConnectionEnds, StreamConsistent, Idle
<1>3. \/ /\ repeat' = "armed" /\ subject' = "active"
         /\ observers' = observers /\ phase' = phase
      \/ /\ repeat' = "used" /\ subject' = "complete" /\ observers' = {}
         /\ phase' = IF "take" \in observers THEN "zipped" ELSE phase
  BY <1>2 DEF StreamEnds, Stream!ConnectionEnds, Stream!SourceCompletes
<1>4. TypeOK'
  BY <1>1, <1>2, <1>3 DEF TypeOK, Phase, Synchronous
<1>5. StreamConsistent' /\ ReplayIsLatest'
  BY <1>1, <1>2, <1>3 DEF StreamConsistent, ReplayIsLatest
<1>6. ObserverOfPhase' /\ ZipHolds'
  BY <1>2, <1>3 DEF ObserverOfPhase, ZipHolds, Synchronous
<1>7. AppliedBehindSent'
  BY <1>2, <1>3 DEF AppliedBehindSent, ObserverOfPhase, Newest, Synchronous
<1>8. LiveIsCurrent' /\ NothingMissedWhileLive' /\ NoDataBeforeMaster'
  BY <1>2, <1>3
     DEF LiveIsCurrent, NothingMissedWhileLive, Knows, NoDataBeforeMaster, Newest
<1> QED BY <1>4, <1>5, <1>6, <1>7, <1>8

\* Applying an event: the parsers fold it in, or throw and leave the state.
LEMMA ApplyFacts ==
    ASSUME TypeOK, NEW e \in Event, Apply(e)
    PROVE  /\ phase' \in {"live", "failing"}
           /\ lastMesosState' \in Seq(Event)
           /\ ready' \in BOOLEAN /\ sample' \in BOOLEAN
           /\ phase' = "live" => /\ lastMesosState' = Parse(lastMesosState, e)
                                 /\ Newest(lastMesosState') = e.seq
           /\ phase' = "failing" => lastMesosState' = lastMesosState
<1>1. /\ Parse(lastMesosState, e) \in Seq(Event)
      /\ Newest(Parse(lastMesosState, e)) = e.seq
  BY ParseFacts DEF TypeOK
<1>2. ready' \in BOOLEAN /\ sample' \in BOOLEAN
  BY Zenon DEF Apply, TypeOK
<1>3. CASE e.kind = "poison"
  <2>1. phase' = "failing" /\ lastMesosState' = lastMesosState
    BY <1>3 DEF Apply
  <2> QED BY <1>2, <2>1 DEF TypeOK
<1>4. CASE e.kind # "poison"
  <2>1. phase' = "live" /\ lastMesosState' = Parse(lastMesosState, e)
    BY <1>4 DEF Apply
  <2> QED BY <1>1, <1>2, <1>4, <2>1
<1> QED BY <1>3, <1>4

\* An event reaches take(1), data$, or nobody.
LEMMA StreamEventStep == IInv /\ StreamEvent => IInv'
<1> SUFFICES ASSUME IInv, StreamEvent PROVE IInv'
  OBVIOUS
<1> USE DEF IInv, masterVars
<1>1. PICK e \in [seq : {sent + 1}, kind : {"snapshot", "update", "poison"}] :
          /\ greeted => e.kind # "snapshot"
          /\ ~greeted => e.kind # "update"
          /\ Stream!Emit(e, {"take"}) \/ Stream!ResponseIsJson(e, {"take"})
          /\ StoreGets(e)
  BY DEF StreamEvent
<1>2. /\ sent < MaxEvents /\ sent' = sent + 1 /\ greeted' = TRUE
      /\ phase \notin Synchronous
      /\ UNCHANGED <<masterVars, listeners, gotMaster, retries, liveSince, masterInfo>>
  BY DEF StreamEvent, Idle
<1>3. sent \in Nat /\ sent' \in 0 .. MaxEvents
  BY <1>2, BoundsAssumption DEF TypeOK
<1>4. e \in Event /\ e.seq = sent'
  BY <1>2, <1>3 DEF Event
<1>5. /\ connections' \in Seq(Stream!ConnectionState)
      /\ subject = "active" /\ replay' = <<e>>
      /\ repeat' \in {"unused", "armed", "used"}
      /\ \/ /\ subject' = "active" /\ observers' = observers \ {"take"}
         \/ /\ subject' = "complete" /\ observers' = {}
      /\ StreamConsistent'
  <2>1. CASE Stream!Emit(e, {"take"})
    <3>1. /\ UNCHANGED <<connections, subject, repeat>>
          /\ replay' = <<e>> /\ observers' = observers \ {"take"}
          /\ Stream!CurrentIs("open")
      BY <2>1 DEF Stream!Emit
    <3>2. subject = "active"
      BY <3>1 DEF StreamConsistent
    <3>3. StreamConsistent'
      BY <3>1 DEF StreamConsistent, Stream!CurrentIs, Stream!current
    <3> QED BY <3>1, <3>2, <3>3 DEF TypeOK
  <2>2. CASE Stream!ResponseIsJson(e, {"take"})
    <3>1. /\ connections # <<>> /\ Stream!CurrentBecomes("ended")
          /\ subject = "active" /\ replay' = <<e>>
      BY <2>2 DEF Stream!ResponseIsJson, Stream!CurrentIs, StreamConsistent
    <3>2. /\ connections' \in Seq(Stream!ConnectionState)
          /\ ~ Stream!CurrentIs("fetching")' /\ ~ Stream!CurrentIs("open")'
      BY <3>1, BecomesFacts DEF TypeOK, Stream!ConnectionState
    <3>3. \/ /\ repeat' = "armed" /\ subject' = "active"
             /\ observers' = observers \ {"take"}
          \/ /\ repeat' = "used" /\ subject' = "complete" /\ observers' = {}
      BY <2>2, <3>1 DEF Stream!ResponseIsJson, Stream!SourceCompletes
    <3> QED BY <3>1, <3>2, <3>3 DEF StreamConsistent
  <2> QED BY <1>1, <2>1, <2>2
<1>6. ReplayIsLatest'
  BY <1>4, <1>5 DEF ReplayIsLatest
<1>7. greeted' \in BOOLEAN /\ replay' \in Seq(Event) /\ Len(replay') <= 1
  BY <1>2, <1>4, <1>5
<1>8. observers' \subseteq Observer
  BY <1>5 DEF TypeOK
<1>9. Newest(lastMesosState) \in Nat /\ Newest(lastMesosState) <= sent
  BY NewestIsNat DEF TypeOK, AppliedBehindSent
<1>10. CASE "take" \in observers
  <2>1. phase = "waiting" /\ ~gotEvent /\ "data" \notin observers
    BY <1>2, <1>10 DEF ObserverOfPhase, Synchronous
  <2>2. /\ gotEvent' = TRUE
        /\ phase' = IF gotMaster THEN "zipped" ELSE phase
        /\ UNCHANGED <<lastMesosState, ready, sample>>
    BY <1>1, <1>10, <2>1 DEF StoreGets
  <2>3. gotEvent' \in BOOLEAN
    BY <2>2, Zenon
  <2>4. TypeOK'
    BY <1>2, <1>3, <1>5, <1>7, <1>8, <2>2, <2>3 DEF TypeOK, Phase, Synchronous
  <2>5. "take" \notin observers' /\ "data" \notin observers'
    BY <1>5, <2>1
  <2>6. ObserverOfPhase' /\ ZipHolds'
    BY <1>2, <1>5, <2>1, <2>2, <2>5 DEF ObserverOfPhase, ZipHolds
  <2>7. AppliedBehindSent'
    BY <1>2, <1>3, <1>9, <2>1, <2>2 DEF AppliedBehindSent, Newest
  <2>8. LiveIsCurrent' /\ NothingMissedWhileLive' /\ NoDataBeforeMaster'
    BY <1>2, <2>1, <2>2
       DEF LiveIsCurrent, NothingMissedWhileLive, Knows, NoDataBeforeMaster
  <2> QED BY <1>5, <1>6, <2>4, <2>6, <2>7, <2>8
<1>11. CASE "data" \in observers
  <2>1. phase = "live" /\ "take" \notin observers
    BY <1>2, <1>11 DEF ObserverOfPhase, Synchronous
  <2>2. Apply(e) /\ gotEvent' = gotEvent
    BY <1>1, <1>11, <2>1 DEF StoreGets
  <2>3. /\ phase' \in {"live", "failing"}
        /\ lastMesosState' \in Seq(Event)
        /\ ready' \in BOOLEAN /\ sample' \in BOOLEAN
        /\ phase' = "live" => Newest(lastMesosState') = sent'
        /\ phase' = "failing" => lastMesosState' = lastMesosState
    BY <1>4, <2>2, ApplyFacts
  <2>4. NothingMissedWhileLive'
    <3> DEFINE t == Parse(lastMesosState, e)
    <3>1. CASE phase' = "failing"
      BY <3>1 DEF NothingMissedWhileLive
    <3>2. CASE phase' = "live"
      <4>1. lastMesosState' = t
        BY <1>4, <2>2, <3>2, ApplyFacts
      <4>2. ASSUME NEW n \in 1 .. sent', n >= liveSince
            PROVE  Knows(t, n)
        <5>1. lastMesosState \in Seq(Event)
          BY DEF TypeOK
        <5>2. CASE n = sent'
          BY <1>4, <5>1, <5>2, ParseFacts
        <5>3. CASE n # sent' /\ e.kind = "snapshot"
          <6>1. n \in Nat /\ n < e.seq
            BY <1>3, <1>4, <5>3
          <6> QED BY <1>4, <5>1, <5>3, <6>1, ParseFacts
        <5>4. CASE n # sent' /\ e.kind # "snapshot"
          <6>1. greeted \/ e.kind = "poison"
            BY <1>1, <5>4
          <6>2. e.kind # "poison"
            BY <2>2, <3>2 DEF Apply
          <6>3. n \in 1 .. sent
            BY <1>2, <1>3, <5>4
          <6>4. Knows(lastMesosState, n)
            BY <2>1, <4>2, <6>1, <6>2, <6>3 DEF NothingMissedWhileLive
          <6>5. n \in Nat
            BY <1>3
          <6> QED BY <1>4, <5>1, <5>4, <6>4, <6>5, ParseFacts
        <5> QED BY <5>2, <5>3, <5>4
      <4>3. liveSince' = liveSince
        BY <1>2
      <4>4. \A n \in 1 .. sent' : n >= liveSince' => Knows(lastMesosState', n)
        BY <4>1, <4>2, <4>3, Zenon
      <4> QED BY <4>4 DEF NothingMissedWhileLive, Knows
    <3> QED BY <2>3, <3>1, <3>2
  <2>5. TypeOK'
    BY <1>2, <1>3, <1>5, <1>7, <1>8, <2>2, <2>3 DEF TypeOK, Phase, Synchronous
  <2>6. /\ "take" \notin observers'
        /\ subject' = "active" => "data" \in observers'
    BY <1>5, <1>11, <2>1
  <2>7. masterInfo
    BY <1>5, <2>1 DEF ZipHolds
  <2>8. ObserverOfPhase' /\ ZipHolds'
    BY <1>2, <2>2, <2>3, <2>6, <2>7 DEF ObserverOfPhase, ZipHolds
  <2>9. AppliedBehindSent'
    <3>1. CASE phase' = "live"
      BY <1>3, <2>3, <3>1 DEF AppliedBehindSent
    <3>2. CASE phase' = "failing"
      BY <1>2, <1>3, <1>9, <2>3, <3>2 DEF AppliedBehindSent
    <3> QED BY <2>3, <3>1, <3>2
  <2>10. LiveIsCurrent' /\ NothingMissedWhileLive' /\ NoDataBeforeMaster'
    BY <1>2, <2>3, <2>4, <2>7 DEF LiveIsCurrent, NoDataBeforeMaster
  <2> QED BY <1>5, <1>6, <2>5, <2>8, <2>9, <2>10
<1>12. CASE observers = {}
  <2>1. phase # "live"
    BY <1>5, <1>12 DEF ObserverOfPhase
  <2>2. UNCHANGED <<phase, gotEvent, lastMesosState, ready, sample>>
    BY <1>1, <1>12 DEF StoreGets
  <2>3. TypeOK'
    BY <1>2, <1>3, <1>5, <1>7, <1>8, <2>2 DEF TypeOK
  <2>4. observers' = {}
    BY <1>5, <1>12
  <2>5. ObserverOfPhase' /\ ZipHolds'
    BY <1>2, <1>5, <2>1, <2>2, <2>4 DEF ObserverOfPhase, ZipHolds, Synchronous
  <2>6. AppliedBehindSent'
    BY <1>2, <1>3, <1>9, <2>1, <2>2 DEF AppliedBehindSent, Newest
  <2>7. LiveIsCurrent' /\ NothingMissedWhileLive' /\ NoDataBeforeMaster'
    BY <1>2, <2>1, <2>2
       DEF LiveIsCurrent, NothingMissedWhileLive, Knows, NoDataBeforeMaster
  <2> QED BY <1>5, <1>6, <2>3, <2>5, <2>6, <2>7
<1> QED BY <1>10, <1>11, <1>12 DEF TypeOK, Observer

\* A subscription that opens a connection gives the stream a new subject.
LEMMA ConnectFacts ==
    ASSUME TypeOK, NEW o \in Observer, Stream!SubscribeAndConnect(o)
    PROVE  /\ connections' \in Seq(Stream!ConnectionState)
           /\ subject' = "active" /\ repeat' = "unused" /\ replay' = <<>>
           /\ observers' = {o}
           /\ StreamConsistent'
           /\ subject \in {"none", "errored"}
<1>1. connections' \in Seq(Stream!ConnectionState)
  BY FetchFacts DEF Stream!SubscribeAndConnect, TypeOK
<1> QED BY <1>1 DEF Stream!SubscribeAndConnect, StreamConsistent

\* wait$ is subscribed to.
LEMMA StartStep == IInv /\ Start => IInv'
<1> SUFFICES ASSUME IInv, Start PROVE IInv'
  OBVIOUS
<1> USE DEF IInv, masterVars, streamVars
<1>1. /\ phase = "starting" /\ observers = {}
      /\ UNCHANGED <<sent, listeners, retries, liveSince, sample, lastMesosState, ready>>
  BY DEF Start, ObserverOfPhase, TypeOK, Observer
<1>2. /\ master' \in {"idle", "requesting", "retrying", "answered", "garbled", "failed"}
      /\ masterErrors' \in 0 .. MaxRetries
      /\ gotMaster' => masterInfo'
      /\ masterInfo => masterInfo'
  BY BoundsAssumption DEF Start, SubscribeMaster, TypeOK
<1>3. gotMaster' \in BOOLEAN /\ masterInfo' \in BOOLEAN
  BY Zenon DEF Start, SubscribeMaster, TypeOK
<1>4. /\ connections' \in Seq(Stream!ConnectionState)
      /\ subject' \in {"none", "active", "errored", "complete"}
      /\ repeat' \in {"unused", "armed", "used"}
      /\ StreamConsistent'
      /\ \/ /\ replay' = <<>> /\ observers' = {"take"} /\ ~gotEvent'
            /\ subject' = "active" /\ ~greeted'
         \/ /\ replay' = replay /\ observers' = {} /\ subject' = subject
            /\ (gotEvent' <=> replay # <<>>)
            /\ subject \in {"active", "complete"} /\ (greeted' <=> greeted)
            /\ (replay = <<>> => subject = "complete")
  <2>1. CASE Stream!SubscribeAndConnect("take") /\ gotEvent' = FALSE /\ greeted' = FALSE
    BY <2>1, ConnectFacts DEF Observer
  <2>2. CASE /\ replay = <<>> /\ Stream!SubscribeShared("take")
             /\ gotEvent' = FALSE /\ UNCHANGED greeted
    BY <1>1, <2>2 DEF Stream!SubscribeShared, TypeOK, StreamConsistent,
                      Stream!CurrentIs, Stream!current, ReplayIsLatest
  <2>3. CASE /\ subject \in {"active", "complete"}
             /\ replay # <<>> \/ subject = "complete"
             /\ gotEvent' = (replay # <<>>)
             /\ UNCHANGED <<streamVars, greeted>>
    BY <1>1, <2>3 DEF TypeOK, StreamConsistent, Stream!CurrentIs, Stream!current
  <2> QED BY <2>1, <2>2, <2>3 DEF Start, SubscribeTake
<1>5. gotEvent' \in BOOLEAN /\ greeted' \in BOOLEAN
  BY Zenon DEF Start, SubscribeTake, TypeOK
<1>6. phase' = IF master = "garbled" THEN "failing"
               ELSE IF gotEvent' THEN (IF gotMaster' THEN "zipped" ELSE "waiting")
               ELSE IF subject' = "complete" THEN "zipped" ELSE "waiting"
  BY DEF Start
<1>7. TypeOK'
  <2>1. phase' \in Phase
    BY <1>6 DEF Phase, Synchronous
  <2>2. replay' \in Seq(Event) /\ Len(replay') <= 1
    <3>1. replay' = <<>> \/ replay' = replay
      BY <1>4
    <3>2. replay \in Seq(Event) /\ Len(replay) <= 1
      BY DEF TypeOK
    <3>3. CASE replay' = <<>>
      BY <3>3
    <3>4. CASE replay' = replay
      BY <3>2, <3>4
    <3> QED BY <3>1, <3>3, <3>4
  <2>3. observers' \subseteq Observer
    BY <1>4 DEF Observer
  <2> QED BY <1>1, <1>2, <1>3, <1>4, <1>5, <2>1, <2>2, <2>3 DEF TypeOK
<1>8. ReplayIsLatest'
  BY <1>1, <1>4 DEF ReplayIsLatest
<1>9. ObserverOfPhase'
  BY <1>4, <1>6 DEF ObserverOfPhase
<1>10. ZipHolds'
  BY <1>2, <1>4, <1>6 DEF ZipHolds
<1>11. AppliedBehindSent'
  BY <1>1, <1>4, <1>6 DEF AppliedBehindSent, Newest
<1>12. LiveIsCurrent' /\ NothingMissedWhileLive' /\ NoDataBeforeMaster'
  BY <1>1, <1>2, <1>6
     DEF LiveIsCurrent, NothingMissedWhileLive, Knows, NoDataBeforeMaster
<1> QED BY <1>4, <1>7, <1>8, <1>9, <1>10, <1>11, <1>12

\* data$ is subscribed to, and applies the replayed event.
LEMMA GoLiveStep == IInv /\ GoLive => IInv'
<1> SUFFICES ASSUME IInv, GoLive PROVE IInv'
  OBVIOUS
<1> USE DEF IInv, masterVars, streamVars
<1>1. /\ phase = "zipped" /\ observers = {}
      /\ UNCHANGED <<sent, masterVars, listeners, gotMaster, gotEvent, retries,
                     masterInfo>>
  BY DEF GoLive, ObserverOfPhase, TypeOK, Observer
<1>2. /\ Newest(lastMesosState) \in Nat /\ Newest(lastMesosState) <= sent
      /\ liveSince' \in 0 .. MaxEvents
  BY NewestIsNat DEF TypeOK, AppliedBehindSent, GoLive
<1>3. CASE /\ Stream!SubscribeAndConnect("data") /\ greeted' = FALSE
           /\ phase' = "live" /\ sample' = TRUE
           /\ UNCHANGED <<lastMesosState, ready>>
  <2>1. /\ connections' \in Seq(Stream!ConnectionState)
        /\ subject' = "active" /\ repeat' = "unused" /\ replay' = <<>>
        /\ observers' = {"data"}
        /\ StreamConsistent'
        /\ subject # "complete"
    BY <1>3, ConnectFacts DEF Observer
  <2>2. sample' \in BOOLEAN /\ greeted' \in BOOLEAN
    BY <1>3, Zenon
  <2>3. TypeOK'
    BY <1>1, <1>2, <1>3, <2>1, <2>2 DEF TypeOK, Phase, Observer
  <2>4. ReplayIsLatest' /\ ObserverOfPhase' /\ ZipHolds'
    BY <1>1, <1>3, <2>1 DEF ReplayIsLatest, ObserverOfPhase, ZipHolds
  <2>5. AppliedBehindSent'
    BY <1>1, <1>3 DEF AppliedBehindSent, Newest
  <2>6. LiveIsCurrent' /\ NothingMissedWhileLive' /\ NoDataBeforeMaster'
    BY <1>1, <1>3
       DEF LiveIsCurrent, NothingMissedWhileLive, Knows, NoDataBeforeMaster
  <2> QED BY <2>1, <2>3, <2>4, <2>5, <2>6
<1>4. ASSUME replay # <<>>, subject \in {"active", "complete"}, Apply(replay[1]),
             UNCHANGED <<connections, subject, repeat, replay, greeted>>,
             \/ subject = "active" /\ observers' = {"data"}
             \/ subject = "complete" /\ observers' = {}
      PROVE  IInv'
  <2> DEFINE e == replay[1]
  <2>1. e \in Event /\ e.seq = sent
    BY <1>4 DEF TypeOK, ReplayIsLatest
  <2>2. Newest(lastMesosState) < sent
    BY <1>1, <1>4 DEF AppliedBehindSent
  <2>3. masterInfo
    BY <1>1, <1>4 DEF ZipHolds
  <2>4. /\ phase' \in {"live", "failing"}
        /\ lastMesosState' \in Seq(Event)
        /\ ready' \in BOOLEAN /\ sample' \in BOOLEAN
        /\ phase' = "live" => Newest(lastMesosState') = sent
        /\ phase' = "live" => lastMesosState' = Parse(lastMesosState, e)
        /\ phase' = "failing" => lastMesosState' = lastMesosState
    BY <1>4, <2>1, ApplyFacts
  <2>5. TypeOK'
    <3>1. phase' \in Phase
      BY <2>4 DEF Phase, Synchronous
    <3>2. observers' \subseteq Observer
      BY <1>4 DEF Observer
    <3> QED BY <1>1, <1>2, <1>4, <2>4, <3>1, <3>2 DEF TypeOK
  <2>6. StreamConsistent' /\ ReplayIsLatest'
    BY <1>1, <1>4 DEF StreamConsistent, Stream!CurrentIs, Stream!current, ReplayIsLatest
  <2>7. ObserverOfPhase' /\ ZipHolds'
    BY <1>1, <1>4, <2>3, <2>4 DEF ObserverOfPhase, ZipHolds
  <2>8. AppliedBehindSent'
    <3>1. CASE phase' = "live"
      BY <1>1, <1>2, <2>4, <3>1 DEF AppliedBehindSent, TypeOK
    <3>2. CASE phase' = "failing"
      BY <1>1, <1>2, <2>2, <2>4, <3>2 DEF AppliedBehindSent
    <3> QED BY <2>4, <3>1, <3>2
  <2>9. phase' = "live" => Knows(Parse(lastMesosState, e), sent)
    BY <2>1, ParseFacts DEF TypeOK
  <2>10. NothingMissedWhileLive'
    <3>1. sent \in Nat /\ liveSince' = sent
      BY DEF TypeOK, GoLive
    <3>2. \A n \in 1 .. sent : n >= sent => n = sent
      BY <3>1
    <3>3. phase' = "live" => \A n \in 1 .. sent' : n >= liveSince' => Knows(lastMesosState', n)
      BY <1>1, <2>4, <2>9, <3>1, <3>2, Zenon
    <3> QED BY <3>3 DEF NothingMissedWhileLive, Knows
  <2>11. LiveIsCurrent' /\ NoDataBeforeMaster'
    BY <1>1, <2>3, <2>4 DEF LiveIsCurrent, NoDataBeforeMaster
  <2> QED BY <2>5, <2>6, <2>7, <2>8, <2>10, <2>11
<1>5. CASE /\ subject = "complete" /\ replay = <<>> /\ phase' = "live"
           /\ UNCHANGED <<lastMesosState, ready, sample, streamVars, greeted>>
  <2>1. TypeOK'
    BY <1>1, <1>2, <1>5 DEF TypeOK, Phase
  <2>2. StreamConsistent' /\ ReplayIsLatest'
    BY <1>1, <1>5 DEF StreamConsistent, Stream!CurrentIs, Stream!current, ReplayIsLatest
  <2>3. ObserverOfPhase' /\ ZipHolds'
    BY <1>1, <1>5 DEF ObserverOfPhase, ZipHolds
  <2>4. AppliedBehindSent'
    BY <1>1, <1>5 DEF AppliedBehindSent, Newest
  <2>5. LiveIsCurrent' /\ NothingMissedWhileLive' /\ NoDataBeforeMaster'
    BY <1>1, <1>5
       DEF LiveIsCurrent, NothingMissedWhileLive, Knows, NoDataBeforeMaster,
           ReplayIsLatest
  <2> QED BY <2>1, <2>2, <2>3, <2>4, <2>5
<1>6. CASE /\ subject = "active" /\ Stream!SubscribeShared("data")
           /\ Apply(replay[1]) /\ UNCHANGED greeted
  <2>1. replay # <<>>
    BY <1>1, <1>6 DEF ZipHolds
  <2>2. observers' = {"data"} /\ UNCHANGED <<connections, subject, repeat, replay>>
    BY <1>1, <1>6 DEF Stream!SubscribeShared
  <2> QED BY <1>4, <1>6, <2>1, <2>2
<1>7. CASE /\ subject = "complete" /\ replay # <<>> /\ Apply(replay[1])
           /\ UNCHANGED <<streamVars, greeted>>
  BY <1>1, <1>4, <1>7
<1> QED BY <1>3, <1>5, <1>6, <1>7 DEF GoLive

----------------------------------------------------------------------------
LEMMA StepPreserves == IInv /\ [Next]_vars => IInv'
<1> SUFFICES ASSUME IInv, [Next]_vars PROVE IInv'
  OBVIOUS
<1>1. CASE UNCHANGED vars
  BY <1>1
     DEF vars, streamVars, masterVars, storeVars, IInv, TypeOK, StreamConsistent,
         Stream!CurrentIs, Stream!current, ReplayIsLatest, ObserverOfPhase,
         ZipHolds, AppliedBehindSent, LiveIsCurrent, NothingMissedWhileLive,
         NoDataBeforeMaster, Newest, Knows
<1>2. CASE StoreNext
  BY <1>2, QuietSteps, RetryStep, StartStep, GoLiveStep DEF StoreNext
<1>3. CASE MasterNext
  BY <1>3, QuietSteps DEF MasterNext
<1>4. CASE StreamNext
  BY <1>4, StreamMovesStep, StreamFailsStep, StreamEndsStep, StreamEventStep
     DEF StreamNext
<1> QED BY <1>1, <1>2, <1>3, <1>4 DEF Next

\* The inductive invariant holds of every behaviour of the store.
THEOREM Invariance == Spec => []IInv
BY InitEstablishes, StepPreserves, PTL DEF Spec

\* The store's variables keep their types, in particular no error is counted
\* beyond the maximum number of retries.
THEOREM TypeCorrect == Spec => []TypeOK
<1>1. IInv => TypeOK
  BY DEF IInv
<1> QED BY <1>1, Invariance, PTL

\* A live pipeline has applied the latest event of its connection.
THEOREM LiveCurrent == Spec => []LiveIsCurrent
<1>1. IInv => LiveIsCurrent
  BY DEF IInv
<1> QED BY <1>1, Invariance, PTL

\* Whatever has failed before, the events that a live pipeline has missed are
\* events that precede the moment it went live for the last time.
THEOREM NothingMissed == Spec => []NothingMissedWhileLive
<1>1. IInv => NothingMissedWhileLive
  BY DEF IInv
<1> QED BY <1>1, Invariance, PTL

\* The store holds no data of the stream before GET_MASTER was answered.
THEOREM MasterFirst == Spec => []NoDataBeforeMaster
<1>1. IInv => NoDataBeforeMaster
  BY DEF IInv
<1> QED BY <1>1, Invariance, PTL

\* Between callbacks the observer that stands for the store is the one its
\* stage needs.
THEOREM OneObserverAtATime == Spec => []OneObserver
<1>1. IInv => OneObserver
  BY DEF IInv, OneObserver, ObserverOfPhase, Idle, Synchronous
<1> QED BY <1>1, Invariance, PTL

\* Only data$ changes lastMesosState, and only to what includes a later event.
LEMMA AppliedStepForward ==
    IInv /\ [Next]_vars =>
        (lastMesosState' # lastMesosState
             => Newest(lastMesosState') > Newest(lastMesosState))
<1> SUFFICES ASSUME IInv, [Next]_vars, lastMesosState' # lastMesosState
             PROVE  Newest(lastMesosState') > Newest(lastMesosState)
  OBVIOUS
<1>1. StreamEvent \/ GoLive
  BY DEF Next, StoreNext, MasterNext, StreamNext, vars, storeVars,
         AddChangeListener, RemoveChangeListener, Start, Retry, BackoffOver,
         IntervalTick, EmitChange, PageRequestsMaster, MasterAnswers,
         MasterAnswersGarbage, MasterRequestFails, MasterRequestRetries,
         StreamFails, StreamEnds, StreamMoves, StreamReconnects
<1>2. Newest(lastMesosState) \in Nat /\ Newest(lastMesosState) <= sent /\ sent \in Nat
  BY NewestIsNat, BoundsAssumption DEF IInv, TypeOK, AppliedBehindSent
<1>3. CASE StreamEvent
  <2>1. PICK e \in [seq : {sent + 1}, kind : {"snapshot", "update", "poison"}] :
            StoreGets(e)
    BY <1>3 DEF StreamEvent
  <2>2. e \in Event /\ e.seq = sent + 1
    BY <1>2 DEF Event
  <2>3. Apply(e)
    BY <2>1 DEF StoreGets
  <2>4. phase' = "live" /\ Newest(lastMesosState') = sent + 1
    BY <2>2, <2>3, ApplyFacts DEF IInv
  <2> QED BY <1>2, <2>4
<1>4. CASE GoLive
  <2>1. /\ Apply(replay[1]) /\ phase = "zipped"
        /\ subject = "active" \/ (subject = "complete" /\ replay # <<>>)
    BY <1>4 DEF GoLive
  <2>2. replay # <<>>
    BY <2>1 DEF IInv, ZipHolds
  <2>3. replay[1] \in Event /\ replay[1].seq = sent
    BY <2>2 DEF IInv, TypeOK, ReplayIsLatest
  <2>4. Newest(lastMesosState) < sent
    BY <2>1, <2>2 DEF IInv, AppliedBehindSent
  <2>5. phase' = "live" /\ Newest(lastMesosState') = sent
    BY <2>1, <2>3, ApplyFacts DEF IInv
  <2> QED BY <1>2, <2>4, <2>5
<1> QED BY <1>1, <1>3, <1>4

\* No event is applied twice or out of order, however often the pipeline was
\* retried and the last event replayed.
THEOREM AppliedOnce == Spec => AppliedOnceInOrder
<1>1. IInv /\ [Next]_vars =>
          [lastMesosState' # lastMesosState
               => Newest(lastMesosState') > Newest(lastMesosState)]_vars
  BY AppliedStepForward
<1> QED BY <1>1, Invariance, PTL DEF Spec, AppliedOnceInOrder

----------------------------------------------------------------------------
(* The browser's copy of the cluster state: what the rows of its arrays    *)
(* are, what holds of the master, and when the copy mirrors the cluster.   *)

\* A recovered agent's row is its id, a registered one's says it is active.
AgentRow == [id : Agents] \cup [id : Agents, active : BOOLEAN]

\* A framework is listed under the name it has.
FrameworkRow ==
    {row \in [id : Frameworks, name : {"marathon", "other"}, active : BOOLEAN] :
       row.name = nameOf(row.id)}

\* No task of another framework is flagged.
TaskRow ==
    {row \in [id : Tasks, framework_id : Frameworks \cup {Nobody},
              state : TaskStatus \ {"unborn"}, isStartedByMarathon : BOOLEAN] :
       row.isStartedByMarathon => row.framework_id \in Marathons}

Copies == [slaves : Seq(AgentRow), frameworks : Seq(FrameworkRow), tasks : Seq(TaskRow)]

\* Those that are no longer as they are to begin with.
Known(S, status, none) == {x \in S : status[x] # none}

PresentIn(fr, f) == fr[f] \in {"active", "inactive"}
LiveIn(ta, t) == ta[t] \in {"TASK_STAGING", "TASK_RUNNING"}

\* What the master knows is finite, and it keeps what it knows in order: live
\* tasks belong to frameworks that are present, one Marathon is at a time.
MasterIsSane(ag, fr, ta, ow) ==
    /\ ag \in [Agents -> AgentStatus] /\ fr \in [Frameworks -> FrameworkStatus]
    /\ ta \in [Tasks -> TaskStatus] /\ ow \in [Tasks -> Frameworks \cup {Nobody}]
    /\ IsFiniteSet(Known(Agents, ag, "absent"))
    /\ IsFiniteSet(Known(Frameworks, fr, "unknown"))
    /\ IsFiniteSet(Known(Tasks, ta, "unborn"))
    /\ \A t \in Tasks : LiveIn(ta, t) => ow[t] \in Frameworks /\ PresentIn(fr, ow[t])
    /\ \A f, g \in Marathons : PresentIn(fr, f) /\ PresentIn(fr, g) => f = g

\* An entry of the list has that id, and no other one has.
Single(list, id) ==
    \E i \in 1 .. Len(list) :
        /\ list[i].id = id
        /\ \A j \in 1 .. Len(list) : list[j].id = id => j = i

AgentsShown(list, ag) ==
    /\ \A i \in 1 .. Len(list) : ag[list[i].id] # "absent"
    /\ \A a \in Agents : ag[a] # "absent" => \E i \in 1 .. Len(list) : list[i].id = a

\* The frameworks listed are known and as they are, the present ones are listed.
FrameworksShown(list, fr) ==
    /\ \A i \in 1 .. Len(list) :
         /\ fr[list[i].id] # "unknown"
         /\ list[i].active <=> fr[list[i].id] = "active"
    /\ \A f \in Frameworks : PresentIn(fr, f) => Single(list, f)

\* The tasks listed are as they are, the live ones are listed.
TasksShown(list, ta, ow) ==
    /\ \A i \in 1 .. Len(list) :
         list[i].state = ta[list[i].id] /\ list[i].framework_id = ow[list[i].id]
    /\ \A t \in Tasks : LiveIn(ta, t) => Single(list, t)

\* An older Marathon is listed, which is found first.
Outdated(fs, fr) ==
    \E i \in 1 .. Len(fs) : fs[i].id \in Marathons /\ fr[fs[i].id] = "completed"

Flagged(fs, list, fr, ta) ==
    ~ Outdated(fs, fr) =>
      \A i \in 1 .. Len(list) :
        LiveIn(ta, list[i].id) /\ list[i].framework_id \in Marathons
          => list[i].isStartedByMarathon

\* r is a copy of the cluster.
Mirrors(r, ag, fr, ta, ow) ==
    /\ r \in Copies
    /\ AgentsShown(r.slaves, ag)
    /\ FrameworksShown(r.frameworks, fr)
    /\ TasksShown(r.tasks, ta, ow)
    /\ Flagged(r.frameworks, r.tasks, fr, ta)

ReplicaInv ==
    /\ MasterIsSane(agents, frameworks, tasks, owner)
    /\ missed \in Nat
    /\ missed = 0 => Mirrors(replica, agents, frameworks, tasks, owner)

\* The row an agent's message becomes.
LEMMA AgentRows ==
    ASSUME NEW a \in Agents
    PROVE  /\ processAgent(AgentMessage(a)) \in AgentRow
           /\ processAgent(AgentMessage(a)).id = a
           /\ processAgent([id |-> a]) \in AgentRow
           /\ processAgent([id |-> a]).id = a
<1>1. processAgent([id |-> a]) = [id |-> a]
  BY DEF processAgent
<1>2. processAgent(AgentMessage(a)) = [active |-> TRUE, id |-> a]
  BY DEF processAgent, AgentMessage, Without, Spread
<1> QED BY <1>1, <1>2 DEF AgentRow

\* The spread of a framework's message, field by field.
LEMMA FrameworkSpread ==
    ASSUME NEW f, NEW name, NEW b
    PROVE  Spread([id |-> f, name |-> name],
                  Without([framework_info |-> [id |-> f, name |-> name], active |-> b],
                          "framework_info"))
             = [id |-> f, name |-> name, active |-> b]
<1>1. Without([framework_info |-> [id |-> f, name |-> name], active |-> b], "framework_info")
        = [active |-> b]
  BY DEF Without
<1>2. Spread([id |-> f, name |-> name], [active |-> b])
        = [id |-> f, name |-> name, active |-> b]
  BY DEF Spread
<1> QED BY <1>1, <1>2

\* The row of a framework's message, by its flag.
LEMMA FrameworkRows ==
    ASSUME NEW f \in Frameworks, NEW b \in BOOLEAN,
           NEW m, m = [framework_info |-> FrameworkInfo(f), active |-> b]
    PROVE  /\ processFramework(m) \in FrameworkRow
           /\ processFramework(m).id = f /\ processFramework(m).active = b
<1>2. processFramework(m) = [id |-> f, name |-> nameOf(f), active |-> b]
  <2>1. processFramework(m) = Spread(FrameworkInfo(f), Without(m, "framework_info"))
    <3>1. m.framework_info = FrameworkInfo(f)
      OBVIOUS
    <3> QED BY <3>1 DEF processFramework
  <2>2. /\ m = [framework_info |-> [id |-> f, name |-> nameOf(f)], active |-> b]
        /\ FrameworkInfo(f) = [id |-> f, name |-> nameOf(f)]
    BY DEF FrameworkInfo
  <2>3. Spread([id |-> f, name |-> nameOf(f)],
               Without([framework_info |-> [id |-> f, name |-> nameOf(f)], active |-> b],
                       "framework_info"))
          = [id |-> f, name |-> nameOf(f), active |-> b]
    BY FrameworkSpread, Zenon
  <2> QED BY <2>1, <2>2, <2>3, Zenon
<1>3. processFramework(m) \in FrameworkRow
  BY <1>2 DEF FrameworkRow, nameOf
<1>4. processFramework(m).id = f /\ processFramework(m).active = b
  BY <1>2
<1> QED BY <1>3, <1>4

\* The row of a task's message, field by field.
LEMMA TaskRows ==
    ASSUME NEW t \in Tasks, NEW f \in Frameworks \cup {Nobody}, NEW s \in TaskStatus, NEW fs
    PROVE  processTask(fs, TaskMessage(t, f, s))
             = [id |-> t, framework_id |-> f, state |-> s,
                isStartedByMarathon |-> isStartedByMarathon(fs, TaskMessage(t, f, s))]
  BY DEF processTask, TaskMessage, Spread

\* Two groups are flattened to one after the other.
LEMMA FlattenPair ==
    ASSUME NEW S, NEW p \in Seq(S), NEW q \in Seq(S)
    PROVE  FlattenSeq(<<p, q>>) = p \o q
<1> DEFINE Body(f) == [i \in 1 .. 2 |-> IF i = 1 THEN <<p, q>>[i] ELSE f[i - 1] \o <<p, q>>[i]]
           flat == CHOOSE f : f = Body(f)
           g == [i \in 1 .. 2 |-> IF i = 1 THEN p ELSE p \o q]
<1>1. g = Body(g)
  OBVIOUS
<1>2. flat = Body(flat)
  BY <1>1
<1>3. FlattenSeq(<<p, q>>) = flat[2]
  BY DEF FlattenSeq
<1> HIDE DEF flat
<1>4. flat[1] = p
  BY <1>2
<1>5. flat[2] = flat[1] \o q
  <2>1. flat[2] = IF 2 = 1 THEN <<p, q>>[2] ELSE flat[2 - 1] \o <<p, q>>[2]
    <3>1. 2 \in 1 .. 2
      OBVIOUS
    <3> QED BY <1>2, <3>1, Zenon
  <2>2. <<p, q>>[2] = q /\ 2 - 1 = 1
    OBVIOUS
  <2> QED BY <2>1, <2>2
<1> QED BY <1>3, <1>4, <1>5

\* A finite set is listed: every member, and each once.
LEMMA SetListed ==
    ASSUME NEW S, IsFiniteSet(S)
    PROVE  /\ SetToSeq(S) \in Seq(S)
           /\ \A x \in S : \E i \in 1 .. Len(SetToSeq(S)) : SetToSeq(S)[i] = x
           /\ \A i, j \in 1 .. Len(SetToSeq(S)) :
                SetToSeq(S)[i] = SetToSeq(S)[j] => i = j
<1> DEFINE n == Cardinality(S)
           q == SetToSeq(S)
<1>1. n \in Nat /\ ExistsBijection(1 .. n, S)
  BY FS_CardinalityType
<1>2. \E f \in [1 .. n -> S] : IsInjective(f)
  BY <1>1 DEF ExistsBijection, Bijection, Injection, IsInjective
<1>3. q \in [1 .. n -> S] /\ IsInjective(q)
  BY <1>2 DEF SetToSeq
<1>4. q \in Injection(1 .. n, S)
  BY <1>3 DEF Injection, IsInjective
<1>5. IsFiniteSet(1 .. n) /\ Cardinality(1 .. n) = n
  BY <1>1, FS_Interval
<1>6. q \in Surjection(1 .. n, S)
  BY <1>4, <1>5, FS_Injection
<1> HIDE DEF q
<1>7. q \in Seq(S) /\ Len(q) = n
  BY <1>1, <1>3
<1> QED BY <1>3, <1>6, <1>7 DEF q, Surjection, IsInjective
\* The row a framework's message becomes.
LEMMA FrameworkMessageRow ==
    ASSUME NEW f \in Frameworks, NEW s
    PROVE  /\ processFramework(FrameworkMessage(f, s)) \in FrameworkRow
           /\ processFramework(FrameworkMessage(f, s)).id = f
           /\ processFramework(FrameworkMessage(f, s)).active <=> s = "active"
<1> DEFINE b == s = "active"
           row == processFramework(FrameworkMessage(f, s))
<1>1. b \in BOOLEAN /\ (b <=> s = "active")
  OBVIOUS
<1>2. FrameworkMessage(f, s) = [framework_info |-> FrameworkInfo(f), active |-> b]
  BY DEF FrameworkMessage
<1> HIDE DEF b
<1>3. row \in FrameworkRow /\ row.id = f /\ row.active = b
  BY <1>1, <1>2, FrameworkRows
<1> QED BY <1>1, <1>3

\* A task is flagged only if it is of a Marathon.
LEMMA FlagIsMarathons ==
    ASSUME NEW fs \in Seq(FrameworkRow), NEW task, isStartedByMarathon(fs, task)
    PROVE  task.framework_id \in Marathons
<1> DEFINE named == {i \in DOMAIN fs : fs[i].name = "marathon"}
           q == Subsequence(fs, named)
<1>1. q \in Seq(FrameworkRow)
  BY SubsequenceLists
<1>2. PICK h \in Seq(Nat) : Lists(h, q, fs, named, Len(fs))
  BY SubsequenceLists
<1>3. q # <<>> /\ q[1].id = task.framework_id
  BY DEF isStartedByMarathon
<1> HIDE DEF q
<1>4. 1 \in 1 .. Len(h) /\ h[1] \in named /\ q[1] = fs[h[1]]
  <2>1. Len(q) \in Nat /\ Len(q) # 0
    BY <1>1, <1>3
  <2> QED BY <1>2, <2>1 DEF Lists
<1>5. q[1] \in FrameworkRow /\ q[1].name = "marathon"
  BY <1>1, <1>4
<1> QED BY <1>3, <1>5 DEF FrameworkRow, nameOf

\* A task of the Marathon that is present is flagged unless the list is outdated.
LEMMA MarathonIsFlagged ==
    ASSUME NEW fs \in Seq(FrameworkRow), NEW fr \in [Frameworks -> FrameworkStatus],
           FrameworksShown(fs, fr), ~ Outdated(fs, fr),
           NEW f \in Marathons, PresentIn(fr, f), f \in Frameworks,
           \A g \in Marathons : PresentIn(fr, g) => g = f,
           NEW task, task.framework_id = f
    PROVE  isStartedByMarathon(fs, task)
<1> DEFINE named == {i \in DOMAIN fs : fs[i].name = "marathon"}
           q == Subsequence(fs, named)
<1>1. q \in Seq(FrameworkRow)
  BY SubsequenceLists
<1>2. PICK h \in Seq(Nat) : Lists(h, q, fs, named, Len(fs))
  BY SubsequenceLists
<1>3. PICK i \in 1 .. Len(fs) : fs[i].id = f
  BY DEF FrameworksShown, Single
<1>4. \A j \in 1 .. Len(fs) : fs[j] \in FrameworkRow /\ fs[j].name = nameOf(fs[j].id)
  BY DEF FrameworkRow
<1>5. i \in named
  BY <1>3, <1>4 DEF nameOf
<1> HIDE DEF q
<1>6. 1 \in 1 .. Len(q) /\ Len(h) = Len(q)
  BY <1>1, <1>2, <1>3, <1>5 DEF Lists
<1>7. h[1] \in named /\ h[1] \in 1 .. Len(fs) /\ q[1] = fs[h[1]]
  BY <1>2, <1>6 DEF Lists
<1>8. q[1].id \in Marathons /\ q[1].id \in Frameworks
  BY <1>4, <1>7 DEF nameOf, FrameworkRow
<1>9. PresentIn(fr, q[1].id)
  BY <1>7, <1>8 DEF FrameworksShown, Outdated, PresentIn, FrameworkStatus
<1>10. q[1].id = f /\ q # <<>>
  BY <1>1, <1>6, <1>8, <1>9
<1> QED BY <1>10 DEF isStartedByMarathon, q

\* The row a task's message becomes.
LEMMA TaskMessageRow ==
    ASSUME NEW t \in Tasks, NEW f \in Frameworks \cup {Nobody},
           NEW s \in TaskStatus \ {"unborn"}, NEW fs \in Seq(FrameworkRow)
    PROVE  LET m == TaskMessage(t, f, s)
               row == processTask(fs, m)
           IN  /\ row \in TaskRow
               /\ row.id = t /\ row.framework_id = f /\ row.state = s
               /\ row.isStartedByMarathon <=> isStartedByMarathon(fs, m)
<1> DEFINE m == TaskMessage(t, f, s)
           b == isStartedByMarathon(fs, m)
           row == processTask(fs, m)
<1>1. row = [id |-> t, framework_id |-> f, state |-> s, isStartedByMarathon |-> b]
  BY TaskRows
<1>2. b \in BOOLEAN
  BY DEF isStartedByMarathon
<1>3. m.framework_id = f
  BY DEF TaskMessage
<1>4. b => f \in Marathons
  <2> HIDE DEF m
  <2> QED BY <1>3, FlagIsMarathons
<1> HIDE DEF b, row
<1>5. row \in TaskRow
  BY <1>1, <1>2, <1>4 DEF TaskRow
<1>6. /\ row.id = t /\ row.framework_id = f /\ row.state = s
      /\ row.isStartedByMarathon = b
  BY <1>1
<1> QED BY <1>5, <1>6 DEF row, b

----------------------------------------------------------------------------
(* Lists.                                                                  *)

\* Of what is filtered by an id, the others are left, each as often as before.
LEMMA FilteredList ==
    ASSUME NEW S, NEW list \in Seq(S), NEW id
    PROVE  /\ WithoutId(list, id) \in Seq(S)
           /\ \A i \in 1 .. Len(WithoutId(list, id)) :
                /\ WithoutId(list, id)[i].id # id
                /\ \E j \in 1 .. Len(list) : WithoutId(list, id)[i] = list[j]
           /\ \A j \in 1 .. Len(list) : list[j].id # id =>
                \E i \in 1 .. Len(WithoutId(list, id)) : WithoutId(list, id)[i] = list[j]
           /\ \A x : x # id /\ Single(list, x) => Single(WithoutId(list, id), x)
<1> DEFINE D == {i \in DOMAIN list : list[i].id # id}
           q == WithoutId(list, id)
<1>1. q \in Seq(S)
  BY SubsequenceLists DEF WithoutId
<1>2. PICK h \in Seq(Nat) : Lists(h, q, list, D, Len(list))
  BY SubsequenceLists DEF WithoutId
<1> HIDE DEF q
<1>3. /\ Len(h) = Len(q)
      /\ \A k \in 1 .. Len(h) : /\ h[k] \in 1 .. Len(list) /\ list[h[k]].id # id
                                /\ q[k] = list[h[k]]
      /\ \A k, l \in 1 .. Len(h) : k < l => h[k] < h[l]
      /\ \A d \in 1 .. Len(list) : list[d].id # id => \E k \in 1 .. Len(h) : h[k] = d
  BY <1>2 DEF Lists
<1>4. \A i \in 1 .. Len(q) : q[i].id # id /\ \E j \in 1 .. Len(list) : q[i] = list[j]
  BY <1>3
<1>5. \A j \in 1 .. Len(list) : list[j].id # id => \E i \in 1 .. Len(q) : q[i] = list[j]
  BY <1>3
<1>6. ASSUME NEW x, x # id, Single(list, x)
      PROVE  Single(q, x)
  <2>1. PICK i \in 1 .. Len(list) :
           list[i].id = x /\ \A j \in 1 .. Len(list) : list[j].id = x => j = i
    BY <1>6 DEF Single
  <2>2. PICK k \in 1 .. Len(h) : h[k] = i
    BY <1>3, <1>6, <2>1
  <2>3. q[k].id = x /\ k \in 1 .. Len(q)
    BY <1>3, <2>1, <2>2
  <2>4. ASSUME NEW l \in 1 .. Len(q), q[l].id = x
        PROVE  l = k
    <3>0. l \in 1 .. Len(h)
      BY <1>3
    <3>1. h[l] = h[k]
      <4>1. h[l] \in 1 .. Len(list) /\ list[h[l]].id = x
        BY <1>3, <2>4, <3>0
      <4> QED BY <2>1, <2>2, <4>1
    <3>2. h[l] \in 1 .. Len(list) /\ h[k] \in 1 .. Len(list)
      BY <1>3, <3>0
    <3>3. ~ (l < k) /\ ~ (k < l)
      BY <1>3, <3>0, <3>1, <3>2
    <3>4. l \in Nat /\ k \in Nat
      BY <1>1, <1>3
    <3> QED BY <3>3, <3>4
  <2> QED BY <2>3, <2>4 DEF Single
<1> QED BY <1>1, <1>4, <1>5, <1>6 DEF q

\* An entry is appended after the others.
LEMMA AppendedList ==
    ASSUME NEW S, NEW list \in Seq(S), NEW e \in S
    PROVE  /\ Append(list, e) \in Seq(S) /\ Len(Append(list, e)) = Len(list) + 1
           /\ Append(list, e)[Len(list) + 1] = e
           /\ \A j \in 1 .. Len(list) : Append(list, e)[j] = list[j]
           /\ \A x : x # e.id /\ Single(list, x) => Single(Append(list, e), x)
           /\ (\A j \in 1 .. Len(list) : list[j].id # e.id) => Single(Append(list, e), e.id)
<1> DEFINE q == Append(list, e)
           n == Len(list)
<1>1. /\ n \in Nat /\ q \in Seq(S) /\ Len(q) = n + 1 /\ q[n + 1] = e
      /\ \A j \in 1 .. n : q[j] = list[j]
  OBVIOUS
<1> HIDE DEF q, n
<1>2. \A i \in 1 .. n + 1 : i \in 1 .. n \/ i = n + 1
  BY <1>1
<1>3. ASSUME NEW x, x # e.id, Single(list, x)
      PROVE  Single(q, x)
  <2>1. PICK i \in 1 .. n : list[i].id = x /\ \A j \in 1 .. n : list[j].id = x => j = i
    BY <1>3 DEF Single, n
  <2>2. i \in 1 .. n + 1 /\ q[i].id = x
    BY <1>1, <2>1
  <2>3. \A j \in 1 .. n + 1 : q[j].id = x => j = i
    BY <1>1, <1>2, <1>3, <2>1
  <2> QED BY <1>1, <2>2, <2>3 DEF Single
<1>4. ASSUME \A j \in 1 .. n : list[j].id # e.id
      PROVE  Single(q, e.id)
  <2>1. n + 1 \in 1 .. n + 1 /\ q[n + 1].id = e.id
    BY <1>1
  <2>2. \A j \in 1 .. n + 1 : q[j].id = e.id => j = n + 1
    BY <1>1, <1>2, <1>4
  <2> QED BY <1>1, <2>1, <2>2 DEF Single
<1> QED BY <1>1, <1>3, <1>4 DEF q, n

\* An id is in a list as often as before if every entry keeps its own.
LEMMA RelabelledList ==
    ASSUME NEW list, NEW q, Len(q) = Len(list),
           \A i \in 1 .. Len(list) : q[i].id = list[i].id,
           NEW x, Single(list, x)
    PROVE  Single(q, x)
  BY DEF Single

Groups(X, Y) == << SetToSeq(X), SetToSeq(Y) >>
Flat(X, Y) == FlattenSeq(Groups(X, Y))
Covers(w, S) == \A x \in S : \E i \in 1 .. Len(w) : w[i] = x
Distinct(w) == \A i, j \in 1 .. Len(w) : w[i] = w[j] => i = j

\* The two lists of a snapshot hold what they are of, once if they differ.
LEMMA Listing ==
    ASSUME NEW X, IsFiniteSet(X), NEW Y, IsFiniteSet(Y)
    PROVE  /\ Flat(X, Y) \in Seq(X \cup Y)
           /\ Covers(Flat(X, Y), X \cup Y)
           /\ X \cap Y = {} => Distinct(Flat(X, Y))
<1> DEFINE p == SetToSeq(X)
           q == SetToSeq(Y)
           w == Flat(X, Y)
           m == Len(p)
           n == Len(q)
<1>1. /\ p \in Seq(X)
      /\ \A x \in X : \E i \in 1 .. m : p[i] = x
      /\ \A i, j \in 1 .. m : p[i] = p[j] => i = j
  BY SetListed
<1>2. /\ q \in Seq(Y)
      /\ \A x \in Y : \E i \in 1 .. n : q[i] = x
      /\ \A i, j \in 1 .. n : q[i] = q[j] => i = j
  BY SetListed
<1> HIDE DEF p, q
<1>3. p \in Seq(X \cup Y) /\ q \in Seq(X \cup Y)
  BY <1>1, <1>2
<1>4. w = p \o q
  BY <1>3, FlattenPair, Zenon DEF Flat, Groups, p, q
<1>5. /\ m \in Nat /\ n \in Nat
      /\ \A i \in 1 .. m : p[i] \in X
      /\ \A i \in 1 .. n : q[i] \in Y
  BY <1>1, <1>2
<1>6. /\ w \in Seq(X \cup Y) /\ Len(w) = m + n
      /\ \A i \in 1 .. m : w[i] = p[i]
      /\ \A i \in 1 .. n : w[m + i] = q[i]
  <2>1. /\ p \o q \in Seq(X \cup Y) /\ Len(p \o q) = m + n
        /\ \A i \in 1 .. m : (p \o q)[i] = p[i]
        /\ \A i \in 1 .. n : (p \o q)[m + i] = q[i]
    BY <1>3
  <2> HIDE DEF w
  <2> QED BY <1>4, <2>1
<1> HIDE DEF w, m, n
<1>7. \A i \in 1 .. m + n : i \in 1 .. m \/ \E k \in 1 .. n : i = m + k
  <2> SUFFICES ASSUME NEW i \in 1 .. m + n, i \notin 1 .. m
               PROVE  \E k \in 1 .. n : i = m + k
    OBVIOUS
  <2>1. i - m \in 1 .. n /\ i = m + (i - m)
    BY <1>5
  <2> QED BY <2>1
<1>8. ASSUME NEW x \in X \cup Y
      PROVE  \E i \in 1 .. Len(w) : w[i] = x
  <2>1. CASE x \in X
    <3>1. PICK i \in 1 .. m : p[i] = x
      BY <1>1, <2>1
    <3>2. i \in 1 .. m + n
      BY <1>5
    <3> QED BY <1>6, <3>1, <3>2
  <2>2. CASE x \in Y
    <3>1. PICK i \in 1 .. n : q[i] = x
      BY <1>2, <2>2
    <3>2. m + i \in 1 .. m + n
      BY <1>5
    <3> QED BY <1>6, <3>1, <3>2
  <2> QED BY <2>1, <2>2
<1>9. ASSUME X \cap Y = {}, NEW i \in 1 .. m + n, NEW j \in 1 .. m + n, w[i] = w[j]
      PROVE  i = j
  <2>1. CASE i \in 1 .. m /\ j \in 1 .. m
    BY <1>1, <1>6, <1>9, <2>1 DEF m
  <2>2. ASSUME NEW k \in 1 .. n, NEW l \in 1 .. n, i = m + k, j = m + l
        PROVE  i = j
    <3>1. q[k] = q[l]
      BY <1>6, <1>9, <2>2
    <3> QED BY <1>2, <2>2, <3>1 DEF n
  <2>3. ASSUME NEW k \in 1 .. m, NEW l \in 1 .. n
        PROVE  w[k] # w[m + l]
    BY <1>5, <1>6, <1>9
  <2> QED BY <1>7, <1>9, <2>1, <2>2, <2>3
<1> QED BY <1>6, <1>8, <1>9 DEF w, Covers, Distinct

\* The messages about finitely many things are finitely many.
LEMMA Images ==
    ASSUME NEW A, IsFiniteSet(A), NEW f
    PROVE  IsFiniteSet({f[a] : a \in A})
<1> DEFINE g == [a \in A |-> f[a]]
           T == {f[a] : a \in A}
<1>1. g \in Surjection(A, T)
  BY DEF Surjection
<1> QED BY <1>1, FS_Surjection

----------------------------------------------------------------------------
(* What each message makes of a copy.                                      *)

\* Each message changes the array it is about, and nothing else.
LEMMA AgentAdded ==
    ASSUME NEW r \in Copies, NEW a \in Agents
    PROVE  LET m == [type |-> "AGENT_ADDED", agent |-> AgentMessage(a)]
           IN  parsers(r, m) = [r EXCEPT !.slaves = Append(@, processAgent(AgentMessage(a)))]
  BY DEF parsers, agentAddedAction

LEMMA AgentRemoved ==
    ASSUME NEW r \in Copies, NEW a \in Agents
    PROVE  LET m == [type |-> "AGENT_REMOVED", agent_id |-> a]
           IN  parsers(r, m) = [r EXCEPT !.slaves = WithoutId(@, a)]
  BY DEF parsers, agentRemovedAction

LEMMA FrameworkAdded ==
    ASSUME NEW r \in Copies, NEW f \in Frameworks, NEW s
    PROVE  LET m == [type |-> "FRAMEWORK_ADDED", framework |-> FrameworkMessage(f, s)]
           IN  parsers(r, m)
                 = [r EXCEPT !.frameworks = Append(@, processFramework(FrameworkMessage(f, s)))]
  BY DEF parsers, frameworkAddedAction

LEMMA FrameworkUpdated ==
    ASSUME NEW r \in Copies, NEW f \in Frameworks, NEW s
    PROVE  LET m == [type |-> "FRAMEWORK_UPDATED", framework |-> FrameworkMessage(f, s)]
               row == processFramework(FrameworkMessage(f, s))
           IN  parsers(r, m)
                 = [r EXCEPT !.frameworks =
                      [i \in DOMAIN @ |-> IF @[i].id = f THEN row ELSE @[i]]]
<1>1. processFramework(FrameworkMessage(f, s)).id = f
  BY FrameworkMessageRow
<1> QED BY <1>1 DEF parsers, frameworkUpdatedAction, MapSeq

LEMMA FrameworkRemoved ==
    ASSUME NEW r \in Copies, NEW f \in Frameworks
    PROVE  LET m == [type |-> "FRAMEWORK_REMOVED", framework_info |-> FrameworkInfo(f)]
           IN  parsers(r, m) = [r EXCEPT !.frameworks = WithoutId(@, f)]
  BY DEF parsers, frameworkRemovedAction, FrameworkInfo

LEMMA TaskAdded ==
    ASSUME NEW r \in Copies, NEW t \in Tasks, NEW f \in Frameworks, NEW s
    PROVE  LET m == [type |-> "TASK_ADDED", task |-> TaskMessage(t, f, s)]
           IN  parsers(r, m)
                 = [r EXCEPT !.tasks =
                      Append(@, processTask(r.frameworks, TaskMessage(t, f, s)))]
  BY DEF parsers, taskAddedAction

\* The array after the update of one task.
StateUpdated(list, t, s) ==
    [i \in DOMAIN list |-> IF list[i].id = t THEN [list[i] EXCEPT !.state = s] ELSE list[i]]

LEMMA TaskUpdated ==
    ASSUME NEW r \in Copies, NEW t \in Tasks, NEW s
    PROVE  LET m == [type |-> "TASK_UPDATED", task_id |-> t, state |-> s]
           IN  parsers(r, m) = [r EXCEPT !.tasks = StateUpdated(r.tasks, t, s)]
  BY DEF parsers, taskUpdatedAction, MapSeq, StateUpdated

----------------------------------------------------------------------------
(* A message that arrives keeps the part of the copy it is about.          *)

LEMMA AgentRowsHaveIds == \A row \in AgentRow : row.id \in Agents
  BY DEF AgentRow

LEMMA FrameworkRowsHaveIds == \A row \in FrameworkRow : row.id \in Frameworks
  BY DEF FrameworkRow

LEMMA TaskRowsHaveIds ==
    \A row \in TaskRow : row.id \in Tasks /\ row.state \in TaskStatus \ {"unborn"}
  BY DEF TaskRow

\* An agent that is announced is shown, if it was shown or not.
LEMMA AgentAddedShown ==
    ASSUME NEW list \in Seq(AgentRow), NEW ag \in [Agents -> AgentStatus], AgentsShown(list, ag),
           NEW a \in Agents
    PROVE  LET q == Append(list, processAgent(AgentMessage(a)))
           IN  q \in Seq(AgentRow) /\ AgentsShown(q, [ag EXCEPT ![a] = "registered"])
<1> DEFINE e == processAgent(AgentMessage(a))
           q == Append(list, e)
           n == Len(list)
           ag2 == [ag EXCEPT ![a] = "registered"]
<1>1. e \in AgentRow /\ e.id = a
  BY AgentRows
<1> HIDE DEF e
<1>2. /\ q \in Seq(AgentRow) /\ Len(q) = n + 1 /\ n \in Nat /\ q[n + 1] = e
      /\ \A j \in 1 .. n : q[j] = list[j]
  BY <1>1
<1> HIDE DEF q
<1>3. \A j \in 1 .. n : list[j].id \in Agents /\ ag[list[j].id] # "absent"
  BY AgentRowsHaveIds DEF AgentsShown
<1>4. ag2 \in [Agents -> AgentStatus] /\ ag2[a] = "registered"
      /\ \A b \in Agents : b # a => ag2[b] = ag[b]
  BY DEF AgentStatus
<1> HIDE DEF ag2
<1>5. ASSUME NEW i \in 1 .. Len(q)
      PROVE  ag2[q[i].id] # "absent"
  <2>1. CASE i = n + 1
    BY <1>1, <1>2, <1>4, <2>1
  <2>2. CASE i # n + 1
    <3>1. i \in 1 .. n
      BY <1>2, <2>2
    <3> QED BY <1>2, <1>3, <1>4, <3>1
  <2> QED BY <2>1, <2>2
<1>6. ASSUME NEW b \in Agents, ag2[b] # "absent"
      PROVE  \E i \in 1 .. Len(q) : q[i].id = b
  <2>1. CASE b = a
    <3>1. n + 1 \in 1 .. Len(q)
      BY <1>2
    <3> QED BY <1>1, <1>2, <2>1, <3>1
  <2>2. CASE b # a
    <3>1. PICK i \in 1 .. n : list[i].id = b
      BY <1>4, <1>6, <2>2 DEF AgentsShown
    <3>2. i \in 1 .. Len(q)
      BY <1>2
    <3> QED BY <1>2, <3>1, <3>2
  <2> QED BY <2>1, <2>2
<1> QED BY <1>2, <1>5, <1>6 DEF AgentsShown, q, e, ag2

\* Of a removed agent every row goes.
LEMMA AgentRemovedShown ==
    ASSUME NEW list \in Seq(AgentRow), NEW ag \in [Agents -> AgentStatus], AgentsShown(list, ag),
           NEW a \in Agents
    PROVE  /\ WithoutId(list, a) \in Seq(AgentRow)
           /\ AgentsShown(WithoutId(list, a), [ag EXCEPT ![a] = "absent"])
<1> DEFINE q == WithoutId(list, a)
           ag2 == [ag EXCEPT ![a] = "absent"]
<1>1. /\ q \in Seq(AgentRow)
      /\ \A i \in 1 .. Len(q) : q[i].id # a /\ \E j \in 1 .. Len(list) : q[i] = list[j]
      /\ \A j \in 1 .. Len(list) : list[j].id # a => \E i \in 1 .. Len(q) : q[i] = list[j]
  BY FilteredList
<1> HIDE DEF q
<1>2. \A j \in 1 .. Len(list) : list[j].id \in Agents /\ ag[list[j].id] # "absent"
  BY AgentRowsHaveIds DEF AgentsShown
<1>3. ag2[a] = "absent" /\ \A b \in Agents : b # a => ag2[b] = ag[b]
  OBVIOUS
<1> HIDE DEF ag2
<1>4. ASSUME NEW i \in 1 .. Len(q)
      PROVE  ag2[q[i].id] # "absent"
  <2>1. PICK j \in 1 .. Len(list) : q[i] = list[j]
    BY <1>1
  <2>2. list[j].id # a /\ ag2[list[j].id] = ag[list[j].id]
    BY <1>1, <1>2, <1>3, <2>1
  <2> QED BY <1>2, <2>1, <2>2
<1>5. ASSUME NEW b \in Agents, ag2[b] # "absent"
      PROVE  \E i \in 1 .. Len(q) : q[i].id = b
  <2>1. PICK j \in 1 .. Len(list) : list[j].id = b
    BY <1>3, <1>5 DEF AgentsShown
  <2> QED BY <1>1, <1>3, <1>5, <2>1
<1> QED BY <1>1, <1>4, <1>5 DEF AgentsShown, q, ag2

\* A framework that was unknown is not listed, so it is listed once.
LEMMA FrameworkAddedShown ==
    ASSUME NEW list \in Seq(FrameworkRow), NEW fr \in [Frameworks -> FrameworkStatus],
           FrameworksShown(list, fr), NEW f \in Frameworks, fr[f] = "unknown"
    PROVE  LET q == Append(list, processFramework(FrameworkMessage(f, "active")))
               fr2 == [fr EXCEPT ![f] = "active"]
           IN  /\ q \in Seq(FrameworkRow) /\ FrameworksShown(q, fr2)
               /\ Outdated(list, fr) => Outdated(q, fr2)
<1> DEFINE e == processFramework(FrameworkMessage(f, "active"))
           q == Append(list, e)
           n == Len(list)
           fr2 == [fr EXCEPT ![f] = "active"]
<1>1. e \in FrameworkRow /\ e.id = f /\ e.active
  BY FrameworkMessageRow
<1> HIDE DEF e
<1>2. /\ n \in Nat
      /\ q \in Seq(FrameworkRow) /\ Len(q) = n + 1 /\ q[n + 1] = e
      /\ \A j \in 1 .. n : q[j] = list[j]
      /\ \A x : x # f /\ Single(list, x) => Single(q, x)
      /\ (\A j \in 1 .. n : list[j].id # f) => Single(q, f)
  BY <1>1, AppendedList
<1> HIDE DEF q
<1>3. \A j \in 1 .. n : list[j].id \in Frameworks /\ list[j].id # f
  BY FrameworkRowsHaveIds DEF FrameworksShown
<1>4. fr2[f] = "active" /\ \A g \in Frameworks : g # f => fr2[g] = fr[g]
  OBVIOUS
<1> HIDE DEF fr2
<1>5. ASSUME NEW i \in 1 .. Len(q)
      PROVE  fr2[q[i].id] # "unknown" /\ (q[i].active <=> fr2[q[i].id] = "active")
  <2>1. CASE i = n + 1
    BY <1>1, <1>2, <1>4, <2>1
  <2>2. CASE i # n + 1
    <3>1. i \in 1 .. n
      BY <1>2, <2>2
    <3>2. /\ q[i] = list[i]
          /\ fr2[list[i].id] = fr[list[i].id]
      BY <1>2, <1>3, <1>4, <3>1
    <3> QED BY <3>1, <3>2 DEF FrameworksShown
  <2> QED BY <2>1, <2>2
<1>6. \A g \in Frameworks : PresentIn(fr2, g) => Single(q, g)
  BY <1>2, <1>3, <1>4 DEF FrameworksShown, PresentIn
<1>7. Outdated(list, fr) => Outdated(q, fr2)
  <2> SUFFICES ASSUME NEW i \in 1 .. n, list[i].id \in Marathons, fr[list[i].id] = "completed"
               PROVE  Outdated(q, fr2)
    BY DEF Outdated
  <2>1. i \in 1 .. Len(q) /\ q[i] = list[i] /\ fr2[q[i].id] = "completed"
    BY <1>2, <1>3, <1>4
  <2> QED BY <2>1 DEF Outdated
<1> QED BY <1>2, <1>5, <1>6, <1>7 DEF FrameworksShown, q, e, fr2

\* A present framework keeps its only row, with the status it has now.
LEMMA FrameworkUpdatedShown ==
    ASSUME NEW list \in Seq(FrameworkRow), NEW fr \in [Frameworks -> FrameworkStatus],
           FrameworksShown(list, fr), NEW f \in Frameworks, PresentIn(fr, f),
           NEW s \in {"active", "inactive"}
    PROVE  LET row == processFramework(FrameworkMessage(f, s))
               q == [i \in DOMAIN list |-> IF list[i].id = f THEN row ELSE list[i]]
               fr2 == [fr EXCEPT ![f] = s]
           IN  /\ q \in Seq(FrameworkRow) /\ FrameworksShown(q, fr2)
               /\ Outdated(list, fr) => Outdated(q, fr2)
<1> DEFINE row == processFramework(FrameworkMessage(f, s))
           q == [i \in DOMAIN list |-> IF list[i].id = f THEN row ELSE list[i]]
           fr2 == [fr EXCEPT ![f] = s]
<1>1. row \in FrameworkRow /\ row.id = f /\ (row.active <=> s = "active")
  BY FrameworkMessageRow
<1> HIDE DEF row
<1>2. /\ q \in Seq(FrameworkRow) /\ Len(q) = Len(list)
      /\ \A i \in 1 .. Len(list) : q[i] = IF list[i].id = f THEN row ELSE list[i]
  BY <1>1
<1> HIDE DEF q
<1>3. \A i \in 1 .. Len(list) : list[i].id \in Frameworks /\ q[i].id = list[i].id
  BY <1>1, <1>2, FrameworkRowsHaveIds
<1>4. fr2[f] = s /\ \A g \in Frameworks : g # f => fr2[g] = fr[g]
  OBVIOUS
<1> HIDE DEF fr2
<1>5. ASSUME NEW i \in 1 .. Len(list)
      PROVE  fr2[q[i].id] # "unknown" /\ (q[i].active <=> fr2[q[i].id] = "active")
  <2>1. CASE list[i].id = f
    BY <1>1, <1>2, <1>4, <2>1
  <2>2. CASE list[i].id # f
    <3>1. q[i] = list[i] /\ fr2[list[i].id] = fr[list[i].id]
      BY <1>2, <1>3, <1>4, <2>2
    <3> QED BY <3>1 DEF FrameworksShown
  <2> QED BY <2>1, <2>2
<1>6. \A g \in Frameworks : PresentIn(fr2, g) => Single(q, g)
  <2> SUFFICES ASSUME NEW g \in Frameworks, PresentIn(fr2, g)
               PROVE  Single(q, g)
    OBVIOUS
  <2>1. PresentIn(fr, g)
    BY <1>4 DEF PresentIn
  <2>2. Single(list, g)
    BY <2>1 DEF FrameworksShown
  <2> QED BY <1>2, <1>3, <2>2 DEF Single
<1>7. Outdated(list, fr) => Outdated(q, fr2)
  <2> SUFFICES ASSUME NEW i \in 1 .. Len(list), list[i].id \in Marathons,
                      fr[list[i].id] = "completed"
               PROVE  Outdated(q, fr2)
    BY DEF Outdated
  <2>1. list[i].id # f
    BY DEF PresentIn
  <2>2. q[i].id = list[i].id /\ fr2[q[i].id] = "completed"
    BY <1>3, <1>4, <2>1
  <2> QED BY <1>2, <2>2 DEF Outdated
<1> QED BY <1>2, <1>5, <1>6, <1>7 DEF FrameworksShown, q, row, fr2

\* The row of a framework that is removed goes, so it outdates nothing.
LEMMA FrameworkRemovedShown ==
    ASSUME NEW list \in Seq(FrameworkRow), NEW fr \in [Frameworks -> FrameworkStatus],
           FrameworksShown(list, fr), NEW f \in Frameworks, PresentIn(fr, f)
    PROVE  LET fr2 == [fr EXCEPT ![f] = "completed"]
           IN  /\ WithoutId(list, f) \in Seq(FrameworkRow)
               /\ FrameworksShown(WithoutId(list, f), fr2)
               /\ Outdated(list, fr) => Outdated(WithoutId(list, f), fr2)
<1> DEFINE q == WithoutId(list, f)
           fr2 == [fr EXCEPT ![f] = "completed"]
<1>1. /\ q \in Seq(FrameworkRow)
      /\ \A i \in 1 .. Len(q) : q[i].id # f /\ \E j \in 1 .. Len(list) : q[i] = list[j]
      /\ \A j \in 1 .. Len(list) : list[j].id # f => \E i \in 1 .. Len(q) : q[i] = list[j]
      /\ \A x : x # f /\ Single(list, x) => Single(q, x)
  BY FilteredList
<1> HIDE DEF q
<1>2. \A j \in 1 .. Len(list) : list[j].id \in Frameworks
  BY FrameworkRowsHaveIds
<1>3. fr2[f] = "completed" /\ \A g \in Frameworks : g # f => fr2[g] = fr[g]
  OBVIOUS
<1> HIDE DEF fr2
<1>4. ASSUME NEW i \in 1 .. Len(q)
      PROVE  fr2[q[i].id] # "unknown" /\ (q[i].active <=> fr2[q[i].id] = "active")
  <2>1. PICK j \in 1 .. Len(list) : q[i] = list[j]
    BY <1>1
  <2>2. list[j].id # f /\ fr2[list[j].id] = fr[list[j].id]
    BY <1>1, <1>2, <1>3, <2>1
  <2> QED BY <2>1, <2>2 DEF FrameworksShown
<1>5. \A g \in Frameworks : PresentIn(fr2, g) => Single(q, g)
  BY <1>1, <1>3 DEF FrameworksShown, PresentIn
<1>6. Outdated(list, fr) => Outdated(q, fr2)
  <2> SUFFICES ASSUME NEW j \in 1 .. Len(list), list[j].id \in Marathons,
                      fr[list[j].id] = "completed"
               PROVE  Outdated(q, fr2)
    BY DEF Outdated
  <2>1. list[j].id # f
    BY DEF PresentIn
  <2>2. PICK i \in 1 .. Len(q) : q[i] = list[j]
    BY <1>1, <2>1
  <2>3. fr2[q[i].id] = "completed"
    BY <1>2, <1>3, <2>1, <2>2
  <2> QED BY <2>2, <2>3 DEF Outdated
<1> QED BY <1>1, <1>4, <1>5, <1>6 DEF FrameworksShown, q, fr2

\* A task that was unborn is not listed, so it is listed once; if it is the
\* Marathon's, it is flagged unless the copy's frameworks are outdated.
LEMMA TaskAddedShown ==
    ASSUME NEW fs \in Seq(FrameworkRow), NEW list \in Seq(TaskRow),
           NEW fr \in [Frameworks -> FrameworkStatus],
           NEW ta \in [Tasks -> TaskStatus], NEW ow \in [Tasks -> Frameworks \cup {Nobody}],
           FrameworksShown(fs, fr), TasksShown(list, ta, ow), Flagged(fs, list, fr, ta),
           \A f, g \in Marathons : PresentIn(fr, f) /\ PresentIn(fr, g) => f = g,
           NEW t \in Tasks, ta[t] = "unborn", NEW f \in Frameworks, PresentIn(fr, f)
    PROVE  LET row == processTask(fs, TaskMessage(t, f, "TASK_STAGING"))
               q == Append(list, row)
               ta2 == [ta EXCEPT ![t] = "TASK_STAGING"]
               ow2 == [ow EXCEPT ![t] = f]
           IN  /\ q \in Seq(TaskRow) /\ TasksShown(q, ta2, ow2)
               /\ Flagged(fs, q, fr, ta2)
<1> DEFINE m == TaskMessage(t, f, "TASK_STAGING")
           row == processTask(fs, m)
           q == Append(list, row)
           n == Len(list)
           ta2 == [ta EXCEPT ![t] = "TASK_STAGING"]
           ow2 == [ow EXCEPT ![t] = f]
<1>1. /\ row \in TaskRow
      /\ row.id = t /\ row.framework_id = f /\ row.state = "TASK_STAGING"
      /\ row.isStartedByMarathon <=> isStartedByMarathon(fs, m)
  <2>1. "TASK_STAGING" \in TaskStatus \ {"unborn"}
    BY DEF TaskStatus
  <2> QED BY <2>1, TaskMessageRow
<1>2. m.framework_id = f
  BY DEF TaskMessage
<1> HIDE DEF row, m
<1>3. /\ n \in Nat
      /\ q \in Seq(TaskRow) /\ Len(q) = n + 1 /\ q[n + 1] = row
      /\ \A j \in 1 .. n : q[j] = list[j]
      /\ \A x : x # t /\ Single(list, x) => Single(q, x)
      /\ (\A j \in 1 .. n : list[j].id # t) => Single(q, t)
  BY <1>1, AppendedList
<1> HIDE DEF q
<1>4. \A j \in 1 .. n : list[j].id \in Tasks /\ list[j].id # t
  BY TaskRowsHaveIds DEF TasksShown
<1>5. /\ ta2[t] = "TASK_STAGING" /\ \A u \in Tasks : u # t => ta2[u] = ta[u]
      /\ ow2[t] = f /\ \A u \in Tasks : u # t => ow2[u] = ow[u]
  OBVIOUS
<1> HIDE DEF ta2, ow2
<1>6. \A i \in 1 .. Len(q) : i = n + 1 \/ i \in 1 .. n
  BY <1>3
<1>7. ASSUME NEW i \in 1 .. Len(q)
      PROVE  q[i].state = ta2[q[i].id] /\ q[i].framework_id = ow2[q[i].id]
  <2>1. CASE i = n + 1
    BY <1>1, <1>3, <1>5, <2>1
  <2>2. CASE i \in 1 .. n
    <3>1. /\ q[i] = list[i]
          /\ ta2[list[i].id] = ta[list[i].id] /\ ow2[list[i].id] = ow[list[i].id]
      BY <1>3, <1>4, <1>5, <2>2
    <3> QED BY <2>2, <3>1 DEF TasksShown
  <2> QED BY <1>6, <2>1, <2>2
<1>8. \A u \in Tasks : LiveIn(ta2, u) => Single(q, u)
  BY <1>3, <1>4, <1>5 DEF TasksShown, LiveIn
<1>9. Flagged(fs, q, fr, ta2)
  <2> SUFFICES ASSUME ~ Outdated(fs, fr), NEW i \in 1 .. Len(q),
                      LiveIn(ta2, q[i].id), q[i].framework_id \in Marathons
               PROVE  q[i].isStartedByMarathon
    BY DEF Flagged
  <2>1. CASE i = n + 1
    <3>1. f \in Marathons /\ q[i] = row
      BY <1>1, <1>3, <2>1
    <3>2. isStartedByMarathon(fs, m)
      BY <1>2, <3>1, MarathonIsFlagged
    <3> QED BY <1>1, <3>1, <3>2
  <2>2. CASE i \in 1 .. n
    <3>1. q[i] = list[i] /\ LiveIn(ta, list[i].id)
      BY <1>3, <1>4, <1>5, <2>2 DEF LiveIn
    <3> QED BY <2>2, <3>1 DEF Flagged
  <2> QED BY <1>6, <2>1, <2>2
<1> QED BY <1>3, <1>7, <1>8, <1>9 DEF TasksShown, q, row, m, ta2, ow2

\* A live task keeps its only row and its flag.
LEMMA TaskUpdatedShown ==
    ASSUME NEW fs \in Seq(FrameworkRow), NEW list \in Seq(TaskRow),
           NEW fr \in [Frameworks -> FrameworkStatus],
           NEW ta \in [Tasks -> TaskStatus], NEW ow \in [Tasks -> Frameworks \cup {Nobody}],
           TasksShown(list, ta, ow), Flagged(fs, list, fr, ta),
           NEW t \in Tasks, LiveIn(ta, t), NEW s \in {"TASK_RUNNING", "TASK_FINISHED"}
    PROVE  LET q == StateUpdated(list, t, s)
               ta2 == [ta EXCEPT ![t] = s]
           IN  /\ q \in Seq(TaskRow) /\ TasksShown(q, ta2, ow)
               /\ Flagged(fs, q, fr, ta2)
<1> DEFINE with(row) == [row EXCEPT !.state = s]
           q == StateUpdated(list, t, s)
           ta2 == [ta EXCEPT ![t] = s]
<1>1. \A row \in TaskRow :
        /\ with(row) \in TaskRow
        /\ with(row).id = row.id /\ with(row).framework_id = row.framework_id
        /\ with(row).state = s /\ with(row).isStartedByMarathon = row.isStartedByMarathon
  BY DEF TaskRow, TaskStatus
<1>12. q = [i \in DOMAIN list |-> IF list[i].id = t THEN with(list[i]) ELSE list[i]]
  BY DEF StateUpdated
<1> HIDE DEF with, q
<1>2. \A i \in 1 .. Len(list) : list[i] \in TaskRow /\ list[i].id \in Tasks
  BY TaskRowsHaveIds
<1>3. /\ q \in Seq(TaskRow) /\ Len(q) = Len(list)
      /\ \A i \in 1 .. Len(list) : q[i] = IF list[i].id = t THEN with(list[i]) ELSE list[i]
  <2> DEFINE g == [i \in DOMAIN list |-> IF list[i].id = t THEN with(list[i]) ELSE list[i]]
  <2>1. /\ g \in Seq(TaskRow) /\ Len(g) = Len(list)
        /\ \A i \in 1 .. Len(list) : g[i] = IF list[i].id = t THEN with(list[i]) ELSE list[i]
    BY <1>1
  <2> HIDE DEF g
  <2>2. q = g
    BY <1>12 DEF g
  <2> QED BY <2>1, <2>2
<1>4. \A i \in 1 .. Len(list) :
        /\ q[i].id = list[i].id /\ q[i].framework_id = list[i].framework_id
        /\ q[i].isStartedByMarathon = list[i].isStartedByMarathon
        /\ list[i].id = t => q[i].state = s
        /\ list[i].id # t => q[i].state = list[i].state
  BY <1>1, <1>2, <1>3
<1>5. ta2[t] = s /\ \A u \in Tasks : u # t => ta2[u] = ta[u]
  OBVIOUS
<1> HIDE DEF ta2
<1>6. \A u \in Tasks : LiveIn(ta2, u) => LiveIn(ta, u)
  BY <1>5 DEF LiveIn
<1>7. \A i \in 1 .. Len(list) :
        q[i].state = ta2[q[i].id] /\ q[i].framework_id = ow[q[i].id]
  BY <1>2, <1>4, <1>5 DEF TasksShown
<1>8. ASSUME NEW u \in Tasks, LiveIn(ta2, u)
      PROVE  Single(q, u)
  <2>1. Single(list, u)
    BY <1>6, <1>8 DEF TasksShown
  <2>2. Len(q) = Len(list) /\ \A i \in 1 .. Len(list) : q[i].id = list[i].id
    BY <1>3, <1>4
  <2> QED BY <2>1, <2>2, RelabelledList
<1>9. Flagged(fs, q, fr, ta2)
  <2> SUFFICES ASSUME ~ Outdated(fs, fr), NEW i \in 1 .. Len(list),
                      LiveIn(ta2, q[i].id), q[i].framework_id \in Marathons
               PROVE  q[i].isStartedByMarathon
    BY <1>3 DEF Flagged
  <2>1. LiveIn(ta, list[i].id) /\ list[i].framework_id \in Marathons
    BY <1>2, <1>4, <1>6
  <2>2. list[i].isStartedByMarathon
    BY <2>1 DEF Flagged
  <2> QED BY <1>4, <2>2
<1> QED BY <1>3, <1>7, <1>8, <1>9 DEF TasksShown, q, with, ta2

\* Frameworks that come and go leave the flags as right as the list of
\* frameworks is outdated.
LEMMA FlagsKept ==
    ASSUME NEW fs, NEW gs, NEW list, NEW fr, NEW gr, NEW ta,
           Flagged(fs, list, fr, ta), Outdated(fs, fr) => Outdated(gs, gr)
    PROVE  Flagged(gs, list, gr, ta)
  BY DEF Flagged

----------------------------------------------------------------------------
(* A snapshot.                                                             *)

AgentMessages(A) == {AgentMessage(a) : a \in A}
RecoveredMessages(A) == {[id |-> a] : a \in A}
FrameworkMessages(fr, F) == {FrameworkMessage(f, fr[f]) : f \in F}
TaskMessages(ta, ow, T) == {TaskMessage(t, ow[t], ta[t]) : t \in T}

\* What the snapshot's lists become.
AgentsRead(A, R) ==
    LET w == Flat(AgentMessages(A), RecoveredMessages(R))
    IN  [i \in DOMAIN w |-> processAgent(w[i])]
FrameworksRead(fr, P, C) ==
    LET w == Flat(FrameworkMessages(fr, P), FrameworkMessages(fr, C))
    IN  [i \in DOMAIN w |-> processFramework(w[i])]
TasksRead(fs, ta, ow, L, H) ==
    LET w == Flat(TaskMessages(ta, ow, L), TaskMessages(ta, ow, H))
    IN  [i \in DOMAIN w |-> processTask(fs, w[i])]

\* A snapshot is read group by group, the tasks with its own frameworks.
LEMMA SnapshotRead ==
    ASSUME NEW r, NEW A, NEW R, NEW fr, NEW P, NEW C, NEW ta, NEW ow, NEW L, NEW H
    PROVE  LET m == [type |-> "SUBSCRIBED",
                     get_agents |-> Groups(AgentMessages(A), RecoveredMessages(R)),
                     get_frameworks |-> Groups(FrameworkMessages(fr, P), FrameworkMessages(fr, C)),
                     get_tasks |-> Groups(TaskMessages(ta, ow, L), TaskMessages(ta, ow, H))]
               fs == FrameworksRead(fr, P, C)
           IN  parsers(r, m) = [slaves |-> AgentsRead(A, R), frameworks |-> fs,
                                tasks |-> TasksRead(fs, ta, ow, L, H)]
<1> DEFINE ga == Groups(AgentMessages(A), RecoveredMessages(R))
           gf == Groups(FrameworkMessages(fr, P), FrameworkMessages(fr, C))
           gt == Groups(TaskMessages(ta, ow, L), TaskMessages(ta, ow, H))
           m == [type |-> "SUBSCRIBED", get_agents |-> ga, get_frameworks |-> gf,
                 get_tasks |-> gt]
           fs == FrameworksRead(fr, P, C)
           ts == TasksRead(fs, ta, ow, L, H)
           one == getFrameworksAction(EmptyState, gf)
           two == getTasksAction(one, gt)
<1>1. parsers(r, m) = getStateAction(EmptyState, m)
  BY DEF parsers, subscribedAction
<1>2. one = [slaves |-> <<>>, frameworks |-> fs, tasks |-> <<>>]
  BY DEF getFrameworksAction, EmptyState, MapSeq, FrameworksRead, Flat
<1>3. two = [slaves |-> <<>>, frameworks |-> fs, tasks |-> ts]
  <2>1. one.frameworks = fs
    BY <1>2
  <2>2. two = [one EXCEPT !.tasks = ts]
    BY <2>1 DEF getTasksAction, MapSeq, TasksRead, Flat
  <2> HIDE DEF fs, ts, one, two
  <2> QED BY <1>2, <2>2
<1>4. getAgentsAction(two, ga)
        = [slaves |-> AgentsRead(A, R), frameworks |-> fs, tasks |-> ts]
  <2>1. getAgentsAction(two, ga) = [two EXCEPT !.slaves = AgentsRead(A, R)]
    BY DEF getAgentsAction, MapSeq, AgentsRead, Flat
  <2> HIDE DEF fs, ts, one, two
  <2> QED BY <1>3, <2>1
<1>5. getStateAction(EmptyState, m) = getAgentsAction(two, ga)
  <2>1. /\ m.get_frameworks = gf /\ m.get_tasks = gt /\ m.get_agents = ga
        /\ "get_agents" \in DOMAIN m
    OBVIOUS
  <2> QED BY <2>1 DEF getStateAction
<1> QED BY <1>1, <1>4, <1>5

\* The agents of a snapshot are those of the cluster.
LEMMA AgentsReadShown ==
    ASSUME NEW ag \in [Agents -> AgentStatus],
           IsFiniteSet({a \in Agents : ag[a] # "absent"})
    PROVE  LET q == AgentsRead({a \in Agents : ag[a] = "registered"},
                               {a \in Agents : ag[a] = "recovered"})
           IN  q \in Seq(AgentRow) /\ AgentsShown(q, ag)
<1> DEFINE A == {a \in Agents : ag[a] = "registered"}
           R == {a \in Agents : ag[a] = "recovered"}
           X == AgentMessages(A)
           Y == RecoveredMessages(R)
           w == Flat(X, Y)
           q == AgentsRead(A, R)
<1>1. IsFiniteSet(A) /\ IsFiniteSet(R)
  BY FS_Subset
<1>2. IsFiniteSet(X) /\ IsFiniteSet(Y)
  <2> DEFINE f == [a \in A |-> AgentMessage(a)]
             g == [a \in R |-> [id |-> a]]
  <2>1. X = {f[a] : a \in A} /\ Y = {g[a] : a \in R}
    BY DEF AgentMessages, RecoveredMessages
  <2> HIDE DEF f, g, A, R, X, Y
  <2> QED BY <1>1, <2>1, Images
<1>3. w \in Seq(X \cup Y) /\ Covers(w, X \cup Y)
  <2> HIDE DEF X, Y
  <2> QED BY <1>2, Listing
<1> HIDE DEF w
<1>4. \A x \in X \cup Y : /\ processAgent(x) \in AgentRow
                          /\ processAgent(x).id \in Agents
                          /\ ag[processAgent(x).id] # "absent"
  BY AgentRows DEF AgentMessages, RecoveredMessages
<1>5. \A a \in Agents : ag[a] # "absent" => \E x \in X \cup Y : processAgent(x).id = a
  <2> SUFFICES ASSUME NEW a \in Agents, ag[a] # "absent"
               PROVE  \E x \in X \cup Y : processAgent(x).id = a
    OBVIOUS
  <2>1. CASE ag[a] = "registered"
    <3>1. AgentMessage(a) \in X
      BY <2>1 DEF AgentMessages
    <3> QED BY <3>1, AgentRows
  <2>2. CASE ag[a] = "recovered"
    <3>1. [id |-> a] \in Y
      BY <2>2 DEF RecoveredMessages
    <3> QED BY <3>1, AgentRows
  <2> QED BY <2>1, <2>2 DEF AgentStatus
<1>6. q = [i \in DOMAIN w |-> processAgent(w[i])]
  BY DEF AgentsRead, w
<1> HIDE DEF q, X, Y
<1>7. /\ q \in Seq(AgentRow) /\ Len(q) = Len(w)
      /\ \A i \in 1 .. Len(q) : q[i] = processAgent(w[i]) /\ w[i] \in X \cup Y
  BY <1>3, <1>4, <1>6
<1>8. \A i \in 1 .. Len(q) : ag[q[i].id] # "absent"
  BY <1>4, <1>7
<1>9. \A a \in Agents : ag[a] # "absent" => \E i \in 1 .. Len(q) : q[i].id = a
  BY <1>3, <1>5, <1>7 DEF Covers
<1> QED BY <1>7, <1>8, <1>9 DEF AgentsShown, q

\* The frameworks of a snapshot are those of the cluster, each present one once.
LEMMA FrameworksReadShown ==
    ASSUME NEW fr \in [Frameworks -> FrameworkStatus],
           IsFiniteSet({f \in Frameworks : fr[f] # "unknown"})
    PROVE  LET q == FrameworksRead(fr, {f \in Frameworks : PresentIn(fr, f)},
                                   {f \in Frameworks : fr[f] = "completed"})
           IN  q \in Seq(FrameworkRow) /\ FrameworksShown(q, fr)
<1> DEFINE P == {f \in Frameworks : PresentIn(fr, f)}
           C == {f \in Frameworks : fr[f] = "completed"}
           X == FrameworkMessages(fr, P)
           Y == FrameworkMessages(fr, C)
           w == Flat(X, Y)
           q == FrameworksRead(fr, P, C)
           rowOf(m) == processFramework(m)
<1>1. IsFiniteSet(P) /\ IsFiniteSet(C)
  <2>1. P \subseteq {f \in Frameworks : fr[f] # "unknown"}
    BY DEF PresentIn
  <2>2. C \subseteq {f \in Frameworks : fr[f] # "unknown"}
    OBVIOUS
  <2> HIDE DEF P, C
  <2> QED BY <2>1, <2>2, FS_Subset
<1>2. IsFiniteSet(X) /\ IsFiniteSet(Y)
  <2> DEFINE m == [f \in Frameworks |-> FrameworkMessage(f, fr[f])]
  <2>1. X = {m[f] : f \in P} /\ Y = {m[f] : f \in C}
    BY DEF FrameworkMessages
  <2> HIDE DEF m, P, C, X, Y
  <2> QED BY <1>1, <2>1, Images
<1>3. \A f \in Frameworks :
        /\ rowOf(FrameworkMessage(f, fr[f])) \in FrameworkRow
        /\ rowOf(FrameworkMessage(f, fr[f])).id = f
        /\ rowOf(FrameworkMessage(f, fr[f])).active <=> fr[f] = "active"
  BY FrameworkMessageRow
<1> HIDE DEF rowOf
<1>4. \A x \in X \cup Y :
        /\ rowOf(x) \in FrameworkRow /\ rowOf(x).id \in Frameworks
        /\ fr[rowOf(x).id] # "unknown" /\ (rowOf(x).active <=> fr[rowOf(x).id] = "active")
        /\ x = FrameworkMessage(rowOf(x).id, fr[rowOf(x).id])
  BY <1>3 DEF FrameworkMessages, PresentIn
<1>5. X \cap Y = {}
  <2>1. \A x \in X : PresentIn(fr, rowOf(x).id)
    BY <1>3 DEF FrameworkMessages
  <2>2. \A x \in Y : fr[rowOf(x).id] = "completed"
    BY <1>3 DEF FrameworkMessages
  <2> QED BY <2>1, <2>2 DEF PresentIn
<1>6. \A f \in Frameworks : PresentIn(fr, f) => FrameworkMessage(f, fr[f]) \in X \cup Y
  BY DEF FrameworkMessages
<1>7. w \in Seq(X \cup Y) /\ Covers(w, X \cup Y) /\ Distinct(w)
  <2> HIDE DEF X, Y
  <2> QED BY <1>2, <1>5, Listing
<1> HIDE DEF w
<1>8. q = [i \in DOMAIN w |-> rowOf(w[i])]
  BY DEF FrameworksRead, w, rowOf
<1> HIDE DEF q, X, Y
<1>9. /\ q \in Seq(FrameworkRow) /\ Len(q) = Len(w)
      /\ \A i \in 1 .. Len(q) : q[i] = rowOf(w[i]) /\ w[i] \in X \cup Y
  BY <1>4, <1>7, <1>8
<1>10. \A i \in 1 .. Len(q) :
         fr[q[i].id] # "unknown" /\ (q[i].active <=> fr[q[i].id] = "active")
  BY <1>4, <1>9
<1>11. ASSUME NEW f \in Frameworks, PresentIn(fr, f)
       PROVE  Single(q, f)
  <2>1. PICK i \in 1 .. Len(q) : w[i] = FrameworkMessage(f, fr[f])
    BY <1>6, <1>7, <1>9, <1>11 DEF Covers
  <2>2. q[i].id = f
    BY <1>3, <1>9, <2>1
  <2>3. ASSUME NEW j \in 1 .. Len(q), q[j].id = f
        PROVE  j = i
    <3>1. w[j] = FrameworkMessage(f, fr[f])
      BY <1>4, <1>9, <2>3
    <3> QED BY <1>7, <1>9, <2>1, <3>1 DEF Distinct
  <2> QED BY <2>2, <2>3 DEF Single
<1> QED BY <1>9, <1>10, <1>11 DEF FrameworksShown, q

\* The tasks of a snapshot are as they are, each live one once, and flagged.
LEMMA TasksReadShown ==
    ASSUME NEW fs \in Seq(FrameworkRow), NEW fr \in [Frameworks -> FrameworkStatus],
           NEW ta \in [Tasks -> TaskStatus], NEW ow \in [Tasks -> Frameworks \cup {Nobody}],
           IsFiniteSet({t \in Tasks : ta[t] # "unborn"}),
           FrameworksShown(fs, fr),
           \A t \in Tasks : LiveIn(ta, t) => ow[t] \in Frameworks /\ PresentIn(fr, ow[t]),
           \A f, g \in Marathons : PresentIn(fr, f) /\ PresentIn(fr, g) => f = g,
           NEW H, H \subseteq {t \in Tasks : ta[t] = "TASK_FINISHED"}
    PROVE  LET q == TasksRead(fs, ta, ow, {t \in Tasks : LiveIn(ta, t)}, H)
           IN  /\ q \in Seq(TaskRow) /\ TasksShown(q, ta, ow)
               /\ Flagged(fs, q, fr, ta)
<1> DEFINE L == {t \in Tasks : LiveIn(ta, t)}
           X == TaskMessages(ta, ow, L)
           Y == TaskMessages(ta, ow, H)
           w == Flat(X, Y)
           q == TasksRead(fs, ta, ow, L, H)
           messageOf(t) == TaskMessage(t, ow[t], ta[t])
           rowOf(m) == processTask(fs, m)
<1>1. IsFiniteSet(L) /\ IsFiniteSet(H)
  <2>1. L \subseteq {t \in Tasks : ta[t] # "unborn"}
    BY DEF LiveIn
  <2>2. H \subseteq {t \in Tasks : ta[t] # "unborn"}
    OBVIOUS
  <2> HIDE DEF L
  <2> QED BY <2>1, <2>2, FS_Subset
<1>2. IsFiniteSet(X) /\ IsFiniteSet(Y)
  <2> DEFINE m == [t \in Tasks |-> messageOf(t)]
  <2>1. X = {m[t] : t \in L} /\ Y = {m[t] : t \in H}
    BY DEF TaskMessages
  <2> HIDE DEF m, L, X, Y
  <2> QED BY <1>1, <2>1, Images
<1>3. \A t \in L \cup H :
        /\ t \in Tasks
        /\ rowOf(messageOf(t)) \in TaskRow
        /\ rowOf(messageOf(t)).id = t /\ rowOf(messageOf(t)).framework_id = ow[t]
        /\ rowOf(messageOf(t)).state = ta[t]
        /\ rowOf(messageOf(t)).isStartedByMarathon <=> isStartedByMarathon(fs, messageOf(t))
  <2> SUFFICES ASSUME NEW t \in L \cup H
               PROVE  /\ t \in Tasks
                      /\ rowOf(messageOf(t)) \in TaskRow
                      /\ rowOf(messageOf(t)).id = t /\ rowOf(messageOf(t)).framework_id = ow[t]
                      /\ rowOf(messageOf(t)).state = ta[t]
                      /\ rowOf(messageOf(t)).isStartedByMarathon
                           <=> isStartedByMarathon(fs, messageOf(t))
    OBVIOUS
  <2>1. t \in Tasks /\ ow[t] \in Frameworks \cup {Nobody} /\ ta[t] \in TaskStatus \ {"unborn"}
    BY DEF LiveIn, TaskStatus
  <2>2. fs \in Seq(FrameworkRow)
    OBVIOUS
  <2> DEFINE f == ow[t]
             s == ta[t]
             m == TaskMessage(t, f, s)
  <2> HIDE DEF f, s, L
  <2>3. f \in Frameworks \cup {Nobody} /\ s \in TaskStatus \ {"unborn"}
    BY <2>1 DEF f, s
  <2>4. LET row == processTask(fs, m)
        IN  /\ row \in TaskRow
            /\ row.id = t /\ row.framework_id = f /\ row.state = s
            /\ row.isStartedByMarathon <=> isStartedByMarathon(fs, m)
    BY <2>1, <2>2, <2>3, TaskMessageRow
  <2> QED BY <2>1, <2>4, Zenon DEF f, s
<1>4. \A x \in X \cup Y : \E t \in L \cup H : x = messageOf(t)
  BY DEF TaskMessages
<1>5. \A t \in L \cup H : messageOf(t) \in X \cup Y
  BY DEF TaskMessages
<1>6. X \cap Y = {}
  <2>1. \A x \in X : \E t \in L : x = messageOf(t)
    BY DEF TaskMessages
  <2>2. \A x \in Y : \E t \in H : x = messageOf(t)
    BY DEF TaskMessages
  <2>3. \A t \in L, u \in H : t # u
    BY DEF LiveIn
  <2> HIDE DEF messageOf, rowOf, X, Y, L
  <2> QED BY <1>3, <2>1, <2>2, <2>3
<1>7. w \in Seq(X \cup Y) /\ Covers(w, X \cup Y) /\ Distinct(w)
  <2> HIDE DEF X, Y
  <2> QED BY <1>2, <1>6, Listing
<1> HIDE DEF w
<1>8. q = [i \in DOMAIN w |-> rowOf(w[i])]
  BY DEF TasksRead, w
<1> DEFINE live(t) == t \in L
<1>9. \A t \in Tasks : LiveIn(ta, t) <=> live(t)
  OBVIOUS
<1>10. ASSUME ~ Outdated(fs, fr), NEW t \in L, ow[t] \in Marathons
       PROVE  isStartedByMarathon(fs, messageOf(t))
  <2>1. ow[t] \in Frameworks /\ PresentIn(fr, ow[t])
    OBVIOUS
  <2>2. messageOf(t).framework_id = ow[t]
    BY DEF TaskMessage
  <2> HIDE DEF messageOf
  <2> QED BY <1>10, <2>1, <2>2, MarathonIsFlagged
<1> HIDE DEF q, X, Y, L, rowOf, messageOf
<1>11. /\ q \in Seq(TaskRow) /\ Len(q) = Len(w)
       /\ \A i \in 1 .. Len(q) : q[i] = rowOf(w[i])
  <2>1. \A x \in X \cup Y : rowOf(x) \in TaskRow
    BY <1>3, <1>4
  <2>2. w \in Seq(X \cup Y)
    BY <1>7
  <2> QED BY <1>8, <2>1, <2>2
<1>12. \A i \in 1 .. Len(q) : \E t \in L \cup H : w[i] = messageOf(t)
  <2> SUFFICES ASSUME NEW i \in 1 .. Len(q)
               PROVE  \E t \in L \cup H : w[i] = messageOf(t)
    OBVIOUS
  <2>1. i \in 1 .. Len(w) /\ w \in Seq(X \cup Y)
    BY <1>7, <1>11
  <2>2. w[i] \in X \cup Y
    BY <2>1
  <2> QED BY <1>4, <2>2, Zenon
<1>13. \A i \in 1 .. Len(q) : q[i].state = ta[q[i].id] /\ q[i].framework_id = ow[q[i].id]
  BY <1>3, <1>11, <1>12
<1>14. ASSUME NEW t \in L
       PROVE  Single(q, t)
  <2>1. PICK i \in 1 .. Len(q) : w[i] = messageOf(t)
    BY <1>5, <1>7, <1>11 DEF Covers
  <2>2. q[i].id = t
    BY <1>3, <1>11, <2>1
  <2>3. ASSUME NEW j \in 1 .. Len(q), q[j].id = t
        PROVE  j = i
    <3>1. PICK u \in L \cup H : w[j] = messageOf(u)
      BY <1>12
    <3>2. u = t
      BY <1>3, <1>11, <2>3, <3>1
    <3> QED BY <1>7, <1>11, <2>1, <3>1, <3>2 DEF Distinct
  <2> QED BY <2>2, <2>3 DEF Single
<1>15. Flagged(fs, q, fr, ta)
  <2> SUFFICES ASSUME ~ Outdated(fs, fr), NEW i \in 1 .. Len(q),
                      LiveIn(ta, q[i].id), q[i].framework_id \in Marathons
               PROVE  q[i].isStartedByMarathon
    BY DEF Flagged
  <2>1. PICK t \in L \cup H : w[i] = messageOf(t)
    BY <1>12
  <2>2. q[i].id = t /\ q[i].framework_id = ow[t] /\ t \in Tasks
    BY <1>3, <1>11, <2>1
  <2>3. t \in L
    BY <1>9, <2>2
  <2> QED BY <1>3, <1>10, <1>11, <2>1, <2>2, <2>3
<1>16. TasksShown(q, ta, ow)
  BY <1>9, <1>13, <1>14 DEF TasksShown
<1> QED BY <1>11, <1>15, <1>16 DEF q, L

----------------------------------------------------------------------------
(* The master keeps what it knows in order.                                *)

\* One more that is known is still finitely many.
LEMMA OneMoreKnown ==
    ASSUME NEW S, NEW v, NEW w, NEW none, NEW x, \A z \in S : z # x => w[z] = v[z],
           IsFiniteSet(Known(S, v, none))
    PROVE  IsFiniteSet(Known(S, w, none))
<1> DEFINE A == Known(S, v, none)
           B == Known(S, w, none)
<1>1. B \subseteq A \cup {x}
  BY DEF Known
<1> HIDE DEF A, B
<1>2. IsFiniteSet(A \cup {x})
  BY FS_AddElement DEF A
<1> QED BY <1>1, <1>2, FS_Subset DEF B

\* The changes of the cluster keep what holds of the master.
LEMMA AgentChanges ==
    ASSUME NEW ag, NEW fr, NEW ta, NEW ow, MasterIsSane(ag, fr, ta, ow),
           NEW a \in Agents, NEW s \in AgentStatus
    PROVE  MasterIsSane([ag EXCEPT ![a] = s], fr, ta, ow)
<1> DEFINE ag2 == [ag EXCEPT ![a] = s]
<1>1. ag2 \in [Agents -> AgentStatus] /\ \A b \in Agents : b # a => ag2[b] = ag[b]
  BY DEF MasterIsSane
<1> HIDE DEF ag2
<1>2. IsFiniteSet(Known(Agents, ag2, "absent"))
  <2>1. IsFiniteSet(Known(Agents, ag, "absent"))
    BY DEF MasterIsSane
  <2>2. \A b \in Agents : b # a => ag2[b] = ag[b]
    BY <1>1
  <2> QED BY <2>1, <2>2, OneMoreKnown
<1>3. MasterIsSane(ag2, fr, ta, ow)
  BY <1>1, <1>2 DEF MasterIsSane
<1> QED BY <1>3 DEF ag2

\* Another master has recovered the agents that were registered.
LEMMA AgentsRecover ==
    ASSUME NEW ag, NEW fr, NEW ta, NEW ow, MasterIsSane(ag, fr, ta, ow)
    PROVE  MasterIsSane([a \in Agents |-> IF ag[a] = "absent" THEN "absent" ELSE "recovered"],
                        fr, ta, ow)
<1> DEFINE ag2 == [a \in Agents |-> IF ag[a] = "absent" THEN "absent" ELSE "recovered"]
<1>1. Known(Agents, ag2, "absent") = Known(Agents, ag, "absent")
  BY DEF Known
<1>2. ag2 \in [Agents -> AgentStatus]
  BY DEF AgentStatus
<1> HIDE DEF ag2
<1>3. MasterIsSane(ag2, fr, ta, ow)
  BY <1>1, <1>2 DEF MasterIsSane
<1> QED BY <1>3 DEF ag2

\* A framework that leaves has no live task, and a Marathon that comes finds no
\* other one.
LEMMA FrameworkChanges ==
    ASSUME NEW ag, NEW fr, NEW ta, NEW ow, MasterIsSane(ag, fr, ta, ow),
           NEW f \in Frameworks, NEW s \in FrameworkStatus,
           s \in {"active", "inactive"} \/ ~ \E t \in Tasks : LiveIn(ta, t) /\ ow[t] = f,
           s \in {"active", "inactive"} /\ f \in Marathons
             => \A g \in Marathons : PresentIn(fr, g) => g = f
    PROVE  MasterIsSane(ag, [fr EXCEPT ![f] = s], ta, ow)
<1> DEFINE fr2 == [fr EXCEPT ![f] = s]
<1>1. fr2 \in [Frameworks -> FrameworkStatus]
  BY DEF MasterIsSane
<1>2. fr2[f] = s /\ \A g \in Frameworks : g # f => fr2[g] = fr[g]
  BY DEF MasterIsSane
<1> HIDE DEF fr2
<1>3. IsFiniteSet(Known(Frameworks, fr2, "unknown"))
  <2>1. IsFiniteSet(Known(Frameworks, fr, "unknown"))
    BY DEF MasterIsSane
  <2>2. \A g \in Frameworks : g # f => fr2[g] = fr[g]
    BY <1>2
  <2> QED BY <2>1, <2>2, OneMoreKnown
<1>4. \A t \in Tasks : LiveIn(ta, t) => ow[t] \in Frameworks /\ PresentIn(fr2, ow[t])
  BY <1>2 DEF MasterIsSane, PresentIn
<1>5. \A g, h \in Marathons : PresentIn(fr2, g) /\ PresentIn(fr2, h) => g = h
  BY <1>2, ReplicaAssumption DEF MasterIsSane, PresentIn
<1>6. MasterIsSane(ag, fr2, ta, ow)
  BY <1>1, <1>3, <1>4, <1>5 DEF MasterIsSane
<1> QED BY <1>6 DEF fr2

\* A task starts with a framework that is present.
LEMMA TaskStarts ==
    ASSUME NEW ag, NEW fr, NEW ta, NEW ow, MasterIsSane(ag, fr, ta, ow),
           NEW t \in Tasks, NEW f \in Frameworks, PresentIn(fr, f)
    PROVE  MasterIsSane(ag, fr, [ta EXCEPT ![t] = "TASK_STAGING"], [ow EXCEPT ![t] = f])
<1> DEFINE ta2 == [ta EXCEPT ![t] = "TASK_STAGING"]
           ow2 == [ow EXCEPT ![t] = f]
<1>1. ta2 \in [Tasks -> TaskStatus] /\ ow2 \in [Tasks -> Frameworks \cup {Nobody}]
  BY DEF MasterIsSane, TaskStatus
<1>2. ow2[t] = f /\ \A u \in Tasks : u # t => ta2[u] = ta[u] /\ ow2[u] = ow[u]
  BY DEF MasterIsSane
<1> HIDE DEF ta2, ow2
<1>3. IsFiniteSet(Known(Tasks, ta2, "unborn"))
  <2>1. IsFiniteSet(Known(Tasks, ta, "unborn"))
    BY DEF MasterIsSane
  <2>2. \A u \in Tasks : u # t => ta2[u] = ta[u]
    BY <1>2
  <2> QED BY <2>1, <2>2, OneMoreKnown
<1>4. \A u \in Tasks : LiveIn(ta2, u) => ow2[u] \in Frameworks /\ PresentIn(fr, ow2[u])
  BY <1>2 DEF MasterIsSane, LiveIn
<1>5. MasterIsSane(ag, fr, ta2, ow2)
  BY <1>1, <1>3, <1>4 DEF MasterIsSane
<1> QED BY <1>5 DEF ta2, ow2

\* A live task stays so or ends.
LEMMA TaskChanges ==
    ASSUME NEW ag, NEW fr, NEW ta, NEW ow, MasterIsSane(ag, fr, ta, ow),
           NEW t \in Tasks, LiveIn(ta, t), NEW s \in {"TASK_RUNNING", "TASK_FINISHED"}
    PROVE  MasterIsSane(ag, fr, [ta EXCEPT ![t] = s], ow)
<1> DEFINE ta2 == [ta EXCEPT ![t] = s]
<1>1. ta2 \in [Tasks -> TaskStatus]
  BY DEF MasterIsSane, TaskStatus
<1>2. \A u \in Tasks : u # t => ta2[u] = ta[u]
  BY DEF MasterIsSane
<1> HIDE DEF ta2
<1>3. IsFiniteSet(Known(Tasks, ta2, "unborn"))
  <2>1. IsFiniteSet(Known(Tasks, ta, "unborn"))
    BY DEF MasterIsSane
  <2>2. \A u \in Tasks : u # t => ta2[u] = ta[u]
    BY <1>2
  <2> QED BY <2>1, <2>2, OneMoreKnown
<1>4. \A u \in Tasks : LiveIn(ta2, u) => LiveIn(ta, u)
  BY <1>2 DEF LiveIn
<1>5. MasterIsSane(ag, fr, ta2, ow)
  BY <1>1, <1>3, <1>4 DEF MasterIsSane
<1> QED BY <1>5 DEF ta2

----------------------------------------------------------------------------
(* A message that arrives makes the copy mirror the cluster again.          *)

\* A copy with another array.
LEMMA CopyWith ==
    ASSUME NEW r \in Copies
    PROVE  /\ \A q \in Seq(AgentRow) :
                LET c == [r EXCEPT !.slaves = q]
                IN  /\ c \in Copies
                    /\ c.slaves = q /\ c.frameworks = r.frameworks /\ c.tasks = r.tasks
           /\ \A q \in Seq(FrameworkRow) :
                LET c == [r EXCEPT !.frameworks = q]
                IN  /\ c \in Copies
                    /\ c.slaves = r.slaves /\ c.frameworks = q /\ c.tasks = r.tasks
           /\ \A q \in Seq(TaskRow) :
                LET c == [r EXCEPT !.tasks = q]
                IN  /\ c \in Copies
                    /\ c.slaves = r.slaves /\ c.frameworks = r.frameworks /\ c.tasks = q
  BY DEF Copies

\* The arrays of a copy, and what is known of the master.
LEMMA CopyParts ==
    ASSUME NEW r, NEW ag, NEW fr, NEW ta, NEW ow,
           MasterIsSane(ag, fr, ta, ow), Mirrors(r, ag, fr, ta, ow)
    PROVE  /\ r \in Copies
           /\ r.slaves \in Seq(AgentRow) /\ AgentsShown(r.slaves, ag)
           /\ r.frameworks \in Seq(FrameworkRow) /\ FrameworksShown(r.frameworks, fr)
           /\ r.tasks \in Seq(TaskRow) /\ TasksShown(r.tasks, ta, ow)
           /\ Flagged(r.frameworks, r.tasks, fr, ta)
           /\ ag \in [Agents -> AgentStatus] /\ fr \in [Frameworks -> FrameworkStatus]
           /\ ta \in [Tasks -> TaskStatus] /\ ow \in [Tasks -> Frameworks \cup {Nobody}]
           /\ \A t \in Tasks : LiveIn(ta, t) => ow[t] \in Frameworks /\ PresentIn(fr, ow[t])
           /\ \A f, g \in Marathons : PresentIn(fr, f) /\ PresentIn(fr, g) => f = g
<1>1. /\ ag \in [Agents -> AgentStatus] /\ fr \in [Frameworks -> FrameworkStatus]
      /\ ta \in [Tasks -> TaskStatus] /\ ow \in [Tasks -> Frameworks \cup {Nobody}]
      /\ \A t \in Tasks : LiveIn(ta, t) => ow[t] \in Frameworks /\ PresentIn(fr, ow[t])
      /\ \A f, g \in Marathons : PresentIn(fr, f) /\ PresentIn(fr, g) => f = g
  BY Zenon DEF MasterIsSane
<1>2. /\ r \in Copies /\ AgentsShown(r.slaves, ag) /\ FrameworksShown(r.frameworks, fr)
      /\ TasksShown(r.tasks, ta, ow) /\ Flagged(r.frameworks, r.tasks, fr, ta)
  BY Zenon DEF Mirrors
<1>3. /\ r.slaves \in Seq(AgentRow) /\ r.frameworks \in Seq(FrameworkRow)
      /\ r.tasks \in Seq(TaskRow)
  BY <1>2 DEF Copies
<1> QED BY <1>1, <1>2, <1>3, Zenon

\* For each message: the copy it is folded into mirrors the cluster after it.
LEMMA AgentAddedMirrored ==
    ASSUME NEW r, NEW ag, NEW fr, NEW ta, NEW ow,
           MasterIsSane(ag, fr, ta, ow), Mirrors(r, ag, fr, ta, ow), NEW a \in Agents
    PROVE  Mirrors(parsers(r, [type |-> "AGENT_ADDED", agent |-> AgentMessage(a)]),
                   [ag EXCEPT ![a] = "registered"], fr, ta, ow)
<1> DEFINE m == [type |-> "AGENT_ADDED", agent |-> AgentMessage(a)]
           q == Append(r.slaves, processAgent(AgentMessage(a)))
           c == [r EXCEPT !.slaves = q]
           ag2 == [ag EXCEPT ![a] = "registered"]
<1>1. /\ r \in Copies
      /\ r.slaves \in Seq(AgentRow) /\ AgentsShown(r.slaves, ag)
      /\ FrameworksShown(r.frameworks, fr) /\ TasksShown(r.tasks, ta, ow)
      /\ Flagged(r.frameworks, r.tasks, fr, ta)
      /\ ag \in [Agents -> AgentStatus]
  BY CopyParts
<1>2. parsers(r, m) = c
  BY <1>1, AgentAdded
<1>3. q \in Seq(AgentRow) /\ AgentsShown(q, ag2)
  BY <1>1, AgentAddedShown
<1> HIDE DEF q, m, ag2
<1>4. c \in Copies /\ c.slaves = q /\ c.frameworks = r.frameworks /\ c.tasks = r.tasks
  BY <1>1, <1>3, CopyWith
<1> HIDE DEF c
<1>5. Mirrors(c, ag2, fr, ta, ow)
  BY <1>1, <1>3, <1>4, Zenon DEF Mirrors
<1> QED BY <1>2, <1>5, Zenon DEF m, ag2

LEMMA AgentRemovedMirrored ==
    ASSUME NEW r, NEW ag, NEW fr, NEW ta, NEW ow,
           MasterIsSane(ag, fr, ta, ow), Mirrors(r, ag, fr, ta, ow), NEW a \in Agents
    PROVE  Mirrors(parsers(r, [type |-> "AGENT_REMOVED", agent_id |-> a]),
                   [ag EXCEPT ![a] = "absent"], fr, ta, ow)
<1> DEFINE m == [type |-> "AGENT_REMOVED", agent_id |-> a]
           q == WithoutId(r.slaves, a)
           c == [r EXCEPT !.slaves = q]
           ag2 == [ag EXCEPT ![a] = "absent"]
<1>1. /\ r \in Copies
      /\ r.slaves \in Seq(AgentRow) /\ AgentsShown(r.slaves, ag)
      /\ FrameworksShown(r.frameworks, fr) /\ TasksShown(r.tasks, ta, ow)
      /\ Flagged(r.frameworks, r.tasks, fr, ta)
      /\ ag \in [Agents -> AgentStatus]
  BY CopyParts
<1>2. parsers(r, m) = c
  BY <1>1, AgentRemoved
<1>3. q \in Seq(AgentRow) /\ AgentsShown(q, ag2)
  BY <1>1, AgentRemovedShown
<1> HIDE DEF q, m, ag2
<1>4. c \in Copies /\ c.slaves = q /\ c.frameworks = r.frameworks /\ c.tasks = r.tasks
  BY <1>1, <1>3, CopyWith
<1> HIDE DEF c
<1>5. Mirrors(c, ag2, fr, ta, ow)
  BY <1>1, <1>3, <1>4, Zenon DEF Mirrors
<1> QED BY <1>2, <1>5, Zenon DEF m, ag2

\* Another array of frameworks, as good as the old one for the flags.
LEMMA FrameworksReplaced ==
    ASSUME NEW r, NEW ag, NEW fr, NEW ta, NEW ow,
           MasterIsSane(ag, fr, ta, ow), Mirrors(r, ag, fr, ta, ow),
           NEW q \in Seq(FrameworkRow), NEW fr2, FrameworksShown(q, fr2),
           Outdated(r.frameworks, fr) => Outdated(q, fr2)
    PROVE  Mirrors([r EXCEPT !.frameworks = q], ag, fr2, ta, ow)
<1> DEFINE c == [r EXCEPT !.frameworks = q]
<1>1. /\ r \in Copies /\ AgentsShown(r.slaves, ag)
      /\ TasksShown(r.tasks, ta, ow) /\ Flagged(r.frameworks, r.tasks, fr, ta)
  BY CopyParts
<1>2. c \in Copies /\ c.slaves = r.slaves /\ c.frameworks = q /\ c.tasks = r.tasks
  BY <1>1, CopyWith
<1>3. Flagged(q, r.tasks, fr2, ta)
  BY <1>1, FlagsKept
<1> HIDE DEF c
<1>4. Mirrors(c, ag, fr2, ta, ow)
  BY <1>1, <1>2, <1>3, Zenon DEF Mirrors
<1> QED BY <1>4 DEF c

LEMMA FrameworkAddedMirrored ==
    ASSUME NEW r, NEW ag, NEW fr, NEW ta, NEW ow,
           MasterIsSane(ag, fr, ta, ow), Mirrors(r, ag, fr, ta, ow),
           NEW f \in Frameworks, fr[f] = "unknown"
    PROVE  Mirrors(parsers(r, [type |-> "FRAMEWORK_ADDED",
                               framework |-> FrameworkMessage(f, "active")]),
                   ag, [fr EXCEPT ![f] = "active"], ta, ow)
<1> DEFINE m == [type |-> "FRAMEWORK_ADDED", framework |-> FrameworkMessage(f, "active")]
           q == Append(r.frameworks, processFramework(FrameworkMessage(f, "active")))
           fr2 == [fr EXCEPT ![f] = "active"]
<1>1. /\ r \in Copies
      /\ r.frameworks \in Seq(FrameworkRow) /\ FrameworksShown(r.frameworks, fr)
      /\ fr \in [Frameworks -> FrameworkStatus]
  BY CopyParts
<1>2. parsers(r, m) = [r EXCEPT !.frameworks = q]
  BY <1>1, FrameworkAdded
<1>3. /\ q \in Seq(FrameworkRow) /\ FrameworksShown(q, fr2)
      /\ Outdated(r.frameworks, fr) => Outdated(q, fr2)
  BY <1>1, FrameworkAddedShown
<1> HIDE DEF q, m, fr2
<1>4. Mirrors([r EXCEPT !.frameworks = q], ag, fr2, ta, ow)
  BY <1>3, FrameworksReplaced
<1> QED BY <1>2, <1>4 DEF m, fr2

LEMMA FrameworkUpdatedMirrored ==
    ASSUME NEW r, NEW ag, NEW fr, NEW ta, NEW ow,
           MasterIsSane(ag, fr, ta, ow), Mirrors(r, ag, fr, ta, ow),
           NEW f \in Frameworks, PresentIn(fr, f), NEW s \in {"active", "inactive"}
    PROVE  Mirrors(parsers(r, [type |-> "FRAMEWORK_UPDATED",
                               framework |-> FrameworkMessage(f, s)]),
                   ag, [fr EXCEPT ![f] = s], ta, ow)
<1> DEFINE m == [type |-> "FRAMEWORK_UPDATED", framework |-> FrameworkMessage(f, s)]
           row == processFramework(FrameworkMessage(f, s))
           q == [i \in DOMAIN r.frameworks |->
                   IF r.frameworks[i].id = f THEN row ELSE r.frameworks[i]]
           fr2 == [fr EXCEPT ![f] = s]
<1>1. /\ r \in Copies
      /\ r.frameworks \in Seq(FrameworkRow) /\ FrameworksShown(r.frameworks, fr)
      /\ fr \in [Frameworks -> FrameworkStatus]
  BY CopyParts
<1>2. parsers(r, m) = [r EXCEPT !.frameworks = q]
  BY <1>1, FrameworkUpdated
<1>3. /\ q \in Seq(FrameworkRow) /\ FrameworksShown(q, fr2)
      /\ Outdated(r.frameworks, fr) => Outdated(q, fr2)
  BY <1>1, FrameworkUpdatedShown
<1> HIDE DEF q, m, fr2
<1>4. Mirrors([r EXCEPT !.frameworks = q], ag, fr2, ta, ow)
  BY <1>3, FrameworksReplaced
<1> QED BY <1>2, <1>4 DEF m, fr2

LEMMA FrameworkRemovedMirrored ==
    ASSUME NEW r, NEW ag, NEW fr, NEW ta, NEW ow,
           MasterIsSane(ag, fr, ta, ow), Mirrors(r, ag, fr, ta, ow),
           NEW f \in Frameworks, PresentIn(fr, f)
    PROVE  Mirrors(parsers(r, [type |-> "FRAMEWORK_REMOVED",
                               framework_info |-> FrameworkInfo(f)]),
                   ag, [fr EXCEPT ![f] = "completed"], ta, ow)
<1> DEFINE m == [type |-> "FRAMEWORK_REMOVED", framework_info |-> FrameworkInfo(f)]
           q == WithoutId(r.frameworks, f)
           fr2 == [fr EXCEPT ![f] = "completed"]
<1>1. /\ r \in Copies
      /\ r.frameworks \in Seq(FrameworkRow) /\ FrameworksShown(r.frameworks, fr)
      /\ fr \in [Frameworks -> FrameworkStatus]
  BY CopyParts
<1>2. parsers(r, m) = [r EXCEPT !.frameworks = q]
  BY <1>1, FrameworkRemoved
<1>3. /\ q \in Seq(FrameworkRow) /\ FrameworksShown(q, fr2)
      /\ Outdated(r.frameworks, fr) => Outdated(q, fr2)
  BY <1>1, FrameworkRemovedShown
<1> HIDE DEF q, m, fr2
<1>4. Mirrors([r EXCEPT !.frameworks = q], ag, fr2, ta, ow)
  BY <1>3, FrameworksReplaced
<1> QED BY <1>2, <1>4 DEF m, fr2

LEMMA TaskAddedMirrored ==
    ASSUME NEW r, NEW ag, NEW fr, NEW ta, NEW ow,
           MasterIsSane(ag, fr, ta, ow), Mirrors(r, ag, fr, ta, ow),
           NEW t \in Tasks, ta[t] = "unborn", NEW f \in Frameworks, PresentIn(fr, f)
    PROVE  Mirrors(parsers(r, [type |-> "TASK_ADDED",
                               task |-> TaskMessage(t, f, "TASK_STAGING")]),
                   ag, fr, [ta EXCEPT ![t] = "TASK_STAGING"], [ow EXCEPT ![t] = f])
<1> DEFINE m == [type |-> "TASK_ADDED", task |-> TaskMessage(t, f, "TASK_STAGING")]
           q == Append(r.tasks, processTask(r.frameworks, TaskMessage(t, f, "TASK_STAGING")))
           c == [r EXCEPT !.tasks = q]
           ta2 == [ta EXCEPT ![t] = "TASK_STAGING"]
           ow2 == [ow EXCEPT ![t] = f]
<1>1. /\ r \in Copies /\ AgentsShown(r.slaves, ag)
      /\ r.frameworks \in Seq(FrameworkRow) /\ FrameworksShown(r.frameworks, fr)
      /\ r.tasks \in Seq(TaskRow) /\ TasksShown(r.tasks, ta, ow)
      /\ Flagged(r.frameworks, r.tasks, fr, ta)
      /\ fr \in [Frameworks -> FrameworkStatus]
      /\ ta \in [Tasks -> TaskStatus] /\ ow \in [Tasks -> Frameworks \cup {Nobody}]
      /\ \A g, h \in Marathons : PresentIn(fr, g) /\ PresentIn(fr, h) => g = h
  BY CopyParts
<1>2. parsers(r, m) = c
  BY <1>1, TaskAdded
<1>3. /\ q \in Seq(TaskRow) /\ TasksShown(q, ta2, ow2)
      /\ Flagged(r.frameworks, q, fr, ta2)
  BY <1>1, TaskAddedShown
<1> HIDE DEF q, m, ta2, ow2
<1>4. c \in Copies /\ c.slaves = r.slaves /\ c.frameworks = r.frameworks /\ c.tasks = q
  BY <1>1, <1>3, CopyWith
<1> HIDE DEF c
<1>5. Mirrors(c, ag, fr, ta2, ow2)
  BY <1>1, <1>3, <1>4, Zenon DEF Mirrors
<1> QED BY <1>2, <1>5, Zenon DEF m, ta2, ow2

LEMMA TaskUpdatedMirrored ==
    ASSUME NEW r, NEW ag, NEW fr, NEW ta, NEW ow,
           MasterIsSane(ag, fr, ta, ow), Mirrors(r, ag, fr, ta, ow),
           NEW t \in Tasks, LiveIn(ta, t), NEW s \in {"TASK_RUNNING", "TASK_FINISHED"}
    PROVE  Mirrors(parsers(r, [type |-> "TASK_UPDATED", task_id |-> t, state |-> s]),
                   ag, fr, [ta EXCEPT ![t] = s], ow)
<1> DEFINE m == [type |-> "TASK_UPDATED", task_id |-> t, state |-> s]
           q == StateUpdated(r.tasks, t, s)
           c == [r EXCEPT !.tasks = q]
           ta2 == [ta EXCEPT ![t] = s]
<1>1. /\ r \in Copies /\ AgentsShown(r.slaves, ag)
      /\ r.frameworks \in Seq(FrameworkRow) /\ FrameworksShown(r.frameworks, fr)
      /\ r.tasks \in Seq(TaskRow) /\ TasksShown(r.tasks, ta, ow)
      /\ Flagged(r.frameworks, r.tasks, fr, ta)
      /\ fr \in [Frameworks -> FrameworkStatus]
      /\ ta \in [Tasks -> TaskStatus] /\ ow \in [Tasks -> Frameworks \cup {Nobody}]
  BY CopyParts
<1>2. parsers(r, m) = c
  BY <1>1, TaskUpdated
<1>3. /\ q \in Seq(TaskRow) /\ TasksShown(q, ta2, ow)
      /\ Flagged(r.frameworks, q, fr, ta2)
  BY <1>1, TaskUpdatedShown
<1> HIDE DEF q, m, ta2
<1>4. c \in Copies /\ c.slaves = r.slaves /\ c.frameworks = r.frameworks /\ c.tasks = q
  BY <1>1, <1>3, CopyWith
<1> HIDE DEF c
<1>5. Mirrors(c, ag, fr, ta2, ow)
  BY <1>1, <1>3, <1>4, Zenon DEF Mirrors
<1> QED BY <1>2, <1>5, Zenon DEF m, ta2

\* Whatever was known, a snapshot makes a copy of the cluster.
LEMMA SnapshotMirrored ==
    ASSUME NEW r, NEW ag, NEW fr, NEW ta, NEW ow, MasterIsSane(ag, fr, ta, ow),
           NEW H, H \subseteq {t \in Tasks : ta[t] = "TASK_FINISHED"}
    PROVE  LET A == {a \in Agents : ag[a] = "registered"}
               R == {a \in Agents : ag[a] = "recovered"}
               P == {f \in Frameworks : PresentIn(fr, f)}
               C == {f \in Frameworks : fr[f] = "completed"}
               L == {t \in Tasks : LiveIn(ta, t)}
               fs == FrameworksRead(fr, P, C)
           IN  Mirrors([slaves |-> AgentsRead(A, R), frameworks |-> fs,
                        tasks |-> TasksRead(fs, ta, ow, L, H)], ag, fr, ta, ow)
<1> DEFINE A == {a \in Agents : ag[a] = "registered"}
           R == {a \in Agents : ag[a] = "recovered"}
           P == {f \in Frameworks : PresentIn(fr, f)}
           C == {f \in Frameworks : fr[f] = "completed"}
           L == {t \in Tasks : LiveIn(ta, t)}
           ags == AgentsRead(A, R)
           fs == FrameworksRead(fr, P, C)
           ts == TasksRead(fs, ta, ow, L, H)
           c == [slaves |-> ags, frameworks |-> fs, tasks |-> ts]
<1>1. /\ ag \in [Agents -> AgentStatus] /\ fr \in [Frameworks -> FrameworkStatus]
      /\ ta \in [Tasks -> TaskStatus] /\ ow \in [Tasks -> Frameworks \cup {Nobody}]
      /\ \A t \in Tasks : LiveIn(ta, t) => ow[t] \in Frameworks /\ PresentIn(fr, ow[t])
      /\ \A f, g \in Marathons : PresentIn(fr, f) /\ PresentIn(fr, g) => f = g
  BY Zenon DEF MasterIsSane
<1>2. /\ IsFiniteSet({a \in Agents : ag[a] # "absent"})
      /\ IsFiniteSet({f \in Frameworks : fr[f] # "unknown"})
      /\ IsFiniteSet({t \in Tasks : ta[t] # "unborn"})
  BY Zenon DEF MasterIsSane, Known
<1>3. ags \in Seq(AgentRow) /\ AgentsShown(ags, ag)
  BY <1>1, <1>2, AgentsReadShown
<1>4. fs \in Seq(FrameworkRow) /\ FrameworksShown(fs, fr)
  BY <1>1, <1>2, FrameworksReadShown
<1> HIDE DEF ags, fs
<1>5. ts \in Seq(TaskRow) /\ TasksShown(ts, ta, ow) /\ Flagged(fs, ts, fr, ta)
  BY <1>1, <1>2, <1>4, TasksReadShown
<1> HIDE DEF ts
<1>6. c \in Copies /\ c.slaves = ags /\ c.frameworks = fs /\ c.tasks = ts
  BY <1>3, <1>4, <1>5 DEF Copies
<1> HIDE DEF c
<1>7. Mirrors(c, ag, fr, ta, ow)
  BY <1>3, <1>4, <1>5, <1>6, Zenon DEF Mirrors
<1> QED BY <1>7, Zenon DEF c, ags, fs, ts

\* What a subscription reads.
LEMMA SnapshotIs ==
    ASSUME NEW H
    PROVE  LET A == {a \in Agents : agents[a] = "registered"}
               R == {a \in Agents : agents[a] = "recovered"}
               P == {f \in Frameworks : PresentIn(frameworks, f)}
               C == {f \in Frameworks : frameworks[f] = "completed"}
               L == {t \in Tasks : LiveIn(tasks, t)}
               fs == FrameworksRead(frameworks, P, C)
           IN  parsers(replica, Snapshot(H))
                 = [slaves |-> AgentsRead(A, R), frameworks |-> fs,
                    tasks |-> TasksRead(fs, tasks, owner, L, H)]
<1> DEFINE A == {a \in Agents : agents[a] = "registered"}
           R == {a \in Agents : agents[a] = "recovered"}
           P == {f \in Frameworks : PresentIn(frameworks, f)}
           C == {f \in Frameworks : frameworks[f] = "completed"}
           L == {t \in Tasks : LiveIn(tasks, t)}
           m == [type |-> "SUBSCRIBED",
                 get_agents |-> Groups(AgentMessages(A), RecoveredMessages(R)),
                 get_frameworks |-> Groups(FrameworkMessages(frameworks, P),
                                           FrameworkMessages(frameworks, C)),
                 get_tasks |-> Groups(TaskMessages(tasks, owner, L), TaskMessages(tasks, owner, H))]
<1>1. /\ AgentMessages(A) = {AgentMessage(a) : a \in {b \in Agents : agents[b] = "registered"}}
      /\ RecoveredMessages(R) = {[id |-> a] : a \in {b \in Agents : agents[b] = "recovered"}}
  BY DEF AgentMessages, RecoveredMessages
<1>2. /\ FrameworkMessages(frameworks, P)
           = {FrameworkMessage(f, frameworks[f]) : f \in {g \in Frameworks : Present(g)}}
      /\ FrameworkMessages(frameworks, C)
           = {FrameworkMessage(f, frameworks[f]) :
                f \in {g \in Frameworks : frameworks[g] = "completed"}}
  BY DEF FrameworkMessages, PresentIn, Present
<1>3. /\ TaskMessages(tasks, owner, L)
           = {TaskMessage(t, owner[t], tasks[t]) : t \in {u \in Tasks : Live(u)}}
      /\ TaskMessages(tasks, owner, H) = {TaskMessage(t, owner[t], tasks[t]) : t \in H}
  BY DEF TaskMessages, LiveIn, Live
<1>4. Snapshot(H) = m
  <2> HIDE DEF A, R, P, C, L
  <2> QED BY <1>1, <1>2, <1>3 DEF Snapshot, Groups
<1> HIDE DEF m
<1>5. parsers(replica, m)
        = [slaves |-> AgentsRead(A, R), frameworks |-> FrameworksRead(frameworks, P, C),
           tasks |-> TasksRead(FrameworksRead(frameworks, P, C), tasks, owner, L, H)]
  <2> HIDE DEF A, R, P, C, L
  <2> QED BY SnapshotRead DEF m
<1> QED BY <1>4, <1>5

----------------------------------------------------------------------------
(* Every step keeps the invariant.                                         *)

LEMMA ReplicaInitially == ReplicaInit => ReplicaInv
<1> SUFFICES ASSUME ReplicaInit
             PROVE  ReplicaInv
  OBVIOUS
<1>1. /\ agents \in [Agents -> AgentStatus] /\ frameworks \in [Frameworks -> FrameworkStatus]
      /\ tasks \in [Tasks -> TaskStatus] /\ owner \in [Tasks -> Frameworks \cup {Nobody}]
  BY DEF ReplicaInit, AgentStatus, FrameworkStatus, TaskStatus
<1>2. /\ Known(Agents, agents, "absent") = {} /\ Known(Frameworks, frameworks, "unknown") = {}
      /\ Known(Tasks, tasks, "unborn") = {}
  BY DEF ReplicaInit, Known
<1>3. /\ \A t \in Tasks : ~ LiveIn(tasks, t)
      /\ \A f \in Frameworks : ~ PresentIn(frameworks, f)
  BY DEF ReplicaInit, LiveIn, PresentIn
<1>4. MasterIsSane(agents, frameworks, tasks, owner)
  <2>1. \A f, g \in Marathons : PresentIn(frameworks, f) /\ PresentIn(frameworks, g) => f = g
    BY <1>3, ReplicaAssumption
  <2> QED BY <1>1, <1>2, <1>3, <2>1, FS_EmptySet DEF MasterIsSane
<1>5. missed \in Nat /\ missed # 0
  BY ReplicaAssumption DEF ReplicaInit
<1> QED BY <1>4, <1>5 DEF ReplicaInv

\* A change is told: the message arrives and is mirrored, or it is missed.
LEMMA Told ==
    ASSUME ReplicaInv, NEW m, Tell(m),
           MasterIsSane(agents', frameworks', tasks', owner'),
           Mirrors(replica, agents, frameworks, tasks, owner)
             => Mirrors(parsers(replica, m), agents', frameworks', tasks', owner')
    PROVE  ReplicaInv'
<1>1. missed \in Nat /\ (missed = 0 => Mirrors(replica, agents, frameworks, tasks, owner))
  BY Zenon DEF ReplicaInv
<1>2. CASE replica' = parsers(replica, m) /\ missed' = missed
  <2>1. missed' \in Nat /\ (missed' = 0 => Mirrors(replica', agents', frameworks', tasks', owner'))
    BY <1>1, <1>2, Zenon
  <2>2. MasterIsSane(agents', frameworks', tasks', owner')
          /\ missed' \in Nat
          /\ (missed' = 0 => Mirrors(replica', agents', frameworks', tasks', owner'))
        => ReplicaInv'
    BY Zenon DEF ReplicaInv
  <2> QED BY <2>1, <2>2, Zenon
<1>3. CASE missed' = missed + 1
  <2>1. missed' \in Nat /\ missed' # 0
    BY <1>1, <1>3
  <2>2. MasterIsSane(agents', frameworks', tasks', owner') /\ missed' \in Nat /\ missed' # 0
        => ReplicaInv'
    BY Zenon DEF ReplicaInv
  <2> QED BY <2>1, <2>2, Zenon
<1> QED BY <1>2, <1>3 DEF Tell

\* One lemma for every action.
LEMMA AgentRegistersKept ==
    ASSUME ReplicaInv, NEW a \in Agents, AgentRegisters(a)
    PROVE  ReplicaInv'
<1> DEFINE m == [type |-> "AGENT_ADDED", agent |-> AgentMessage(a)]
<1>1. MasterIsSane(agents, frameworks, tasks, owner)
  BY Zenon DEF ReplicaInv
<1>2. /\ agents' = [agents EXCEPT ![a] = "registered"]
      /\ frameworks' = frameworks /\ tasks' = tasks /\ owner' = owner
  BY DEF AgentRegisters
<1>3. "registered" \in AgentStatus
  BY DEF AgentRegisters, AgentStatus
<1>4. MasterIsSane(agents', frameworks', tasks', owner')
  BY <1>1, <1>2, <1>3, AgentChanges
<1>5. Mirrors(replica, agents, frameworks, tasks, owner)
      => Mirrors(parsers(replica, m), agents', frameworks', tasks', owner')
  BY <1>1, <1>2, <1>3, AgentAddedMirrored
<1>6. Tell(m)
  BY DEF AgentRegisters
<1> HIDE DEF m
<1> QED BY <1>4, <1>5, <1>6, Told

LEMMA AgentIsRemovedKept ==
    ASSUME ReplicaInv, NEW a \in Agents, AgentIsRemoved(a)
    PROVE  ReplicaInv'
<1> DEFINE m == [type |-> "AGENT_REMOVED", agent_id |-> a]
<1>1. MasterIsSane(agents, frameworks, tasks, owner)
  BY Zenon DEF ReplicaInv
<1>2. /\ agents' = [agents EXCEPT ![a] = "absent"]
      /\ frameworks' = frameworks /\ tasks' = tasks /\ owner' = owner
  BY DEF AgentIsRemoved
<1>3. "absent" \in AgentStatus
  BY DEF AgentIsRemoved, AgentStatus
<1>4. MasterIsSane(agents', frameworks', tasks', owner')
  BY <1>1, <1>2, <1>3, AgentChanges
<1>5. Mirrors(replica, agents, frameworks, tasks, owner)
      => Mirrors(parsers(replica, m), agents', frameworks', tasks', owner')
  BY <1>1, <1>2, <1>3, AgentRemovedMirrored
<1>6. Tell(m)
  BY DEF AgentIsRemoved
<1> HIDE DEF m
<1> QED BY <1>4, <1>5, <1>6, Told

LEMMA FrameworkRegistersKept ==
    ASSUME ReplicaInv, NEW f \in Frameworks, FrameworkRegisters(f)
    PROVE  ReplicaInv'
<1> DEFINE m == [type |-> "FRAMEWORK_ADDED", framework |-> FrameworkMessage(f, "active")]
<1>1. MasterIsSane(agents, frameworks, tasks, owner)
  BY Zenon DEF ReplicaInv
<1>2. /\ frameworks' = [frameworks EXCEPT ![f] = "active"]
      /\ agents' = agents /\ tasks' = tasks /\ owner' = owner
  BY DEF FrameworkRegisters
<1>3. /\ frameworks[f] = "unknown" /\ "active" \in FrameworkStatus
      /\ f \in Marathons => \A g \in Marathons : PresentIn(frameworks, g) => g = f
  BY DEF FrameworkRegisters, FrameworkStatus, Present, PresentIn
<1>4. MasterIsSane(agents', frameworks', tasks', owner')
  BY <1>1, <1>2, <1>3, FrameworkChanges
<1>5. Mirrors(replica, agents, frameworks, tasks, owner)
      => Mirrors(parsers(replica, m), agents', frameworks', tasks', owner')
  BY <1>1, <1>2, <1>3, FrameworkAddedMirrored
<1>6. Tell(m)
  BY DEF FrameworkRegisters
<1> HIDE DEF m
<1> QED BY <1>4, <1>5, <1>6, Told

LEMMA FrameworkIsUpdatedKept ==
    ASSUME ReplicaInv, NEW f \in Frameworks, NEW s \in FrameworkStatus, FrameworkIsUpdated(f, s)
    PROVE  ReplicaInv'
<1> DEFINE m == [type |-> "FRAMEWORK_UPDATED", framework |-> FrameworkMessage(f, s)]
<1>1. MasterIsSane(agents, frameworks, tasks, owner)
  BY Zenon DEF ReplicaInv
<1>2. /\ frameworks' = [frameworks EXCEPT ![f] = s]
      /\ agents' = agents /\ tasks' = tasks /\ owner' = owner
  BY DEF FrameworkIsUpdated
<1>3. /\ PresentIn(frameworks, f) /\ s \in {"active", "inactive"}
      /\ f \in Marathons => \A g \in Marathons : PresentIn(frameworks, g) => g = f
  BY <1>1 DEF FrameworkIsUpdated, MasterIsSane, Present, PresentIn
<1>4. MasterIsSane(agents', frameworks', tasks', owner')
  BY <1>1, <1>2, <1>3, FrameworkChanges
<1>5. Mirrors(replica, agents, frameworks, tasks, owner)
      => Mirrors(parsers(replica, m), agents', frameworks', tasks', owner')
  BY <1>1, <1>2, <1>3, FrameworkUpdatedMirrored
<1>6. Tell(m)
  BY DEF FrameworkIsUpdated
<1> HIDE DEF m
<1> QED BY <1>4, <1>5, <1>6, Told

LEMMA FrameworkIsRemovedKept ==
    ASSUME ReplicaInv, NEW f \in Frameworks, FrameworkIsRemoved(f)
    PROVE  ReplicaInv'
<1> DEFINE m == [type |-> "FRAMEWORK_REMOVED", framework_info |-> FrameworkInfo(f)]
<1>1. MasterIsSane(agents, frameworks, tasks, owner)
  BY Zenon DEF ReplicaInv
<1>2. /\ frameworks' = [frameworks EXCEPT ![f] = "completed"]
      /\ agents' = agents /\ tasks' = tasks /\ owner' = owner
  BY DEF FrameworkIsRemoved
<1>3. /\ PresentIn(frameworks, f) /\ "completed" \in FrameworkStatus
      /\ ~ \E t \in Tasks : LiveIn(tasks, t) /\ owner[t] = f
  BY DEF FrameworkIsRemoved, FrameworkStatus, Present, PresentIn, Live, LiveIn
<1>4. MasterIsSane(agents', frameworks', tasks', owner')
  BY <1>1, <1>2, <1>3, FrameworkChanges
<1>5. Mirrors(replica, agents, frameworks, tasks, owner)
      => Mirrors(parsers(replica, m), agents', frameworks', tasks', owner')
  BY <1>1, <1>2, <1>3, FrameworkRemovedMirrored
<1>6. Tell(m)
  BY DEF FrameworkIsRemoved
<1> HIDE DEF m
<1> QED BY <1>4, <1>5, <1>6, Told

LEMMA TaskIsAddedKept ==
    ASSUME ReplicaInv, NEW t \in Tasks, NEW f \in Frameworks, TaskIsAdded(t, f)
    PROVE  ReplicaInv'
<1> DEFINE m == [type |-> "TASK_ADDED", task |-> TaskMessage(t, f, "TASK_STAGING")]
<1>1. MasterIsSane(agents, frameworks, tasks, owner)
  BY Zenon DEF ReplicaInv
<1>2. /\ tasks' = [tasks EXCEPT ![t] = "TASK_STAGING"] /\ owner' = [owner EXCEPT ![t] = f]
      /\ agents' = agents /\ frameworks' = frameworks
  BY DEF TaskIsAdded
<1>3. tasks[t] = "unborn" /\ PresentIn(frameworks, f)
  BY DEF TaskIsAdded, PresentIn
<1>4. MasterIsSane(agents', frameworks', tasks', owner')
  BY <1>1, <1>2, <1>3, TaskStarts
<1>5. Mirrors(replica, agents, frameworks, tasks, owner)
      => Mirrors(parsers(replica, m), agents', frameworks', tasks', owner')
  BY <1>1, <1>2, <1>3, TaskAddedMirrored
<1>6. Tell(m)
  BY DEF TaskIsAdded
<1> HIDE DEF m
<1> QED BY <1>4, <1>5, <1>6, Told

LEMMA TaskIsUpdatedKept ==
    ASSUME ReplicaInv, NEW t \in Tasks, NEW s \in TaskStatus, TaskIsUpdated(t, s)
    PROVE  ReplicaInv'
<1> DEFINE m == [type |-> "TASK_UPDATED", task_id |-> t, state |-> s]
<1>1. MasterIsSane(agents, frameworks, tasks, owner)
  BY Zenon DEF ReplicaInv
<1>2. /\ tasks' = [tasks EXCEPT ![t] = s]
      /\ agents' = agents /\ frameworks' = frameworks /\ owner' = owner
  BY DEF TaskIsUpdated
<1>3. LiveIn(tasks, t) /\ s \in {"TASK_RUNNING", "TASK_FINISHED"}
  BY DEF TaskIsUpdated, Live, LiveIn
<1>4. MasterIsSane(agents', frameworks', tasks', owner')
  BY <1>1, <1>2, <1>3, TaskChanges
<1>5. Mirrors(replica, agents, frameworks, tasks, owner)
      => Mirrors(parsers(replica, m), agents', frameworks', tasks', owner')
  BY <1>1, <1>2, <1>3, TaskUpdatedMirrored
<1>6. Tell(m)
  BY DEF TaskIsUpdated
<1> HIDE DEF m
<1> QED BY <1>4, <1>5, <1>6, Told

\* The connection is gone: until the next SUBSCRIBED nothing is promised.
LEMMA MasterFailsOverKept == ReplicaInv /\ MasterFailsOver => ReplicaInv'
<1> SUFFICES ASSUME ReplicaInv, MasterFailsOver
             PROVE  ReplicaInv'
  OBVIOUS
<1>1. MasterIsSane(agents, frameworks, tasks, owner)
  BY Zenon DEF ReplicaInv
<1>2. /\ agents' = [a \in Agents |-> IF agents[a] = "absent" THEN "absent" ELSE "recovered"]
      /\ frameworks' = frameworks /\ tasks' = tasks /\ owner' = owner
      /\ missed' = MaxMissed
  BY DEF MasterFailsOver
<1>3. MasterIsSane(agents', frameworks', tasks', owner')
  BY <1>1, <1>2, AgentsRecover
<1>4. missed' \in Nat /\ missed' # 0
  BY <1>2, ReplicaAssumption
<1>5. MasterIsSane(agents', frameworks', tasks', owner') /\ missed' \in Nat /\ missed' # 0
      => ReplicaInv'
  BY Zenon DEF ReplicaInv
<1> QED BY <1>3, <1>4, <1>5, Zenon

\* A snapshot makes the copy one of the cluster, whatever was missed before.
LEMMA SubscribeKept == ReplicaInv /\ Subscribe => ReplicaInv'
<1> SUFFICES ASSUME ReplicaInv, Subscribe
             PROVE  ReplicaInv'
  OBVIOUS
<1>1. MasterIsSane(agents, frameworks, tasks, owner)
  BY Zenon DEF ReplicaInv
<1>2. PICK H \in SUBSET {t \in Tasks : tasks[t] = "TASK_FINISHED"} :
        replica' = parsers(replica, Snapshot(H))
  BY DEF Subscribe
<1>3. /\ agents' = agents /\ frameworks' = frameworks /\ tasks' = tasks /\ owner' = owner
      /\ missed' = 0
  BY DEF Subscribe, cluster
<1>4. Mirrors(parsers(replica, Snapshot(H)), agents, frameworks, tasks, owner)
  <2> DEFINE A == {a \in Agents : agents[a] = "registered"}
             R == {a \in Agents : agents[a] = "recovered"}
             P == {f \in Frameworks : PresentIn(frameworks, f)}
             C == {f \in Frameworks : frameworks[f] = "completed"}
             L == {t \in Tasks : LiveIn(tasks, t)}
             c == [slaves |-> AgentsRead(A, R), frameworks |-> FrameworksRead(frameworks, P, C),
                   tasks |-> TasksRead(FrameworksRead(frameworks, P, C), tasks, owner, L, H)]
  <2>1. parsers(replica, Snapshot(H)) = c
    BY SnapshotIs, Zenon
  <2>2. Mirrors(c, agents, frameworks, tasks, owner)
    BY <1>1, SnapshotMirrored, Zenon
  <2> HIDE DEF c
  <2> QED BY <2>1, <2>2, Zenon
<1>5. MasterIsSane(agents', frameworks', tasks', owner')
      /\ Mirrors(replica', agents', frameworks', tasks', owner') /\ missed' \in Nat
  BY <1>1, <1>2, <1>3, <1>4
<1>6. MasterIsSane(agents', frameworks', tasks', owner')
        /\ Mirrors(replica', agents', frameworks', tasks', owner') /\ missed' \in Nat
      => ReplicaInv'
  BY Zenon DEF ReplicaInv
<1> QED BY <1>5, <1>6, Zenon

LEMMA ReplicaUnchanged == ReplicaInv /\ UNCHANGED replicaVars => ReplicaInv'
  BY DEF ReplicaInv, replicaVars, cluster

\* The invariant of the browser's copy, for any number of agents, frameworks
\* and tasks.
THEOREM ReplicaInvariance == ReplicaSpec => []ReplicaInv
<1>1. ASSUME ReplicaInv, ReplicaNext
      PROVE  ReplicaInv'
  BY <1>1, AgentRegistersKept, AgentIsRemovedKept, FrameworkRegistersKept, FrameworkIsUpdatedKept,
     FrameworkIsRemovedKept, TaskIsAddedKept, TaskIsUpdatedKept, MasterFailsOverKept,
     SubscribeKept DEF ReplicaNext
<1>2. ReplicaInv /\ [ReplicaNext]_replicaVars => ReplicaInv'
  BY <1>1, ReplicaUnchanged
<1> QED BY <1>2, ReplicaInitially, PTL DEF ReplicaSpec

\* An id that is listed singly is listed once.
LEMMA SingleIsOnce ==
    ASSUME NEW S, NEW list \in Seq(S), NEW id, Single(list, id)
    PROVE  Once(list, id)
<1>1. PICK i \in 1 .. Len(list) :
        list[i].id = id /\ \A j \in 1 .. Len(list) : list[j].id = id => j = i
  BY DEF Single
<1>2. Entries(list, id) = {i}
  BY <1>1 DEF Entries
<1> QED BY <1>2, FS_Singleton DEF Once

\* As long as no message is missed since the last SUBSCRIBED, the copy that the
\* parsers keep is the cluster of the master.
THEOREM MirrorsTheCluster == ReplicaSpec => []ClusterIsMirrored
<1>1. ReplicaInv => ClusterIsMirrored
  <2> SUFFICES ASSUME ReplicaInv, synced
               PROVE  AgentsMirrored /\ FrameworksMirrored /\ TasksMirrored
    BY DEF ClusterIsMirrored
  <2>1. /\ MasterIsSane(agents, frameworks, tasks, owner)
        /\ Mirrors(replica, agents, frameworks, tasks, owner)
    BY DEF ReplicaInv, synced
  <2>2. /\ replica.slaves \in Seq(AgentRow) /\ AgentsShown(replica.slaves, agents)
        /\ replica.frameworks \in Seq(FrameworkRow)
        /\ FrameworksShown(replica.frameworks, frameworks)
        /\ replica.tasks \in Seq(TaskRow) /\ TasksShown(replica.tasks, tasks, owner)
    BY <2>1, CopyParts
  <2>3. AgentsMirrored
    <3>1. \A i \in 1 .. Len(replica.slaves) : replica.slaves[i].id \in Agents
      BY <2>2, AgentRowsHaveIds
    <3> QED BY <2>2, <3>1 DEF AgentsMirrored, AgentsShown
  <2>4. FrameworksMirrored
    <3>1. \A f \in Frameworks : Present(f) => Once(replica.frameworks, f)
      BY <2>2, SingleIsOnce DEF FrameworksShown, Present, PresentIn
    <3>2. \A i \in DOMAIN replica.frameworks :
            replica.frameworks[i].active <=> frameworks[replica.frameworks[i].id] = "active"
      BY <2>2 DEF FrameworksShown
    <3> QED BY <3>1, <3>2, Zenon DEF FrameworksMirrored
  <2>5. TasksMirrored
    <3>1. \A t \in Tasks : Live(t) => Once(replica.tasks, t)
      BY <2>2, SingleIsOnce DEF TasksShown, Live, LiveIn
    <3>2. \A i \in DOMAIN replica.tasks :
            /\ replica.tasks[i].state = tasks[replica.tasks[i].id]
            /\ replica.tasks[i].framework_id = owner[replica.tasks[i].id]
      BY <2>2 DEF TasksShown
    <3> QED BY <3>1, <3>2, Zenon DEF TasksMirrored
  <2> QED BY <2>3, <2>4, <2>5
<1> QED BY <1>1, ReplicaInvariance, PTL

\* No other framework's task is flagged as Marathon's, and a running task of the
\* present Marathon is, unless the copy lists an older Marathon that is gone.
THEOREM FlagsMarathonsTasks == ReplicaSpec => []MarathonTasksFlagged
<1>1. ReplicaInv => MarathonTasksFlagged
  <2> DEFINE outdated == \E f \in Marathons : frameworks[f] = "completed"
                                             /\ Entries(replica.frameworks, f) # {}
  <2> SUFFICES ASSUME ReplicaInv, synced, NEW i \in DOMAIN replica.tasks,
                      Live(replica.tasks[i].id)
               PROVE  /\ replica.tasks[i].isStartedByMarathon
                           => replica.tasks[i].framework_id \in Marathons
                      /\ replica.tasks[i].framework_id \in Marathons /\ ~ outdated
                           => replica.tasks[i].isStartedByMarathon
    BY DEF MarathonTasksFlagged
  <2>1. /\ MasterIsSane(agents, frameworks, tasks, owner)
        /\ Mirrors(replica, agents, frameworks, tasks, owner)
    BY DEF ReplicaInv, synced
  <2>2. /\ replica.frameworks \in Seq(FrameworkRow) /\ replica.tasks \in Seq(TaskRow)
        /\ Flagged(replica.frameworks, replica.tasks, frameworks, tasks)
    BY <2>1, CopyParts
  <2>3. i \in 1 .. Len(replica.tasks) /\ replica.tasks[i] \in TaskRow
    BY <2>2
  <2>4. replica.tasks[i].isStartedByMarathon => replica.tasks[i].framework_id \in Marathons
    BY <2>3 DEF TaskRow
  <2>5. Outdated(replica.frameworks, frameworks) => outdated
    BY <2>2 DEF Outdated, Entries
  <2>6. LiveIn(tasks, replica.tasks[i].id)
    BY DEF Live, LiveIn
  <2> HIDE DEF outdated
  <2> QED BY <2>2, <2>3, <2>4, <2>5, <2>6 DEF Flagged
<1> QED BY <1>1, ReplicaInvariance, PTL
=============================================================================
