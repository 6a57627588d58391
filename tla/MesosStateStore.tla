--------------------------- MODULE MesosStateStore ---------------------------
(***************************************************************************)
(* The subscription of src/js/stores/MesosStateStore.ts to the master's    *)
(* event stream (module MesosStream) and to the one-off GET_MASTER request *)
(* (src/js/core/MesosMasterRequest.ts), and what a lost event does to the  *)
(* state the whole UI reads.                                               *)
(*                                                                         *)
(*   wait$    masterRequest$ . zip(mesos$ . take(1))                       *)
(*   stream   wait$ . concat(data$ . merge(interval)) . sampleTime . retry *)
(*                                                                         *)
(* Two observers of the shared stream belong to the store: "take", which   *)
(* leaves with the first event, and "data", which applies the parsers.     *)
(*                                                                         *)
(* JavaScript runs a callback to its end.  Where a callback of the code    *)
(* goes on by subscribing to the next stage of the pipeline, the model     *)
(* takes a second step; `phase` then has one of the values in Synchronous, *)
(* in which no other action is enabled.                                    *)
(*                                                                         *)
(* lastMesosState is represented by the events that were folded into it,   *)
(* in order, since the latest snapshot.  What the parsers make of each of  *)
(* them is the module MesosStreamParsers.                                  *)
(***************************************************************************)
EXTENDS Naturals, Sequences

CONSTANTS
    MaxEvents,       \* bound: events the master sends
    MaxConnections,  \* bound: requests to the subscribe endpoint
    MaxRetries       \* maxRetries of retryWithLinearBackoff, 5 in the code

ASSUME BoundsAssumption ==
    MaxEvents \in Nat /\ MaxConnections \in Nat \ {0} /\ MaxRetries \in Nat

\* SUBSCRIBED carries a snapshot of the cluster; an update is anything after
\* it; a parser throws on a poisonous event (a field it reads is missing).
Event == [seq : Nat, kind : {"snapshot", "update", "poison"}]

Observer == {"take", "data"}

VARIABLES
    connections, subject, repeat, replay, observers,   \* of MesosStream
    sent,            \* events the master has sent
    greeted,         \* the current connection has delivered an event
    master,          \* the shared GET_MASTER request
    masterErrors,    \* errors its retryWhen has counted
    listeners,       \* somebody listens to MESOS_STATE_CHANGE
    phase,           \* stage of this.stream
    gotMaster,       \* zip holds the master's answer
    gotEvent,        \* zip holds the first event
    retries,         \* errors the pipeline's retryWhen has counted
    liveSince,       \* history: the latest event when data$ was subscribed to
    sample,          \* sampleTime holds a value
    lastMesosState,  \* the events folded into it
    masterInfo,      \* getMaster() holds the master's answer
    ready            \* the promise MesosStateStore.ready is resolved

streamVars == <<connections, subject, repeat, replay, observers>>
masterVars == <<master, masterErrors>>
storeVars == <<listeners, phase, gotMaster, gotEvent, retries, liveSince,
               sample, lastMesosState, masterInfo, ready>>
vars == <<streamVars, sent, greeted, masterVars, storeVars>>

Stream == INSTANCE MesosStream

Synchronous == {"starting", "zipped", "failing"}

Phase == {"idle", "waiting", "live", "backoff", "dead"} \cup Synchronous

Idle == phase \notin Synchronous

Init ==
    /\ Stream!StreamInit
    /\ sent = 0
    /\ greeted = FALSE
    /\ master = "idle"
    /\ masterErrors = 0
    /\ listeners = FALSE
    /\ phase = "idle"
    /\ gotMaster = FALSE
    /\ gotEvent = FALSE
    /\ retries = 0
    /\ liveSince = 0
    /\ sample = FALSE
    /\ lastMesosState = <<>>
    /\ masterInfo = FALSE
    /\ ready = FALSE

----------------------------------------------------------------------------
(* The parsers and the tap after them.                                     *)

\* Mutations: updates are dropped; an event is folded in before the others.
Parse_DropsUpdates(state, e) == IF e.kind = "snapshot" THEN <<e>> ELSE state
Parse_Prepends(state, e) == IF e.kind = "snapshot" THEN <<e>> ELSE <<e>> \o state

\* parsers(getLastMesosState(), message), for a message they do not throw on:
\* SUBSCRIBED starts over, anything else changes what is there.
Parse(state, e) == IF e.kind = "snapshot" THEN <<e>> ELSE Append(state, e)

\* data$ gets e.  An exception is an error of the pipeline.
Apply(e) ==
    \/ /\ e.kind = "poison"
       /\ phase' = "failing"
       /\ UNCHANGED <<lastMesosState, ready, sample>>
    \/ /\ e.kind # "poison"
       /\ lastMesosState' = Parse(lastMesosState, e)
       /\ ready' = TRUE
       /\ sample' = TRUE
       /\ phase' = "live"

----------------------------------------------------------------------------
(* GET_MASTER: request, retryWithLinearBackoff, shareReplay.               *)

\* The store is subscribed to it and has not got the answer.
StoreAwaitsMaster == phase = "waiting" /\ ~gotMaster

\* The tap on masterRequest$, and zip.
StoreGetsMaster ==
    /\ gotMaster' = TRUE
    /\ masterInfo' = TRUE
    /\ phase' = IF gotEvent THEN "zipped" ELSE phase

\* Another page (OverviewDetailTab, ServicesTable) subscribes to it first.
PageRequestsMaster ==
    /\ Idle
    /\ master \in {"idle", "failed"}
    /\ master' = "requesting"
    /\ masterErrors' = 0
    /\ UNCHANGED <<streamVars, sent, greeted, storeVars>>

MasterAnswers ==
    /\ Idle
    /\ master = "requesting"
    /\ master' = "answered"
    /\ IF StoreAwaitsMaster
       THEN StoreGetsMaster
       ELSE UNCHANGED <<gotMaster, masterInfo, phase>>
    /\ UNCHANGED <<streamVars, sent, greeted, masterErrors, listeners,
                   gotEvent, retries, liveSince, sample, lastMesosState, ready>>

\* The answer is not JSON, or not the answer: the tap throws.
MasterAnswersGarbage ==
    /\ Idle
    /\ master = "requesting"
    /\ master' = "garbled"
    /\ phase' = IF StoreAwaitsMaster THEN "failing" ELSE phase
    /\ UNCHANGED <<streamVars, sent, greeted, masterErrors, listeners,
                   gotMaster, gotEvent, retries, liveSince, sample, lastMesosState,
                   masterInfo, ready>>

\* The request fails: retried after a delay, or failed for good.
MasterRequestFails ==
    /\ Idle
    /\ master = "requesting"
    /\ \/ /\ masterErrors < MaxRetries
          /\ masterErrors' = masterErrors + 1
          /\ master' = "retrying"
          /\ UNCHANGED phase
       \/ /\ masterErrors >= MaxRetries
          /\ master' = "failed"
          /\ phase' = IF StoreAwaitsMaster THEN "failing" ELSE phase
          /\ UNCHANGED masterErrors
    /\ UNCHANGED <<streamVars, sent, greeted, listeners, gotMaster, gotEvent,
                   retries, liveSince, sample, lastMesosState, masterInfo, ready>>

MasterRequestRetries ==
    /\ Idle
    /\ master = "retrying"
    /\ master' = "requesting"
    /\ UNCHANGED <<streamVars, sent, greeted, masterErrors, storeVars>>

----------------------------------------------------------------------------
(* Subscribing.                                                            *)

\* addChangeListener(MESOS_STATE_CHANGE): subscribes unless this.stream is set.
AddChangeListener ==
    /\ Idle
    /\ ~listeners
    /\ listeners' = TRUE
    /\ phase' = IF phase = "idle" THEN "starting" ELSE phase
    /\ UNCHANGED <<streamVars, sent, greeted, masterVars, gotMaster, gotEvent,
                   retries, liveSince, sample, lastMesosState, masterInfo, ready>>

\* removeChangeListener leaves the subscription alone.
RemoveChangeListener ==
    /\ Idle
    /\ listeners
    /\ listeners' = FALSE
    /\ UNCHANGED <<streamVars, sent, greeted, masterVars, phase, gotMaster,
                   gotEvent, retries, liveSince, sample, lastMesosState, masterInfo, ready>>

\* zip subscribes to masterRequest$ ...
SubscribeMaster ==
    \/ /\ master \in {"idle", "failed"}
       /\ master' = "requesting"
       /\ masterErrors' = 0
       /\ gotMaster' = FALSE
       /\ UNCHANGED masterInfo
    \/ /\ master \in {"requesting", "retrying", "garbled"}
       /\ gotMaster' = FALSE
       /\ UNCHANGED <<masterVars, masterInfo>>
    \/ /\ master = "answered"
       /\ gotMaster' = TRUE
       /\ masterInfo' = TRUE
       /\ UNCHANGED masterVars

\* ... and to mesos$.take(1), which takes the replayed event if there is one.
SubscribeTake ==
    \/ /\ Stream!SubscribeAndConnect("take")
       /\ gotEvent' = FALSE
       /\ greeted' = FALSE
    \/ /\ replay = <<>>
       /\ Stream!SubscribeShared("take")
       /\ gotEvent' = FALSE
       /\ UNCHANGED greeted
    \/ /\ subject \in {"active", "complete"}
       /\ replay # <<>> \/ subject = "complete"
       /\ gotEvent' = (replay # <<>>)
       /\ UNCHANGED <<streamVars, greeted>>

\* zip completes when both have answered, or when mesos$ completes without an
\* event: nothing can be paired any more.
Start ==
    /\ phase = "starting"
    /\ SubscribeMaster
    /\ SubscribeTake
    /\ phase' = IF master = "garbled" THEN "failing"
                ELSE IF gotEvent' THEN (IF gotMaster' THEN "zipped" ELSE "waiting")
                ELSE IF subject' = "complete" THEN "zipped" ELSE "waiting"
    /\ UNCHANGED <<sent, listeners, retries, liveSince, sample, lastMesosState, ready>>

\* concat: wait$ is complete, so data$ and the interval are subscribed to.
\* data$ starts with the replayed event.
GoLive ==
    /\ phase = "zipped"
    /\ \/ /\ Stream!SubscribeAndConnect("data")
          /\ greeted' = FALSE
          /\ phase' = "live"
          /\ sample' = TRUE
          /\ UNCHANGED <<lastMesosState, ready>>
       \/ /\ subject = "active"
          /\ Stream!SubscribeShared("data")
          /\ Apply(replay[1])
          /\ UNCHANGED greeted
       \/ /\ subject = "complete"
          /\ IF replay # <<>>
             THEN Apply(replay[1])
             ELSE phase' = "live" /\ UNCHANGED <<lastMesosState, ready, sample>>
          /\ UNCHANGED <<streamVars, greeted>>
    /\ liveSince' = sent
    /\ UNCHANGED <<sent, masterVars, listeners, gotMaster, gotEvent, retries,
                   masterInfo>>

\* Mutation: the retries are not counted against the maximum.
Retry_Unlimited ==
    /\ phase = "failing" /\ phase' = "backoff"
    /\ observers' = {} /\ sample' = FALSE
    /\ retries' = retries + 1
    /\ UNCHANGED <<connections, subject, repeat, replay, sent, greeted, masterVars,
                   listeners, gotMaster, gotEvent, liveSince, lastMesosState, masterInfo, ready>>

\* retryWithLinearBackoff of the pipeline.  The count is never reset.  When it
\* gives up, onStreamError emits MESOS_STATE_REQUEST_ERROR.
Retry ==
    /\ phase = "failing"
    /\ observers' = {}
    /\ sample' = FALSE
    /\ \/ /\ retries < MaxRetries
          /\ retries' = retries + 1
          /\ phase' = "backoff"
       \/ /\ retries >= MaxRetries
          /\ phase' = "dead"
          /\ UNCHANGED retries
    /\ UNCHANGED <<connections, subject, repeat, replay, sent, greeted,
                   masterVars, listeners, gotMaster, gotEvent, liveSince, lastMesosState,
                   masterInfo, ready>>

\* Mutation: the pipeline is subscribed to again only if somebody listens.
BackoffOver_WhenHeard ==
    /\ phase = "backoff" /\ listeners
    /\ phase' = "starting"
    /\ UNCHANGED <<streamVars, sent, greeted, masterVars, listeners, gotMaster,
                   gotEvent, retries, liveSince, sample, lastMesosState, masterInfo, ready>>

BackoffOver ==
    /\ phase = "backoff"
    /\ phase' = "starting"
    /\ UNCHANGED <<streamVars, sent, greeted, masterVars, listeners, gotMaster,
                   gotEvent, retries, liveSince, sample, lastMesosState, masterInfo, ready>>

----------------------------------------------------------------------------
(* The stream.                                                             *)

\* Mutations: sampleTime comes before the parsers; wait$ is merged with the
\* master's answer instead of zipped.
StoreGets_Sampled(e) ==
    \/ /\ "take" \in observers
       /\ gotEvent' = TRUE
       /\ phase' = IF gotMaster THEN "zipped" ELSE phase
       /\ UNCHANGED <<lastMesosState, ready, sample>>
    \/ /\ "data" \in observers
       /\ IF sample THEN UNCHANGED <<lastMesosState, ready, sample, phase>> ELSE Apply(e)
       /\ UNCHANGED gotEvent
    \/ /\ observers = {}
       /\ UNCHANGED <<phase, gotEvent, lastMesosState, ready, sample>>

StoreGets_Merged(e) ==
    \/ /\ "take" \in observers
       /\ gotEvent' = TRUE
       /\ phase' = "zipped"
       /\ UNCHANGED <<lastMesosState, ready, sample>>
    \/ /\ "data" \in observers
       /\ Apply(e)
       /\ UNCHANGED gotEvent
    \/ /\ observers = {}
       /\ UNCHANGED <<phase, gotEvent, lastMesosState, ready, sample>>

\* The store's observers get e: take(1) keeps it for zip, data$ applies it.
StoreGets(e) ==
    \/ /\ "take" \in observers
       /\ gotEvent' = TRUE
       /\ phase' = IF gotMaster THEN "zipped" ELSE phase
       /\ UNCHANGED <<lastMesosState, ready, sample>>
    \/ /\ "data" \in observers
       /\ Apply(e)
       /\ UNCHANGED gotEvent
    \/ /\ observers = {}
       /\ UNCHANGED <<phase, gotEvent, lastMesosState, ready, sample>>

\* The master sends SUBSCRIBED first on every connection.
StreamEvent ==
    /\ Idle
    /\ sent < MaxEvents
    /\ \E e \in [seq : {sent + 1}, kind : {"snapshot", "update", "poison"}] :
          /\ greeted => e.kind # "snapshot"
          /\ ~greeted => e.kind # "update"
          /\ Stream!Emit(e, {"take"}) \/ Stream!ResponseIsJson(e, {"take"})
          /\ StoreGets(e)
    /\ sent' = sent + 1
    /\ greeted' = TRUE
    /\ UNCHANGED <<masterVars, listeners, gotMaster, retries, liveSince, masterInfo>>

\* The stream fails: an error for the observer the store has there, if any.
StreamFails ==
    /\ Idle
    /\ Stream!ResponseFails \/ Stream!DecodeFails
    /\ phase' = IF observers # {} THEN "failing" ELSE phase
    /\ UNCHANGED <<sent, greeted, masterVars, listeners, gotMaster, gotEvent,
                   retries, liveSince, sample, lastMesosState, masterInfo, ready>>

\* A connection ends.  If that completes the stream, zip completes without a
\* pair; a live pipeline goes on with the interval alone.
StreamEnds ==
    /\ Idle
    /\ Stream!ConnectionEnds
    /\ phase' = IF "take" \in observers /\ subject' = "complete"
                THEN "zipped" ELSE phase
    /\ UNCHANGED <<sent, greeted, masterVars, listeners, gotMaster, gotEvent,
                   retries, liveSince, sample, lastMesosState, masterInfo, ready>>

\* What happens to connections without the store hearing of it.
StreamMoves ==
    /\ Idle
    /\ Stream!ResponseOpens \/ Stream!ConnectionBreaks \/ Stream!AbandonedEnds
    /\ UNCHANGED <<sent, greeted, masterVars, storeVars>>

StreamReconnects ==
    /\ Idle
    /\ Stream!Reconnect
    /\ greeted' = FALSE
    /\ UNCHANGED <<sent, masterVars, storeVars>>

----------------------------------------------------------------------------
(* interval and sampleTime.                                                *)

\* Mutation: the interval ends with the stream instead of being merged.
IntervalTick_WhileConnected ==
    /\ phase = "live" /\ Stream!Connected
    /\ sample' = TRUE
    /\ UNCHANGED <<streamVars, sent, greeted, masterVars, listeners, phase,
                   gotMaster, gotEvent, retries, liveSince, lastMesosState, masterInfo, ready>>

\* The fake emitter, merged with data$.
IntervalTick ==
    /\ phase = "live"
    /\ sample' = TRUE
    /\ UNCHANGED <<streamVars, sent, greeted, masterVars, listeners, phase,
                   gotMaster, gotEvent, retries, liveSince, lastMesosState, masterInfo, ready>>

\* sampleTime passes on what it holds: onStreamData emits MESOS_STATE_CHANGE.
EmitChange ==
    /\ phase = "live"
    /\ sample
    /\ sample' = FALSE
    /\ UNCHANGED <<streamVars, sent, greeted, masterVars, listeners, phase,
                   gotMaster, gotEvent, retries, liveSince, lastMesosState, masterInfo, ready>>

----------------------------------------------------------------------------
StoreNext ==
    \/ AddChangeListener
    \/ RemoveChangeListener
    \/ Start
    \/ GoLive
    \/ Retry
    \/ BackoffOver
    \/ IntervalTick
    \/ EmitChange

MasterNext ==
    \/ PageRequestsMaster
    \/ MasterAnswers
    \/ MasterAnswersGarbage
    \/ MasterRequestFails
    \/ MasterRequestRetries

StreamNext ==
    \/ StreamEvent
    \/ StreamFails
    \/ StreamEnds
    \/ StreamMoves
    \/ StreamReconnects

Next == StoreNext \/ MasterNext \/ StreamNext

Spec == Init /\ [][Next]_vars

\* Callbacks run to their end and timers fire.  The network, the master and
\* the pages that listen owe nothing.
Fairness ==
    /\ WF_vars(Start) /\ WF_vars(GoLive) /\ WF_vars(Retry)
    /\ WF_vars(BackoffOver)
    /\ WF_vars(MasterRequestRetries)
    /\ WF_vars(StreamReconnects)
    /\ WF_vars(IntervalTick) /\ WF_vars(EmitChange)

FairSpec == Spec /\ Fairness

----------------------------------------------------------------------------
\* The sequence number of the latest event folded into a state.
Newest(state) == IF state = <<>> THEN 0 ELSE state[Len(state)].seq

TypeOK ==
    /\ connections \in Seq(Stream!ConnectionState)
    /\ subject \in {"none", "active", "errored", "complete"}
    /\ repeat \in {"unused", "armed", "used"}
    /\ replay \in Seq(Event) /\ Len(replay) <= 1
    /\ observers \subseteq Observer
    /\ sent \in 0 .. MaxEvents
    /\ greeted \in BOOLEAN
    /\ master \in {"idle", "requesting", "retrying", "answered", "garbled", "failed"}
    /\ masterErrors \in 0 .. MaxRetries
    /\ listeners \in BOOLEAN
    /\ phase \in Phase
    /\ gotMaster \in BOOLEAN
    /\ gotEvent \in BOOLEAN
    /\ retries \in 0 .. MaxRetries
    /\ liveSince \in 0 .. MaxEvents
    /\ sample \in BOOLEAN
    /\ lastMesosState \in Seq(Event)
    /\ masterInfo \in BOOLEAN
    /\ ready \in BOOLEAN

\* A live pipeline has applied the latest event the master sent on the current
\* connection: not one is stuck between the two observers, in the replay
\* buffer or behind zip, also when the pipeline has just come back from an
\* error or went live in the middle of an event.
LiveIsCurrent == phase = "live" /\ greeted => Newest(lastMesosState) = sent

\* A state that event number n is part of, or that a later snapshot began.
Knows(state, n) ==
    \/ \E i \in 1 .. Len(state) : state[i].seq = n
    \/ state # <<>> /\ state[1].kind = "snapshot" /\ state[1].seq > n

\* What a live pipeline can have missed lies before the moment it went live for
\* the last time: the event that was the latest one then, which data$ is handed
\* from the replay buffer, and every event after it are behind lastMesosState,
\* however often the pipeline and the stream have failed.  Before that moment
\* events do pass by: all that precede GET_MASTER's answer but the last, the
\* snapshot of SUBSCRIBED among them, because zip keeps one that nobody applies,
\* and those of a backoff.
NothingMissedWhileLive ==
    phase = "live" /\ greeted =>
        \A n \in 1 .. sent : n >= liveSince => Knows(lastMesosState, n)

\* The state holds nothing from the stream before the master has answered
\* GET_MASTER: zip and concat order the two requests.
NoDataBeforeMaster == lastMesosState # <<>> => masterInfo

\* At any moment one observer at most stands for the store, and it is the one
\* its stage needs: no event can reach both take(1) and data$, or none of them
\* while the pipeline is live on a working stream.
OneObserver ==
    Idle => /\ "take" \in observers => phase = "waiting" /\ ~gotEvent
            /\ "data" \in observers => phase = "live"
            /\ phase = "live" /\ subject = "active" => "data" \in observers

\* No event is applied twice, or after a later one: the replay of the last
\* event to data$ never hands it an event it has seen, however often the
\* pipeline was retried.
AppliedOnceInOrder ==
    [][lastMesosState' # lastMesosState
          => Newest(lastMesosState') > Newest(lastMesosState)]_vars

\* While the pipeline stays live, MESOS_STATE_CHANGE is emitted for ever, even
\* when the stream is silent, hung or complete.
LiveKeepsEmitting == <>[](phase = "live") => []<><<EmitChange>>_vars

\* After a failure the pipeline subscribes again, or it has given up.
FailureIsHandled ==
    phase \in {"failing", "backoff"} ~> phase \in {"waiting", "live", "dead"}

=============================================================================
