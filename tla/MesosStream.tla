----------------------------- MODULE MesosStream -----------------------------
(***************************************************************************)
(* The shared event stream of src/js/core/MesosStream.ts:                  *)
(*                                                                         *)
(*   mesos$   fromFetch(...), then record$ or the JSON body of the response*)
(*   default  mesos$ . repeatWhen(() => timer(2000)) . shareReplay(1)      *)
(*                                                                         *)
(* shareReplay(1) connects on the first subscription, keeps the connection *)
(* when everybody leaves, replays the last event to who comes late, starts *)
(* again with an empty replay buffer when somebody subscribes after an     *)
(* error, and never starts again after a completion.                       *)
(*                                                                         *)
(* repeatWhen calls its function once and subscribes to the timer it       *)
(* returns; the timer fires once and completes.  So the first completion   *)
(* of mesos$ is repeated after the delay, the second one completes the     *)
(* whole stream.                                                           *)
(*                                                                         *)
(* The bytes of one connection are the module RecordIO.                    *)
(***************************************************************************)
EXTENDS Naturals, Sequences

CONSTANTS
    Event,            \* what protobufToEvent can return
    Observer,         \* subscribers of the shared stream
    MaxConnections    \* bound: requests to the subscribe endpoint

ASSUME MaxConnectionsAssumption == MaxConnections \in Nat \ {0}

VARIABLES
    connections,  \* the requests made so far, each with what became of it
    subject,      \* the ReplaySubject behind shareReplay
    repeat,       \* the timer repeatWhen subscribed to
    replay,       \* the replay buffer: the last event, if any
    observers     \* who is subscribed to the subject

streamVars == <<connections, subject, repeat, replay, observers>>

\* "abandoned": its observer is gone, but record$ has no teardown, so its
\* reader goes on reading.  "hung": read() rejected, which nobody handles.
ConnectionState == {"fetching", "open", "abandoned", "hung", "ended"}

StreamInit ==
    /\ connections = <<>>
    /\ subject = "none"
    /\ repeat = "unused"
    /\ replay = <<>>
    /\ observers = {}

----------------------------------------------------------------------------
\* The connection that feeds the subject is always the latest one.
current == Len(connections)

CurrentIs(state) == connections # <<>> /\ connections[current] = state

\* Some connection is being opened for the subject, or feeds it.
Connected ==
    \E c \in DOMAIN connections : connections[c] \in {"fetching", "open"}

CurrentBecomes(state) == connections' = [connections EXCEPT ![current] = state]

\* subscribe() to mesos$: fromFetch posts a request.
Fetch == connections' = Append(connections, "fetching")

\* Mutation: the observers of a failed subject are kept.
SubjectErrors_KeepsObservers ==
    subject' = "errored" /\ UNCHANGED <<repeat, observers>>

\* The subject fails: everybody is told and gone.
SubjectErrors ==
    /\ subject' = "errored"
    /\ observers' = {}
    /\ UNCHANGED repeat

\* mesos$ completes: repeatWhen waits for its timer, or passes the completion
\* on to those who listen because the timer has completed already.
SourceCompletes(listening) ==
    \/ /\ repeat = "unused"
       /\ repeat' = "armed"
       /\ observers' = listening
       /\ UNCHANGED subject
    \/ /\ repeat = "used"
       /\ subject' = "complete"
       /\ observers' = {}
       /\ UNCHANGED repeat

----------------------------------------------------------------------------
\* The first subscription, or the first one after an error: a new subject.
SubscribeAndConnect(o) ==
    /\ subject \in {"none", "errored"}
    /\ current < MaxConnections
    /\ subject' = "active"
    /\ repeat' = "unused"
    /\ replay' = <<>>
    /\ observers' = {o}
    /\ Fetch

\* Mutation: every subscription makes a request, as without sharing.
SubscribeShared_Refetches(o) ==
    /\ subject = "active" /\ o \notin observers
    /\ current < MaxConnections /\ Fetch
    /\ observers' = observers \cup {o}
    /\ UNCHANGED <<subject, repeat, replay>>

\* A later subscription shares the subject and is handed the replay buffer.
SubscribeShared(o) ==
    /\ subject = "active"
    /\ o \notin observers
    /\ observers' = observers \cup {o}
    /\ UNCHANGED <<connections, subject, repeat, replay>>

\* Unsubscribing never closes the connection: there is no refCount.
Unsubscribe(o) ==
    /\ o \in observers
    /\ observers' = observers \ {o}
    /\ UNCHANGED <<connections, subject, repeat, replay>>

\* The response has a body that is not JSON: record$ starts to read it.
ResponseOpens ==
    /\ CurrentIs("fetching")
    /\ CurrentBecomes("open")
    /\ UNCHANGED <<subject, repeat, replay, observers>>

\* A JSON body is one event, and the end.  Here and in Emit, leaving are the
\* observers that unsubscribe as soon as they have the event, as take(1) does.
ResponseIsJson(e, leaving) ==
    /\ CurrentIs("fetching")
    /\ CurrentBecomes("ended")
    /\ replay' = <<e>>
    /\ SourceCompletes(observers \ leaving)

\* fetch or response.json() rejects, or there is no response or no body.
ResponseFails ==
    /\ CurrentIs("fetching")
    /\ CurrentBecomes("ended")
    /\ SubjectErrors
    /\ UNCHANGED replay

\* Mutation: nothing is replayed, as with share().
Emit_ReplaysNothing(e, leaving) ==
    /\ CurrentIs("open")
    /\ observers' = observers \ leaving
    /\ UNCHANGED <<connections, subject, repeat, replay>>

\* record$ emits a record that decodes to e.
Emit(e, leaving) ==
    /\ CurrentIs("open")
    /\ replay' = <<e>>
    /\ observers' = observers \ leaving
    /\ UNCHANGED <<connections, subject, repeat>>

\* record$ emits a record that does not decode.
DecodeFails ==
    /\ CurrentIs("open")
    /\ CurrentBecomes("abandoned")
    /\ SubjectErrors
    /\ UNCHANGED replay

\* reader.read() resolves with done.
ConnectionEnds ==
    /\ CurrentIs("open")
    /\ CurrentBecomes("ended")
    /\ SourceCompletes(observers)
    /\ UNCHANGED replay

\* reader.read() rejects: no observer.error, no observer.complete.
ConnectionBreaks ==
    /\ CurrentIs("open")
    /\ CurrentBecomes("hung")
    /\ UNCHANGED <<subject, repeat, replay, observers>>

\* Mutation: as with refCount, nothing is repeated while nobody listens.
Reconnect_WhenObserved ==
    /\ repeat = "armed" /\ observers # {}
    /\ repeat' = "used"
    /\ Fetch
    /\ UNCHANGED <<subject, replay, observers>>

\* RECONNECTION_DELAY is over.
Reconnect ==
    /\ repeat = "armed"
    /\ repeat' = "used"
    /\ Fetch
    /\ UNCHANGED <<subject, replay, observers>>

\* An abandoned reader comes to the end of its connection.
AbandonedEnds ==
    \E c \in DOMAIN connections :
        /\ connections[c] = "abandoned"
        /\ connections' = [connections EXCEPT ![c] = "ended"]
        /\ UNCHANGED <<subject, repeat, replay, observers>>

----------------------------------------------------------------------------
\* However subscriptions, errors, completions and the timer interleave, there
\* is one request at a time that feeds the stream, which is what sharing is
\* for (MesosStream.ts:110, "2 requests to the subscribe endpoint").
OneRequestFeeds ==
    /\ \A c \in DOMAIN connections :
           connections[c] \in {"fetching", "open"} => c = current
    /\ Connected => subject = "active"

\* Nobody is left subscribed to a subject that will never emit: an observer is
\* attached only while a request feeds the subject, the reconnection timer
\* runs, or the connection broke without anybody noticing.
ObserversAreServed ==
    observers # {} => \/ Connected
                      \/ repeat = "armed"
                      \/ CurrentIs("hung")
=============================================================================
