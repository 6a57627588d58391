---------------------------- MODULE SharedStream ----------------------------
(***************************************************************************)
(* The stream of MesosStream together with what its observers see: every   *)
(* action of the stream, and the calls of next it makes on its observers.  *)
(***************************************************************************)
EXTENDS MesosStream, SequencesExt

CONSTANT MaxEvents     \* bound: events emitted by one subject

VARIABLES
    log,     \* all events the current subject has emitted
    seen     \* seen[o]: what o has been handed since it last subscribed

sharedVars == <<streamVars, log, seen>>

SharedInit ==
    /\ StreamInit
    /\ log = <<>>
    /\ seen = [o \in Observer |-> <<>>]

\* observer.next(e) for everybody who is subscribed.
Multicast(e) ==
    /\ log' = Append(log, e)
    /\ seen' = [o \in Observer |->
                   IF o \in observers THEN Append(seen[o], e) ELSE seen[o]]

Subscribe(o) ==
    \/ /\ SubscribeAndConnect(o)
       /\ log' = <<>>
       /\ seen' = [seen EXCEPT ![o] = <<>>]
    \/ /\ SubscribeShared(o)
       /\ seen' = [seen EXCEPT ![o] = replay]
       /\ UNCHANGED log

\* An event arrives; those who only wanted one leave with it.
Receive(e) ==
    /\ Len(log) < MaxEvents
    /\ \E leaving \in SUBSET observers : Emit(e, leaving) \/ ResponseIsJson(e, leaving)
    /\ Multicast(e)

\* No observer is handed anything.
Silent == UNCHANGED <<log, seen>>

Leave(o) == Unsubscribe(o) /\ Silent

Respond == (ResponseOpens \/ ResponseFails) /\ Silent

Lose == (DecodeFails \/ ConnectionEnds \/ ConnectionBreaks) /\ Silent

Repeat == Reconnect /\ Silent

Drain == AbandonedEnds /\ Silent

SharedNext ==
    \/ \E o \in Observer : Subscribe(o) \/ Leave(o)
    \/ \E e \in Event : Receive(e)
    \/ Respond
    \/ Lose
    \/ Repeat
    \/ Drain

SharedSpec == SharedInit /\ [][SharedNext]_sharedVars

\* A timer that was set fires.  Networks and observers owe nothing.
FairSpec == SharedSpec /\ WF_sharedVars(Repeat)

----------------------------------------------------------------------------
\* What a subscriber has been handed is an unbroken run of the latest events
\* of the subject, and no subscriber is left without the latest one, at
\* whatever moment it came: this is why the stream is shared with a replay of
\* one event.
SubscribersSeeLatest ==
    \A o \in observers :
        /\ IsSuffix(seen[o], log)
        /\ log # <<>> => seen[o] # <<>>

\* The first time a connection ends, another request follows, although the
\* end may come while nobody listens.
FirstEndIsRepeated ==
    (CurrentIs("ended") /\ subject = "active") ~> (repeat = "used" /\ current > 1)

----------------------------------------------------------------------------
\* A stream that was ended by the other side is requested again, for as long
\* as that happens (CHANGELOG.md:44, "delay reconnections"; OfflineBanner.tsx:36,
\* "We will keep trying to reconnect").
EndedStreamReconnects ==
    (CurrentIs("ended") /\ subject # "errored") ~> Connected
=============================================================================
