---------------------------- MODULE MarathonStore ----------------------------
(***************************************************************************)
(* plugins/services/src/js/stores/MarathonStore.ts: what it keeps of        *)
(* Marathon's answers, and its polling.  DCOSStore composes these steps     *)
(* with what its proxy listeners do about the events the store emits.       *)
(*                                                                         *)
(* A poll sends three requests and the next poll does not wait for them, so *)
(* any number of each may be under way: once there was a poll, an answer of *)
(* any kind, old or new, may come at any time.  A deployment is the set of  *)
(* services it affects.                                                    *)
(***************************************************************************)
EXTENDS Integers, FiniteSets

CONSTANTS Service, Deployment

ASSUME DeploymentAssumption == Deployment \subseteq SUBSET Service

VARIABLES
    groups,           \* get("groups"): the services of the ServiceTree
    deployments,      \* get("deployments")
    appsListening,    \* whether a page listens to MARATHON_APPS_CHANGE
    requestInterval,  \* whether the interval is set
    polled            \* whether there was a poll at all

pollVars == <<requestInterval, polled>>
marathonVars == <<groups, deployments, appsListening, pollVars>>

MarathonInit ==
    /\ groups = {} /\ deployments = {}
    /\ appsListening = FALSE
    /\ requestInterval = FALSE /\ polled = FALSE

\* shouldPoll, where `proxied` says whether DCOSStore listens to the groups,
\* the queue and the deployments.
shouldPoll(proxied, apps) == proxied \/ apps

startPolling == requestInterval' = TRUE /\ polled' = TRUE

stopPolling == requestInterval' = FALSE /\ UNCHANGED polled

\* addChangeListener, after which the listeners are as given.
addChangeListener(proxied, apps) ==
    IF shouldPoll(proxied, apps) THEN startPolling ELSE UNCHANGED pollVars

\* Mutation: the polling stops with any listener.
removeChangeListener_Stops(proxied, apps) == stopPolling

\* removeChangeListener, after which the listeners are as given.
removeChangeListener(proxied, apps) ==
    IF ~ shouldPoll(proxied, apps) THEN stopPolling ELSE UNCHANGED pollVars

----------------------------------------------------------------------------
(* The answers: what each changes before its event is emitted.              *)

processMarathonGroups(answer) ==
    /\ polled
    /\ groups' = answer
    /\ UNCHANGED <<deployments, appsListening, pollVars>>

processMarathonDeployments(answer) ==
    /\ polled
    /\ deployments' = answer
    /\ UNCHANGED <<groups, appsListening, pollVars>>

processMarathonDeploymentRollback(deployment) ==
    /\ deployments' = deployments \ {deployment}
    /\ UNCHANGED <<groups, appsListening, pollVars>>

\* The queue and the versions are passed on and not kept.
PassesOn == UNCHANGED marathonVars

----------------------------------------------------------------------------
(* Listeners other than DCOSStore's.                                        *)

AppsListenerComes(proxied) ==
    /\ ~ appsListening /\ appsListening' = TRUE
    /\ addChangeListener(proxied, TRUE)
    /\ UNCHANGED <<groups, deployments>>

AppsListenerLeaves(proxied) ==
    /\ appsListening /\ appsListening' = FALSE
    /\ removeChangeListener(proxied, FALSE)
    /\ UNCHANGED <<groups, deployments>>

\* A listener of an event that needs no polling, as the CreateServiceModal's.
OtherListenerComes(proxied) ==
    /\ addChangeListener(proxied, appsListening)
    /\ UNCHANGED <<groups, deployments, appsListening>>

OtherListenerLeaves(proxied) ==
    /\ removeChangeListener(proxied, appsListening)
    /\ UNCHANGED <<groups, deployments, appsListening>>

\* Polls at once, and from then on, whether anybody listens or not.
setShouldEmbedLastUnusedOffers ==
    /\ startPolling
    /\ UNCHANGED <<groups, deployments, appsListening>>

----------------------------------------------------------------------------
MarathonTypeOK ==
    /\ groups \subseteq Service
    /\ deployments \subseteq Deployment
    /\ appsListening \in BOOLEAN
    /\ requestInterval \in BOOLEAN /\ polled \in BOOLEAN
=============================================================================
