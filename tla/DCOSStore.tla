------------------------------ MODULE DCOSStore ------------------------------
(***************************************************************************)
(* src/js/stores/DCOSStore.ts over MarathonStore: it listens to its sources *)
(* while somebody listens to it, merges what they say, caches the service   *)
(* tree made of it and the table of tasks made of the tree, and announces   *)
(* changes by DCOS_CHANGE, debounced.                                       *)
(*                                                                         *)
(* The summaries are not its own: it holds a reference to the list that     *)
(* MesosSummaryStore adds to, and that everybody who asks for the last      *)
(* successful summary turns around, itself included.                        *)
(*                                                                         *)
(* Time counts units of which EVENT_DEBOUNCE_TIME is DebounceTime.          *)
(***************************************************************************)
EXTENDS MarathonStore, SummaryList

CONSTANTS
    Version,
    Snapshot,       \* contents of a successful summary
    Listener,       \* callbacks on DCOS_CHANGE
    None,           \* a cache that is cleared
    DebounceTime,
    mesosAPI,       \* hasCapability
    marathonAPI

ASSUME DebounceAssumption == DebounceTime \in Nat
ASSUME CapabilityAssumption == mesosAPI \in BOOLEAN /\ marathonAPI \in BOOLEAN

VARIABLES
    serviceTree, queue, versions, deploymentsList, dataReceived,  \* data.marathon
    mesos,              \* whether data.mesos is the list of MesosSummaryStore yet
    states,             \* that list, shared by reference
    cachedTree,         \* _serviceTree
    cachedTasks,        \* _flatServiceTree
    notificationCount,  \* NotificationStore, "services-deployments"
    listeners,
    proxies,            \* how often the proxy listeners are attached
    timer,              \* time until the debounced event, NoTimer without one
    quiet,              \* history: time since the last change, up to a bound
    behind,             \* history: listeners not told of the last change
    missed,             \* history: groups came when nobody listened
    latest,             \* history: the last summary, while nobody has read the list
    room                \* history: entries the list takes before it loses that one

dataVars == <<serviceTree, queue, versions, deploymentsList, dataReceived, mesos,
              notificationCount>>
cacheVars == <<cachedTree, cachedTasks>>
eventVars == <<timer, quiet, behind>>
listVars == <<states, latest, room>>
vars == <<marathonVars, dataVars, cacheVars, eventVars, listVars, listeners, proxies, missed>>

NoTimer == -1

Failed == [snapshot |-> 0, successful |-> FALSE]

\* What is known of a version: nothing, its name from a list, or its content.
Knowledge == {"unknown", "listed", "fetched"}

Init ==
    /\ MarathonInit
    /\ serviceTree = {} /\ queue = {}
    /\ versions = [s \in Service |-> [v \in Version |-> "unknown"]]
    /\ deploymentsList = [d \in {} |-> {}]
    /\ dataReceived = FALSE /\ mesos = FALSE
    /\ cachedTree = None /\ cachedTasks = None
    /\ notificationCount = 0
    /\ listeners = {} /\ proxies = 0
    /\ timer = NoTimer /\ quiet = 0 /\ behind = {}
    /\ missed = FALSE
    /\ states = [i \in 1..historyLength |-> Failed] /\ latest = 0 /\ room = 0

----------------------------------------------------------------------------
(* Caches and events.                                                       *)

\* buildServiceTree: every service with what is known of it elsewhere; a
\* framework's with what the last successful summary says of it.
buildServiceTree ==
    LET frameworks == IF mesos THEN lastSuccessful(states) ELSE 0
    IN  [s \in serviceTree |->
            [versions |-> versions[s], queue |-> s \in queue, frameworks |-> frameworks]]

\* Whoever asks for the last successful summary leaves the list turned around.
Turn == states' = reversed(states) /\ latest' = 0 /\ room' = 0

\* get serviceTree
ServiceTree ==
    IF cachedTree = None
      THEN /\ cachedTree' = buildServiceTree
           /\ IF mesos THEN Turn ELSE UNCHANGED listVars
      ELSE UNCHANGED <<cachedTree, listVars>>

\* buildFlatServiceTree: the services whose tasks are found in the table.
buildFlatServiceTree(tree) == DOMAIN tree

\* Mutation: the table of tasks survives.
clearServiceTreeCache_TreeOnly == cachedTree' = None /\ UNCHANGED cachedTasks

clearServiceTreeCache == cachedTree' = None /\ cachedTasks' = None

\* Mutation: the timer is cleared after it was set.
emitChange_ClearsLast == timer' = NoTimer /\ quiet' = 0 /\ behind' = listeners

\* emit(DCOS_CHANGE): a timer that runs is replaced.
emitChange == timer' = DebounceTime /\ quiet' = 0 /\ behind' = listeners

Announced == clearServiceTreeCache /\ emitChange

\* The body of onMarathonDeploymentsChange, after the store took up its news.
PopulateDeployments ==
    /\ notificationCount' = Cardinality(deployments')
    /\ deploymentsList' = [d \in deployments' |-> d \cap groups']

----------------------------------------------------------------------------
(* The proxy listeners.                                                     *)

HearsMarathon == proxies > 0 /\ marathonAPI
HearsMesos == proxies > 0 /\ mesosAPI

Unheard == UNCHANGED <<dataVars, cacheVars, eventVars>>

onMarathonDeploymentsChange ==
    IF HearsMarathon /\ dataReceived
      THEN /\ PopulateDeployments
           /\ Announced
           /\ UNCHANGED <<serviceTree, queue, versions, dataReceived, mesos>>
      ELSE Unheard

\* Mutation: the deployments are left to their next answer.
onMarathonGroupsChange_Alone ==
    IF HearsMarathon
      THEN /\ serviceTree' = groups' /\ dataReceived' = TRUE
           /\ Announced
           /\ UNCHANGED <<queue, versions, deploymentsList, mesos, notificationCount>>
      ELSE Unheard

onMarathonGroupsChange ==
    IF HearsMarathon
      THEN /\ serviceTree' = groups' /\ dataReceived' = TRUE
           /\ PopulateDeployments
           /\ Announced
           /\ UNCHANGED <<queue, versions, mesos>>
      ELSE Unheard

\* Entries are replaced, and those no longer queued removed.
onMarathonQueueChange(nextQueue) ==
    IF HearsMarathon
      THEN /\ queue' = nextQueue
           /\ Announced
           /\ UNCHANGED <<serviceTree, versions, deploymentsList, dataReceived, mesos,
                          notificationCount>>
      ELSE Unheard

HearsVersions(service, known) ==
    IF HearsMarathon
      THEN /\ versions' = [versions EXCEPT ![service] = known]
           /\ Announced
           /\ UNCHANGED <<serviceTree, queue, deploymentsList, dataReceived, mesos,
                          notificationCount>>
      ELSE Unheard

onMarathonServiceVersionChange(service, version) ==
    HearsVersions(service, [versions[service] EXCEPT ![version] = "fetched"])

\* Mutation: the list wins over what is known.
onMarathonServiceVersionsChange_ListWins(service, list) ==
    HearsVersions(service, [v \in Version |->
        IF v \in list THEN "listed" ELSE versions[service][v]])

\* What is known wins over the list.
onMarathonServiceVersionsChange(service, list) ==
    HearsVersions(service, [v \in Version |->
        IF v \in list /\ versions[service][v] = "unknown" THEN "listed"
        ELSE versions[service][v]])

onMesosSummaryChange ==
    IF HearsMesos
      THEN /\ mesos' = TRUE
           /\ Announced
           /\ UNCHANGED <<serviceTree, queue, versions, deploymentsList, dataReceived,
                          notificationCount>>
      ELSE Unheard

----------------------------------------------------------------------------
(* Answers, with the events the stores emit for them.                       *)

Stay == UNCHANGED <<listeners, proxies, listVars>>

GroupsAnswer ==
    /\ \E answer \in SUBSET Service : processMarathonGroups(answer)
    /\ onMarathonGroupsChange
    /\ missed' = ~ HearsMarathon
    /\ Stay

DeploymentsAnswer ==
    /\ \E answer \in SUBSET Deployment : processMarathonDeployments(answer)
    /\ onMarathonDeploymentsChange
    /\ UNCHANGED missed /\ Stay

\* A page reverts a deployment it was shown, which may be gone by the answer.
RollbackAnswer ==
    /\ dataReceived
    /\ \E d \in Deployment : processMarathonDeploymentRollback(d)
    /\ onMarathonDeploymentsChange
    /\ UNCHANGED missed /\ Stay

QueueAnswer ==
    /\ polled /\ PassesOn
    /\ \E answer \in SUBSET Service : onMarathonQueueChange(answer)
    /\ UNCHANGED missed /\ Stay

\* A page asked for one version, or for the list, at any time before.
VersionAnswer ==
    /\ PassesOn
    /\ \E s \in Service, v \in Version : onMarathonServiceVersionChange(s, v)
    /\ UNCHANGED missed /\ Stay

VersionsAnswer ==
    /\ PassesOn
    /\ \E s \in Service, list \in SUBSET Version : onMarathonServiceVersionsChange(s, list)
    /\ UNCHANGED missed /\ Stay

\* processSummary, which emits MESOS_SUMMARY_CHANGE: the list is as new for a
\* store that does not listen, only that nothing is cleared.
SummaryAnswer ==
    /\ \E snapshot \in Snapshot :
         /\ states' = add(states, [snapshot |-> snapshot, successful |-> TRUE])
         /\ latest' = snapshot
    /\ room' = historyLength
    /\ PassesOn
    /\ onMesosSummaryChange
    /\ UNCHANGED <<listeners, proxies, missed>>

\* processSummaryError adds to the list as well; DCOSStore has no listener for
\* MESOS_SUMMARY_REQUEST_ERROR.
SummaryFails ==
    /\ states' = add(states, Failed)
    /\ room' = IF room > 0 THEN room - 1 ELSE 0
    /\ UNCHANGED latest
    /\ PassesOn /\ Unheard
    /\ UNCHANGED <<listeners, proxies, missed>>

\* A page, or MesosSummaryStore itself, asks for the last successful summary.
SummaryRead ==
    /\ Turn
    /\ PassesOn /\ Unheard
    /\ UNCHANGED <<listeners, proxies, missed>>

----------------------------------------------------------------------------
(* Listeners of DCOS_CHANGE come and go.                                    *)

addProxyListeners ==
    /\ proxies' = proxies + 1
    /\ IF marathonAPI THEN addChangeListener(TRUE, appsListening) ELSE UNCHANGED pollVars

removeProxyListeners ==
    /\ proxies' = IF proxies > 0 THEN proxies - 1 ELSE 0
    /\ IF marathonAPI THEN removeChangeListener(proxies' > 0, appsListening)
       ELSE UNCHANGED pollVars

\* The page reads the store when it mounts.
on(l) ==
    /\ l \notin listeners /\ listeners' = listeners \cup {l}
    /\ IF listeners = {} THEN addProxyListeners ELSE UNCHANGED <<proxies, pollVars>>
    /\ UNCHANGED <<groups, deployments, appsListening, dataVars, cacheVars, eventVars, listVars,
                   missed>>

\* Also for a callback that does not listen any more: the CreateServiceModal
\* removes its own twice.
removeListener(l) ==
    /\ listeners' = listeners \ {l} /\ behind' = behind \ {l}
    /\ IF listeners' = {} THEN removeProxyListeners ELSE UNCHANGED <<proxies, pollVars>>
    /\ UNCHANGED <<groups, deployments, appsListening, dataVars, cacheVars, timer, quiet, listVars,
                   missed>>

\* Listeners of MarathonStore's own events.
MarathonListeners ==
    /\ \/ AppsListenerComes(HearsMarathon) \/ AppsListenerLeaves(HearsMarathon)
       \/ OtherListenerComes(HearsMarathon) \/ OtherListenerLeaves(HearsMarathon)
       \/ setShouldEmbedLastUnusedOffers
    /\ UNCHANGED <<dataVars, cacheVars, eventVars, listVars, listeners, proxies, missed>>

----------------------------------------------------------------------------
(* Reads, and time.                                                         *)

ReadTree ==
    /\ ServiceTree
    /\ UNCHANGED <<marathonVars, dataVars, cachedTasks, eventVars, listeners, proxies, missed>>

\* get taskLookupTable
ReadTasks ==
    /\ IF cachedTasks = None
         THEN ServiceTree /\ cachedTasks' = buildFlatServiceTree(cachedTree')
         ELSE UNCHANGED <<cacheVars, listVars>>
    /\ UNCHANGED <<marathonVars, dataVars, eventVars, listeners, proxies, missed>>

\* The debounced event is delivered to whoever listens by now.
Announce ==
    /\ timer = 0
    /\ timer' = NoTimer /\ behind' = {}
    /\ UNCHANGED <<marathonVars, dataVars, cacheVars, listVars, quiet, listeners, proxies, missed>>

\* Time does not pass a timer that is due.
Tick ==
    /\ timer # 0
    /\ timer' = IF timer = NoTimer THEN NoTimer ELSE timer - 1
    /\ quiet' = IF quiet > DebounceTime THEN quiet ELSE quiet + 1
    /\ UNCHANGED <<marathonVars, dataVars, cacheVars, listVars, behind, listeners, proxies, missed>>

Next ==
    \/ GroupsAnswer
    \/ DeploymentsAnswer
    \/ RollbackAnswer
    \/ QueueAnswer
    \/ VersionAnswer
    \/ VersionsAnswer
    \/ SummaryAnswer
    \/ SummaryFails
    \/ SummaryRead
    \/ \E l \in Listener : on(l)
    \/ \E l \in Listener : removeListener(l)
    \/ MarathonListeners
    \/ ReadTree
    \/ ReadTasks
    \/ Announce
    \/ Tick

Spec == Init /\ [][Next]_vars

----------------------------------------------------------------------------
StoreTypeOK ==
    /\ MarathonTypeOK
    /\ serviceTree \subseteq Service /\ queue \subseteq Service
    /\ versions \in [Service -> [Version -> Knowledge]]
    /\ DOMAIN deploymentsList \subseteq Deployment
    /\ dataReceived \in BOOLEAN /\ mesos \in BOOLEAN /\ missed \in BOOLEAN
    /\ listeners \subseteq Listener /\ behind \subseteq listeners
    /\ proxies \in Nat
    /\ timer \in {NoTimer} \cup 0..DebounceTime
    /\ quiet \in 0..DebounceTime + 1

Entry == [snapshot : Snapshot \cup {0}, successful : BOOLEAN]

TypeOK ==
    /\ StoreTypeOK
    /\ states \in Seq(Entry) /\ Len(states) = historyLength
    /\ latest \in Snapshot \cup {0} /\ room \in 0..historyLength

\* Whatever handlers ran since they were built, the cached tree and the cached
\* table of tasks have the services, versions and queue that would be built
\* now.  What a tree says of frameworks is as old as the tree: the list it is
\* taken from changes without a cache being cleared.
CachedServicesAreCurrent ==
    /\ cachedTree # None =>
         /\ DOMAIN cachedTree = serviceTree
         /\ \A s \in serviceTree :
              /\ cachedTree[s].versions = versions[s]
              /\ cachedTree[s].queue = (s \in queue)
    /\ cachedTasks # None => cachedTasks = serviceTree

\* The first read of the list after a summary, when a tree is built, shows
\* that summary, however often the list was turned around before it, and
\* though failures came after it, as long as the list still holds it.
TreeShowsLatestSummary ==
    [][cachedTree = None /\ cachedTree' # None /\ mesos /\ room > 0 =>
         \A s \in DOMAIN cachedTree' : cachedTree'[s].frameworks = latest]_vars

\* However changes, listeners and the debounced event interleave, nobody who
\* listens is left with an older state once the store has been quiet for
\* longer than the debounce time.
AnnouncedWhenQuiet == quiet > DebounceTime => behind = {}

\* While anybody listens the sources are listened to, once, and Marathon is
\* polled, whoever else came to MarathonStore or left it meanwhile.
ListenersAreFed ==
    /\ proxies = IF listeners = {} THEN 0 ELSE 1
    /\ listeners # {} /\ marathonAPI => requestInterval

\* Deployments and groups are polled apart.  Unless groups were answered while
\* nobody listened, the deployments shown affect the services of the tree
\* shown, and there are as many as the badge in the sidebar says.
DeploymentsMatchTree ==
    dataReceived =>
      /\ notificationCount = Cardinality(DOMAIN deploymentsList)
      /\ ~ missed => deploymentsList =
           [d \in DOMAIN deploymentsList |-> d \cap serviceTree]

\* A list of versions that is answered after the content of one of them does
\* not take the content away again.
FetchedVersionsKept ==
    [][\A s \in Service, v \in Version :
         versions[s][v] = "fetched" => versions'[s][v] = "fetched"]_vars
=============================================================================
