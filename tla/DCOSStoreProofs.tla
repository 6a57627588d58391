--------------------------- MODULE DCOSStoreProofs ---------------------------
(***************************************************************************)
(* The theorems about DCOSStore, for any services, deployments, versions,   *)
(* listeners and capabilities, and any debounce time.                       *)
(***************************************************************************)
EXTENDS DCOSStore, TLAPS

\* Who listens to MarathonStore is polled for.
PolledWhileHeard ==
    shouldPoll(proxies > 0 /\ marathonAPI, appsListening) => requestInterval

\* Whoever is behind has a timer running, for what is left of the quiet time.
BehindIsTimed == behind # {} => timer \in 0..DebounceTime /\ timer + quiet = DebounceTime

\* The tree is the one MarathonStore keeps, and the deployments were resolved
\* against it.
TreeInStep == dataReceived /\ ~ missed => serviceTree = groups

IInv ==
    /\ StoreTypeOK
    /\ CachedServicesAreCurrent
    /\ ListenersAreFed
    /\ PolledWhileHeard
    /\ BehindIsTimed
    /\ TreeInStep
    /\ DeploymentsMatchTree

\* The three things a handler may do: say nothing, or take up its news, clear
\* the caches and announce.
LEMMA AnnouncedType ==
    ASSUME StoreTypeOK, Announced, listeners' = listeners
    PROVE  /\ behind' \subseteq listeners'
           /\ timer' \in {NoTimer} \cup 0..DebounceTime
           /\ quiet' \in 0..DebounceTime + 1
           /\ CachedServicesAreCurrent'
           /\ BehindIsTimed'
  BY DebounceAssumption DEF StoreTypeOK, Announced, clearServiceTreeCache, emitChange,
     CachedServicesAreCurrent, BehindIsTimed, NoTimer

LEMMA UnheardKeeps ==
    ASSUME StoreTypeOK, CachedServicesAreCurrent, BehindIsTimed, Unheard, UNCHANGED listeners
    PROVE  /\ behind' \subseteq listeners'
           /\ timer' \in {NoTimer} \cup 0..DebounceTime
           /\ quiet' \in 0..DebounceTime + 1
           /\ CachedServicesAreCurrent'
           /\ BehindIsTimed'
  BY DEF StoreTypeOK, Unheard, dataVars, cacheVars, eventVars,
     CachedServicesAreCurrent, BehindIsTimed

\* What the deployments' part of a handler establishes.
LEMMA PopulateMatches ==
    ASSUME MarathonTypeOK', PopulateDeployments, serviceTree' = groups'
    PROVE  /\ DOMAIN deploymentsList' \subseteq Deployment
           /\ DeploymentsMatchTree'
  BY DEF PopulateDeployments, MarathonTypeOK, DeploymentsMatchTree

LEMMA InitEstablishes == Init => IInv
  <1> SUFFICES ASSUME Init PROVE IInv OBVIOUS
  <1>1. StoreTypeOK
    <2>1. MarathonTypeOK
      BY DEF Init, MarathonInit, MarathonTypeOK
    <2>2. versions \in [Service -> [Version -> Knowledge]]
      <3>1. [v \in Version |-> "unknown"] \in [Version -> Knowledge]
        BY DEF Knowledge
      <3> QED BY <3>1 DEF Init
    <2>3. DOMAIN deploymentsList = {}
      BY DEF Init
    <2>4. timer \in {NoTimer} \cup 0..DebounceTime /\ quiet \in 0..DebounceTime + 1
      BY DebounceAssumption DEF Init
    <2>5. proxies \in Nat
      BY DEF Init
    <2>6. dataReceived \in BOOLEAN /\ mesos \in BOOLEAN /\ missed \in BOOLEAN
      BY DEF Init
    <2>7. /\ serviceTree \subseteq Service /\ queue \subseteq Service
          /\ listeners \subseteq Listener /\ behind \subseteq listeners
      BY DEF Init
    <2> QED BY <2>1, <2>2, <2>3, <2>4, <2>5, <2>6, <2>7 DEF StoreTypeOK
  <1>2. CachedServicesAreCurrent /\ BehindIsTimed /\ TreeInStep /\ DeploymentsMatchTree
    BY DEF Init, CachedServicesAreCurrent, BehindIsTimed, TreeInStep, DeploymentsMatchTree
  <1>3. ListenersAreFed /\ PolledWhileHeard
    BY DEF Init, MarathonInit, ListenersAreFed, PolledWhileHeard, shouldPoll
  <1> QED BY <1>1, <1>2, <1>3 DEF IInv

----------------------------------------------------------------------------
\* An answer changes neither who listens nor what is polled for.
LEMMA StayKeepsFeeding ==
    ASSUME IInv, Stay, UNCHANGED <<appsListening, pollVars>>
    PROVE  ListenersAreFed' /\ PolledWhileHeard'
  BY DEF IInv, Stay, pollVars, ListenersAreFed, PolledWhileHeard, shouldPoll

LEMMA GroupsAnswerPreserves == ASSUME IInv, GroupsAnswer PROVE IInv'
  <1>1. UNCHANGED <<deployments, appsListening, pollVars>> /\ groups' \subseteq Service
    BY DEF GroupsAnswer, processMarathonGroups
  <1>2. MarathonTypeOK'
    BY <1>1 DEF IInv, StoreTypeOK, MarathonTypeOK, pollVars
  <1>3. Stay /\ onMarathonGroupsChange /\ missed' = ~ HearsMarathon
    BY DEF GroupsAnswer
  <1>4. ListenersAreFed' /\ PolledWhileHeard'
    BY <1>1, <1>3, StayKeepsFeeding
  <1>5. CASE HearsMarathon
    <2>1. /\ serviceTree' = groups' /\ dataReceived' = TRUE
          /\ PopulateDeployments /\ Announced
          /\ UNCHANGED <<queue, versions, mesos>> /\ missed' = FALSE
      BY <1>3, <1>5 DEF onMarathonGroupsChange
    <2>2. DOMAIN deploymentsList' \subseteq Deployment /\ DeploymentsMatchTree'
      BY <1>2, <2>1, PopulateMatches
    <2>3. /\ behind' \subseteq listeners' /\ timer' \in {NoTimer} \cup 0..DebounceTime
          /\ quiet' \in 0..DebounceTime + 1 /\ CachedServicesAreCurrent' /\ BehindIsTimed'
      BY <1>3, <2>1, AnnouncedType DEF IInv, Stay
    <2>4. StoreTypeOK'
      BY <1>1, <1>2, <1>3, <2>1, <2>2, <2>3 DEF IInv, StoreTypeOK, Stay
    <2>5. TreeInStep'
      BY <2>1 DEF TreeInStep
    <2> QED BY <1>4, <2>2, <2>3, <2>4, <2>5 DEF IInv
  <1>6. CASE ~ HearsMarathon
    <2>1. Unheard /\ missed' = TRUE
      BY <1>3, <1>6 DEF onMarathonGroupsChange
    <2>2. /\ behind' \subseteq listeners' /\ timer' \in {NoTimer} \cup 0..DebounceTime
          /\ quiet' \in 0..DebounceTime + 1 /\ CachedServicesAreCurrent' /\ BehindIsTimed'
      BY <1>3, <2>1, UnheardKeeps DEF IInv, Stay
    <2>3. StoreTypeOK'
      BY <1>2, <1>3, <2>1, <2>2 DEF IInv, StoreTypeOK, Stay, Unheard, dataVars
    <2>4. TreeInStep' /\ DeploymentsMatchTree'
      BY <2>1 DEF IInv, TreeInStep, DeploymentsMatchTree, Unheard, dataVars
    <2> QED BY <1>4, <2>2, <2>3, <2>4 DEF IInv
  <1> QED BY <1>5, <1>6

\* An answer about deployments, whatever it does to them.
LEMMA DeploymentsPreserve ==
    ASSUME IInv, MarathonTypeOK', UNCHANGED <<groups, appsListening, pollVars, missed>>,
           onMarathonDeploymentsChange, Stay
    PROVE  IInv'
  <1>1. ListenersAreFed' /\ PolledWhileHeard'
    BY StayKeepsFeeding
  <1>2. CASE HearsMarathon /\ dataReceived
    <2>1. /\ PopulateDeployments /\ Announced
          /\ UNCHANGED <<serviceTree, queue, versions, dataReceived, mesos>>
      BY <1>2 DEF onMarathonDeploymentsChange
    <2>2. /\ behind' \subseteq listeners' /\ timer' \in {NoTimer} \cup 0..DebounceTime
          /\ quiet' \in 0..DebounceTime + 1 /\ CachedServicesAreCurrent' /\ BehindIsTimed'
      BY <2>1, AnnouncedType DEF IInv, Stay
    <2>3. DOMAIN deploymentsList' = deployments'
      BY <2>1 DEF PopulateDeployments
    <2>4. StoreTypeOK'
      BY <2>1, <2>2, <2>3 DEF IInv, StoreTypeOK, MarathonTypeOK, Stay
    <2>5. TreeInStep'
      BY <2>1 DEF IInv, TreeInStep
    <2>6. DeploymentsMatchTree'
      BY <2>1, <2>5 DEF PopulateDeployments, TreeInStep, DeploymentsMatchTree
    <2> QED BY <1>1, <2>2, <2>4, <2>5, <2>6 DEF IInv
  <1>3. CASE ~ (HearsMarathon /\ dataReceived)
    <2>1. Unheard
      BY <1>3 DEF onMarathonDeploymentsChange
    <2>2. /\ behind' \subseteq listeners' /\ timer' \in {NoTimer} \cup 0..DebounceTime
          /\ quiet' \in 0..DebounceTime + 1 /\ CachedServicesAreCurrent' /\ BehindIsTimed'
      BY <2>1, UnheardKeeps DEF IInv, Stay
    <2>3. StoreTypeOK'
      BY <2>1, <2>2 DEF IInv, StoreTypeOK, Stay, Unheard, dataVars
    <2>4. TreeInStep' /\ DeploymentsMatchTree'
      BY <2>1 DEF IInv, TreeInStep, DeploymentsMatchTree, Unheard, dataVars
    <2> QED BY <1>1, <2>2, <2>3, <2>4 DEF IInv
  <1> QED BY <1>2, <1>3

\* News of neither groups nor deployments: the queue, versions or frameworks.
LEMMA NewsPreserves ==
    ASSUME IInv, PassesOn, UNCHANGED <<listeners, proxies, missed>>,
           Announced, UNCHANGED <<serviceTree, deploymentsList, dataReceived, notificationCount>>,
           queue' \subseteq Service,
           versions' \in [Service -> [Version -> Knowledge]],
           mesos' \in BOOLEAN
    PROVE  IInv'
  <1>1. ListenersAreFed' /\ PolledWhileHeard'
    BY DEF IInv, PassesOn, marathonVars, pollVars, ListenersAreFed, PolledWhileHeard, shouldPoll
  <1>2. MarathonTypeOK'
    BY DEF IInv, StoreTypeOK, MarathonTypeOK, PassesOn, marathonVars, pollVars
  <1>3. /\ behind' \subseteq listeners' /\ timer' \in {NoTimer} \cup 0..DebounceTime
        /\ quiet' \in 0..DebounceTime + 1 /\ CachedServicesAreCurrent' /\ BehindIsTimed'
    BY AnnouncedType DEF IInv
  <1>4. StoreTypeOK'
    BY <1>2, <1>3 DEF IInv, StoreTypeOK
  <1>5. TreeInStep' /\ DeploymentsMatchTree'
    BY DEF IInv, TreeInStep, DeploymentsMatchTree, PassesOn, marathonVars
  <1> QED BY <1>1, <1>3, <1>4, <1>5 DEF IInv

\* An event nobody listens to.
LEMMA UnheardPreserves ==
    ASSUME IInv, PassesOn, UNCHANGED <<listeners, proxies, missed>>, Unheard
    PROVE  IInv'
  <1>1. UNCHANGED <<marathonVars, dataVars, cacheVars, eventVars, listeners, proxies, missed>>
    BY DEF PassesOn, Unheard
  <1> QED BY <1>1 DEF IInv, StoreTypeOK, MarathonTypeOK, CachedServicesAreCurrent, ListenersAreFed,
     PolledWhileHeard, BehindIsTimed, TreeInStep, DeploymentsMatchTree,
     vars, marathonVars, pollVars, dataVars, cacheVars, eventVars

LEMMA HearsVersionsPreserves ==
    ASSUME IInv, PassesOn, Stay, UNCHANGED missed,
           NEW s \in Service, NEW known \in [Version -> Knowledge],
           HearsVersions(s, known)
    PROVE  IInv'
  <1>1. CASE HearsMarathon
    <2>1. versions' \in [Service -> [Version -> Knowledge]]
      BY <1>1 DEF HearsVersions, IInv, StoreTypeOK
    <2> QED BY <1>1, <2>1, NewsPreserves DEF HearsVersions, Stay, IInv, StoreTypeOK
  <1>2. CASE ~ HearsMarathon
    BY <1>2, UnheardPreserves DEF HearsVersions, Stay
  <1> QED BY <1>1, <1>2

LEMMA AnswersPreserve ==
    ASSUME IInv,
           \/ DeploymentsAnswer \/ RollbackAnswer \/ QueueAnswer
           \/ VersionAnswer \/ VersionsAnswer \/ SummaryAnswer
           \/ SummaryFails \/ SummaryRead
    PROVE  IInv'
  <1>1. CASE DeploymentsAnswer
    <2>1. /\ deployments' \subseteq Deployment
          /\ UNCHANGED <<groups, appsListening, pollVars, missed>>
      BY <1>1 DEF DeploymentsAnswer, processMarathonDeployments
    <2>2. MarathonTypeOK'
      BY <2>1 DEF IInv, StoreTypeOK, MarathonTypeOK, pollVars
    <2> QED BY <1>1, <2>1, <2>2, DeploymentsPreserve DEF DeploymentsAnswer
  <1>2. CASE RollbackAnswer
    <2>1. /\ deployments' \subseteq deployments
          /\ UNCHANGED <<groups, appsListening, pollVars, missed>>
      BY <1>2 DEF RollbackAnswer, processMarathonDeploymentRollback
    <2>2. MarathonTypeOK'
      BY <2>1 DEF IInv, StoreTypeOK, MarathonTypeOK, pollVars
    <2> QED BY <1>2, <2>1, <2>2, DeploymentsPreserve DEF RollbackAnswer
  <1>3. CASE QueueAnswer
    <2>1. PICK answer \in SUBSET Service : onMarathonQueueChange(answer)
      BY <1>3 DEF QueueAnswer
    <2>2. PassesOn /\ Stay /\ UNCHANGED missed
      BY <1>3 DEF QueueAnswer
    <2>3. CASE HearsMarathon
      BY <2>1, <2>2, <2>3, NewsPreserves DEF onMarathonQueueChange, Stay, IInv, StoreTypeOK
    <2>4. CASE ~ HearsMarathon
      BY <2>1, <2>2, <2>4, UnheardPreserves DEF onMarathonQueueChange, Stay
    <2> QED BY <2>3, <2>4
  <1>4. CASE VersionAnswer
    <2>1. PICK s \in Service, v \in Version : onMarathonServiceVersionChange(s, v)
      BY <1>4 DEF VersionAnswer
    <2>2. [versions[s] EXCEPT ![v] = "fetched"] \in [Version -> Knowledge]
      BY DEF IInv, StoreTypeOK, Knowledge
    <2> QED BY <1>4, <2>1, <2>2, HearsVersionsPreserves
         DEF VersionAnswer, onMarathonServiceVersionChange
  <1>5. CASE VersionsAnswer
    <2>1. PICK s \in Service, list \in SUBSET Version : onMarathonServiceVersionsChange(s, list)
      BY <1>5 DEF VersionsAnswer
    <2> DEFINE known == [v \in Version |->
          IF v \in list /\ versions[s][v] = "unknown" THEN "listed" ELSE versions[s][v]]
    <2>2. known \in [Version -> Knowledge]
      BY DEF IInv, StoreTypeOK, Knowledge
    <2>3. HearsVersions(s, known)
      BY <2>1 DEF onMarathonServiceVersionsChange
    <2> HIDE DEF known
    <2> QED BY <1>5, <2>2, <2>3, HearsVersionsPreserves DEF VersionsAnswer
  <1>6. CASE SummaryAnswer
    <2>1. PassesOn /\ UNCHANGED <<listeners, proxies, missed>> /\ onMesosSummaryChange
      BY <1>6 DEF SummaryAnswer
    <2>2. CASE HearsMesos
      BY <2>1, <2>2, NewsPreserves DEF onMesosSummaryChange, IInv, StoreTypeOK
    <2>3. CASE ~ HearsMesos
      BY <2>1, <2>3, UnheardPreserves DEF onMesosSummaryChange
    <2> QED BY <2>2, <2>3
  <1>7. CASE SummaryFails \/ SummaryRead
    BY <1>7, UnheardPreserves DEF SummaryFails, SummaryRead
  <1> QED BY <1>1, <1>2, <1>3, <1>4, <1>5, <1>6, <1>7

----------------------------------------------------------------------------
(* Listeners.                                                               *)

\* Who comes or leaves changes no data, cache or history but `behind`.
LEMMA ListenersKeepData ==
    ASSUME IInv, UNCHANGED <<groups, deployments, dataVars, cacheVars, timer, quiet, missed>>,
           behind' \subseteq behind, behind' \subseteq listeners',
           listeners' \subseteq Listener,
           proxies' \in Nat, appsListening' \in BOOLEAN,
           requestInterval' \in BOOLEAN, polled' \in BOOLEAN
    PROVE  StoreTypeOK' /\ CachedServicesAreCurrent' /\ BehindIsTimed' /\ TreeInStep' /\ DeploymentsMatchTree'
  <1>1. StoreTypeOK'
    BY DEF IInv, StoreTypeOK, MarathonTypeOK, dataVars
  <1>2. CachedServicesAreCurrent'
    BY DEF IInv, CachedServicesAreCurrent, dataVars, cacheVars
  <1>3. BehindIsTimed'
    BY DEF IInv, BehindIsTimed
  <1>4. TreeInStep' /\ DeploymentsMatchTree'
    BY DEF IInv, TreeInStep, DeploymentsMatchTree, dataVars
  <1> QED BY <1>1, <1>2, <1>3, <1>4

LEMMA OnPreserves ==
    ASSUME IInv, NEW l \in Listener, on(l)
    PROVE  IInv'
  <1>1. /\ listeners' = listeners \cup {l}
        /\ UNCHANGED <<groups, deployments, appsListening, dataVars, cacheVars, missed>>
        /\ UNCHANGED <<timer, quiet, behind>>
    BY DEF on, eventVars
  <1>2. IF listeners = {} THEN addProxyListeners ELSE UNCHANGED <<proxies, pollVars>>
    BY DEF on
  <1>3. proxies = (IF listeners = {} THEN 0 ELSE 1) /\ proxies \in Nat
    BY DEF IInv, ListenersAreFed, StoreTypeOK
  <1>4. proxies' = 1
    <2>1. CASE listeners = {}
      <3>1. proxies = 0
        BY <1>3, <2>1
      <3>2. proxies' = proxies + 1
        BY <1>2, <2>1, Zenon DEF addProxyListeners
      <3> QED BY <3>1, <3>2
    <2>2. CASE listeners # {}
      BY <1>2, <1>3, <2>2
    <2> QED BY <2>1, <2>2
  <1>5. marathonAPI => requestInterval'
    BY <1>2, <1>3 DEF addProxyListeners, addChangeListener, shouldPoll, startPolling,
       IInv, ListenersAreFed, pollVars
  <1>6. appsListening => requestInterval'
    BY <1>2 DEF addProxyListeners, addChangeListener, shouldPoll, startPolling,
       IInv, PolledWhileHeard, pollVars
  <1>7. requestInterval' \in BOOLEAN /\ polled' \in BOOLEAN
    BY <1>2 DEF addProxyListeners, addChangeListener, startPolling, IInv, StoreTypeOK,
       MarathonTypeOK, pollVars
  <1>8. ListenersAreFed'
    BY <1>1, <1>4, <1>5 DEF ListenersAreFed
  <1>9. PolledWhileHeard'
    BY <1>1, <1>5, <1>6 DEF PolledWhileHeard, shouldPoll
  <1>10. behind' \subseteq listeners' /\ listeners' \subseteq Listener
         /\ appsListening' \in BOOLEAN
    BY <1>1 DEF IInv, StoreTypeOK, MarathonTypeOK
  <1> QED BY <1>1, <1>4, <1>7, <1>8, <1>9, <1>10, ListenersKeepData DEF IInv

LEMMA RemoveListenerPreserves ==
    ASSUME IInv, NEW l \in Listener, removeListener(l)
    PROVE  IInv'
  <1>1. /\ listeners' = listeners \ {l} /\ behind' = behind \ {l}
        /\ UNCHANGED <<groups, deployments, appsListening, dataVars, cacheVars, timer, quiet, missed>>
    BY DEF removeListener
  <1>2. IF listeners' = {} THEN removeProxyListeners ELSE UNCHANGED <<proxies, pollVars>>
    BY DEF removeListener
  <1>3. proxies = (IF listeners = {} THEN 0 ELSE 1)
    BY DEF IInv, ListenersAreFed
  <1>4. proxies' = IF listeners' = {} THEN 0 ELSE 1
    BY <1>1, <1>2, <1>3 DEF removeProxyListeners
  <1>5. listeners' # {} /\ marathonAPI => requestInterval'
    BY <1>1, <1>2 DEF IInv, ListenersAreFed, pollVars
  <1>6. appsListening => requestInterval'
    BY <1>2 DEF removeProxyListeners, removeChangeListener, shouldPoll, IInv,
       PolledWhileHeard, pollVars
  <1>7. requestInterval' \in BOOLEAN /\ polled' \in BOOLEAN
    BY <1>2 DEF removeProxyListeners, removeChangeListener, stopPolling, IInv, StoreTypeOK,
       MarathonTypeOK, pollVars
  <1>8. ListenersAreFed'
    BY <1>4, <1>5 DEF ListenersAreFed
  <1>9. PolledWhileHeard'
    BY <1>1, <1>4, <1>5, <1>6 DEF PolledWhileHeard, shouldPoll
  <1>10. /\ behind' \subseteq behind /\ behind' \subseteq listeners'
         /\ listeners' \subseteq Listener /\ appsListening' \in BOOLEAN /\ proxies' \in Nat
    BY <1>1, <1>4 DEF IInv, StoreTypeOK, MarathonTypeOK
  <1> QED BY <1>1, <1>7, <1>8, <1>9, <1>10, ListenersKeepData DEF IInv

LEMMA MarathonListenersPreserve ==
    ASSUME IInv, MarathonListeners
    PROVE  IInv'
  <1>1. /\ UNCHANGED <<groups, deployments, dataVars, cacheVars, missed>>
        /\ UNCHANGED <<timer, quiet, behind, listeners, proxies>>
    BY DEF MarathonListeners, eventVars, AppsListenerComes, AppsListenerLeaves,
       OtherListenerComes, OtherListenerLeaves, setShouldEmbedLastUnusedOffers
  <1>2. /\ appsListening' \in BOOLEAN
        /\ requestInterval' \in BOOLEAN /\ polled' \in BOOLEAN
    BY DEF MarathonListeners, AppsListenerComes, AppsListenerLeaves,
       OtherListenerComes, OtherListenerLeaves, setShouldEmbedLastUnusedOffers,
       addChangeListener, removeChangeListener, startPolling, stopPolling, pollVars,
       IInv, StoreTypeOK, MarathonTypeOK
  <1>3. shouldPoll(HearsMarathon, appsListening') => requestInterval'
    BY DEF MarathonListeners, AppsListenerComes, AppsListenerLeaves,
       OtherListenerComes, OtherListenerLeaves, setShouldEmbedLastUnusedOffers,
       addChangeListener, removeChangeListener, startPolling, stopPolling, pollVars,
       shouldPoll, HearsMarathon, IInv, PolledWhileHeard
  <1>4. PolledWhileHeard'
    BY <1>1, <1>3 DEF PolledWhileHeard, shouldPoll, HearsMarathon
  <1>5. ListenersAreFed'
    BY <1>1, <1>3 DEF IInv, ListenersAreFed, shouldPoll, HearsMarathon
  <1>6. behind' \subseteq behind /\ behind' \subseteq listeners'
        /\ listeners' \subseteq Listener /\ proxies' \in Nat
    BY <1>1 DEF IInv, StoreTypeOK
  <1> QED BY <1>1, <1>2, <1>4, <1>5, <1>6, ListenersKeepData DEF IInv

----------------------------------------------------------------------------
(* Reads, and time.                                                         *)

\* A step that leaves everything alone that IInv speaks of but the caches.
LEMMA ReadsKeepTheRest ==
    ASSUME IInv, UNCHANGED <<marathonVars, dataVars, eventVars, listeners, proxies, missed>>
    PROVE  /\ StoreTypeOK' /\ ListenersAreFed' /\ PolledWhileHeard' /\ BehindIsTimed'
           /\ TreeInStep' /\ DeploymentsMatchTree'
  <1>1. StoreTypeOK'
    BY DEF IInv, StoreTypeOK, MarathonTypeOK, marathonVars, pollVars, dataVars, eventVars
  <1>2. ListenersAreFed' /\ PolledWhileHeard' /\ BehindIsTimed'
    BY DEF IInv, ListenersAreFed, PolledWhileHeard, shouldPoll, BehindIsTimed,
       marathonVars, pollVars, eventVars
  <1>3. TreeInStep' /\ DeploymentsMatchTree'
    BY DEF IInv, TreeInStep, DeploymentsMatchTree, marathonVars, dataVars
  <1> QED BY <1>1, <1>2, <1>3

\* What the part of CachedServicesAreCurrent says that is about the tree.
TreeIsCurrent ==
    /\ DOMAIN cachedTree = serviceTree
    /\ \A s \in serviceTree :
         /\ cachedTree[s].versions = versions[s]
         /\ cachedTree[s].queue = (s \in queue)

\* A tree that was cached, or was just built, is the one of the data.
LEMMA TreeServed ==
    ASSUME IInv, ServiceTree, UNCHANGED dataVars
    PROVE  TreeIsCurrent'
  <1>1. CASE cachedTree = None
    <2>1. cachedTree' = buildServiceTree
      BY <1>1 DEF ServiceTree
    <2> DEFINE frameworks == IF mesos THEN lastSuccessful(states) ELSE 0
    <2>2. buildServiceTree =
            [s \in serviceTree |->
               [versions |-> versions[s], queue |-> s \in queue, frameworks |-> frameworks]]
      BY DEF buildServiceTree
    <2> HIDE DEF frameworks
    <2> QED BY <2>1, <2>2, Zenon DEF TreeIsCurrent, dataVars
  <1>2. CASE cachedTree # None
    BY <1>2 DEF ServiceTree, IInv, CachedServicesAreCurrent, TreeIsCurrent, dataVars
  <1> QED BY <1>1, <1>2

LEMMA ReadsPreserve ==
    ASSUME IInv, ReadTree \/ ReadTasks
    PROVE  IInv'
  <1>1. UNCHANGED <<marathonVars, dataVars, eventVars, listeners, proxies, missed>>
    BY DEF ReadTree, ReadTasks
  <1>2. ASSUME ReadTree PROVE CachedServicesAreCurrent'
    <2>1. ServiceTree /\ UNCHANGED <<dataVars, cachedTasks>>
      BY <1>2 DEF ReadTree
    <2>2. TreeIsCurrent'
      BY <2>1, TreeServed
    <2> QED BY <2>1, <2>2 DEF TreeIsCurrent, IInv, CachedServicesAreCurrent, dataVars
  <1>3. ASSUME ReadTasks PROVE CachedServicesAreCurrent'
    <2>1. CASE cachedTasks = None
      <3>1. ServiceTree /\ cachedTasks' = DOMAIN cachedTree' /\ UNCHANGED dataVars
        BY <1>3, <2>1 DEF ReadTasks, buildFlatServiceTree
      <3>2. TreeIsCurrent'
        BY <3>1, TreeServed
      <3> QED BY <3>1, <3>2 DEF TreeIsCurrent, CachedServicesAreCurrent
    <2>2. CASE cachedTasks # None
      BY <1>1, <1>3, <2>2 DEF ReadTasks, cacheVars, dataVars, IInv, CachedServicesAreCurrent
    <2> QED BY <2>1, <2>2
  <1> QED BY <1>1, <1>2, <1>3, ReadsKeepTheRest DEF IInv

LEMMA TimePreserves ==
    ASSUME IInv, Announce \/ Tick
    PROVE  IInv'
  <1>1. UNCHANGED <<marathonVars, dataVars, cacheVars, listeners, proxies, missed>>
    BY DEF Announce, Tick
  <1>2. CachedServicesAreCurrent' /\ TreeInStep' /\ DeploymentsMatchTree'
    BY <1>1 DEF IInv, CachedServicesAreCurrent, TreeInStep, DeploymentsMatchTree,
       marathonVars, dataVars, cacheVars
  <1>3. ListenersAreFed' /\ PolledWhileHeard'
    BY <1>1 DEF IInv, ListenersAreFed, PolledWhileHeard, shouldPoll, marathonVars, pollVars
  <1>4. /\ timer' \in {NoTimer} \cup 0..DebounceTime /\ quiet' \in 0..DebounceTime + 1
        /\ BehindIsTimed' /\ behind' \subseteq listeners'
    <2>1. CASE Announce
      BY <2>1 DEF Announce, IInv, StoreTypeOK, BehindIsTimed
    <2>2. CASE Tick
      BY <2>2, DebounceAssumption DEF Tick, IInv, StoreTypeOK, BehindIsTimed, NoTimer
    <2> QED BY <2>1, <2>2
  <1>5. StoreTypeOK'
    BY <1>1, <1>4 DEF IInv, StoreTypeOK, MarathonTypeOK, marathonVars, pollVars, dataVars
  <1> QED BY <1>2, <1>3, <1>4, <1>5 DEF IInv

----------------------------------------------------------------------------
LEMMA NextPreserves == IInv /\ [Next]_vars => IInv'
  <1> SUFFICES ASSUME IInv, [Next]_vars PROVE IInv' OBVIOUS
  <1>1. CASE GroupsAnswer
    BY <1>1, GroupsAnswerPreserves
  <1>2. CASE \/ DeploymentsAnswer \/ RollbackAnswer \/ QueueAnswer
             \/ VersionAnswer \/ VersionsAnswer \/ SummaryAnswer
           \/ SummaryFails \/ SummaryRead
    BY <1>2, AnswersPreserve
  <1>3. CASE \E l \in Listener : on(l)
    BY <1>3, OnPreserves
  <1>4. CASE \E l \in Listener : removeListener(l)
    BY <1>4, RemoveListenerPreserves
  <1>5. CASE MarathonListeners
    BY <1>5, MarathonListenersPreserve
  <1>6. CASE ReadTree \/ ReadTasks
    BY <1>6, ReadsPreserve
  <1>7. CASE Announce \/ Tick
    BY <1>7, TimePreserves
  <1>8. CASE UNCHANGED vars
    BY <1>8 DEF IInv, StoreTypeOK, MarathonTypeOK, CachedServicesAreCurrent, ListenersAreFed,
       PolledWhileHeard, BehindIsTimed, TreeInStep, DeploymentsMatchTree,
       shouldPoll, vars, marathonVars, pollVars, dataVars, cacheVars, eventVars
  <1> QED BY <1>1, <1>2, <1>3, <1>4, <1>5, <1>6, <1>7, <1>8 DEF Next

LEMMA InductiveInvariant == Spec => []IInv
  BY InitEstablishes, NextPreserves, PTL DEF Spec

----------------------------------------------------------------------------
(* The shared list of summaries.                                            *)

ListTypeOK ==
    /\ states \in Seq(Entry) /\ Len(states) = historyLength
    /\ latest \in Snapshot \cup {0} /\ room \in 0..historyLength

\* While the list still has room for it, the last summary is at that place, and
\* nothing after it is a success.
LatestIsInPlace ==
    room > 0 =>
      /\ states[room].successful /\ states[room].snapshot = latest
      /\ \A i \in room + 1..historyLength : ~ states[i].successful

ListInv == ListTypeOK /\ LatestIsInPlace

\* An entry added to a list that is full.
LEMMA AddedLast ==
    ASSUME NEW list \in Seq(Entry), Len(list) = historyLength, NEW entry \in Entry
    PROVE  /\ add(list, entry) \in Seq(Entry) /\ Len(add(list, entry)) = historyLength
           /\ add(list, entry)[historyLength] = entry
           /\ \A i \in 1..historyLength - 1 : add(list, entry)[i] = list[i + 1]
  <1> DEFINE longer == Append(list, entry)
  <1>1. /\ longer \in Seq(Entry) /\ Len(longer) = historyLength + 1
        /\ longer[historyLength + 1] = entry
        /\ \A i \in 1..historyLength : longer[i] = list[i]
    BY HistoryAssumption
  <1>2. add(list, entry) = Tail(longer)
    BY <1>1, HistoryAssumption DEF add
  <1> HIDE DEF longer
  <1>3. /\ Tail(longer) \in Seq(Entry) /\ Len(Tail(longer)) = historyLength
        /\ \A i \in 1..historyLength : Tail(longer)[i] = longer[i + 1]
    BY <1>1, HistoryAssumption
  <1> QED BY <1>1, <1>2, <1>3, HistoryAssumption

\* A list turned around is one of the same entries.
LEMMA TurnedType ==
    ASSUME NEW list \in Seq(Entry)
    PROVE  reversed(list) \in Seq(Entry) /\ Len(reversed(list)) = Len(list)
  BY DEF reversed, Reverse

LEMMA SummaryAnswerKeepsList ==
    ASSUME ListInv, SummaryAnswer
    PROVE  ListInv'
  <1>1. PICK snapshot \in Snapshot :
          /\ states' = add(states, [snapshot |-> snapshot, successful |-> TRUE])
          /\ latest' = snapshot
    BY DEF SummaryAnswer
  <1> DEFINE entry == [snapshot |-> snapshot, successful |-> TRUE]
  <1>2. entry \in Entry /\ entry.successful /\ entry.snapshot = snapshot
    BY DEF Entry
  <1> HIDE DEF entry
  <1>3. states' = add(states, entry)
    BY <1>1 DEF entry
  <1>4. room' = historyLength
    BY DEF SummaryAnswer
  <1>5. /\ states' \in Seq(Entry) /\ Len(states') = historyLength
        /\ states'[historyLength] = entry
    BY <1>2, <1>3, AddedLast DEF ListInv, ListTypeOK
  <1>6. ListTypeOK'
    BY <1>1, <1>4, <1>5, HistoryAssumption DEF ListTypeOK
  <1>7. LatestIsInPlace'
    BY <1>1, <1>2, <1>4, <1>5, HistoryAssumption DEF LatestIsInPlace
  <1> QED BY <1>6, <1>7 DEF ListInv

LEMMA SummaryFailsKeepsList ==
    ASSUME ListInv, SummaryFails
    PROVE  ListInv'
  <1>1. Failed \in Entry /\ ~ Failed.successful
    BY DEF Failed, Entry
  <1>2. /\ states' = add(states, Failed) /\ latest' = latest
        /\ room' = IF room > 0 THEN room - 1 ELSE 0
    BY DEF SummaryFails
  <1>3. /\ states' \in Seq(Entry) /\ Len(states') = historyLength
        /\ states'[historyLength] = Failed
        /\ \A i \in 1..historyLength - 1 : states'[i] = states[i + 1]
    BY <1>1, <1>2, AddedLast DEF ListInv, ListTypeOK
  <1>4. room \in 0..historyLength /\ room' \in 0..historyLength
    BY <1>2, HistoryAssumption DEF ListInv, ListTypeOK
  <1>5. ListTypeOK'
    BY <1>2, <1>3, <1>4 DEF ListInv, ListTypeOK
  <1>6. ASSUME room' > 0 PROVE LatestIsInPlace'
    <2>1. /\ room > 0 /\ room' = room - 1 /\ room' \in 1..historyLength - 1
      BY <1>2, <1>4, <1>6, HistoryAssumption
    <2>2. states'[room'] = states[room]
      BY <1>3, <1>4, <2>1, HistoryAssumption
    <2>3. ASSUME NEW i \in room' + 1..historyLength PROVE ~ states'[i].successful
      <3>1. CASE i = historyLength
        BY <1>1, <1>3, <3>1
      <3>2. CASE i # historyLength
        <4>1. i \in 1..historyLength - 1 /\ i + 1 \in room + 1..historyLength
          BY <1>4, <2>1, <2>3, <3>2, HistoryAssumption
        <4> QED BY <1>3, <2>1, <4>1 DEF ListInv, LatestIsInPlace
      <3> QED BY <3>1, <3>2
    <2> QED BY <1>2, <2>1, <2>2, <2>3 DEF ListInv, LatestIsInPlace
  <1> QED BY <1>5, <1>6 DEF ListInv, LatestIsInPlace

LEMMA TurnKeepsList ==
    ASSUME ListInv, Turn
    PROVE  ListInv'
  BY TurnedType, HistoryAssumption DEF Turn, ListInv, ListTypeOK, LatestIsInPlace

LEMMA ListInit == Init => ListInv
  <1> SUFFICES ASSUME Init PROVE ListInv OBVIOUS
  <1>1. Failed \in Entry
    BY DEF Failed, Entry
  <1>2. states \in Seq(Entry) /\ Len(states) = historyLength
    BY <1>1, HistoryAssumption DEF Init
  <1> QED BY <1>2, HistoryAssumption DEF Init, ListInv, ListTypeOK, LatestIsInPlace

LEMMA ListStep == ListInv /\ [Next]_vars => ListInv'
  <1> SUFFICES ASSUME ListInv, [Next]_vars PROVE ListInv' OBVIOUS
  <1>1. CASE SummaryAnswer
    BY <1>1, SummaryAnswerKeepsList
  <1>2. CASE SummaryFails
    BY <1>2, SummaryFailsKeepsList
  <1>3. CASE Turn
    BY <1>3, TurnKeepsList
  <1>4. CASE UNCHANGED listVars
    BY <1>4 DEF listVars, ListInv, ListTypeOK, LatestIsInPlace
  <1>5. ASSUME ReadTree \/ ReadTasks PROVE Turn \/ UNCHANGED listVars
    BY <1>5 DEF ReadTree, ReadTasks, ServiceTree
  <1>6. ASSUME ~ SummaryAnswer, ~ SummaryFails, ~ SummaryRead, ~ ReadTree, ~ ReadTasks
        PROVE  UNCHANGED listVars
    BY <1>6 DEF Next, vars, GroupsAnswer, DeploymentsAnswer, RollbackAnswer, QueueAnswer,
       VersionAnswer, VersionsAnswer, Stay, on, removeListener, MarathonListeners,
       Announce, Tick, listVars
  <1>7. SummaryRead => Turn
    BY DEF SummaryRead
  <1> QED BY <1>1, <1>2, <1>3, <1>4, <1>5, <1>6, <1>7

LEMMA ListInvariant == Spec => []ListInv
  BY ListInit, ListStep, PTL DEF Spec

----------------------------------------------------------------------------
\* The store, its sources, the shared list and the history keep their types:
\* no reader changes how long the list is.
THEOREM TypeCorrect == Spec => []TypeOK
  <1>1. IInv /\ ListInv => TypeOK
    BY DEF IInv, ListInv, ListTypeOK, TypeOK
  <1> QED BY <1>1, InductiveInvariant, ListInvariant, PTL

\* No read of the services, of what is known of them, or of their tasks is
\* stale, whichever of the six handlers ran since the last one.
THEOREM CachesCurrent == Spec => []CachedServicesAreCurrent
  <1>1. IInv => CachedServicesAreCurrent
    BY DEF IInv
  <1> QED BY <1>1, InductiveInvariant, PTL

\* Debouncing delays what a listener hears by the debounce time at most, once
\* the changes stop.
THEOREM QuietIsAnnounced == Spec => []AnnouncedWhenQuiet
  <1>1. IInv => AnnouncedWhenQuiet
    BY DebounceAssumption DEF IInv, StoreTypeOK, BehindIsTimed, AnnouncedWhenQuiet
  <1> QED BY <1>1, InductiveInvariant, PTL

\* The proxied listeners are attached once, and Marathon is polled, exactly as
\* long as somebody listens to the store.
THEOREM ListenersFed == Spec => []ListenersAreFed
  <1>1. IInv => ListenersAreFed
    BY DEF IInv
  <1> QED BY <1>1, InductiveInvariant, PTL

\* The deployments shown are resolved against the tree shown.
THEOREM DeploymentsMatch == Spec => []DeploymentsMatchTree
  <1>1. IInv => DeploymentsMatchTree
    BY DEF IInv
  <1> QED BY <1>1, InductiveInvariant, PTL

----------------------------------------------------------------------------
\* The one handler that writes what is known of versions of a service.
LEMMA HearsVersionsKeeps ==
    ASSUME StoreTypeOK, NEW s \in Service, NEW known \in [Version -> Knowledge],
           HearsVersions(s, known),
           \A v \in Version : versions[s][v] = "fetched" => known[v] = "fetched"
    PROVE  \A t \in Service, v \in Version :
             versions[t][v] = "fetched" => versions'[t][v] = "fetched"
  BY DEF HearsVersions, StoreTypeOK, Unheard, dataVars

\* The content of a version, once fetched, is never lost to a list of versions
\* that comes later.
THEOREM VersionsKept == Spec => FetchedVersionsKept
  <1> DEFINE Kept == \A s \in Service, v \in Version :
        versions[s][v] = "fetched" => versions'[s][v] = "fetched"
  <1>1. ASSUME StoreTypeOK, Next PROVE Kept
    <2>1. CASE VersionAnswer
      <3>1. PICK s \in Service, v \in Version : onMarathonServiceVersionChange(s, v)
        BY <2>1 DEF VersionAnswer
      <3> DEFINE known == [versions[s] EXCEPT ![v] = "fetched"]
      <3>2. known \in [Version -> Knowledge]
        BY <1>1 DEF StoreTypeOK, Knowledge
      <3>3. \A w \in Version : versions[s][w] = "fetched" => known[w] = "fetched"
        BY <1>1 DEF StoreTypeOK
      <3>4. HearsVersions(s, known)
        BY <3>1 DEF onMarathonServiceVersionChange
      <3> HIDE DEF known
      <3> QED BY <1>1, <3>2, <3>3, <3>4, HearsVersionsKeeps
    <2>2. CASE VersionsAnswer
      <3>1. PICK s \in Service, list \in SUBSET Version : onMarathonServiceVersionsChange(s, list)
        BY <2>2 DEF VersionsAnswer
      <3> DEFINE known == [v \in Version |->
            IF v \in list /\ versions[s][v] = "unknown" THEN "listed" ELSE versions[s][v]]
      <3>2. known \in [Version -> Knowledge]
        BY <1>1 DEF StoreTypeOK, Knowledge
      <3>3. \A w \in Version : versions[s][w] = "fetched" => known[w] = "fetched"
        OBVIOUS
      <3>4. HearsVersions(s, known)
        BY <3>1 DEF onMarathonServiceVersionsChange
      <3> HIDE DEF known
      <3> QED BY <1>1, <3>2, <3>3, <3>4, HearsVersionsKeeps
    <2>3. CASE ~ VersionAnswer /\ ~ VersionsAnswer
      <3>1. UNCHANGED versions
        BY <1>1, <2>3 DEF Next, GroupsAnswer, DeploymentsAnswer, RollbackAnswer, QueueAnswer,
           SummaryAnswer, SummaryFails, SummaryRead, onMarathonGroupsChange, onMarathonDeploymentsChange,
           onMarathonQueueChange, onMesosSummaryChange, Unheard, on, removeListener,
           MarathonListeners, ReadTree, ReadTasks, Announce, Tick, dataVars
      <3> QED BY <3>1
    <2> QED BY <2>1, <2>2, <2>3
  <1>2. ASSUME StoreTypeOK, UNCHANGED vars PROVE UNCHANGED vars
    BY <1>2
  <1>3. StoreTypeOK /\ [Next]_vars => [Kept]_vars
    BY <1>1, <1>2
  <1>4. IInv => StoreTypeOK
    BY DEF IInv
  <1> QED BY <1>3, <1>4, InductiveInvariant, PTL DEF Spec, FetchedVersionsKept

----------------------------------------------------------------------------
\* What lastSuccessful() finds while nobody has turned the list since.
LEMMA LatestIsFound ==
    ASSUME ListInv, room > 0
    PROVE  lastSuccessful(states) = latest
  <1> DEFINE found == {i \in DOMAIN states : states[i].successful}
             last == {i \in found : \A j \in found : j <= i}
  <1>1. DOMAIN states = 1..historyLength /\ room \in 1..historyLength
    BY HistoryAssumption DEF ListInv, ListTypeOK
  <1>2. room \in found
    BY <1>1 DEF ListInv, LatestIsInPlace
  <1>3. \A j \in found : j \in 1..historyLength /\ j <= room
    BY <1>1, HistoryAssumption DEF ListInv, LatestIsInPlace
  <1>4. last = {room}
    <2>1. room \in last
      BY <1>2, <1>3
    <2>2. ASSUME NEW i \in last PROVE i = room
      <3>1. i \in found /\ room <= i
        BY <1>2, <2>2
      <3> HIDE DEF found
      <3> QED BY <1>1, <1>3, <3>1, HistoryAssumption
    <2> QED BY <2>1, <2>2
  <1>5. lastSuccessful(states) =
          IF last = {} THEN 0 ELSE states[CHOOSE i \in last : TRUE].snapshot
    BY DEF lastSuccessful
  <1> HIDE DEF last, found
  <1>6. (CHOOSE i \in last : TRUE) = room /\ last # {}
    BY <1>4
  <1>7. lastSuccessful(states) = states[room].snapshot
    BY <1>5, <1>6
  <1> QED BY <1>7 DEF ListInv, LatestIsInPlace

\* The first build after a summary shows it, for any length of the history and
\* whatever pages read and answers failed before.
THEOREM LatestIsShown == Spec => TreeShowsLatestSummary
  <1> DEFINE Shown == cachedTree = None /\ cachedTree' # None /\ mesos /\ room > 0 =>
        \A s \in DOMAIN cachedTree' : cachedTree'[s].frameworks = latest
  <1>1. ASSUME ListInv, Next PROVE Shown
    <2> SUFFICES ASSUME cachedTree = None, cachedTree' # None, mesos, room > 0
                 PROVE  \A s \in DOMAIN cachedTree' : cachedTree'[s].frameworks = latest
      OBVIOUS
    <2>1. ServiceTree
      <3>1. ASSUME ~ ReadTree, ~ ReadTasks PROVE cachedTree' \in {None, cachedTree}
        <4>1. ASSUME Announced PROVE cachedTree' = None
          BY <4>1 DEF Announced, clearServiceTreeCache
        <4>2. ASSUME Unheard PROVE cachedTree' = cachedTree
          BY <4>2 DEF Unheard, cacheVars
        <4>3. CASE GroupsAnswer
          BY <4>1, <4>2, <4>3 DEF GroupsAnswer, onMarathonGroupsChange
        <4>4. CASE DeploymentsAnswer \/ RollbackAnswer
          BY <4>1, <4>2, <4>4 DEF DeploymentsAnswer, RollbackAnswer, onMarathonDeploymentsChange
        <4>5. CASE QueueAnswer
          BY <4>1, <4>2, <4>5 DEF QueueAnswer, onMarathonQueueChange
        <4>6. CASE VersionAnswer \/ VersionsAnswer
          BY <4>1, <4>2, <4>6 DEF VersionAnswer, VersionsAnswer,
             onMarathonServiceVersionChange, onMarathonServiceVersionsChange, HearsVersions
        <4>7. CASE SummaryAnswer \/ SummaryFails \/ SummaryRead
          BY <4>1, <4>2, <4>7 DEF SummaryAnswer, SummaryFails, SummaryRead, onMesosSummaryChange
        <4>8. ASSUME \/ \E l \in Listener : on(l)
                     \/ \E l \in Listener : removeListener(l)
                     \/ MarathonListeners \/ Announce \/ Tick
              PROVE  cachedTree' = cachedTree
          BY <4>8 DEF on, removeListener, MarathonListeners, Announce, Tick, cacheVars
        <4> QED BY <1>1, <3>1, <4>3, <4>4, <4>5, <4>6, <4>7, <4>8 DEF Next
      <3>2. ASSUME ReadTasks PROVE ServiceTree
        BY <3>2 DEF ReadTasks, cacheVars
      <3> QED BY <3>1, <3>2 DEF ReadTree
    <2>2. cachedTree' = buildServiceTree
      BY <2>1 DEF ServiceTree
    <2>3. lastSuccessful(states) = latest
      BY <1>1, LatestIsFound
    <2>4. buildServiceTree =
            [s \in serviceTree |->
               [versions |-> versions[s], queue |-> s \in queue, frameworks |-> latest]]
      BY <2>3 DEF buildServiceTree
    <2> QED BY <2>2, <2>4
  <1>2. ListInv /\ [Next]_vars => [Shown]_vars
    BY <1>1
  <1> QED BY <1>2, ListInvariant, PTL DEF Spec, TreeShowsLatestSummary
=============================================================================
