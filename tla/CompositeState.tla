--------------------------- MODULE CompositeState ---------------------------
(***************************************************************************)
(* src/js/structs/CompositeState.ts: the one object the pages read nodes   *)
(* from.  It merges what three stores feed it: the summary of the cluster, *)
(* the health of its nodes and the elected master.  Pages that do not need *)
(* it disable it while they are shown; what arrives meanwhile is put by    *)
(* and taken up when the last of them is gone.                             *)
(*                                                                         *)
(* A summary is reduced to the hosts it lists, a health report to a        *)
(* function from the hosts it covers; both carry a serial number that      *)
(* stands for everything else in them.                                     *)
(***************************************************************************)
EXTENDS Integers, FiniteSets

CONSTANTS
    Hosts,
    Health,          \* what a report says of a host
    Missing,         \* MISSING_HEALTH_NODE: no report of the host
    Null,            \* no data: null, undefined
    MaxUpdates,      \* bound: summaries and reports together
    MaxPages         \* bound: pages that have it disabled at a time

ASSUME ConstantsAssumption ==
    /\ Missing \notin Health
    /\ MaxUpdates \in Nat /\ MaxPages \in Nat

VARIABLES
    refCount,          \* _refCount
    storedNodeHealth,  \* what was put by, or Null
    storedState,
    nodeHealthData,    \* the memoized health of the nodes
    masterInfo,        \* serial number of the master known, 0: none
    data,              \* _data: the summary, with the health of its slaves
    nodesList,         \* _nodesList: the list made of _data, or Null
    pages,             \* pages that called disable() and not yet enable()
    updates,           \* serial number of the last summary or report
    lastState,         \* history: the last summary added
    lastHealth,        \* history: the last report added that had data
    lost               \* history: that report was put by, and one without data
                       \* replaced it
vars == <<refCount, storedNodeHealth, storedState, nodeHealthData, masterInfo,
          data, nodesList, pages, updates, lastState, lastHealth, lost>>

Report == UNION {[S -> Health] : S \in SUBSET Hosts}
NoReport == [h \in {} |-> Missing]
Summary == [serial : Nat, hosts : SUBSET Hosts]
NoSummary == [serial |-> 0, hosts |-> {}]
Slaves == UNION {[S -> Health \cup {Missing}] : S \in SUBSET Hosts}
NodesList == [serial : Nat, slaves : Slaves]

ASSUME NullAssumption == Null \notin Report \cup Summary \cup NodesList

healthOf(report, host) == IF host \in DOMAIN report THEN report[host] ELSE Missing

enrichNodeDataWithHealthData(hosts, report) == [h \in hosts |-> healthOf(report, h)]

isDisabled == refCount > 0

Init ==
    /\ refCount = 0 /\ storedNodeHealth = Null /\ storedState = Null
    /\ nodeHealthData = NoReport
    /\ masterInfo = 0
    /\ data = [serial |-> 0, slaves |-> [h \in {} |-> Missing], master_info |-> 0]
    /\ nodesList = Null
    /\ pages = 0 /\ updates = 0
    /\ lastState = NoSummary /\ lastHealth = NoReport /\ lost = FALSE

----------------------------------------------------------------------------
\* The slaves are enriched in place, the objects a list was made of before too.
Enriched(report) ==
    [data EXCEPT !.slaves = enrichNodeDataWithHealthData(DOMAIN data.slaves, report)]

\* A list as its items' get() and getHealth() tell it (Item.get, Node.getHealth):
\* these look into the object the item was made of, and so see it enriched.  The
\* fields the item copied when it was made are not modelled; they stay as they were.
listOf(d) == [serial |-> d.serial, slaves |-> d.slaves]
\* Mutation: the slaves are copied, not enriched in place.
ListFollows_Copies(d) == UNCHANGED nodesList

ListFollows(d) == nodesList' = IF nodesList = Null THEN Null ELSE listOf(d)

\* Mutation: the memoized health is not reused.
Merged_WithoutHealth(summary, report) ==
    [serial |-> summary.serial,
     slaves |-> enrichNodeDataWithHealthData(summary.hosts, NoReport),
     master_info |-> masterInfo]

\* New data is another object: the list made of the old one is dropped.
Merged(summary, report) ==
    [serial |-> summary.serial,
     slaves |-> enrichNodeDataWithHealthData(summary.hosts, report),
     master_info |-> masterInfo]

addNodeHealth(report) ==
    /\ updates < MaxUpdates /\ updates' = updates + 1
    /\ lastHealth' = IF report = Null THEN lastHealth ELSE report
    /\ lost' = (report = Null /\ (lost \/ (isDisabled /\ storedNodeHealth # Null)))
    /\ IF isDisabled
         THEN storedNodeHealth' = report /\ UNCHANGED <<nodeHealthData, data, nodesList>>
         ELSE /\ IF report = Null
                   THEN UNCHANGED <<nodeHealthData, data, nodesList>>
                   ELSE /\ nodeHealthData' = report
                        /\ data' = Enriched(report)
                        /\ ListFollows(Enriched(report))
              /\ UNCHANGED storedNodeHealth
    /\ UNCHANGED <<refCount, storedState, masterInfo, pages, lastState>>

addState(hosts) ==
    LET summary == [serial |-> updates + 1, hosts |-> hosts]
    IN  /\ updates < MaxUpdates /\ updates' = updates + 1
        /\ lastState' = summary
        /\ IF isDisabled
             THEN storedState' = summary /\ UNCHANGED <<data, nodesList>>
             ELSE /\ data' = Merged(summary, nodeHealthData)
                  /\ nodesList' = Null
                  /\ UNCHANGED storedState
        /\ UNCHANGED <<refCount, storedNodeHealth, nodeHealthData, masterInfo,
                       pages, lastHealth, lost>>

\* Applied to the next summary, never to the one shown.
addMasterInfo ==
    /\ masterInfo < MaxUpdates /\ masterInfo' = masterInfo + 1
    /\ UNCHANGED <<refCount, storedNodeHealth, storedState, nodeHealthData,
                   data, nodesList, pages, updates, lastState, lastHealth, lost>>

disable ==
    /\ pages < MaxPages /\ pages' = pages + 1
    /\ refCount' = refCount + 1
    /\ UNCHANGED <<storedNodeHealth, storedState, nodeHealthData, masterInfo,
                   data, nodesList, updates, lastState, lastHealth, lost>>

\* What was put by is taken up, the health first: a summary put by is then
\* enriched with it.
TakeUp ==
    LET report == IF storedNodeHealth = Null THEN nodeHealthData ELSE storedNodeHealth
        shown == IF storedState # Null THEN Merged(storedState, report)
                 ELSE IF storedNodeHealth # Null THEN Enriched(report) ELSE data
    IN  /\ nodeHealthData' = report
        /\ data' = shown
        /\ IF storedState # Null THEN nodesList' = Null ELSE ListFollows(shown)
        /\ storedNodeHealth' = Null /\ storedState' = Null

\* Mutation: the count may fall below zero.
enable_Unclamped ==
    /\ pages' = IF pages > 0 THEN pages - 1 ELSE 0
    /\ refCount' = refCount - 1 /\ refCount > -2
    /\ IF refCount' > 0
         THEN UNCHANGED <<storedNodeHealth, storedState, nodeHealthData, data, nodesList>>
         ELSE TakeUp
    /\ UNCHANGED <<masterInfo, updates, lastState, lastHealth, lost>>

\* enable() of a page that is gone, or one call too many: that one is ignored.
enable ==
    /\ pages' = IF pages > 0 THEN pages - 1 ELSE 0
    /\ refCount' = IF refCount > 0 THEN refCount - 1 ELSE 0
    /\ IF refCount' > 0
         THEN UNCHANGED <<storedNodeHealth, storedState, nodeHealthData, data, nodesList>>
         ELSE TakeUp
    /\ UNCHANGED <<masterInfo, updates, lastState, lastHealth, lost>>

getNodesList ==
    /\ nodesList' = IF nodesList = Null THEN listOf(data) ELSE nodesList
    /\ UNCHANGED <<refCount, storedNodeHealth, storedState, nodeHealthData,
                   masterInfo, data, pages, updates, lastState, lastHealth, lost>>

Next ==
    \/ \E report \in Report \cup {Null} : addNodeHealth(report)
    \/ \E hosts \in SUBSET Hosts : addState(hosts)
    \/ addMasterInfo
    \/ disable
    \/ enable
    \/ getNodesList

Spec == Init /\ [][Next]_vars

----------------------------------------------------------------------------
TypeOK ==
    /\ refCount \in Nat
    /\ storedNodeHealth \in Report \cup {Null}
    /\ storedState \in Summary \cup {Null}
    /\ nodeHealthData \in Report
    /\ nodesList \in NodesList \cup {Null}
    /\ masterInfo \in Nat /\ pages \in Nat /\ updates \in Nat
    /\ data \in [serial : Nat, slaves : Slaves, master_info : Nat]
    /\ lastState \in Summary /\ lastHealth \in Report /\ lost \in BOOLEAN

\* While nobody has it disabled the composite state is what the last summary
\* and the last health report with data say, in whatever order they came and
\* however many of them came while it was disabled.  The exception is a report
\* that was put by and then replaced by one without data: enable() finds nothing
\* to take up, and the health of the nodes stays the one before.
EnabledShowsLatest ==
    pages = 0 =>
      /\ data.serial = lastState.serial
      /\ DOMAIN data.slaves = lastState.hosts
      /\ ~lost => data.slaves = enrichNodeDataWithHealthData(lastState.hosts, lastHealth)

\* A list of nodes handed out to a page, asked with get() and getHealth(), is
\* never behind the composite state, although it was made of an older one.
NodesListIsCurrent == nodesList # Null => nodesList = listOf(data)

\* While it is disabled the pages that remain see nothing change.
FrozenWhileDisabled == [][pages > 0 /\ pages' > 0 => data' = data]_vars
=============================================================================
