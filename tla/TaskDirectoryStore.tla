------------------------- MODULE TaskDirectoryStore -------------------------
(***************************************************************************)
(* plugins/services/src/js/stores/TaskDirectoryStore.ts, its requests in    *)
(* events/TaskDirectoryActions.ts and the page that listens to it,          *)
(* pages/task-details/TaskDetail.tsx with its TaskFileBrowser: the sandbox  *)
(* of a task is polled by asking the agent for its state and then for the   *)
(* directory.                                                              *)
(*                                                                         *)
(* A target is a task with the path of a directory in its sandbox.  Of the  *)
(* requests for one target under way at least one is modelled, besides the  *)
(* one whose handle is kept.                                               *)
(***************************************************************************)
CONSTANTS Task, Path, Root, None

ASSUME RootAssumption == Root \in Path
ASSUME NoTaskIsNone == None \notin Task

VARIABLES
    directory,    \* get("directory"): the target it was read for, or None
    innerPath,    \* get("innerPath")
    polling,      \* requestInterval: the target it is set for, or None
    tracked,      \* the state request activeXHR can abort, or None
    untracked,    \* the other state requests under way
    browsing,     \* the directory requests under way, which nobody can abort
    page,         \* the task whose page is open, or None
    pagePath,     \* params.innerPath of the page
    awaitsState,  \* whether the page waits for its first MESOS_STATE_CHANGE
    shown         \* state.directory of the page

requestVars == <<tracked, untracked, browsing>>
storeVars == <<directory, innerPath, polling>>
pageVars == <<page, pagePath, awaitsState, shown>>
vars == <<requestVars, storeVars, pageVars>>

Target == [task : Task, path : Path]
Some(target) == {target} \ {None}

Init ==
    /\ directory = None /\ innerPath = Root /\ polling = None
    /\ tracked = None /\ untracked = {} /\ browsing = {}
    /\ page = None /\ pagePath = Root /\ awaitsState = FALSE /\ shown = None

----------------------------------------------------------------------------
(* The store.                                                               *)

\* Mutation: the interval is left.
resetRequests_LeavesInterval == tracked' = None /\ UNCHANGED <<polling, untracked>>

\* resetRequests: the interval, and the one request that has a handle.
resetRequests == polling' = None /\ tracked' = None /\ UNCHANGED untracked

\* startPolling, and fetchState: after errors fetchNodeState is debounced and
\* sends nothing.
startPolling(target) ==
    /\ polling' = target
    /\ tracked' \in {None, target}
    /\ UNCHANGED untracked

\* fetchDirectory(task, path) by the page of the task, which hears of the
\* directory emptied.  resetRequests has cleared what startPolling sets.
fetchDirectory(task, path) ==
    /\ directory' = None /\ innerPath' = path
    /\ shown' = None
    /\ startPolling([task |-> task, path |-> path])

\* The interval: the handle of the last request is overwritten.
Poll ==
    /\ polling # None
    /\ untracked' = untracked \cup Some(tracked)
    /\ tracked' \in {None, polling}
    /\ UNCHANGED <<browsing, storeVars, pageVars>>

----------------------------------------------------------------------------
(* The page.                                                                *)

\* handleFetchDirectory, of a task that may not be known yet.
handleFetchDirectory ==
    \/ fetchDirectory(page, pagePath)
    \/ shown' = None /\ UNCHANGED <<storeVars, tracked, untracked>>

Open(task, path) ==
    /\ page = None
    /\ page' = task /\ pagePath' = path /\ awaitsState' = TRUE /\ shown' = None
    /\ UNCHANGED <<requestVars, storeVars>>

\* Mutation: the path is forgotten with the directory.
Close_ForgetsPath ==
    /\ page # None
    /\ page' = None /\ awaitsState' = FALSE /\ shown' = None
    /\ resetRequests
    /\ directory' = None /\ innerPath' = None
    /\ UNCHANGED <<pagePath, browsing>>

\* removeChangeListener of the last listener of TASK_DIRECTORY_CHANGE.
Close ==
    /\ page # None
    /\ page' = None /\ awaitsState' = FALSE /\ shown' = None
    /\ resetRequests
    /\ directory' = None /\ innerPath' = Root
    /\ UNCHANGED <<pagePath, browsing>>

\* UNSAFE_componentWillReceiveProps: another task, or another path.
ReceiveProps(task, path) ==
    /\ page # None /\ <<task, path>> # <<page, pagePath>>
    /\ page' = task /\ pagePath' = path /\ shown' = None
    /\ UNCHANGED <<awaitsState, requestVars, storeVars>>

\* onStateStoreSuccess, until the state is there.
StateArrives ==
    /\ awaitsState /\ awaitsState' \in BOOLEAN
    /\ handleFetchDirectory
    /\ UNCHANGED <<page, pagePath, browsing>>

\* addPath of a directory clicked in the browser.
OpenDirectory(path) ==
    /\ shown # None /\ path \notin {innerPath, Root}
    /\ fetchDirectory(page, path)
    /\ UNCHANGED <<page, pagePath, awaitsState, browsing>>

\* setPath by the breadcrumbs, which also leave for the parent route, or by the
\* MesosLogContainer.  A task that is not known (any more) is left for it only.
OpenBreadcrumb(path) ==
    /\ page # None
    /\ pagePath' \in {pagePath, Root}
    /\ \/ fetchDirectory(page, path)
       \/ /\ shown' = IF pagePath' = pagePath THEN shown ELSE None
          /\ UNCHANGED <<storeVars, tracked, untracked>>
    /\ UNCHANGED <<page, awaitsState, browsing>>

\* Mutation: the page takes up what it is told of.
onTaskDirectoryStoreSuccess_Any(target) ==
    /\ directory' = target /\ shown' = IF page = None THEN None ELSE target
    /\ UNCHANGED <<innerPath, polling, tracked, untracked>>

\* onTaskDirectoryStoreSuccess, after the store took up the directory of a
\* target: of another task, the page asks again for its own, if that is known.
onTaskDirectoryStoreSuccess(target) ==
    \/ /\ page \in {None, target.task}
       /\ directory' = target
       /\ shown' = IF page = None THEN None ELSE target
       /\ UNCHANGED <<innerPath, polling, tracked, untracked>>
    \/ /\ page \notin {None, target.task}
       /\ \/ fetchDirectory(page, pagePath)
          \/ directory' = target /\ shown' = None
             /\ UNCHANGED <<innerPath, polling, tracked, untracked>>

----------------------------------------------------------------------------
(* The answers.                                                             *)

\* NODE_STATE_SUCCESS: whichever request it answers, the handle is gone, as
\* fetchDirectory returns none.  The page listens to another event name.
StateSucceeds(target) ==
    /\ target \in untracked \cup Some(tracked)
    /\ tracked' = None
    /\ untracked' \in {(untracked \cup Some(tracked)) \ {target}}
                      \cup IF target \in untracked /\ tracked = target
                             THEN {untracked} ELSE {}
    /\ browsing' = browsing \cup {target}
    /\ UNCHANGED <<storeVars, pageVars>>

StateFails(target) ==
    /\ \/ target = tracked /\ tracked' = None /\ UNCHANGED untracked
       \/ target \in untracked /\ untracked' = untracked \ {target} /\ UNCHANGED tracked
    /\ UNCHANGED <<browsing, storeVars, pageVars>>

\* processStateSuccess: whose path is not the current one is ignored.
processStateSuccess(target) ==
    IF innerPath = target.path
      THEN onTaskDirectoryStoreSuccess(target) /\ UNCHANGED <<page, pagePath, awaitsState>>
      ELSE UNCHANGED <<storeVars, pageVars, tracked, untracked>>

BrowseSucceeds(target) ==
    /\ target \in browsing /\ browsing' = browsing \ {target}
    /\ processStateSuccess(target)

BrowseFails(target) ==
    /\ target \in browsing /\ browsing' = browsing \ {target}
    /\ UNCHANGED <<tracked, untracked, storeVars, pageVars>>

Next ==
    \/ Poll
    \/ \E t \in Task, p \in Path : Open(t, p) \/ ReceiveProps(t, p)
    \/ Close
    \/ StateArrives
    \/ \E p \in Path : OpenDirectory(p) \/ OpenBreadcrumb(p)
    \/ \E target \in Target :
         \/ StateSucceeds(target) \/ StateFails(target)
         \/ BrowseSucceeds(target) \/ BrowseFails(target)

Spec == Init /\ [][Next]_vars

----------------------------------------------------------------------------
TypeOK ==
    /\ directory \in Target \cup {None} /\ innerPath \in Path
    /\ polling \in Target \cup {None}
    /\ tracked \in Target \cup {None}
    /\ untracked \subseteq Target /\ browsing \subseteq Target
    /\ page \in Task \cup {None} /\ pagePath \in Path
    /\ awaitsState \in BOOLEAN
    /\ shown \in Target \cup {None}

\* However late the answers of former polls come, for whichever task and path
\* they were asked, a page shows the directory that was asked for last, of its
\* own task: the store checks the path, the page the task.
ShownIsAskedFor ==
    shown # None => shown = [task |-> page, path |-> innerPath]

\* Nobody is polled for after the page has closed, and the interval asks for
\* the path that answers are accepted for.
PollingIsWatched ==
    polling # None => page # None /\ polling.path = innerPath
=============================================================================
