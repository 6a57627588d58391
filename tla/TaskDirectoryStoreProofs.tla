---------------------- MODULE TaskDirectoryStoreProofs ----------------------
(***************************************************************************)
(* The theorems about TaskDirectoryStore, for any tasks and paths.          *)
(***************************************************************************)
EXTENDS TaskDirectoryStore, TLAPS

\* Nothing is shown, and no state awaited, without a page.
NothingUnseen == (awaitsState => page # None) /\ (shown # None => page # None)

IInv ==
    /\ TypeOK
    /\ NothingUnseen
    /\ ShownIsAskedFor
    /\ PollingIsWatched

\* What is left to the page once the store has fetched for it.
LEMMA FetchEstablishes ==
    ASSUME IInv, page # None, NEW path \in Path, fetchDirectory(page, path),
           UNCHANGED page, browsing' \subseteq browsing,
           pagePath' \in Path, awaitsState' \in BOOLEAN
    PROVE  IInv'
  <1>1. [task |-> page, path |-> path] \in Target
    BY DEF IInv, TypeOK, Target
  <1>2. /\ directory' = None /\ innerPath' = path /\ shown' = None
        /\ polling' = [task |-> page, path |-> path]
        /\ tracked' \in {None, [task |-> page, path |-> path]} /\ UNCHANGED untracked
    BY DEF fetchDirectory, startPolling
  <1>3. TypeOK'
    BY <1>1, <1>2 DEF IInv, TypeOK
  <1>4. NothingUnseen' /\ ShownIsAskedFor' /\ PollingIsWatched'
    BY <1>2 DEF NothingUnseen, ShownIsAskedFor, PollingIsWatched
  <1> QED BY <1>3, <1>4 DEF IInv

\* A page that shows nothing and has not changed anything else.
LEMMA BlankPreserves ==
    ASSUME IInv, shown' = None, UNCHANGED <<page, storeVars, requestVars>>,
           pagePath' \in Path, awaitsState' \in {awaitsState, FALSE}
    PROVE  IInv'
  <1>1. TypeOK'
    BY DEF IInv, TypeOK, storeVars, requestVars
  <1>2. NothingUnseen'
    <2>1. awaitsState' => awaitsState
      BY DEF IInv, TypeOK
    <2> QED BY <2>1 DEF IInv, NothingUnseen
  <1>3. ShownIsAskedFor' /\ PollingIsWatched'
    BY DEF IInv, ShownIsAskedFor, PollingIsWatched, storeVars
  <1> QED BY <1>1, <1>2, <1>3 DEF IInv

\* Steps of requests that the store and the page do not see.
LEMMA RequestsPreserve ==
    ASSUME IInv, UNCHANGED <<storeVars, pageVars>>,
           tracked' \in Target \cup {None}, untracked' \subseteq Target, browsing' \subseteq Target
    PROVE  IInv'
  BY DEF IInv, TypeOK, NothingUnseen, ShownIsAskedFor, PollingIsWatched, storeVars, pageVars

LEMMA InitEstablishes == Init => IInv
  BY RootAssumption DEF Init, IInv, TypeOK, NothingUnseen, ShownIsAskedFor, PollingIsWatched

LEMMA PagePreserves ==
    ASSUME IInv,
           \/ \E t \in Task, p \in Path : Open(t, p) \/ ReceiveProps(t, p)
           \/ Close \/ StateArrives
           \/ \E p \in Path : OpenDirectory(p) \/ OpenBreadcrumb(p)
    PROVE  IInv'
  <1>1. ASSUME NEW t \in Task, NEW p \in Path, Open(t, p) PROVE IInv'
    <2>1. TypeOK'
      BY <1>1 DEF IInv, TypeOK, Open, storeVars, requestVars
    <2>2. polling = None /\ polling' = None
      BY <1>1 DEF IInv, PollingIsWatched, Open, storeVars
    <2>3. page' # None
      BY <1>1, NoTaskIsNone DEF Open
    <2>4. NothingUnseen' /\ ShownIsAskedFor' /\ PollingIsWatched'
      BY <1>1, <2>2, <2>3 DEF NothingUnseen, ShownIsAskedFor, PollingIsWatched, Open
    <2> QED BY <2>1, <2>4 DEF IInv
  <1>2. ASSUME NEW t \in Task, NEW p \in Path, ReceiveProps(t, p) PROVE IInv'
    <2>1. TypeOK'
      BY <1>2 DEF IInv, TypeOK, ReceiveProps, storeVars, requestVars
    <2>2. page' # None
      BY <1>2, NoTaskIsNone DEF ReceiveProps
    <2>3. NothingUnseen' /\ ShownIsAskedFor' /\ PollingIsWatched'
      BY <1>2, <2>2 DEF IInv, NothingUnseen, ShownIsAskedFor, PollingIsWatched, ReceiveProps, storeVars
    <2> QED BY <2>1, <2>3 DEF IInv
  <1>3. ASSUME Close PROVE IInv'
    <2>1. TypeOK'
      BY <1>3, RootAssumption DEF IInv, TypeOK, Close, resetRequests
    <2>2. NothingUnseen' /\ ShownIsAskedFor' /\ PollingIsWatched'
      BY <1>3 DEF NothingUnseen, ShownIsAskedFor, PollingIsWatched, Close, resetRequests
    <2> QED BY <2>1, <2>2 DEF IInv
  <1>4. ASSUME StateArrives PROVE IInv'
    <2>1. /\ page # None /\ awaitsState /\ awaitsState' \in BOOLEAN
          /\ UNCHANGED <<page, pagePath, browsing>> /\ handleFetchDirectory
      BY <1>4 DEF StateArrives, IInv, NothingUnseen
    <2>2. pagePath \in Path /\ pagePath' \in Path
      BY <2>1 DEF IInv, TypeOK
    <2>3. CASE fetchDirectory(page, pagePath)
      BY <2>1, <2>2, <2>3, FetchEstablishes
    <2>4. CASE shown' = None /\ UNCHANGED <<storeVars, tracked, untracked>>
      BY <2>1, <2>2, <2>4, BlankPreserves DEF requestVars
    <2> QED BY <2>1, <2>3, <2>4 DEF handleFetchDirectory
  <1>5. ASSUME NEW p \in Path, OpenDirectory(p) PROVE IInv'
    <2>1. /\ page # None /\ fetchDirectory(page, p)
          /\ UNCHANGED <<page, pagePath, awaitsState, browsing>>
      BY <1>5 DEF OpenDirectory, IInv, NothingUnseen
    <2>2. pagePath' \in Path /\ awaitsState' \in BOOLEAN
      BY <2>1 DEF IInv, TypeOK
    <2> QED BY <2>1, <2>2, FetchEstablishes
  <1>6. ASSUME NEW p \in Path, OpenBreadcrumb(p) PROVE IInv'
    <2>1. /\ page # None /\ pagePath' \in {pagePath, Root}
          /\ UNCHANGED <<page, awaitsState, browsing>>
      BY <1>6 DEF OpenBreadcrumb
    <2>2. pagePath' \in Path /\ awaitsState' \in BOOLEAN
      BY <2>1, RootAssumption DEF IInv, TypeOK
    <2>3. CASE fetchDirectory(page, p)
      BY <2>1, <2>2, <2>3, FetchEstablishes
    <2>4. CASE /\ shown' \in {shown, None}
               /\ UNCHANGED <<storeVars, tracked, untracked>>
      <3>1. TypeOK'
        BY <2>1, <2>2, <2>4 DEF IInv, TypeOK, storeVars
      <3>2. NothingUnseen' /\ ShownIsAskedFor' /\ PollingIsWatched'
        BY <2>1, <2>4 DEF IInv, NothingUnseen, ShownIsAskedFor, PollingIsWatched, storeVars
      <3> QED BY <3>1, <3>2 DEF IInv
    <2> QED BY <1>6, <2>3, <2>4 DEF OpenBreadcrumb
  <1> QED BY <1>1, <1>2, <1>3, <1>4, <1>5, <1>6

\* The path was checked by the store, the task by the page.
LEMMA TakenUpPreserves ==
    ASSUME IInv, NEW target \in Target, target.path = innerPath,
           onTaskDirectoryStoreSuccess(target),
           UNCHANGED <<page, pagePath, awaitsState>>, browsing' \subseteq browsing
    PROVE  IInv'
  <1>1. target = [task |-> target.task, path |-> target.path]
        /\ target.task \in Task /\ target.path \in Path
    BY DEF Target
  <1>2. CASE /\ page \in {None, target.task}
             /\ directory' = target
             /\ shown' = IF page = None THEN None ELSE target
             /\ UNCHANGED <<innerPath, polling, tracked, untracked>>
    <2>1. TypeOK'
      BY <1>2 DEF IInv, TypeOK
    <2>2. ShownIsAskedFor'
      BY <1>1, <1>2 DEF ShownIsAskedFor
    <2>3. NothingUnseen' /\ PollingIsWatched'
      BY <1>2 DEF IInv, NothingUnseen, PollingIsWatched
    <2> QED BY <2>1, <2>2, <2>3 DEF IInv
  <1>3. CASE page \notin {None, target.task} /\ fetchDirectory(page, pagePath)
    <2>1. /\ pagePath \in Path /\ pagePath' \in Path /\ awaitsState' \in BOOLEAN /\ page # None
      BY <1>3 DEF IInv, TypeOK
    <2>2. fetchDirectory(page, pagePath)
      BY <1>3
    <2> QED BY <2>1, <2>2, FetchEstablishes
  <1>4. CASE /\ page \notin {None, target.task}
             /\ directory' = target /\ shown' = None
             /\ UNCHANGED <<innerPath, polling, tracked, untracked>>
    <2>1. TypeOK'
      BY <1>4 DEF IInv, TypeOK
    <2>2. NothingUnseen' /\ ShownIsAskedFor' /\ PollingIsWatched'
      BY <1>4 DEF IInv, NothingUnseen, ShownIsAskedFor, PollingIsWatched
    <2> QED BY <2>1, <2>2 DEF IInv
  <1> QED BY <1>2, <1>3, <1>4 DEF onTaskDirectoryStoreSuccess

LEMMA AnswersPreserve ==
    ASSUME IInv, NEW target \in Target,
           \/ StateSucceeds(target) \/ StateFails(target)
           \/ BrowseSucceeds(target) \/ BrowseFails(target)
    PROVE  IInv'
  <1> USE DEF Some
  <1>1. CASE StateSucceeds(target)
    BY <1>1, RequestsPreserve DEF StateSucceeds, IInv, TypeOK
  <1>2. CASE StateFails(target)
    BY <1>2, RequestsPreserve DEF StateFails, IInv, TypeOK
  <1>3. CASE BrowseSucceeds(target)
    <2>1. browsing' \subseteq browsing /\ browsing' \subseteq Target
      BY <1>3 DEF BrowseSucceeds, IInv, TypeOK
    <2>2. CASE innerPath = target.path
      BY <1>3, <2>1, <2>2, TakenUpPreserves DEF BrowseSucceeds, processStateSuccess
    <2>3. CASE innerPath # target.path
      BY <1>3, <2>1, <2>3, RequestsPreserve DEF BrowseSucceeds, processStateSuccess, IInv, TypeOK
    <2> QED BY <2>2, <2>3
  <1>4. CASE BrowseFails(target)
    BY <1>4, RequestsPreserve DEF BrowseFails, IInv, TypeOK
  <1> QED BY <1>1, <1>2, <1>3, <1>4

LEMMA NextPreserves == IInv /\ [Next]_vars => IInv'
  <1> SUFFICES ASSUME IInv, [Next]_vars PROVE IInv' OBVIOUS
  <1>1. CASE Poll
    BY <1>1, RequestsPreserve DEF Poll, Some, IInv, TypeOK
  <1>2. CASE \/ \E t \in Task, p \in Path : Open(t, p) \/ ReceiveProps(t, p)
             \/ Close \/ StateArrives
             \/ \E p \in Path : OpenDirectory(p) \/ OpenBreadcrumb(p)
    BY <1>2, PagePreserves
  <1>3. CASE \E target \in Target :
               \/ StateSucceeds(target) \/ StateFails(target)
               \/ BrowseSucceeds(target) \/ BrowseFails(target)
    BY <1>3, AnswersPreserve
  <1>4. CASE UNCHANGED vars
    BY <1>4, RequestsPreserve DEF vars, requestVars, IInv, TypeOK
  <1> QED BY <1>1, <1>2, <1>3, <1>4 DEF Next

LEMMA InductiveInvariant == Spec => []IInv
  BY InitEstablishes, NextPreserves, PTL DEF Spec

\* The store, its requests and the page keep their types.
THEOREM TypeCorrect == Spec => []TypeOK
  <1>1. IInv => TypeOK
    BY DEF IInv
  <1> QED BY <1>1, InductiveInvariant, PTL

\* Whatever requests are under way, for however many tasks and paths, the page
\* shows the directory of its own task that was asked for last.
THEOREM AskedForIsShown == Spec => []ShownIsAskedFor
  <1>1. IInv => ShownIsAskedFor
    BY DEF IInv
  <1> QED BY <1>1, InductiveInvariant, PTL

\* The interval never outlives the page, nor asks for a path that is left.
THEOREM PollingWatched == Spec => []PollingIsWatched
  <1>1. IInv => PollingIsWatched
    BY DEF IInv
  <1> QED BY <1>1, InductiveInvariant, PTL
=============================================================================
