# A verification project for DC/OS UI

DC/OS UI is a browser application. It shows the state of a Mesos cluster and lets
its user manage services, jobs and nodes. All code runs on one JavaScript thread,
so a callback is never interrupted; what makes the program hard is everything
*between* two callbacks: a response that streams for days, requests that are
answered late or in another order, timers, retries, subscribers that come and go,
and buffers and caches that several pages share.

This directory models the part of the program all pages depend on: the way from
the bytes of the master's event stream to the cluster state and the summaries the
pages read; the store that merges Marathon's services with it; and the three most
intricate of the single pages, those that follow the log of a task, follow a file of
its sandbox, and browse the sandbox. Paths below are relative to the repository; `src/js` is its
`src/src/js` in the file lists of `PROJECT.json`.

## 1. The system

### Data flow

    Mesos master ──bytes──> record$ ──records──> mesos$ ──repeatWhen, shareReplay──┐
                                                                  MesosStream.ts   │
    GET_MASTER ──retry, shareReplay──> MesosMasterRequest.ts ──┐                   │
                                                               zip, concat <───────┤
                                                MesosStateStore │                  └─> other pages
                              parsers (agents, frameworks, tasks, ...)
                                                                v
                                            lastMesosState ──MESOS_STATE_CHANGE──> pages

    /mesos/master/state-summary ──poll──> MesosSummaryStore ──> SummaryList (history, charts)
                                                  └──addState──┐
    /system/health/v1/nodes ──poll──> NodeHealthStore ─addNodeHealth─> CompositeState ──> node pages
    GET_MASTER ─────────────────────────────────────addMasterInfo──┘

    /marathon/v2/{groups,queue,deployments} ──poll──> MarathonStore ──proxies──┐
    MesosSummaryStore ──MESOS_SUMMARY_CHANGE, SummaryList by reference──────────┴─> DCOSStore
                                        merged tree, caches ──DCOS_CHANGE, debounced──> service pages

    agent: state, files/browse ──poll──> TaskDirectoryStore ──> TaskDetail, TaskFileBrowser
    agent: files/read ──chain of requests──> MesosLogStore, LogBuffer ──> MesosLogContainer, LogView
    journal of the node ──event source, throttle──> SystemLogStore ──> TaskSystemLogsContainer

### Inventory

| component | state it keeps | operations | interacts through | what makes it correct |
|---|---|---|---|---|
| RecordIO reader (`core/MesosStream.ts`, `record$`) | the receive buffer | append a chunk, emit and cut off records, end | callbacks of `reader.read()` | records come out whole, in order, without waiting for later bytes |
| Shared event stream (`core/MesosStream.ts`, default export) | the request, the ReplaySubject, the reconnection timer, the replayed event | subscribe, unsubscribe, response, event, error, end, timer | multicast to observers | one request for everybody, nobody without the latest event, nobody on a dead subject |
| Mesos state store (`stores/MesosStateStore.ts`, `core/MesosMasterRequest.ts`, `utils/rxjsUtils.ts`) | `stream`, `lastMesosState`, `ready`, what zip and sampleTime hold, retry counts | add/remove listener, subscribe, apply an event, retry, emit | observes the shared stream and GET_MASTER | each event applied once and in order, none missed while it is live, changes announced for ever |
| Stream parsers (`stores/MesosStream/parsers`) | none (reducers of `lastMesosState`) | one per type of message | called by the store's `map` | the copy equals the master's cluster |
| Composite state (`structs/CompositeState.ts`) | merged data, put-by data, health, master, cached list, disable count | enable, disable, addState, addNodeHealth, addMasterInfo, getNodesList | called by three stores and by pages | shows the latest of everything when enabled, nothing changes while disabled |
| Summary store (`stores/MesosSummaryStore.ts`, `events/MesosSummaryActions.ts`, `structs/SummaryList.ts`) | bounded history, last request time, polling interval | poll, process an answer, a failure or a hanging request, read | AppDispatcher actions, MESOS_SUMMARY_CHANGE | recent history in order, dates in order, last successful snapshot served |
| System log (`stores/SystemLogStore.ts`, `events/SystemLogActions.ts`, `utils/SystemLogUtil.ts`, and the page `TaskSystemLogsContainer.tsx` of the services plugin) | logs per subscription, open event sources, throttled events | start/stop a tail, append, fetch a range, prepend | EventSource, timers, actions | a log is an unbroken run of the node's journal; events received are shown; one tail, that of the stream shown |
| Task directory store (services plugin) | directory, path, the one request handle, polling interval | fetch, change path, poll, abort, two-step answer | actions, MesosStateStore | the directory shown belongs to the task and path asked for |
| DCOS store (`stores/DCOSStore.ts`) | Marathon and Mesos data, merged service tree and its caches, the debounce timer | seven handlers, proxied listeners, reads that fill the caches | listens to MarathonStore and MesosSummaryStore, shares the SummaryList with the latter | cached services never stale, a tree built after a summary shows it, each change announced to all who listen, proxies attached iff heard |
| Marathon store and actions (services plugin) | groups, deployments, the polling interval | poll, process an answer, listeners | actions, events to DCOSStore | polled while heard |
| Mesos log store, LogBuffer (services plugin) | pieces of a file with offsets, the chain of requests and timers of its tail | look up the end, append, prepend, truncate, start and stop a tail, retry | requests, timers, the page | offsets and text agree (as long as a character is a byte), no tail ends by itself |
| Health stores, other polling stores | last answer | poll, process | actions | polling iff heard |
| Plugin bridge | hooks, plugin registry | register, call | synchronous calls | hooks called by priority |
| Structs, reducers, forms | none or local | pure functions | none | inverse parsers and reducers |
| Remaining plugins, packages, pages | one-shot data | requests, rendering | GraphQL, actions | presentation |

### What is hard

* **Chunks**: the network cuts the stream anywhere, also inside a length header.
* **Sharing**: `shareReplay(1)` has no reference count; a subject survives its
  observers, is replaced after an error and never after a completion.
* **Two requests, one pipeline**: `zip` and `concat` order GET_MASTER and the
  stream, with a one-event replay buffer between two observers of the same store.
* **Retries** during which events pass by unseen; counters that are never reset.
* **Lost messages** in a replicated state that is maintained by increments.
* **Late and bunched answers** of polled requests, all of them unique.
* **In-place mutation** of shared arrays and cached lists.
* **Answers matched by a name**: a path, a stream or a task that may have been left
  and taken up again since the request was made.
* **Chains**: requests and timers each started by the one before, which one missing
  link ends.
* **Debounced announcements** and caches that seven handlers have to clear.
* **Silent failures**: rejections nobody handles.

`PROJECT.json` lists each hazard at its line, with the properties that watch it.

## 2. Modules

| module | models | state ↔ code |
|---|---|---|
| `RecordIO` | `record$` on one connection, byte for byte | the buffer is `Wire[consumed+1 .. received]`; `reader` is what the `process` callback is at; `records` what went to `observer.next` |
| `RecordDelivery` | what a record stream promises | the abstraction `RecordIO` refines: `delivered <- Len(records)`, `ended <- reader` has stopped |
| `MCRecordIO` | an instance with real bytes | header lengths of one and two digits, an empty record, bodies with newlines, a cut frame |
| `MesosStream` | `fromFetch . switchMap . repeatWhen . shareReplay` | `connections`: each request and what became of it; `subject`, `replay`, `observers`: the ReplaySubject; `repeat`: the timer of repeatWhen |
| `SharedStream` | `MesosStream` with what observers see (`SharedInit`, `SharedNext`, `SharedSpec`) | every action of `MesosStream` and the calls of `next` it makes; `log`, `seen` are history |
| `MesosStateStore` | the store's subscription over `MesosStream` (INSTANCE) and GET_MASTER | `phase` is the stage of `this.stream`: waiting (zip), zipped, live, failing, backoff, dead; `gotMaster`, `gotEvent` are zip's buffers; `sample` is sampleTime's; `liveSince` is history |
| `Subsequences` | what `filter` leaves of an array, as a recursive function | used by the parsers, the summary store and the system log |
| `MesosStreamParsers` | the reducers, as operators on the copied state | arrays are sequences, entries are records with the fields later messages and lookups depend on |
| `MesosStateReplica` | a master, its messages, and the copy the parsers keep | the master is external: what it sends is what the parsers read |
| `CompositeState` | the class and its two module-level buffers | variables carry the names of the fields; summaries are sets of hosts, reports functions on hosts, or empty; a list of nodes is what `get()` of its items tells; `lost` is history |
| `SummaryList` | the history of summaries: `add`, and `lastSuccessful`, which turns it around | operators on a list; whoever has a reference to the list has its sequence as a variable |
| `MesosSummaryStore` | store and actions over `SummaryList` (EXTENDS) | `states` is the SummaryList; time counts refresh intervals; `slow` are requests reported as hanging |
| `SystemLog` | the log of a task, from the node's journal to the page | `tails`: the event sources of startTail, each with its throttle (`timer`, `held`) and the timer of startTailing (`notice`); `ranges`: those of fetchRange with their `items`; `logs`, `page`: fields of the store and state of the page; `asked`: requests of fetchStreamTypes; `garbled`, `stray` are history |
| `MarathonStore` | what the store keeps and passes on, its polling and listeners | `requestInterval`: the interval; `polled`: once there was a poll, answers of any age may come; a deployment is the set of services it affects |
| `DCOSStore` | the store over `MarathonStore` and `SummaryList` (EXTENDS) | `serviceTree`, `queue`, `versions`, `deploymentsList`, `dataReceived`: `data.marathon`; `cachedTree`, `cachedTasks`: `_serviceTree`, `_flatServiceTree`; `timer`: the debounced event; `proxies`: how often the proxy listeners are attached; `states`: the list of MesosSummaryStore, which changes whether the proxies are attached or not; `mesos`: whether `data.mesos` refers to it yet; `quiet`, `behind`, `missed`, `latest`, `room` are history |
| `TaskDirectoryStore` | store, actions and the page `TaskDetail` | `tracked`: the request `activeXHR` can abort, `untracked` the others, `browsing` the second step; `polling`: what the interval is bound to; `shown`: the directory in the state of the page |
| `LogBuffer` | the class, as operators on a buffer | a piece is the range of offsets the buffer takes its text to be at, with the characters among it that are two bytes (`wide`); `start`, `end` are those of the class |
| `MesosLogStore` | store, actions, `MesosLogContainer`, over `LogBuffer` (EXTENDS) | `calls`: the bag of requests under way and retry timers; `logs`, `kept`: `this.logs`; `page`, `fetching`, `loading`, `failures`, `offsetError`: props and state of the page; `Wide`: the two-byte characters of each file; `Read`, `Decoded`: the agent answers bytes, the browser makes characters of them; `mixed` is history |
| `MCDCOSStore`, `MCMesosLogStore` | instances | deployments as sets of services, symmetry; a plain file and one with a two-byte character |
| `MesosStreamProofs` | theorems of `RecordIO` and `SharedStream` | |
| `MesosStateProofs` | theorems of `MesosStateStore` and `MesosStateReplica` | |
| `SummaryProofs` | theorems of `MesosSummaryStore` and `CompositeState` | |
| `SystemLogProofs`, `DCOSStoreProofs`, `TaskDirectoryStoreProofs`, `MesosLogStoreProofs` | theorems of the module in their name | |
| `SubsequenceProofs` | lemmas on filtered sequences, and the induction the others use | |

Two modules whose theorems share a module give their specifications names of their own
(`SharedSpec`, `ReplicaSpec`, `SummarySpec`); the others call it `Spec`.

Operators whose comment says *Mutation* are not part of a specification: each is a
plausible bug, and the manifest names the property that notices it.

**Synchronous code.** One action is one callback. Where a callback of the code goes
on by subscribing to the next stage of a pipeline, `MesosStateStore` takes a second
step, and `phase` is then one of `Synchronous`, in which nothing else can happen.
`RecordIO` does the same with the loop of `process` (`reader = "draining"`).

In `SystemLog` an event runs from its source through the dispatcher and the store to
the page and back again (the page that hears of its first lines asks for a range).
Such a callback is one action; its steps are operators that map a record of `logs`,
`ranges` and `page` to the next one.

**What an rxjs operator does** is part of the model where the code relies on it:
`repeatWhen` calls its function once, so its one timer fires once; `shareReplay(1)`
connects on the first subscription, keeps the connection without observers, starts
over after an error and never after a completion; `zip` completes when one side
has completed and nothing can be paired; `concat` then subscribes to what follows;
`retryWhen` subscribes again to the whole pipeline, with a running count.

## 3. Runs

| run | asks | bounds |
|---|---|---|
| `record_io` | Do records survive every cut into chunks? | one connection of 27 bytes: 5 frames and a cut one; all chunk sizes, an end or a rejection anywhere |
| `shared_stream` | Does sharing and replaying work under every interleaving? | 2 observers, 2 kinds of events, 2 subscriptions that connect (and the reconnections), 2 events per subject |
| `shared_stream_ended` | *violated*: is a stream that ends requested again for ever? | 1 observer |
| `state_store` | Once live, is every event applied, once, in order, after GET_MASTER, and are failures handled? | 3 events, 5 connections, 1 retry |
| `state_replica` | Does the browser's copy equal the cluster? | 1 agent, 3 frameworks (2 named marathon), 2 tasks, 1 miss |
| `composite_state` | Does disabling lose or leak anything? | 2 hosts, 2 healths, 4 updates (empty reports among them), 2 pages |
| `summary_store` | Is the history recent, are its dates in order? | history of 2, 3 requests, 2 listeners, 2 reads |
| `summary_store_reads` | *violated*: is the last successful summary served? | the same |
| `system_log` | Is the log shown whole, and only the stream shown tailed, once? | 2 streams of 3 lines, 2 tails, the page opened twice, 1 line that does not parse, pages of 1 line |
| `dcos_store` | Do tree, caches, badge and announcements keep up with the sources? | 1 service and a deployment of it, 2 versions, 2 listeners, 2 contents of a summary, a history of 2, a debounce of 1 |
| `task_directory` | Is the directory shown the one asked for? | 2 tasks, 2 paths; requests and polls unbounded |
| `mesos_log` | Is a file shown unbroken, and tailed for ever? | 2 files of up to 4 bytes, one of which begins with a two-byte character, with a newline in the middle; 3 kept, 2 read at once, 1 gone back at first; 2 openings, 2 ranges, 3 pieces |

**Why the bounds are enough.** The bytes of `record_io` hold every case of
`getNextRecord`: no newline yet, a header only, a part of the body, the exact end,
several records in one chunk, newlines and digits inside a body. In the streams two
observers show every order of a subscription and an event, and two subjects every
leftover of an earlier one. Three events give the store a snapshot, an update and
one that is missed or repeated; five connections let it fail, retry, reconnect and
give up in one behaviour. Agents, frameworks and tasks do not interact among their
own kind, apart from the two frameworks that share a name. Four updates let two
summaries and two reports come before, during and after a time of being disabled.
A history of two is full, overflows and is half failed within three requests.
Three lines of a log let one be shown at once, the next be held, and an earlier one be
fetched meanwhile; with two tails a stream is followed, left, and another or the same
one taken up with the throttle of the first still holding events, and a second
opening of the page hears the answer to the first. The streams start with equally
many lines, at least one each, since the node lists those it has lines of.
A service comes and goes while a deployment affects it or nothing; what the store keeps
of one service does not depend on another. Two versions let one be fetched and the other
listed; two contents of a summary and a history of two let the newer be turned behind the
older, or be pushed out by a failure. Two listeners let one be told while the other arrives; a debounce of one unit lets a
change come before, with and after the event of another. Two tasks with the same
path are what the store alone cannot tell apart. Files of four bytes, of which
three are kept, are read in two pieces, truncated from either end, at a newline, within
a line and of a whole piece, and the two-byte character is read whole or by halves; the second opening is of the other file, or of the same
one with the calls of the first still under way.
None of the safety and action properties depends on the bounds: section 5 proves each
of them for all values. The bounds limit what the runs show of liveness, and the
findings need no more than they allow.

**Deadlock** is not checked where a system may stop: when the connection is over, the
page idle or a bound reached. `dcos_store` and `task_directory` check it.

**Fairness.** Weak fairness is assumed of synchronous code that has begun (the
loop of `process`, the stages of the pipeline) and of timers that are set (the
reconnection delay, the backoffs, the interval and sampleTime), because the event
loop runs them. Nothing is assumed of the network, of the master, of GET_MASTER or
of the pages. So `FirstEndIsRepeated` is about a timer, `LiveKeepsEmitting` about the interval, and
`FailureIsHandled` about the retry.

### What the properties say

* `DeliveredInOrder`, `NothingWithheld`, `ImplementsDelivery`: the reader is right about where records end.
* `OneRequestFeeds`, `ObserversAreServed`, `SubscribersSeeLatest`,
  `FirstEndIsRepeated`: the reasons for `shareReplay(1)` and `repeatWhen`. The last
  disjunct of `ObserversAreServed` is a broken connection that nobody notices,
  because the rejection of `reader.read()` is not handled: observers wait for ever
  then, and only the store's interval goes on.
* `LiveIsCurrent`, `NothingMissedWhileLive`, `AppliedOnceInOrder`, `NoDataBeforeMaster`
  (and `OneObserver`, which is proved only): from the moment the pipeline goes live,
  with the event that was the latest then, the state has everything the master sends,
  once and in order. Nothing is said of what came before: whatever precedes GET_MASTER's
  answer but the last event passes by, the SUBSCRIBED snapshot among it (section 4), and
  so does what comes during a backoff. `LiveKeepsEmitting`, `FailureIsHandled`: the pages
  go on hearing of changes, and a failure leads to another subscription or, after the
  last retry, to the end of the store.
* `ClusterIsMirrored`: without a missed message the copy's agents, frameworks and tasks
  are those of the cluster, and SUBSCRIBED repairs it. `MarathonTasksFlagged` states
  when `isStartedByMarathon` can be relied on: not while an older, completed
  framework named `marathon` is listed before the present one.
* `EnabledShowsLatest`: what arrived while the state was disabled is shown afterwards, in
  whatever order it came. It excepts the health of the nodes, until the next report, when
  an empty report replaced one that was put by: enabled, an empty report is ignored;
  disabled, it is put by like any other, and the one it replaces is gone.
  `NodesListIsCurrent`: a list handed out stays as new as the data, as its items' `get()`
  and `getHealth()` tell it; the fields an `Item` copied when it was made
  (`structs/Item.ts:5`) are older after an enrichment, and nothing is said of them.
  `FrozenWhileDisabled` is proved only.
* `UnreadHistoryIsRecent`, `SuccessesKeepTheirOrder`. The first says *unread* because of
  the second finding; the second leaves out failures, which are dated by the clock.
* `ShownLogIsUnbroken`, `NothingLostInThrottle`, `OneTailOpen`. The first two are about
  a stream that was tailed once, since the throttle's timer survives `stopTail`: what
  it held is put in the log of a stream that is taken up again. In `OneTailOpen`
  that no stream is tailed twice has no exception; that only the stream shown is tailed
  excepts a page that got the names of the streams twice, which then does not stop its
  first tail. It is about tails: the connections of ranges stay open after the page has
  closed, until they end. When a tail is interrupted, the model assumes that the browser
  takes it up exactly at the next line, as event sources do if the server honours the id
  of the last event; neither is in the repository.
* `CachedServicesAreCurrent`: whatever the handlers and the readers of the caches do in
  between, no page is given a tree with services, versions or a queue older than the
  store's. It says nothing of frameworks: what a tree has of them is what the list of
  summaries said when the tree was built, and that list changes without a cache being
  cleared, when the proxies are detached, when a summary fails, and when it is read.
  `TreeShowsLatestSummary` says what is left of that: the first time the list is asked
  after a summary, the tree shows that summary, however the list was turned before and
  though failures followed, as long as the list holds it.
  `AnnouncedWhenQuiet`: every page that listens is told once changes pause. Changes that
  never pause are never announced.
  `ListenersAreFed` (for capabilities that do not change; the code asks `hasCapability`
  each time): pages that come and go, also those that listen to `MarathonStore`
  itself or that remove a callback twice, do not stop the polling of the others.
  `DeploymentsMatchTree`: deployments and groups come apart, and are shown together; it
  excepts groups that were answered while nobody listened. `FetchedVersionsKept`.
* `ShownIsAskedFor`: only one request of the many under way can be aborted, and the
  store tells answers apart by their path only; it is the page that notices another
  task. `PollingIsWatched`.
* `ShownFileIsUnbroken`: the offsets of a buffer and the text in it agree. It is about
  files of one-byte characters, since the buffer adds characters to an offset in bytes
  (section 4), and of these it excepts logs served by more than one tail and one range at a time (`mixed`): after a range
  failed, since it is then requested as if it were the tail; after a second range was
  requested beside the first, since the answer of the tail takes down the flag; after
  truncation from the back, which cuts the last piece from its beginning; and when a
  file is taken up with calls of a former visit under way, since answers are matched by
  their path. `TailGoesOn` has no exception, also not for wide characters: the
  file that is looked at is always asked for again, if by two chains at times.

## 4. Findings

1. **A stream that ends twice stays ended** (`EndedStreamReconnects`,
   `MesosStream.ts:109`). `repeatWhen(() => timer(2000))` returns one timer; after
   it has fired, the next end of a connection completes the shared subject, and
   `shareReplay` never connects a completed subject again. The banner says "We will
   keep trying to reconnect."
2. **Reading turns the history round** (`ServesLastSuccessful`,
   `SummaryList.ts:38`). `getItems().reverse()` works on the stored array, so every
   second read searches from the oldest entry, and `add` drops the newest.
Further behaviour the models have as the code has it, which no run is about:

* If an event follows SUBSCRIBED before GET_MASTER is answered, the replay buffer holds
  only that event (`MesosStateStore.ts:104`): the snapshot never reaches the parsers,
  the state stays incomplete until the next SUBSCRIBED, and `ready` is resolved,
  although line 97 speaks of full information.
* `TaskSystemLogsContainer.tsx:187` sets `isFetchingPrevious` before `fetchRange`, which
  returns without a request while the log has no entry: a page whose log is silent for
  two refresh intervals waits for earlier lines as long as it is open.
* `LogBuffer.ts:65` and `:96` take the length of a text in characters for its length in
  bytes, in which the agent counts. In a file with characters of several bytes the end of
  the buffer is therefore before the end of what was read: the tail reads the last bytes
  again and shows them twice, and the text a range is asked up to is not where the buffer
  takes it to be.
* After `lastSuccessful()` the list of summaries is the other way round
  (`SummaryList.ts:38`), and `DCOSStore.ts:377` calls it on the list it shares with
  `MesosSummaryStore` whenever a tree is built: the next tree built
  without a new summary shows the oldest success the list holds, the one after that the
  newest again, and a summary that comes while nobody listens
  to the store changes what the next tree shows, though no cache is cleared for it.
* An empty health report that comes while the composite state is disabled erases the one
  put by (`CompositeState.ts:62`).
* The four exceptions of `ShownFileIsUnbroken` above. `MesosLogContainer.tsx:122` takes
  the failed look-up of a file that was left for one of the file shown, and
  `processOffsetError` repeats it whether the file is still tailed or not, although
  `MesosLogStore.ts:123` says that tailing stops with any response.
* `MesosSummaryStore.ts:99` starts polling when nobody listens to the summary instead of
  when somebody does (`addChangeListener`), so polling that stopped is not taken up by
  the next page that listens.

## 5. Proofs

Every safety invariant and every action property of section 3, and the refinement of
`RecordDelivery`, is a theorem: it holds for every value of the constants that satisfies
the named assumptions of the module. All proofs follow one pattern, an inductive
invariant that holds initially, is kept by every step (one lemma per action or group of
actions) and implies the property. Each invariant was checked by TLC on the
instances of the runs before it was proved.

* **`MesosStreamProofs`**, the reader (any connection, any frames, any parser of headers
  that is right about the headers sent). The properties are not inductive alone:
  `getNextRecord` looks for the *first* newline, which is the right one only if the
  buffer begins at a frame. `IInv` adds `consumed = Begin[Len(records) + 1]`; lemma
  `HeaderFound` then identifies the newline, and the tail assumption shows that a
  cut frame is never emitted. `Refinement` shows that the reader implements
  `RecordDelivery`.
* **`MesosStreamProofs`**, the shared stream (any events, observers and numbers of
  connections). `SharedInv` adds that an active subject is fed by the latest connection,
  waits for its timer or hangs, that nothing is fed or waited for otherwise
  (`SubjectIsServed`), and that the replay buffer is the last event of the log
  (`ReplayIsLast`). The first makes a second request impossible while one feeds the
  stream; the second is what a late observer starts from.
* **`MesosStateProofs`**, the pipeline (any number of events, connections, retries).
  `IInv` relates the stream to the pipeline: the replay buffer holds the latest event
  (`ReplayIsLatest`), outside the live stage that event has not been applied
  (`AppliedBehindSent`), the stage determines the observer (`ObserverOfPhase`), and
  zip holds what the stage after it needs (`ZipHolds`). The three are needed
  together: that the replayed event is new to `data$` rests on the second, that no
  event passes by between `take(1)` and `data$` on the first and third.
* **`MesosStateProofs`**, the copy of the cluster (any sets of agents, frameworks and
  tasks, infinite ones included, and any number of Marathons). `ReplicaInv` has two parts.
  `MasterIsSane` is what the parsers rely on without saying so: live tasks belong to
  frameworks that are present, at most one of the frameworks named `marathon` is, and what
  the master knows at any time is finite, so that a snapshot can list it; all three are
  proved of the external master. `Mirrors` says what the copy is while no message is missed.
  It is stronger than `ClusterIsMirrored`: every framework listed is *known* to the master,
  so that one that registers has no row yet and gets exactly one; every row of a task has
  the owner its task has; a row's name is the framework's; and the flag of a live task of a
  Marathon is set unless an older Marathon is listed (`Flagged`, `Outdated`): a
  SUBSCRIBED lists completed frameworks too, and no other message takes such a row away.
  The proof has a layer for each level of the code: what a message's fields become (rows), what the array functions return
  (`AppendedList`, `FilteredList`, `RelabelledList`, `Listing` of the snapshot's groups), what
  each reducer does to the copy, what the cluster is then, and the step.
* **`SummaryProofs`**, the store (any length of the history, any number of requests,
  listeners and reads). `SummaryInv` adds to `UnreadHistoryIsRecent` that the history is
  full at all times, and that the successful entries are dated in order and not after the
  `lastRequestTime` (`DatedInOrder`): an answer is dated one interval after it, whenever its
  request was made, so dates follow the order of the answers and not of the requests.
  `SuccessesInOrder` follows by lemmas on `Subsequence`, since the successful ones are a
  subsequence of the history and dropping the oldest leaves one of it.
* **`SummaryProofs`**, the composite state (any hosts, healths, numbers of updates and
  pages). `IInv` says where the last summary and the last report are, in the shown data or
  put by, and that what is shown is enriched with the memoized health.
  `LatestIsShown` holds with empty reports too: the part of `IInv` about the last report
  is what an empty one takes away, and `lost` says when.
* **`SystemLogProofs`** (any streams, lines, tails, openings of the page). There are two
  invariants. `IInv`, for `OneConnection`, says of every open tail that it is that of the
  stream shown unless the names of the streams came twice, and that no stream has two;
  half of its proof is about callbacks: the lemmas named `...View` show that whatever an
  event, a timer or the end of a range does to logs, ranges and page, the page shows the
  same stream after it. `LogInv`, for the contents, says of every stream tailed once that
  the entries of its log, what the throttle holds and what the ranges above it have read
  are adjacent stretches of the journal, but for lines that did not parse (`Fit`); that
  what is held has a timer (`HeldIsTimed`); and that a stream never tailed has no log and
  no range (`Untailed`). It rests on a range being asked for from the entry the log starts
  with, and on no two ranges starting there: the first entry of a log changes only when
  a range ends, which takes that range away.
* **`DCOSStoreProofs`** (any services, deployments, versions, listeners and debounce
  time). `IInv` adds to the properties that Marathon is polled while the proxies are
  attached or anybody waits for apps (`PolledWhileHeard`), that a listener who is behind
  has a timer that is due before the store counts as quiet (`BehindIsTimed`), and that
  the store's tree is Marathon's unless groups came unheard (`TreeInStep`). The second
  is what makes `AnnouncedWhenQuiet` inductive; the third is needed since deployments
  are matched with Marathon's tree and shown beside the store's. For
  `TreeShowsLatestSummary`, `ListInv` says where the last summary is while nobody has read
  the list: at a place of it after which all are failures, with `room` for so many more
  entries before it is dropped (`LatestIsInPlace`).
* **`TaskDirectoryStoreProofs`** (any tasks and paths). `IInv` adds that no
  directory is shown, and no state awaited, without a page (`NothingUnseen`): whatever
  the next page asks for would have to match it.
* **`MesosLogStoreProofs`** (any files, sizes and bounds). `TailGoesOn` is inductive once
  the bag of calls is known to hold no call zero times (`IInv`); the lemmas on bags say
  what a sum and a difference hold. `FileInv`, for the text, says of a log that is not
  mixed that one call at most of its tail and one of a range are under way, which ask for
  what adjoins the pieces kept (`Served`, `Fits`), and that the pieces adjoin one another
  from `start` to `end` (`Marked`: there are marks, one between any two pieces). Marks are
  what survives a round of `truncate`, which empties a piece or cuts it from its
  beginning, and what adding up the sizes and joining the texts need. That a file of
  one-byte characters only ever has pieces of such (`PlainLogs`) is an invariant beside
  it, which makes the bytes of a piece its offsets.
* **`SubsequenceProofs`**: an induction over data. The library's induction theorems take
  an operator as a parameter, which the provers cannot instantiate; `Smallest` derives from
  the well-foundedness of the order on the numbers, a theorem without such a parameter, that
  a set of numbers has a smallest member, and `UpTo` makes it an induction over a *set* of
  numbers, which can be instantiated. `Recursion` gives the equation of a recursive
  function, and `SubsequenceLists` what a filtered sequence lists. The proofs about
  `truncate`, `getFullLog` and the filters of the stores and parsers use it.

Assumptions: those the modules name, all of them about constants and evaluated by TLC
on every run. Bounds are arbitrary natural numbers. `SummaryConstants` asks for
`MaxRequests >= 1`, since `init` makes a request; `SizesAssumption` says that files have
natural sizes; `NoneAssumption` that the absence of a log is not a log;
`WideAssumption` that two-byte characters do not overlap and hold no newline.

Model-checked only: the liveness properties (`FirstEndIsRepeated`, `LiveKeepsEmitting`,
`FailureIsHandled`), since neither fairness nor `ENABLED` can be reasoned about here, and
the two findings.

## 6. Not modelled

`PROJECT.json` gives the reason for every component. Of the 130,000 lines of the
implementation the models translate the small part that has behaviour over time. The
rest is presentation (components, pages, forms and their texts), pure conversions
between JSON and forms, generated types and grammars, and pages of plugins that make
one request and show its answer; none of it keeps state that two callbacks, requests or
pages compete for, so a model of it would restate its assignments. The libraries (rxjs,
RequestUtil, React, the plugin runtime) are modelled by what this code relies on; the
executor and master parsers are single assignments; RequestUtil's debouncing of errors
in the polling stores is external.

Within modelled parts, fields that no later step reads are dropped, and a hanging
request is counted once, though the library may report it again. `MarathonStore` leaves
out what creates, changes and kills services: each is one request and one event.
`MesosLogStore` takes a request that a timer sends later as under way from the time the
timer is set, and leaves out the highlighting and the scrolling of the view.

## 7. Plan

What could come next:

1. `UnitHealthStore` and `NodeHealthStore`: polling like that of `MesosSummaryStore`,
   composed with `CompositeState`.
2. RequestUtil's debouncing of errors, as an external module the polling stores share.
3. Proofs: that `MesosStateStore` implements an abstract copy that is given every event
   in order (an abstraction of `AppliedOnceInOrder` and `LiveIsCurrent` together), to be
   composed with `MesosStateReplica`, whose missed messages are those of a backoff.
