# Verification of clearml-kube

TLA+ models of the parts of clearml-kube that coordinate: TLC checks them on
small instances and TLAPS proves theorems about them for every value of their
constants. Paths below are relative to `src/clearml-server/apiserver/` or, where
the web application is the subject, to `src/clearml-web/src/app/`, unless they
start with `src/`.

    tlc -config MCTaskQueueRace.cfg MCTaskQueue      model-check one instance
    tlapm TaskQueueProofs.tla                        check the proofs of a module

## 1. The system

clearml-kube is a ClearML distribution: an API server, a file server, a web
application and the charts that deploy them. The API server is stateless; its
documents are in MongoDB, worker registrations and locks in Redis, metrics in
Elasticsearch. Every request is handled by a thread of some API server process
as a sequence of database operations; agents, users and background jobs call
it concurrently.

| Component | State | Operations | Talks to | What is hard | What makes it correct |
|---|---|---|---|---|---|
| Tasks and queues (`bll/task`, `bll/queue`, `services/tasks.py`, `services/queues.py`) | `Task.status`, `enqueue_status`, `execution.queue`; `Queue.entries` | enqueue, dequeue, stop, reset, archive, publish, started/stopped/failed/completed/close; add, remove, move, clear, delete, get_next_task; watchdog | agents poll queues; everything that runs something enqueues a task | a handler is many operations on two collections; stale reads; partial failure | a status change follows the table, no duplicate entries, a queued task is in its queue and in no other, it does not wait for ever |
| ClearPipe DAG controller (`bll/clearpipe/controller_runner.py`) | local variables of `run()`; `configuration.Pipeline` of its own task | launch, poll, retry, time out, cancel, restore | creates and enqueues tasks; agents run them | children move on their own; crash and restart; calls that fail | dependencies are respected, launches are bounded, the record is true, the run ends |
| ClearPipe definitions and start (`services/clearpipe.py`) | definition task (revision, activation), idempotency reservation in `Settings`, run task | create, update, set_activation, start, archive, delete | enqueue_task, the scheduler | retries of a start that died anywhere; concurrent starts with one key; blind writes | one run per key, equal answers, committed means enqueued |
| ClearPipe scheduler (`src/clearml-server/clearpipe-scheduler`) | the time of the last fire, in memory | tick | latest_run, start | lost answers, restarts | no schedule fires twice in a period |
| Autoscaler (`bll/autoscaler`, `jobs/runai_worker.py`) | executions, saved instances | submit, stop, delete, refresh; claim, persist | Run:ai command line | several workers, worker death, results out of order | an execution is handled once and reaches an end; an instance shows the last request |
| Url deletion (`jobs/async_urls_delete.py`) | `url_to_delete` | delete loop | file and object stores | partial failure, retry limits | every url is deleted or failed after the retries |
| Workers (`bll/workers`) | Redis entries with a time to live | register, report, unregister | agents | read, modify, write | an unregistered worker stays away |
| Web: flow editor (`features/clearpipe/editor/flow`) | the graph on the canvas, the mark of unsaved changes, the run that is followed, flags for requests in flight | canvas commands; save, run, stop, activate, import, new; poll | ClearPipe definitions, starts and runs | edits while a save is on its way, answers that come late, polls that overlap, saves from elsewhere | a clean graph is the saved one, a start runs what is shown, what is shown as running is followed and its end is noticed, what is shown as stopped was asked to stop |
| Web: task table (`webapp-common/experiments`) | rows, scroll id, pending mark, loaders, refresh lock in the store; the position of the scroll in Redis | refetch, refresh, next page, filter, search, create, archive, select all | `tasks.get_all_ex` | three fetches with a `switchMap` each and one store; a position kept by the server; effects that end on an error | rows answer the query, pages continue the rows, locks and spinners are released, auto refresh catches up |
| Web: notifications (`webapp-common/angular-notifier`) | the queue of actions, the list, timers and animations | show, hide, time out, hover, click | messages of every effect | callbacks of animations and timers in any order | one action at a time, the stack is bounded, a message is hidden unseen only to make place, every notification ends |
| Projects, models, events, serving, statistics, authentication, file server, the rest of the web application, charts | documents, files, configuration | edits, queries, streams | | little coordination | see `PROJECT.json` |

`PROJECT.json` lists every component with its status, and every hazard at the
line where it bites.

## 2. Modules

| Module | Models | Extends |
|---|---|---|
| `TaskStatus` | the statuses and the state machine (`bll/task/utils.py`) | |
| `TaskQueue` | tasks, queues, the calls on them, agents, watchdog | `TaskStatus` |
| `MCTaskQueue` | instances for TLC | `TaskQueue` |
| `TaskQueueProofs` | `TypeCorrect`, `NoDuplicates`, `StatusChangesFollowTable`, `OneQueueAtMost`, `QueuedIsWhereItSays` | `TaskQueue`, `TLAPS` |
| `Workflow` | what a ClearPipe run promises | |
| `DagRunner` | the controller, its children, agents and users | `TaskStatus`; instantiates `Workflow` |
| `MCDagRunner` | instances for TLC | `DagRunner` |
| `DagRunnerProofs` | `RunnerTypes`, `LaunchesBounded`, `DependenciesRespected`, `ParentsFirst`, `RecordTellsTheRun`, `RunImplementsWorkflow` | `DagRunner`, `SequenceTheorems`, `TLAPS` |
| `IdempotentStart` | what an idempotency key promises | |
| `ClearPipeStart` | `clearpipe.start` with a key, the run it creates and the queue | `TaskStatus`; instantiates `IdempotentStart` |
| `MCClearPipeStart` | instances for TLC | `ClearPipeStart` |
| `ClearPipeStartProofs` | `StartTypes`, `KeyIsBoundOnce`, `AnsweredRunsWereEnqueued` | `ClearPipeStart`, `TLAPS` |
| `FlowStore` | the graph of the flow editor and the commands on it | |
| `FlowEditor` | the editor page, its requests and streams, the definition and its runs | `FlowStore` |
| `MCFlowEditor` | an instance for TLC | `FlowEditor` |
| `FlowStoreProofs` | lemmas on the commands of the store | `FlowStore`, `Induction`, `FiniteSetTheorems` |
| `FlowEditorProofs` | `CleanGraphIsSaved`, `StartsAreOfTheShownGraph`, `TypeCorrect`, `BusyIsTheRequest`, `RunningIsPolled`, `ShownGraphIsSound`, `ExcludedAreStopped`, `InProgressIsExecuted` | `FlowEditor`, `FlowStoreProofs` |
| `ExperimentsTable` | the fetches of the task table, its store, the scroll position | |
| `MCExperimentsTable` | an instance for TLC | `ExperimentsTable` |
| `ExperimentsTableProofs` | `TypeCorrect`, `LockIsOwned`, `SpinnersHaveOwners`, `RowsMatchTheQuery`, `NextPageIsRight` | `ExperimentsTable`, `Induction`, `SequenceTheorems`, `FiniteSetTheorems` |
| `Notifier` | messages, the queue of actions, the container, timers and the mouse | |
| `MCNotifier` | an instance for TLC | `Notifier` |
| `NotifierProofs` | `OneActionAtATime`, `NeverTooMany`, `NoGaps`, `HoveredDoNotTimeOut`, `UnseenMadePlace`, `TypeCorrect` | `Notifier`, `Induction`, `FiniteSetTheorems`, `SequenceTheorems` |
| `Induction` | induction over the numbers, functions by recursion | `WellFoundedInduction`, `TLAPS` |

### TaskQueue

*State.* `status`, `enqueueStatus` and `execQueue` are fields of the task
documents; `live` and `entries` the queue documents. An entry carries a time
stamp, so that an entry pushed again differs from the one it replaces (the code
pulls entries by value). `call[p]` is the call process `p` has in flight: the
request, the label of its next database operation and what it has read so far
(`seen`, `seenEnq`, `read`), which may be stale. `held[a]` is the task agent
`a` has popped and not started.

*Actions.* One action per database operation, with the decisions taken on its
result; the labels follow the code.

| Call | Labels in order |
|---|---|
| enqueue | load, cas, find, push, reload, setexec, sweep; revert when the push fails |
| dequeue, archive | load, locate, pull, pulled, (sweep), cas |
| reset | load, locate, pull, pulled, sweep, cas |
| stop | load, locate, pull, pulled, cas, or load, cas |
| set_status (started, stopped, failed, close, completed) | load, cas |
| publish | load, publishing, pubcas; unpublish when something fails |
| add_task | find, push, reload, setexec |
| remove_task | locate, pull, (rmload, rmcas), pulled |
| move_task | locate, pull, pulled, find, push, reload, setexec; the put-back into the source when that fails |
| clear_queue, delete_queue | readqueue, (rmload, rmcas) for each task read, wipe or drop |
| get_next_task | pop, report, fixread, fixwrite; the agent then calls started |
| cleanup_tasks (watchdog) | list, then one write for each task listed |

An operation on one document is atomic, as MongoDB makes it. The update that
pulls a task from all queues touches several documents and visits them one by
one. Batch endpoints (`enqueue_many`, ...) are loops over these calls.
`tasks.completed` with `publish` is the two calls in a row.

*Abstractions.* Entries are a set: a position decides only which task is popped
next, and the calls that change positions may put any entry first. Access
checks, validation of a task's content, side effects on projects, Elasticsearch
and notifications are left out; that logging a queue's metrics may raise is kept
(`MetricsFail`). `tasks.delete` is left out. A call that moves a task into the
queue it comes from is excluded by `Assumptions`. "No worker seems to run it"
(stop) and "silent" (watchdog) are nondeterministic.

### DagRunner

*State.* `child[n]` is the sequence of child tasks created for node `n`, each
with a status and the place it is in (created, in its queue, popped, executed,
off); `pipeline[n]` the step's `job_id` and status in the controller's
configuration; `state`, `attempts`, `handle`, `errors` the local variables of
`run()`; `pc`, `todo` and `cur` where the controller is.

*Actions.* One action per remote call of the controller. `StartController` and
`RestoreNode` begin a life; `CheckCancelled`, `CancelChild`; `PollChild`,
`PollError`, `SettleTimedOut`; `Block`, `Wait`, `CreateChild`, `EnqueueChild`,
`RecordChild`; `PassDone`. `Raise` is a call that fails and ends `run()`,
`Crash` the end of the process. Around it `PopChild`, `StartChild` and
`EndChild` are the agents and `StopChild`, `StopController` the users; what the
API server does with a stopped task that is popped is that of `TaskQueue`.

*Abstractions.* The status a poll reads and the record that follows are one
step (nobody else writes the record). Nodes are visited in any order in a pass.
A timeout may have elapsed at any poll of a node that has one. Users do not
reset, delete or edit the children of a running pipeline. A controller that
ended with an error may be started again, with its record kept.

*Workflow* is the abstract specification: nodes begin once, after their parents
succeeded (or settled, for `continueOnFail`), end or are skipped, and the result
follows. `ImplementsWorkflow` maps a node that waits for a retry to a running
one, and a node that ended without an attempt to a skipped one.

### ClearPipeStart

*State.* `reservation` is the settings document of the key: the run id it
reserves, the fingerprint of the request and its state. `runs[r]` is the task
with id `r` (its status and the idempotency record in its runtime), `queue` the
runs with an entry, `popped` those an agent holds, `placed` a history of the
runs that were put into the queue or that a user stopped. `call[a]` is where
request `a` is and what it has read.

*Actions.* One action per database operation of `start` and of the
`enqueue_task` it calls: `Lookup`, `Reserve`; `FindRun`, `CloneRun`, `AdoptRun`,
`MarkPending`; `EnqueueLoad`, `EnqueueChange`, `FindEntry`, `PushEntry`,
`EnqueueRevert`, `Refetch`; `Commit`, `Recheck`, `SyncReservation`; `Cleanup`.
`RaiseElsewhere` and the last disjuncts of `PushEntry` are calls that raise,
before and after they took effect; `Crash` is the end of the process. `PopRun`,
`StartRun`, `EndRun`, `DequeueRun` and `StopRun` are agents and users.

*Abstractions.* The requests have one key, caller and definition revision, and
go to the queue of the reservation; `Body[a]` is what else the fingerprint
covers. A request that fails the checks before `Lookup` changes nothing and is
left out, as are version 1 graphs, which have no key. What agents and users do
is one step each: `TaskQueue` has it operation by operation. So are
`execution.queue` and the other queues, which `start` never looks at. Nobody
deletes a run but `Cleanup`.

*IdempotentStart* is the abstract specification: a key is bound once to a
request and a run; a request is answered with that run if it is the one the key
is bound to, refused if it is not, or fails. `ImplementsIdempotentStart` maps
the reservation, without its state, to the binding.

### FlowStore and FlowEditor

*State.* `graph` is the signal of the same name in `ClearpipeFlowStoreService`:
the run status of each node, edges, groups, what each boundary holds and whether
it stops a run, and `detail` for all other content. `Content` is what a save
stores of it (no statuses). `dirty`, `clipboard` and `connecting` are the
store's; `editingRevision`, `activated`, `running`, `runTaskId`, `saving` and
`busy` are the page's. `saveReq`, `busyReq` and `latestReq` are the requests
behind them, `stream` the three subscriptions to execution snapshots (the
polling, the live surface, the single request), `server` the revisions of the
definition with their contents, and its runs.

*Actions.* In `FlowStore`, one action per command of the store together with the
gesture that calls it (a drag is `moveNodes` and the `commitMove` that follows).
In `FlowEditor`:

| Code | Actions |
|---|---|
| `newPipeline`, `importPipeline`, `save`, `run`, `toggleActivated`, `stop`, hovering and the overview | `New`, `Import`, `Save`, `Run`, `ToggleActivated`, `Stop`, `ToggleLive` |
| the handlers of their answers, `restoreRun`, `consumeSnapshot` | `SaveAnswered`, `StartAnswered`, `ActivateAnswered`, `StopAnswered`, `LatestAnswered`, `Consume` |
| the intervals and `switchMap` of the streams | `Tick`, `AnswerSnapshot`, `FailSnapshot` |
| the API server as the editor sees it (`clearpipe.update` checks the revision, a start names one) | `AnswerSave`, `AnswerBusy`, `AnswerLatest`, `RunProceeds`, `SavedElsewhere` |

*Abstractions.* A position is the set of boundaries around it. Configurations,
names and edge rules are one value. What a node is configured with is not
checked. A run is pending, running or over; `ClearPipeStart` and `DagRunner`
have it in detail. The user may select any nodes that are shown. Undo and redo
exist in the store, and no control calls them. The page ends when a created
definition leads to the library, or New to another page; a link out of it is
left out. Its guard against unsaved work asks `GraphStoreService`, which this
page never changes (see the hazards).

### ExperimentsTable

*State.* `experiments`, `scrollId`, `refreshList`, `noMoreExperiment` and
`loading` are in the store; `refreshActions` and `lockRefresh` are variables of
the effects, `audit` the action that `auditTime` holds back. `request[k]` is the
request that effect `k` (refetch, refresh, next page) waits for, with what it
had read of the store when it was sent; `cancelled` one that its `switchMap` has
given up and that the server may still serve. `url`, `filter` and `search` are
what the next request asks for. `tasks` and `position` are the server's.

*Actions.* One action per dispatched action of the store with the effect it
triggers, and per answer or error: `FollowUrl`, `TableFilterChanged`,
`GlobalFilterChanged`, `OpenProject`, `SelectExperiment`; `SendRefetch`,
`RefetchAnswered`, `RefetchFailed`; `AutoRefresh`, `RefreshButton`,
`RefreshAnswered`, `RefreshFailed`; `GetNextExperiments`, `NextAnswered`,
`NextFailed`; create, select all and archive with their answers. The API server
reads a page (`ServeRead`) and writes the position of the scroll afterwards
(`ServeWrite`), as `get_data_with_scroll_support` does; a fetch of no rows, which
a pending refresh of an empty table asks for, is refused (`validate_scroll_size`)
and ends in `RefetchFailed`; a scroll may expire, and others add and archive
tasks.

*Abstractions.* Tasks are in one order, newest first, and a filter is the set of
tasks it selects; columns, sorting and preferences are left out. The total
count, show only selected and downloads are left out.

### Notifier

*State.* `buffer` is the batch that `bufferTime` collects, `queue` and `current`
the queue service with the action in progress and what it waits for
(`waits`), `notifications` and `elementShift` the container, `autoHide[n]` the
timer service of notification `n` (`stray` counts timeouts that nobody clears).
`timeouts` and `animations` are the callbacks the browser owes.

*Actions.* `AddMessage` and `ShowMessages` (the effect of `layout.effects.ts`);
`NotificationReady`, `AnimationEnds` and `Handle`, which takes the next action
from the queue, are the container; `TimeoutFires` what it postpones by
`setTimeout`; `AutoHideEnds` the timers; `MouseMoves`, `ClickDismiss` and
`ActionClick` the user.

*Abstractions.* Heights are small numbers and times are left out: a callback
may come at any moment after it was asked for. The configuration is that of
`app.module.ts` with the defaults (animations that overlap, stacking). `hide`, `hideAll`,
`hideOldest` and `hideNewest`, which the application does not call, are left
out.

## 3. Runs

| Run | Result | Shows |
|---|---|---|
| `task_queue_race` | holds | two clients, two enqueues each, two queues, an agent: with no enqueue running the task is in one queue at most, and no queue ever holds it twice |
| `task_queue_serve` | holds | enqueues against stop, dequeue and failed: a settled queued task is in the queue it names (safety) and is served or taken back (liveness) |
| `task_queue_all` | holds | every call, crashes of a server and of an agent, failing metrics, watchdog: types, status table |
| `task_queue_stranded` | violated | two enqueues that both push before either pulls leave a queued task in no queue |
| `dag_restart` | holds | two nodes, one retry, one timeout, two lives, crashes, failing calls, users: dependencies respected, launches bounded |
| `dag_run` | holds | three nodes, retry, timeout, `continueOnFail`, failing calls, users, one life: implements `Workflow`, true record, the run ends |
| `dag_cancel` | violated | cancelling leaves a queued child in its queue, and it runs |
| `start_key` | holds | three starts with one key, one of them for something else; crashes, failing calls, agents, users: implements `IdempotentStart`, an answered run was enqueued |
| `start_lost` | violated | of two identical starts one deletes the run that the other has answered with |
| `flow_editor` | holds | one page of the flow editor, its requests overlapping, failing and answered late: a clean graph is the saved one, a start runs what is shown, a run is followed to its end, the graph stays sound; imports, polling that failed and a late answer of `latestRun` are exempt (see below) |
| `experiments_table` | holds | filters, refreshes, pages, expiry and failures: rows answer the query, their number is where the next page starts, lock and spinners are released, auto refresh catches up |
| `notifier` | holds | bursts of messages, clicks, a moving mouse, late timers: one action at a time, the stack is bounded and without gaps, messages are shown unless a full stack hid them first, and end |

`PROJECT.json` has a finding for each violated run.

*Bounds.* One task and two queues: every property of `TaskQueue` is about one
task, calls on other tasks touch neither its document nor its entries, and two
queues are needed for a task to be in two. Two clients are the least that
interleave; two or three calls of one client are needed for a task to be
enqueued again after it was taken out. `task_queue_serve` has one submitter,
because of the violation `task_queue_stranded` shows with two. In it, dequeue
names the status it wants ("created"): with the default, `enqueue_status`, the
property fails, because the revert of a failed enqueue forgets `enqueue_status`
(`bll/task/task_operations.py:271`). In
`dag_restart` two nodes in a row and one restart are the least in which a
parent's state is restored before its child is launched, and `ErrorLimit` is 1
(5 in the code) as errors only lead to failed; it is 2 in `dag_run`. The join
of `dag_run` has a node with two parents, one of which may be skipped.
In `start_key` two identical
requests are the least in which one adopts the run of the other or repairs what
it left when it died, and the third reuses the key; the two are exchangeable
(`SYMMETRY`). `start_lost` turns crashes, failing calls and users off, so that
nothing but the interleaving is to blame.

The runs of the web application start from a set of sessions, each with a budget
of what the user does and of what goes wrong, so that the hazards meet in small
groups and not all at once. `flow_editor` has four node ids, which
are enough to clone or split one of two nodes twice, one boundary, three
revisions (a save of its own and one from elsewhere), and two values of
everything else; about 200 000 states. `experiments_table` has three
tasks, of which one appears while the table is open and one is left out by the
narrow filter, pages of one, and more names for scrolls than requests can hold;
the budget `slow` bounds the ticks that overtake an unanswered refresh; one session
has no task at first, so that a pending refresh asks for no rows; about 600 000
states. `notifier` stacks two (4 in the application; two is the least where one
makes place while another stays) and has up to four messages: two fill the
stack, the third takes the place of the first while the fourth waits; about
30 000 states.

Some properties of these modules exempt a state that the code really reaches,
and name it, mostly by a history variable. In the first two cases the code
promises otherwise, and the model reaches the contrary:

* `CleanMeansSaved` and `StartRunsWhatIsShown`: a graph that was imported and not
  saved since (`imported`). `load` leaves no mark of unsaved changes, so `Import`
  and then `Run` start the revision saved before, while the canvas shows the
  imported graph; the comment of `run` is "persist first when there are edits".
* `RunningIsFollowed` and `RunningEnds`: polling of which a request failed
  (`pollFailed`). `FailSnapshot` ends it, and the run stays shown as running with
  nothing that follows it; the comment of `startPolling` is "polling continues".
  `RunningIsFollowed` also exempts an older run that a late `restoreRun` brought
  back (`overtaken`).
* `RowsAreOfTheQuery`: an answer to an older query that came last (`late`), or a
  fetch that failed (`unanswered`).
* `NextPageContinues`: requests that overlapped or failed and rows that were
  removed (`disturbed`), a table marked to be refreshed (`refreshList`). It
  compares numbers: a task added elsewhere makes the next page repeat a row.
* `TableCatchesUp`: a refresh that breaks on missing rows (`Broken`).
* `SpinnersStop`: a fetch that failed and an effect that has ended (`unanswered`,
  `ended`).
* `HoveredStays`: a mouse that was there before the timer (`early`).
* `MessagesAreShown`: a notification hidden while its `show` was still postponed
  (`HiddenUnseen`). `HiddenUnseenForPlace` says how: only as the oldest of a
  stack that is too full.
* `ClicksAreDispatched`: a click during the hide animation (`tooLate`).

One more promise of the editor's comments is false, and no property states it:
"the backend stop request continues in the background" (`stop`). An
`ActivateAnswered` that deactivates a running pipeline stops showing the run and
sends nothing, as `busy` is still up (`StopAsks`).

The hazards list has the lines.

`CHECK_DEADLOCK FALSE`: clients stop when their calls are used up, and a
controller that ended is not started for ever; a start is answered once.

*Fairness.* A handler that runs goes on (`WF` of `Handle`) and agents poll for
ever (`WF` of `AgentStep`); in `DagRunner` the controller's process goes on and
a child that agents run comes to an end. Nobody is obliged to send a call, to
stop anything, to crash, to fail or to restart, and the watchdog owes nothing.
In `FlowEditor` the polling interval ticks and its requests are answered; that
`switchMap` does not drop every answer is strong fairness of `Consume("poll")`,
stated with its ENABLED written out. In `ExperimentsTable` the page follows its
url, requests that are not cancelled are answered, and the refresh interval
keeps ticking while auto refresh is on. In `Notifier` the browser fires timers,
renders and finishes animations. The users of the web application owe nothing.

*Mutants.* Definitions named `X_Something` are wrong versions of `X`; replacing
`X` by one makes the property listed with it in `PROJECT.json` fail.

## 4. Proofs

The theorems about `TaskQueue` hold for any sets of tasks, queues, clients,
agents and watchdogs, any requests and any subset of processes that crash, from
the assumption `Assumptions` of `TaskQueue` alone.

* `TypeCorrect`: `Spec => []TypeOK`. `TypeOK` is not inductive: that a handler
  writes a well-typed status depends on what it has read. `TypeInv` adds
  `CallsOK`: for each label, which fields of the call are set. One lemma per
  group of operations, then one step per disjunct of `Next`.
* `NoDuplicates`: `Spec => []NoDuplicateEntries`, inductive with `TypeInv`: only
  `PushEntry` adds entries and it repeats the test.
* `StatusChangesFollowTable`: `Spec => StatusFollowsTable`, action by action:
  an unforced write succeeds only if the task still has the status it was
  validated against.
* `OneQueueAtMost`: `Spec => []SettledInOneQueue` under `EnqueueOnly` (no
  add_task or move_task, no crash, no failing metrics, which make it false).
  The invariant `ExtraEntriesWillGo` says of any two queues that hold a task
  that a running enqueue will still pull it from one of them (`WillPull`).
* `QueuedIsWhereItSays`: `Spec => []QueuedTaskIsWhereItSays` under
  `LoneSubmitters`, which is what makes it true: one client enqueues a task
  (see `task_queue_stranded`); dequeue names the status it wants and looks in
  one queue, as a pull from all queues may take an entry pushed after its
  read; no reset, archive or forced publish, which write what they read
  earlier; no call on queues, which take entries first and look at the task
  later; no crash, no failing metrics. TLC finds the property violated as soon
  as one of these requests is let in. Any number of agents, watchdogs and
  other clients may act. `QueuedIsFound` says of a queued task that it is
  where it says, or that somebody will not leave it queued (`Taken`: a dequeue
  or stop that has read "queued", an agent that has popped it), or that its
  enqueue is not done (`Puts`); `PushIsFound` says the same of the queue that
  an enqueue has pushed into and is about to record. `Keeps` is what each
  operation owes them.

The theorems about `DagRunner` hold for any graph (cycles included: their nodes
are never launched), retries, timeouts and number of lives, with crashes,
failing calls and users at any point, from `GraphAssumption` alone.

* `RunnerTypes`: `Spec => []TypeOK`. A child index is in range only because the
  controller polls, cancels and times out nodes that have a child; `PlacesInv`
  says so for each label.
* `LaunchesBounded`, `DependenciesRespected` and `ParentsFirst` share the
  invariant `Inv`. The lemma `Kinds` sorts every step of `Next` into a few kinds
  by what it does to the children, the record and the controller's view; each
  part of `Inv` is then preserved kind by kind.
* `LaunchesBounded`: `Spec => []AttemptsBounded` needs `CountInv`: in a life, the
  children beyond the quota of the earlier lives are counted in `attempts`, and
  a node that is pending again has a retry left.
* `DependenciesRespected`: `Spec => LaunchedAfterParents` needs `SuccessIsReal`
  (a node held for a success has a child on record that is one, also after a
  restore) and `SuccessIsOff` (no agent or user moves a child that succeeded).
* `ParentsFirst`: `Spec => ParentsSettleFirst` needs `OrderInv`: the parents of a
  node that was launched in this life have ended, and only a node that has not
  ended is settled.
* `RecordTellsTheRun`: `MaxLives <= 1 /\ Spec => []RecordIsTrue`. `OneLifeInv`
  adds to `Inv` that the end of a node the controller holds for settled is on
  record (`RecordInv`), and that a node that has a child was launched, after its
  parents had succeeded (`LaunchInv`). One life is what the code
  promises: a second life restores a child that ended between the lives without
  recording it.
* `RunImplementsWorkflow`: `Spec => ImplementsWorkflow` for one life that is not
  killed, with failing calls and users. `OneLifeKinds` sorts the steps, and each
  kind maps to `Begin`, `End`, `Skip` or `Finish` of `Workflow` or to a stutter.
  A crash loses the memory of the controller, which the phases are read from.

The theorems about `ClearPipeStart` hold for any number of requests with one
key, whatever they ask for, from `StartAssumption` alone.

* `StartTypes`: `Spec => []TypeOK`, with the invariant `IInv`.
* `KeyIsBoundOnce`: `Spec => ImplementsIdempotentStart`. The invariant says that
  what a request knows of the reservation is stale in its state only (`Fits`):
  `MarkPending` and `SyncReservation` write a whole document that was read long
  before, and it still binds the same run and fingerprint. Each action of a
  request is `Sound`; sound steps map to abstract steps or stutters.
* `AnsweredRunsWereEnqueued`: `Spec => []EnqueuedIsReal`. `PlacedInv` says that
  a run that has gone beyond queued, or whose record is committed, was placed
  (`RunsArePlaced`), and so was the run of a request that has seen it that far
  (`CallsVouch`): a request answers on the strength of a status it has read
  before, and what it has read stays true of the past.

The theorems about `FlowEditor` hold for any sessions, any imports and any number
of nodes and revisions, from its assumptions: a session starts with the graph of
a definition whose nodes are numbered in order, and what is imported has the
form of a graph (`GraphsAssumption`); `None` is none of the values used
(`NoneAssumption`, `StoreAssumption`).

* `CleanGraphIsSaved`: `Spec => []CleanMeansSaved`, which exempts a graph imported
  and not saved since. The invariant adds what a
  save in flight knows: the graph it sent is the content of the revision it
  created, until it is answered (`SaveOK`), whatever the server's revision has
  become (`ServerOK`). The lemma `StatusIsNoContent` takes care of the handlers
  that only write statuses, `CanvasSteps` of the commands.
* `StartsAreOfTheShownGraph`: `Spec => StartRunsWhatIsShown`, from the same
  invariant: a start is sent by `Run` on a clean graph, or by `SaveAnswered`
  after it has put the saved graph back on the canvas. An imported graph is
  exempt here too: its start names the revision saved before the import.
* `TypeCorrect`: `Spec => []TypeOK`, with the invariant `Typed`, which also gives the
  form of the graphs on the canvas, on the clipboard and in each request.
* `BusyIsTheRequest`: `Spec => []BusyMatchesRequest`, which is proved only and
  says that the flags agree with the requests; and `RunningIsPolled`:
  `Spec => []RunningIsFollowed`, from `Typed` and from what the flags and the
  streams have to do with the requests. The second says that the polling of a
  run shown as running has not ended unless one of its requests failed since
  the run began, and that it is of the run named unless it was overtaken.
* `ShownGraphIsSound`, `ExcludedAreStopped` and `InProgressIsExecuted` state
  `GraphIsSound`, `ExcludedNodesAreExplained` and `ShownInProgressIsExecuted`
  under `SoundSources`: the graphs of the sessions and imports are sound. The
  page does not check them (a cycle in an imported file is shown), so without
  that the three are false. `SoundInv` asks the same of the clipboard and of
  the graph in a save.

`FlowStoreProofs` has the lemmas on the commands. `Below` is a recursive
function of the edges; that it reaches a fixed point within as many steps as
there are nodes is an induction, and it is then characterised as the least set
that is closed under the edges. To prove that edges have no cycle, a lemma asks
for each edge for a closed set that holds its target and not its source: for
edges that stay, what was below the target before; for a clone or the two parts
of a split, the image of that set.

The theorems about `ExperimentsTable` hold for any tasks, filters, sessions and
page size, from `TableAssumption`, `NoneAssumption` and `ScrollsAssumption`
(there are infinitely many scroll ids, or at least nine: the table and its
requests hold eight at most when one is drawn; without this the abstraction
would run out of ids, which uuid4 does not).

* `TypeCorrect`: `Spec => [](TypeOK /\ RequestsOK)`. `RequestsOK` is what each
  effect asks for: a request names the scroll of its answer exactly when the
  server has read it, a refetch continues no scroll, a page is asked for only
  while there are rows.
* `LockIsOwned`: `Spec => []RefreshLockIsOwned`; `SpinnersHaveOwners`:
  `Spec => []SpinnersAreOwed`: each flag is traced to the request, the pending
  action or the ended effect that has to clear it.
* `RowsMatchTheQuery`: `Spec => []RowsAreOfTheQuery`. A request carries the query
  it was sent with, and what it has read answers that query (`DataOfQuery`); a
  refetch in flight asks for the present query, unless a change of it is still
  in the url or waits to be sent (`RefetchOfQuery`).
* `NextPageIsRight`: `Spec => []NextPageContinues`, the longest. The scroll of a
  refetch is nobody else's (`RefetchInv`); while nothing was `disturbed` there
  is one request at a time (`AloneInv`), what it knows of the table is still so
  (`KnowsInv`), and the position of the table's scroll on the server is the
  number of rows shown (`PageInv`). Which tasks stand at that position is not
  said: others move them.

The theorems about `Notifier` hold for any stacking from 2, any number of
messages, of any heights, and any sessions, from `NotifierAssumption` alone.

* `OneActionAtATime`: `Spec => []ActionsAreSerialized`, and `NeverTooMany`:
  `Spec => []StackIsBounded`, come from `Inv`: an id is in the batch, in the
  queue or in the list once, or was hidden (`QueueOK`, `ListOK`, `BatchOK`), and
  an animation that hides or shifts belongs to the action in progress
  (`AnimationsOK`). `PendingIsTail` says what skipping the actions with nothing
  to hide leaves of the queue.
* `NoGaps`: `Spec => []StackHasNoGaps`. At rest each notification is where the
  heights of the later ones put it, but that is not inductive: shifts are
  postponed until an animation ends. `PlacesInv` is: for each notification, its
  shift, plus the shifts up it is owed, minus those down, is the sum of the
  heights of the later ones that have arrived and are not being hidden. The
  sums are over sets, defined by recursion on the ids (`Total`, `BelowIs`), so
  that a lemma adds a term or takes one out.
* `HoveredDoNotTimeOut`: `Spec => HoveredStays`. A notification is shown once
  (`OnceInv`), so its timer starts once; a mouse that comes later stops it,
  and leaves no stray timeout (`MouseInv`); what stays until it is closed has no
  timer (`SilentInv`).
* `UnseenMadePlace`: `Spec => HiddenUnseenForPlace`. A notification that is not
  seen yet cannot be clicked and has no timer that runs, so no action that hides
  it by its id is on its way (`SeenInv`); what is left is the handler that makes
  place.
* `TypeCorrect`: `Spec => []TypeOK`, with `TypesInv`.

Every invariant and action property that a passing run checks, and both
refinements, are stated by a theorem. Only model-checked are the liveness
properties: fairness and ENABLED are outside the prover's reach. Where a proof
needs induction over the numbers, it is stated of sets (`NatSetInduction`),
which the provers can instantiate; no module with a theorem uses a RECURSIVE
operator.

## 5. Plan

In this order, the most important behaviour first:

1. `ClearPipeDefinition`: revisions, activation, archive, delete, with the
   scheduler's tick and `FlowEditor` as clients; theorem: no update is lost
   between revisions.
2. `Autoscaler`: executions, two workers, worker death, saved instances;
   theorem: an execution is claimed once.
3. `UrlsDelete`: chunks, failures, retry counter; theorem: a deleted url was
   deleted from its store.
4. `Workers`: registry entries, expiry, auto-registration.
5. Proofs: the safety of the modules above, as they are written.

Not modelled: see the components marked `not_modelled` in `PROJECT.json`, with
the reason. The older graph editor (`features/clearpipe/editor`) has no route.
Most of the code is generated clients of the API, views of one document with one
request, and forms: it has no coordination to check.
