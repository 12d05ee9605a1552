----------------------------- MODULE TaskQueue ------------------------------
(***************************************************************************)
(* Tasks, the queues they wait in, and the API calls that move them.       *)
(*                                                                         *)
(* Task and queue documents live in MongoDB.  Every API call is handled by *)
(* a thread of some API server process as a sequence of database           *)
(* operations; each operation on one document is atomic, the sequence is   *)
(* not, and what a call read earlier may be stale when it writes.  A call  *)
(* in flight is a record with the label of its next operation and the data *)
(* it has read.  Each action below is one operation together with the      *)
(* decisions that the code makes on its result.                            *)
(*                                                                         *)
(* A queue's entries are a set: the position of an entry decides only      *)
(* which one an agent receives first, and the reposition calls may put any *)
(* of them first.                                                          *)
(***************************************************************************)
EXTENDS TaskStatus, Naturals, FiniteSets

CONSTANTS
  Tasks,
  Queues,
  Clients,      \* users and SDK programs: they send the calls in Requests
  Agents,       \* clearml-agent processes: poll the queues and start tasks
  Watchdogs,    \* the non-responsive-tasks threads
  None,         \* no task, no queue, no status
  Requests,     \* Requests[c] is the set of calls client c may send
  MaxCalls,     \* bound: the number of calls each client sends
  Crashing,     \* the processes that may die in the middle of a call
  MetricsFail   \* whether logging queue metrics (ES, Redis) may raise

Procs == Clients \union Agents \union Watchdogs

VARIABLES
  status, enqueueStatus, execQueue,  \* the task documents
  live, entries,                     \* the queue documents
  now,                               \* a clock: the next entry's time stamp
  call,                              \* the call each process has in flight
  budget,                            \* calls each client may still send
  held                               \* the task an agent popped, not started

taskVars  == <<status, enqueueStatus, execQueue>>
queueVars == <<live, entries>>
vars == <<taskVars, queueVars, now, call, budget, held>>

Entry == [task : Tasks, added : Nat]

Label == { "idle", "load", "cas", "find", "push", "reload", "revert",
           "setexec", "sweep", "locate", "pull", "pulled", "rmload", "rmcas",
           "readqueue", "wipe", "drop", "report", "fixread", "fixwrite",
           "publishing", "pubcas", "unpublish", "stopping" }

Op == { "none", "enqueue", "dequeue", "stop", "set_status", "reset", "archive",
        "publish", "add_task", "remove_task", "move_task", "clear_queue",
        "delete_queue", "get_next_task", "cleanup_tasks" }

Call ==
  [ op      : Op,
    pc      : Label,
    task    : Tasks \union {None},
    queue   : Queues \union {None},  \* request.queue, or execution.queue as read
    to      : Queues \union {None},  \* the queue that add_task works on
    target  : Queues \union {None},  \* request.target_queue of move_task
    opt     : BOOLEAN,               \* the request's non-default option
    force   : BOOLEAN,
    new     : Status \union {None},  \* the status asked for
    seen    : Status \union {None},  \* task.status as read
    seenEnq : Status \union {None},  \* task.enqueue_status as read
    read    : SUBSET Entry,          \* entries as read, to be pulled by value
    todo    : SUBSET Queues,         \* queues a multi-document pull has yet to visit
    work    : SUBSET Tasks ]         \* tasks a loop has yet to update

NoCall ==
  [ op |-> "none", pc |-> "idle", task |-> None, queue |-> None, to |-> None,
    target |-> None, opt |-> FALSE, force |-> FALSE, new |-> None,
    seen |-> None, seenEnq |-> None, read |-> {}, todo |-> {}, work |-> {} ]

-----------------------------------------------------------------------------
(* The calls a client may send.  "opt" stands for update_execution_queue =  *)
(* false (enqueue, add, move), remove_from_all_queues (dequeue) and          *)
(* update_task_status (remove).                                             *)

EnqueueCall(t, q, opt, force) ==
  [NoCall EXCEPT !.op = "enqueue", !.pc = "load", !.task = t, !.to = q,
                 !.opt = opt, !.force = force]
DequeueCall(t, opt, new) ==
  [NoCall EXCEPT !.op = "dequeue", !.pc = "load", !.task = t, !.opt = opt,
                 !.new = new]
SetStatusCall(t, new, force) ==
  [NoCall EXCEPT !.op = "set_status", !.pc = "load", !.task = t, !.new = new,
                 !.force = force]
TaskCall(op, t, force) ==
  [NoCall EXCEPT !.op = op, !.pc = "load", !.task = t, !.force = force]
AddCall(t, q, opt) ==
  [NoCall EXCEPT !.op = "add_task", !.pc = "find", !.task = t, !.to = q,
                 !.opt = opt]
RemoveCall(t, q, opt) ==
  [NoCall EXCEPT !.op = "remove_task", !.pc = "locate", !.task = t,
                 !.queue = q, !.opt = opt]
MoveCall(t, q, target, opt) ==
  [NoCall EXCEPT !.op = "move_task", !.pc = "locate", !.task = t, !.queue = q,
                 !.target = target, !.opt = opt]
QueueCall(op, q, force) ==
  [NoCall EXCEPT !.op = op, !.pc = "readqueue", !.queue = q, !.force = force]

EnqueueRequests ==
  { EnqueueCall(t, q, opt, force) :
      t \in Tasks, q \in Queues, opt \in BOOLEAN, force \in BOOLEAN }
DequeueRequests ==
  { DequeueCall(t, opt, new) :
      t \in Tasks, opt \in BOOLEAN, new \in Status \union {None} }
SetStatusRequests ==
  { SetStatusCall(t, new, force) :
      t \in Tasks, force \in BOOLEAN,
      new \in {"stopped", "failed", "closed", "completed", "in_progress"} }
TaskRequests ==
  { TaskCall(op, t, force) :
      op \in {"stop", "reset", "publish", "archive"}, t \in Tasks,
      force \in BOOLEAN }
AddRequests ==
  { AddCall(t, q, opt) : t \in Tasks, q \in Queues, opt \in BOOLEAN }
RemoveRequests ==
  { RemoveCall(t, q, opt) : t \in Tasks, q \in Queues, opt \in BOOLEAN }
MoveRequests ==
  { MoveCall(t, q, target, opt) :
      t \in Tasks, q \in Queues, target \in Queues, opt \in BOOLEAN }
QueueRequests ==
  { QueueCall(op, q, force) :
      op \in {"clear_queue", "delete_queue"}, q \in Queues, force \in BOOLEAN }

AllRequests ==
  EnqueueRequests \union DequeueRequests \union SetStatusRequests
    \union TaskRequests \union AddRequests \union RemoveRequests
    \union MoveRequests \union QueueRequests

ASSUME Assumptions ==
  /\ Requests \in [Clients -> SUBSET AllRequests]
  /\ \A c \in Clients : \A k \in Requests[c] : k.queue # None => k.queue # k.target
  /\ MaxCalls \in [Clients -> Nat]
  /\ Crashing \subseteq Procs
  /\ MetricsFail \in BOOLEAN
  /\ None \notin Tasks \union Queues \union Status

Init ==
  /\ status = [t \in Tasks |-> "created"]
  /\ enqueueStatus = [t \in Tasks |-> None]
  /\ execQueue = [t \in Tasks |-> None]
  /\ live = Queues
  /\ entries = [q \in Queues |-> {}]
  /\ now = 0
  /\ call = [p \in Procs |-> NoCall]
  /\ budget = MaxCalls
  /\ held = [a \in Agents |-> None]

-----------------------------------------------------------------------------
(* Parts shared by the handlers.                                            *)

Holding(q, t) == \E e \in entries[q] : e.task = t
TasksIn(q) == { e.task : e \in entries[q] }

(* Process p is about to run the operation labelled l. *)
At(p, l)   == call[p].pc = l
Set(p, k)  == call' = [call EXCEPT ![p] = k]
Goto(p, l) == Set(p, [call[p] EXCEPT !.pc = l])

(* The handler replies or raises: either way the call is over. *)
Return(p) == Set(p, NoCall)

(* Mutant: the update does not ask for the status that was read. *)
CanChange_NoCas(k, force, new) == ValidTransition(force, k.seen, new)

(* ChangeStatusRequest.execute: validate the change from the status the     *)
(* call read, then update the task on condition that it still has it.       *)
CanChange(k, force, new) ==
  ValidTransition(force, k.seen, new) /\ status[k.task] = k.seen

ChangeStatus(k, new, enq, exec) ==
  /\ status' = [status EXCEPT ![k.task] = new]
  /\ enqueueStatus' = [enqueueStatus EXCEPT ![k.task] = enq]
  /\ execQueue' = [execQueue EXCEPT ![k.task] = exec]

(* Mutant: no default for a task whose previous status is not recorded. *)
Before_NoDefault(k) == k.seenEnq

(* A task that leaves its queue goes back to the status it was queued from. *)
Before(k) == IF k.seenEnq = None THEN "created" ELSE k.seenEnq

(* What a handler reads of its task. *)
Snapshot(k) == [k EXCEPT !.seen = status[k.task],
                         !.seenEnq = enqueueStatus[k.task]]

-----------------------------------------------------------------------------
(* A client sends a call. *)
Issue(c) ==
  /\ call[c].pc = "idle" /\ budget[c] > 0
  /\ \E k \in Requests[c] : Set(c, k)
  /\ budget' = [budget EXCEPT ![c] = @ - 1]
  /\ UNCHANGED <<taskVars, queueVars, now, held>>

-----------------------------------------------------------------------------
(* QueueBLL.add_task: look for the task in the queue, push it on condition  *)
(* that it is still not there, reload the queue and log its metrics.        *)

(* The next operation after add_task raised: enqueue reverts the task's     *)
(* status, move puts the task back into its source, add just fails.         *)
AddFailed(p) ==
  LET k == call[p] IN
  \/ k.op = "enqueue" /\ Goto(p, "revert")
  \/ k.op = "move_task" /\ k.to # k.queue
       /\ Set(p, [k EXCEPT !.pc = "find", !.to = k.queue])
  \/ k.op = "move_task" /\ k.to = k.queue /\ Return(p)
  \/ k.op = "add_task" /\ Return(p)

AddSucceeded(p) ==
  LET k == call[p] IN
  IF k.op = "move_task" /\ k.to = k.queue THEN Return(p)
  ELSE IF ~k.opt THEN Goto(p, "setexec")
  ELSE IF k.op = "enqueue"
       THEN Set(p, [k EXCEPT !.pc = "sweep", !.todo = Queues \ {k.to}])
       ELSE Return(p)

FindInQueue(p) ==
  LET k == call[p] IN
  /\ At(p, "find")
  /\ IF k.to \in live /\ ~Holding(k.to, k.task) THEN Goto(p, "push")
                                                ELSE AddFailed(p)
  /\ UNCHANGED <<taskVars, queueVars, now, budget, held>>

(* Mutant: the push does not repeat the test that the task is not queued. *)
PushEntry_Unconditional(p) ==
  LET k == call[p] IN
  /\ At(p, "push")
  /\ IF k.to \in live
     THEN /\ entries' = [entries EXCEPT ![k.to] =
                           @ \union {[task |-> k.task, added |-> now]}]
          /\ now' = now + 1
          /\ Goto(p, "reload")
     ELSE /\ AddFailed(p)
          /\ UNCHANGED <<entries, now>>
  /\ UNCHANGED <<taskVars, live, budget, held>>

PushEntry(p) ==
  LET k == call[p] IN
  /\ At(p, "push")
  /\ IF k.to \in live /\ ~Holding(k.to, k.task)
     THEN /\ entries' = [entries EXCEPT ![k.to] =
                           @ \union {[task |-> k.task, added |-> now]}]
          /\ now' = now + 1
          /\ Goto(p, "reload")
     ELSE /\ AddFailed(p)
          /\ UNCHANGED <<entries, now>>
  /\ UNCHANGED <<taskVars, live, budget, held>>

ReloadAfterPush(p) ==
  /\ At(p, "reload")
  /\ \/ call[p].to \in live /\ AddSucceeded(p)
     \/ (call[p].to \notin live \/ MetricsFail) /\ AddFailed(p)
  /\ UNCHANGED <<taskVars, queueVars, now, budget, held>>

(* Mutants: enqueue leaves the other queues alone; the recorded queue is    *)
(* left as it was.                                                          *)
SetExecutionQueue_NoSweep(p) ==
  /\ At(p, "setexec")
  /\ execQueue' = [execQueue EXCEPT ![call[p].task] = call[p].to]
  /\ Return(p)
  /\ UNCHANGED <<status, enqueueStatus, queueVars, now, budget, held>>

SetExecutionQueue_Stale(p) ==
  /\ At(p, "setexec")
  /\ Set(p, [call[p] EXCEPT !.pc = "sweep", !.todo = Queues \ {call[p].to}])
  /\ UNCHANGED <<taskVars, queueVars, now, budget, held>>

(* The task's execution.queue is set to the queue it was added to. *)
SetExecutionQueue(p) ==
  LET k == call[p] IN
  /\ At(p, "setexec")
  /\ execQueue' = [execQueue EXCEPT ![k.task] = k.to]
  /\ IF k.op = "enqueue"
     THEN Set(p, [k EXCEPT !.pc = "sweep", !.todo = Queues \ {k.to}])
     ELSE Return(p)
  /\ UNCHANGED <<status, enqueueStatus, queueVars, now, budget, held>>

-----------------------------------------------------------------------------
(* TaskBLL.remove_task_from_all_queues: one update of many documents, which *)
(* visits the queues one by one.                                            *)

Sweep(p) ==
  LET k == call[p] IN
  /\ At(p, "sweep")
  /\ \E q \in k.todo :
       /\ entries' = [entries EXCEPT ![q] = {e \in @ : e.task # k.task}]
       /\ Set(p, [k EXCEPT !.todo = @ \ {q}])
  /\ UNCHANGED <<taskVars, live, now, budget, held>>

SweepDone(p) ==
  LET k == call[p] IN
  /\ At(p, "sweep") /\ k.todo = {}
  /\ \/ k.op = "enqueue" /\ Return(p)
     \/ k.op \in {"dequeue", "archive"}
          /\ IF k.seen \in {"queued", "in_progress"} THEN Goto(p, "cas")
                                                     ELSE Return(p)
     \* cleanup_task refuses a task with published children or models
     \/ k.op = "reset" /\ Goto(p, "cas")
     \/ k.op = "reset" /\ ~k.force /\ Return(p)
  /\ UNCHANGED <<taskVars, queueVars, now, budget, held>>

-----------------------------------------------------------------------------
(* QueueBLL.remove_task: read the queue's entries of the task, pull exactly *)
(* those, reload the queue and log its metrics.                             *)

(* The call goes on after TaskBLL.dequeue, whether it removed the task,     *)
(* found nothing to remove, or raised an APIError that the caller drops.    *)
AfterDequeue(p, k) ==
  \/ k.op = "stop" /\ Set(p, [k EXCEPT !.pc = "cas"])
  \/ k.op = "dequeue" /\ ~k.opt
       /\ IF k.seen \in {"queued", "in_progress"}
          THEN Set(p, [k EXCEPT !.pc = "cas"])
          ELSE Return(p)
  \/ (k.op \in {"archive", "reset"} \/ (k.op = "dequeue" /\ k.opt))
       /\ Set(p, [k EXCEPT !.pc = "sweep", !.todo = Queues])

LocateEntry(p) ==
  LET k == call[p]
      found == {e \in entries[k.queue] : e.task = k.task}
  IN
  /\ At(p, "locate")
  /\ IF k.queue \in live /\ found # {}
     THEN Set(p, [k EXCEPT !.pc = "pull", !.read = found])
     ELSE \/ k.op \in {"remove_task", "move_task"} /\ Return(p)
          \/ AfterDequeue(p, k)
  /\ UNCHANGED <<taskVars, queueVars, now, budget, held>>

PullEntries(p) ==
  LET k == call[p]
      matched == Holding(k.queue, k.task)
  IN
  /\ At(p, "pull")
  /\ entries' = [entries EXCEPT ![k.queue] = @ \ k.read]
  /\ Set(p, [k EXCEPT
               !.pc = IF k.op = "remove_task" /\ k.opt /\ matched THEN "rmload"
                                                                  ELSE "pulled",
               !.read = IF matched THEN @ ELSE {},
               !.work = IF k.op = "remove_task" THEN {k.task} ELSE {}])
  /\ UNCHANGED <<taskVars, live, now, budget, held>>

(* Reloading a queue that is gone raises, and so may the metrics; callers   *)
(* catch APIErrors only.                                                    *)
ReloadAfterPull(p) ==
  LET k == call[p] IN
  /\ At(p, "pulled")
  /\ \/ (k.queue \notin live \/ MetricsFail) /\ Return(p)
     \/ k.queue \in live
        /\ \/ k.op = "remove_task" /\ Return(p)
           \/ k.op = "move_task" /\ k.read = {} /\ Return(p)
           \/ k.op = "move_task" /\ k.read # {}
                /\ Set(p, [k EXCEPT !.pc = "find", !.to = k.target])
           \/ AfterDequeue(p, k)
  /\ UNCHANGED <<taskVars, queueVars, now, budget, held>>

-----------------------------------------------------------------------------
(* QueueBLL._update_task_status_on_removal_from_queue: for each task of     *)
(* k.work, read it if its execution.queue still is this queue, then give it *)
(* back the status it was queued from.  A failed change is only logged.     *)

LoadRemoved(p) ==
  LET k == call[p] IN
  /\ At(p, "rmload")
  /\ \E t \in k.work :
       Set(p, IF execQueue[t] = k.queue
              THEN Snapshot([k EXCEPT !.task = t, !.pc = "rmcas"])
              ELSE [k EXCEPT !.work = @ \ {t}])
  /\ UNCHANGED <<taskVars, queueVars, now, budget, held>>

RevertRemoved(p) ==
  LET k == call[p] IN
  /\ At(p, "rmcas")
  /\ IF CanChange(k, TRUE, Before(k))
     THEN ChangeStatus(k, Before(k), None, None)
     ELSE UNCHANGED taskVars
  /\ Set(p, [k EXCEPT !.pc = "rmload", !.work = @ \ {k.task}])
  /\ UNCHANGED <<queueVars, now, budget, held>>

RemovedDone(p) ==
  LET k == call[p] IN
  /\ At(p, "rmload") /\ k.work = {}
  /\ \/ k.op = "remove_task"  /\ Goto(p, "pulled")
     \/ k.op = "clear_queue"  /\ Goto(p, "wipe")
     \/ k.op = "delete_queue" /\ Goto(p, "drop")
  /\ UNCHANGED <<taskVars, queueVars, now, budget, held>>

(* QueueBLL.clear_queue and delete: read the entries, update the tasks that *)
(* were read, then empty or delete the queue whatever it holds by then.     *)
ReadQueue(p) ==
  LET k == call[p]
      Loop == Set(p, [k EXCEPT !.pc = "rmload", !.work = TasksIn(k.queue)])
  IN
  /\ At(p, "readqueue")
  /\ \/ k.queue \notin live /\ Return(p)
     \/ k.queue \in live /\ k.op = "clear_queue"
          /\ IF entries[k.queue] = {} THEN Return(p) ELSE Loop
     \/ k.queue \in live /\ k.op = "delete_queue"
          /\ IF entries[k.queue] = {} THEN Goto(p, "drop")
             ELSE IF k.force THEN Loop ELSE Return(p)
  /\ UNCHANGED <<taskVars, queueVars, now, budget, held>>

WipeQueue(p) ==
  /\ At(p, "wipe")
  /\ entries' = [entries EXCEPT ![call[p].queue] = {}]
  /\ Return(p)
  /\ UNCHANGED <<taskVars, live, now, budget, held>>

DropQueue(p) ==
  /\ At(p, "drop")
  /\ live' = live \ {call[p].queue}
  /\ entries' = [entries EXCEPT ![call[p].queue] = {}]
  /\ Return(p)
  /\ UNCHANGED <<taskVars, now, budget, held>>

-----------------------------------------------------------------------------
(* The handlers' own operations: load the task, change its status.          *)

EnqueueLoad(p) ==
  LET k == call[p]
      MayKeepQueue == status[k.task] = "queued" /\ execQueue[k.task] # None
  IN
  /\ At(p, "load") /\ k.op = "enqueue"
  /\ IF k.opt => MayKeepQueue
     THEN Set(p, Snapshot([k EXCEPT !.pc = "cas"]))
     ELSE Return(p)
  /\ UNCHANGED <<taskVars, queueVars, now, budget, held>>

EnqueueChange(p) ==
  LET k == call[p]
      before == IF k.seen = "queued" /\ k.seenEnq # None THEN k.seenEnq
                                                         ELSE k.seen
  IN
  /\ At(p, "cas") /\ k.op = "enqueue"
  /\ IF CanChange(k, k.force, "queued")
     THEN /\ ChangeStatus(k, "queued", before, execQueue[k.task])
          /\ Goto(p, "find")
     ELSE Return(p) /\ UNCHANGED taskVars
  /\ UNCHANGED <<queueVars, now, budget, held>>

(* "failed enqueueing, revert to previous state" *)
EnqueueRevert(p) ==
  LET k == call[p] IN
  /\ At(p, "revert")
  /\ IF status[k.task] = "queued"
     THEN ChangeStatus(k, k.seen, None, execQueue[k.task])
     ELSE UNCHANGED taskVars
  /\ Return(p)
  /\ UNCHANGED <<queueVars, now, budget, held>>

(* dequeue, archive, stop and reset first take a queued task out of its     *)
(* execution.queue.                                                         *)
LoadAndDequeue(p, k) ==
  IF status[k.task] = "queued" /\ execQueue[k.task] # None
  THEN Set(p, [Snapshot(k) EXCEPT !.pc = "locate", !.queue = execQueue[k.task]])
  ELSE AfterDequeue(p, Snapshot(k))

DequeueLoad(p) ==
  /\ At(p, "load") /\ call[p].op \in {"dequeue", "archive"}
  /\ LoadAndDequeue(p, call[p])
  /\ UNCHANGED <<taskVars, queueVars, now, budget, held>>

DequeueChange(p) ==
  LET k == call[p]
      new == IF k.op = "archive" /\ k.seen = "in_progress" THEN "stopped"
             ELSE IF k.new # None THEN k.new ELSE Before(k)
  IN
  /\ At(p, "cas") /\ k.op \in {"dequeue", "archive"}
  /\ IF CanChange(k, TRUE, new)
     THEN ChangeStatus(k, new, None, execQueue[k.task])
     ELSE UNCHANGED taskVars
  /\ Return(p)
  /\ UNCHANGED <<queueVars, now, budget, held>>

ResetLoad(p) ==
  LET k == call[p] IN
  /\ At(p, "load") /\ k.op = "reset"
  /\ IF status[k.task] = "published" /\ ~k.force THEN Return(p)
                                                 ELSE LoadAndDequeue(p, k)
  /\ UNCHANGED <<taskVars, queueVars, now, budget, held>>

ResetChange(p) ==
  LET k == call[p] IN
  /\ At(p, "cas") /\ k.op = "reset"
  /\ IF CanChange(k, k.force, "created")
     THEN ChangeStatus(k, "created", None, None)
     ELSE UNCHANGED taskVars
  /\ Return(p)
  /\ UNCHANGED <<queueVars, now, budget, held>>

(* A queued task is dequeued and stopped; another one is stopped when no    *)
(* worker seems to run it (or it is a development task), and is otherwise   *)
(* left to its worker: its status is written back unchanged.                *)
StopLoad(p) ==
  LET k == call[p] IN
  /\ At(p, "load") /\ k.op = "stop"
  /\ IF status[k.task] = "queued"
     THEN LoadAndDequeue(p, [k EXCEPT !.new = "stopped"])
     ELSE \E new \in {"stopped", status[k.task]} :
            AfterDequeue(p, Snapshot([k EXCEPT !.new = new]))
  /\ UNCHANGED <<taskVars, queueVars, now, budget, held>>

(* set_task_status_from_call: tasks.started, stopped, failed, close and     *)
(* completed.                                                               *)
SetStatusLoad(p) ==
  /\ At(p, "load") /\ call[p].op = "set_status"
  /\ Set(p, Snapshot([call[p] EXCEPT !.pc = "cas"]))
  /\ UNCHANGED <<taskVars, queueVars, now, budget, held>>

(* An agent's popped task is off its hands when tasks.started has answered. *)
SetStatusChange(p) ==
  LET k == call[p] IN
  /\ At(p, "cas") /\ k.op \in {"set_status", "stop"}
  /\ IF CanChange(k, k.force, k.new)
     THEN ChangeStatus(k, k.new, enqueueStatus[k.task], execQueue[k.task])
     ELSE UNCHANGED taskVars
  /\ held' = [a \in Agents |-> IF a = p THEN None ELSE held[a]]
  /\ Return(p)
  /\ UNCHANGED <<queueVars, now, budget>>

-----------------------------------------------------------------------------
(* publish_task writes "publishing" unconditionally, then changes           *)
(* publishing to published; if anything fails it writes the status it had   *)
(* read back, unconditionally.                                              *)

PublishLoad(p) ==
  LET k == call[p] IN
  /\ At(p, "load") /\ k.op = "publish"
  /\ IF k.force \/ "published" \in StateMachine[status[k.task]]
     THEN Set(p, Snapshot([k EXCEPT !.pc = "publishing"]))
     ELSE Return(p)
  /\ UNCHANGED <<taskVars, queueVars, now, budget, held>>

PublishMark(p) ==
  LET k == call[p] IN
  /\ At(p, "publishing")
  /\ status' = [status EXCEPT ![k.task] = "publishing"]
  /\ \/ Goto(p, "pubcas")
     \/ Goto(p, "unpublish")   \* publishing the task's model failed
  /\ UNCHANGED <<enqueueStatus, execQueue, queueVars, now, budget, held>>

PublishChange(p) ==
  LET k == call[p] IN
  /\ At(p, "pubcas")
  /\ IF status[k.task] = "publishing"
     THEN /\ status' = [status EXCEPT ![k.task] = "published"]
          /\ Return(p)
     ELSE Goto(p, "unpublish") /\ UNCHANGED status
  /\ UNCHANGED <<enqueueStatus, execQueue, queueVars, now, budget, held>>

PublishUndo(p) ==
  LET k == call[p] IN
  /\ At(p, "unpublish")
  /\ status' = [status EXCEPT ![k.task] = k.seen]
  /\ Return(p)
  /\ UNCHANGED <<enqueueStatus, execQueue, queueVars, now, budget, held>>

-----------------------------------------------------------------------------
(* queues.get_next_task pops an entry, logs the queue's metrics, reads the  *)
(* task and, if it is stopped, writes "queued" unconditionally; the agent   *)
(* then calls tasks.started for the task it received.                       *)

PopEntry(a) ==
  /\ call[a].pc = "idle" /\ held[a] = None
  /\ \E q \in live : \E e \in entries[q] :
       /\ entries' = [entries EXCEPT ![q] = @ \ {e}]
       /\ Set(a, [NoCall EXCEPT !.op = "get_next_task", !.pc = "report",
                                !.task = e.task, !.queue = q])
  /\ UNCHANGED <<taskVars, live, now, budget, held>>

ReportPop(a) ==
  /\ At(a, "report")
  /\ \/ Goto(a, "fixread")
     \/ MetricsFail /\ Return(a)
  /\ UNCHANGED <<taskVars, queueVars, now, budget, held>>

(* The agent has its task once the call replies. *)
Receive(a) ==
  held' = [held EXCEPT ![a] = call[a].task] /\ Return(a)

ReadPopped(a) ==
  /\ At(a, "fixread")
  /\ IF status[call[a].task] = "stopped"
     THEN Goto(a, "fixwrite") /\ UNCHANGED held
     ELSE Receive(a)
  /\ UNCHANGED <<taskVars, queueVars, now, budget>>

(* Mutant: the call that repairs a task's status does not hand it out. *)
RequeuePopped_Lost(a) ==
  /\ At(a, "fixwrite")
  /\ status' = [status EXCEPT ![call[a].task] = "queued"]
  /\ Return(a)
  /\ UNCHANGED <<enqueueStatus, execQueue, queueVars, now, budget, held>>

RequeuePopped(a) ==
  /\ At(a, "fixwrite")
  /\ status' = [status EXCEPT ![call[a].task] = "queued"]
  /\ Receive(a)
  /\ UNCHANGED <<enqueueStatus, execQueue, queueVars, now, budget>>

StartPopped(a) ==
  /\ call[a].pc = "idle" /\ held[a] # None
  /\ Set(a, SetStatusCall(held[a], "in_progress", FALSE))
  /\ UNCHANGED <<taskVars, queueVars, now, budget, held>>

-----------------------------------------------------------------------------
(* NonResponsiveTasksWatchdog.cleanup_tasks: list running tasks that look   *)
(* silent (any of them may), then stop each that still runs.                *)

ListSilent(w) ==
  /\ call[w].pc = "idle"
  /\ \E silent \in (SUBSET {t \in Tasks : status[t] = "in_progress"}) \ {{}} :
       Set(w, [NoCall EXCEPT !.op = "cleanup_tasks", !.pc = "stopping",
                             !.work = silent])
  /\ UNCHANGED <<taskVars, queueVars, now, budget, held>>

StopSilent(w) ==
  LET k == call[w] IN
  /\ At(w, "stopping")
  /\ \E t \in k.work :
       /\ status' = IF status[t] = "in_progress"
                    THEN [status EXCEPT ![t] = "stopped"] ELSE status
       /\ IF k.work = {t} THEN Return(w)
                          ELSE Set(w, [k EXCEPT !.work = @ \ {t}])
  /\ UNCHANGED <<enqueueStatus, execQueue, queueVars, now, budget, held>>

-----------------------------------------------------------------------------
(* The process dies between two operations: an API server process takes the *)
(* call it handles with it, an agent the task it holds.                     *)
Crash(p) ==
  /\ p \in Crashing
  /\ call[p].pc # "idle" \/ (p \in Agents /\ held[p] # None)
  /\ Return(p)
  /\ held' = [a \in Agents |-> IF a = p THEN None ELSE held[a]]
  /\ UNCHANGED <<taskVars, queueVars, now, budget>>

(* The next operation of a call in flight. *)
AddTaskStep(p) ==
  FindInQueue(p) \/ PushEntry(p) \/ ReloadAfterPush(p) \/ SetExecutionQueue(p)
SweepStep(p) == Sweep(p) \/ SweepDone(p)
RemoveTaskStep(p) == LocateEntry(p) \/ PullEntries(p) \/ ReloadAfterPull(p)
RemovedLoopStep(p) == LoadRemoved(p) \/ RevertRemoved(p) \/ RemovedDone(p)
QueueStep(p) == ReadQueue(p) \/ WipeQueue(p) \/ DropQueue(p)
EnqueueStep(p) == EnqueueLoad(p) \/ EnqueueChange(p) \/ EnqueueRevert(p)
DequeueStep(p) == DequeueLoad(p) \/ DequeueChange(p)
ResetStep(p) == ResetLoad(p) \/ ResetChange(p)
StatusStep(p) == StopLoad(p) \/ SetStatusLoad(p) \/ SetStatusChange(p)
PublishStep(p) ==
  PublishLoad(p) \/ PublishMark(p) \/ PublishChange(p) \/ PublishUndo(p)
PoppedStep(p) == ReportPop(p) \/ ReadPopped(p) \/ RequeuePopped(p)

Handle(p) ==
  \/ AddTaskStep(p) \/ SweepStep(p) \/ RemoveTaskStep(p) \/ RemovedLoopStep(p)
  \/ QueueStep(p) \/ EnqueueStep(p) \/ DequeueStep(p) \/ ResetStep(p)
  \/ StatusStep(p) \/ PublishStep(p)

AgentStep(a) == PopEntry(a) \/ PoppedStep(a) \/ StartPopped(a)

Next ==
  \/ \E c \in Clients : Issue(c)
  \/ \E p \in Procs : Handle(p)
  \/ \E a \in Agents : AgentStep(a)
  \/ \E w \in Watchdogs : ListSilent(w) \/ StopSilent(w)
  \/ \E p \in Procs : Crash(p)

Spec == Init /\ [][Next]_vars

(* A handler that is running goes on, and agents poll for ever; clients owe *)
(* nothing and neither does the watchdog.                                   *)
Fairness ==
  /\ \A p \in Procs : WF_vars(Handle(p))
  /\ \A a \in Agents : WF_vars(AgentStep(a))

FairSpec == Spec /\ Fairness

-----------------------------------------------------------------------------
(* The variables hold values of their types. *)
TypeOK ==
  /\ status \in [Tasks -> Status]
  /\ enqueueStatus \in [Tasks -> Status \union {None}]
  /\ execQueue \in [Tasks -> Queues \union {None}]
  /\ live \subseteq Queues
  /\ entries \in [Queues -> SUBSET Entry]
  /\ now \in Nat
  /\ call \in [Procs -> Call]
  /\ budget \in [Clients -> Nat]
  /\ held \in [Agents -> Tasks \union {None}]

(* A queue never holds two entries of one task, however add_task calls      *)
(* interleave with each other and with the pops: add_task looks for the     *)
(* task in one operation and pushes it in another (queue_bll.py, add_task). *)
NoDuplicateEntries ==
  \A q \in Queues : \A e, f \in entries[q] : e.task = f.task => e = f

(* The call p has in flight may still change something for task t. *)
Concerns(p, t) ==
  LET k == call[p] IN
  /\ k.pc # "idle"
  /\ k.task = t \/ t \in k.work \/ k.op \in {"clear_queue", "delete_queue"}

(* No call is working on t and no agent has it. *)
Unattended(t) ==
  /\ \A p \in Procs : ~Concerns(p, t)
  /\ \A a \in Agents : held[a] # t

Enqueueing(t) == \E p \in Procs : call[p].op = "enqueue" /\ call[p].task = t

(* Once no enqueue of it is running, a task waits in at most one queue:     *)
(* whichever enqueues raced, the pulls that follow their pushes leave one   *)
(* entry at most ("make sure that the task is not queued in any other       *)
(* queue", enqueue_task).                                                   *)
SettledInOneQueue ==
  \A t \in Tasks : ~Enqueueing(t) =>
    \A q, r \in Queues : Holding(q, t) /\ Holding(r, t) => q = r

(* A queued task that no call is working on and no agent has popped is in   *)
(* the queue its execution.queue names: an agent will find it there, and    *)
(* tasks.dequeue and tasks.stop, which look nowhere else, can take it out.  *)
QueuedTaskIsWhereItSays ==
  \A t \in Tasks : status[t] = "queued" /\ Unattended(t)
    => execQueue[t] # None /\ Holding(execQueue[t], t)

(* p changes the status of t in a way that need not follow the table: a     *)
(* forced request, the unconditional writes of get_next_task and            *)
(* publish_task, or a handler's undo.                                       *)
Forced(p, t) ==
  LET k == call[p] IN
  /\ call'[p] # k /\ k.task = t
  /\ \/ k.pc \in {"revert", "rmcas", "fixwrite", "publishing", "unpublish"}
     \/ k.pc = "cas" /\ (k.force \/ k.op \in {"dequeue", "archive"})

(* Whatever else ran between a handler's read of a task and its write, an   *)
(* unforced change of status follows the state machine.                     *)
StatusFollowsTable ==
  [][\A t \in Tasks :
       \/ ValidTransition(FALSE, status[t], status'[t])
       \/ \E p \in Procs : Forced(p, t)]_vars

(* A queued task does not stay queued for ever: it is started, or somebody  *)
(* takes it back.                                                           *)
QueuedTaskMovesOn == \A t \in Tasks : status[t] = "queued" ~> status[t] # "queued"

(* What enqueue_task tells its caller: when all calls have been answered    *)
(* and nobody took the task out again, a task that is queued is in a queue. *)
EnqueuedTaskIsInAQueue ==
  \A t \in Tasks : status[t] = "queued" /\ Unattended(t)
    => \E q \in Queues : Holding(q, t)
=============================================================================
