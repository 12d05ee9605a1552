--------------------------- MODULE TaskQueueProofs ---------------------------
(***************************************************************************)
(* TaskQueue, for every set of tasks, queues, clients, agents and watchdogs*)
(* and every set of requests: its types, what the entries of the queues    *)
(* and the changes of status keep, that a task waits in one queue at most, *)
(* and that a queued task waits in the queue that it names.                *)
(***************************************************************************)
EXTENDS TaskQueue, TLAPS

(* What a call in flight has set by the time it reaches an operation: the   *)
(* inductive strengthening of TypeOK.                                       *)
CallOK(k) ==
  /\ k.op \in {"enqueue", "dequeue", "stop", "set_status", "reset", "archive",
               "publish", "add_task", "remove_task", "move_task",
               "get_next_task"} => k.task \in Tasks
  /\ k.op \in {"remove_task", "move_task", "clear_queue", "delete_queue"}
       => k.queue \in Queues
  /\ k.op \in {"enqueue", "add_task"} => k.to \in Queues
  /\ k.op = "move_task" => k.target \in Queues
  /\ k.op = "set_status" => k.new \in Status
  /\ k.op \in {"enqueue", "dequeue", "stop", "set_status", "reset", "archive",
               "publish"} /\ k.pc # "load" => k.seen \in Status
  /\ k.op = "stop" /\ k.pc # "load" => k.new \in Status
  /\ k.pc \in {"find", "push", "reload", "setexec"}
       => k.op \in {"enqueue", "add_task", "move_task"} /\ k.to \in Queues
  /\ k.pc = "revert" => k.op = "enqueue"
  /\ k.pc = "sweep" => k.op \in {"enqueue", "dequeue", "reset", "archive"}
  /\ k.pc \in {"locate", "pull", "pulled"}
       => /\ k.op \in {"dequeue", "stop", "reset", "archive", "remove_task",
                       "move_task"}
          /\ k.queue \in Queues
  /\ k.pc = "rmload" => k.op \in {"remove_task", "clear_queue", "delete_queue"}
  /\ k.pc = "rmcas"
       => /\ k.op \in {"remove_task", "clear_queue", "delete_queue"}
          /\ k.task \in Tasks /\ k.seen \in Status
  /\ k.pc \in {"readqueue", "wipe", "drop"}
       => k.op \in {"clear_queue", "delete_queue"}
  /\ k.pc \in {"publishing", "pubcas", "unpublish"} => k.op = "publish"
  /\ k.pc \in {"report", "fixread", "fixwrite"} => k.op = "get_next_task"

CallsOK == call \in [Procs -> Call] /\ \A p \in Procs : CallOK(call[p])

TypeInv == TypeOK /\ CallsOK

-----------------------------------------------------------------------------
(* Every request a client may send is a well-formed call. *)
LEMMA RequestOK ==
  ASSUME NEW k \in AllRequests
  PROVE  k \in Call /\ CallOK(k)
<1> USE DEF Call, NoCall, CallOK, Op, Label
<1>1. ASSUME NEW t \in Tasks, NEW q \in Queues, NEW opt \in BOOLEAN, NEW force \in BOOLEAN
      PROVE  EnqueueCall(t, q, opt, force) \in Call /\ CallOK(EnqueueCall(t, q, opt, force))
  BY DEF EnqueueCall
<1>2. ASSUME NEW t \in Tasks, NEW opt \in BOOLEAN, NEW new \in Status \union {None}
      PROVE  DequeueCall(t, opt, new) \in Call /\ CallOK(DequeueCall(t, opt, new))
  BY DEF DequeueCall
<1>3. ASSUME NEW t \in Tasks, NEW new \in Status, NEW force \in BOOLEAN
      PROVE  SetStatusCall(t, new, force) \in Call /\ CallOK(SetStatusCall(t, new, force))
  BY DEF SetStatusCall
<1>4. ASSUME NEW op \in {"stop", "reset", "publish", "archive"}, NEW t \in Tasks, NEW force \in BOOLEAN
      PROVE  TaskCall(op, t, force) \in Call /\ CallOK(TaskCall(op, t, force))
  BY DEF TaskCall
<1>5. ASSUME NEW t \in Tasks, NEW q \in Queues, NEW opt \in BOOLEAN
      PROVE  AddCall(t, q, opt) \in Call /\ CallOK(AddCall(t, q, opt))
  BY DEF AddCall
<1>6. ASSUME NEW t \in Tasks, NEW q \in Queues, NEW opt \in BOOLEAN
      PROVE  RemoveCall(t, q, opt) \in Call /\ CallOK(RemoveCall(t, q, opt))
  BY DEF RemoveCall
<1>7. ASSUME NEW t \in Tasks, NEW q \in Queues, NEW r \in Queues, NEW opt \in BOOLEAN
      PROVE  MoveCall(t, q, r, opt) \in Call /\ CallOK(MoveCall(t, q, r, opt))
  BY DEF MoveCall
<1>8. ASSUME NEW op \in {"clear_queue", "delete_queue"}, NEW q \in Queues, NEW force \in BOOLEAN
      PROVE  QueueCall(op, q, force) \in Call /\ CallOK(QueueCall(op, q, force))
  BY DEF QueueCall
<1> HIDE DEF Call, NoCall, CallOK, Op, Label
<1>11. CASE k \in EnqueueRequests
  BY <1>11, <1>1 DEF EnqueueRequests
<1>12. CASE k \in DequeueRequests
  BY <1>12, <1>2 DEF DequeueRequests
<1>13. CASE k \in SetStatusRequests
  BY <1>13, <1>3 DEF SetStatusRequests, Status
<1>14. CASE k \in TaskRequests
  BY <1>14, <1>4 DEF TaskRequests
<1>15. CASE k \in AddRequests
  BY <1>15, <1>5 DEF AddRequests
<1>16. CASE k \in RemoveRequests
  BY <1>16, <1>6 DEF RemoveRequests
<1>17. CASE k \in MoveRequests
  BY <1>17, <1>7 DEF MoveRequests
<1>18. CASE k \in QueueRequests
  BY <1>18, <1>8 DEF QueueRequests
<1> QED  BY <1>11, <1>12, <1>13, <1>14, <1>15, <1>16, <1>17, <1>18 DEF AllRequests

LEMMA NoCallOK == NoCall \in Call /\ CallOK(NoCall)
  BY DEF NoCall, Call, CallOK, Op, Label, Status

(* A step that leaves process p with a well-formed call leaves all of them. *)
LEMMA SetOK ==
  ASSUME CallsOK, NEW p \in Procs, NEW k \in Call, CallOK(k), Set(p, k)
  PROVE  CallsOK'
  BY DEF CallsOK, Set

LEMMA ReturnOK ==
  ASSUME CallsOK, NEW p \in Procs, Return(p)
  PROVE  CallsOK'
  BY NoCallOK, SetOK DEF Return

LEMMA GotoOK ==
  ASSUME CallsOK, NEW p \in Procs, NEW l \in Label, Goto(p, l),
         CallOK([call[p] EXCEPT !.pc = l])
  PROVE  CallsOK'
<1>1. [call[p] EXCEPT !.pc = l] \in Call
  BY DEF CallsOK, Call
<1> QED  BY <1>1, SetOK DEF Goto

-----------------------------------------------------------------------------
(* The continuations of add_task and of dequeue keep calls well formed. *)

LEMMA AddFailedOK ==
  ASSUME CallsOK, NEW p \in Procs, call[p].pc \in {"find", "push", "reload"},
         AddFailed(p)
  PROVE  CallsOK'
<1> DEFINE k == call[p]
<1>0. k \in Call /\ CallOK(k)
  BY DEF CallsOK
<1>1. CASE k.op = "enqueue" /\ Goto(p, "revert")
  <2>1. CallOK([k EXCEPT !.pc = "revert"]) /\ "revert" \in Label
    BY <1>0, <1>1 DEF Call, CallOK, Label
  <2> QED  BY <1>1, <2>1, GotoOK
<1>2. CASE k.op = "move_task" /\ Set(p, [k EXCEPT !.pc = "find", !.to = k.queue])
  <2>1. [k EXCEPT !.pc = "find", !.to = k.queue] \in Call
    BY <1>0 DEF Call, Label
  <2>2. CallOK([k EXCEPT !.pc = "find", !.to = k.queue])
    BY <1>0, <1>2 DEF Call, CallOK
  <2> QED  BY <1>2, <2>1, <2>2, SetOK
<1>3. CASE Return(p)
  BY <1>3, ReturnOK
<1> QED  BY <1>1, <1>2, <1>3 DEF AddFailed

LEMMA AddSucceededOK ==
  ASSUME CallsOK, NEW p \in Procs, call[p].pc = "reload", AddSucceeded(p)
  PROVE  CallsOK'
<1> DEFINE k == call[p]
           s == [k EXCEPT !.pc = "sweep", !.todo = Queues \ {k.to}]
<1>0. k \in Call /\ CallOK(k)
  BY DEF CallsOK
<1>1. CASE Goto(p, "setexec")
  <2>1. CallOK([k EXCEPT !.pc = "setexec"]) /\ "setexec" \in Label
    BY <1>0, <1>1 DEF Call, CallOK, Label
  <2> QED  BY <1>1, <2>1, GotoOK
<1>2. CASE k.op = "enqueue" /\ Set(p, s)
  <2>1. s \in Call
    BY <1>0 DEF Call, Label
  <2>2. CallOK(s)
    BY <1>0, <1>2 DEF Call, CallOK
  <2> QED  BY <1>2, <2>1, <2>2, SetOK
<1>3. CASE Return(p)
  BY <1>3, ReturnOK
<1> QED  BY <1>1, <1>2, <1>3 DEF AddSucceeded

LEMMA AfterDequeueOK ==
  ASSUME CallsOK, NEW p \in Procs, NEW k \in Call,
         k.op \in {"dequeue", "stop", "reset", "archive"}
           => k.task \in Tasks /\ k.seen \in Status,
         k.op = "stop" => k.new \in Status,
         AfterDequeue(p, k)
  PROVE  CallsOK'
<1>1. CASE k.op \in {"stop", "dequeue"} /\ Set(p, [k EXCEPT !.pc = "cas"])
  <2>1. [k EXCEPT !.pc = "cas"] \in Call
    BY DEF Call, Label
  <2>2. CallOK([k EXCEPT !.pc = "cas"])
    BY <1>1 DEF Call, CallOK
  <2> QED  BY <1>1, <2>1, <2>2, SetOK
<1>2. CASE /\ k.op \in {"dequeue", "archive", "reset"}
           /\ Set(p, [k EXCEPT !.pc = "sweep", !.todo = Queues])
  <2>1. [k EXCEPT !.pc = "sweep", !.todo = Queues] \in Call
    BY DEF Call, Label
  <2>2. CallOK([k EXCEPT !.pc = "sweep", !.todo = Queues])
    BY <1>2 DEF Call, CallOK
  <2> QED  BY <1>2, <2>1, <2>2, SetOK
<1>3. CASE Return(p)
  BY <1>3, ReturnOK
<1> QED  BY <1>1, <1>2, <1>3 DEF AfterDequeue

-----------------------------------------------------------------------------
(* Each operation keeps TypeInv: first what it writes, then its call. *)

LEMMA AddTaskType ==
  ASSUME TypeInv, NEW p \in Procs, AddTaskStep(p)
  PROVE  TypeInv'
<1> DEFINE k == call[p]
<1>0. k \in Call /\ CallOK(k) /\ CallsOK
  BY DEF TypeInv, CallsOK
<1>1. CASE FindInQueue(p)
  <2>1. ASSUME Goto(p, "push")
        PROVE  CallsOK'
    <3>1. CallOK([k EXCEPT !.pc = "push"]) /\ "push" \in Label
      BY <1>0, <1>1 DEF FindInQueue, At, Call, CallOK, Label
    <3> QED  BY <1>0, <2>1, <3>1, GotoOK
  <2>2. ASSUME AddFailed(p)
        PROVE  CallsOK'
    BY <1>0, <1>1, <2>2, AddFailedOK DEF FindInQueue, At
  <2>3. CallsOK'
    BY <1>1, <2>1, <2>2 DEF FindInQueue
  <2> QED  BY <1>1, <2>3
           DEF FindInQueue, TypeInv, TypeOK, CallsOK, taskVars, queueVars
<1>2. CASE PushEntry(p)
  <2>1. ASSUME Goto(p, "reload")
        PROVE  CallsOK'
    <3>1. CallOK([k EXCEPT !.pc = "reload"]) /\ "reload" \in Label
      BY <1>0, <1>2 DEF PushEntry, At, Call, CallOK, Label
    <3> QED  BY <1>0, <2>1, <3>1, GotoOK
  <2>2. ASSUME AddFailed(p)
        PROVE  CallsOK'
    BY <1>0, <1>2, <2>2, AddFailedOK DEF PushEntry, At
  <2>3. CallsOK'
    BY <1>2, <2>1, <2>2 DEF PushEntry
  <2>4. k.to \in Queues /\ k.task \in Tasks
    BY <1>0, <1>2 DEF PushEntry, At, CallOK
  <2>5. entries' \in [Queues -> SUBSET Entry] /\ now' \in Nat
    BY <1>2, <2>4 DEF PushEntry, TypeInv, TypeOK, Entry
  <2> QED  BY <1>2, <2>3, <2>5
           DEF PushEntry, TypeInv, TypeOK, CallsOK, taskVars
<1>3. CASE ReloadAfterPush(p)
  <2>1. CallsOK'
    BY <1>0, <1>3, AddFailedOK, AddSucceededOK DEF ReloadAfterPush, At
  <2> QED  BY <1>3, <2>1
           DEF ReloadAfterPush, TypeInv, TypeOK, CallsOK, taskVars, queueVars
<1>4. CASE SetExecutionQueue(p)
  <2> DEFINE s == [k EXCEPT !.pc = "sweep", !.todo = Queues \ {k.to}]
  <2>1. ASSUME k.op = "enqueue" /\ Set(p, s)
        PROVE  CallsOK'
    <3>1. s \in Call
      BY <1>0 DEF Call, Label
    <3>2. CallOK(s)
      BY <1>0, <1>4, <2>1 DEF SetExecutionQueue, At, Call, CallOK
    <3> QED  BY <1>0, <2>1, <3>1, <3>2, SetOK
  <2>2. ASSUME Return(p)
        PROVE  CallsOK'
    BY <1>0, <2>2, ReturnOK
  <2>3. CallsOK'
    BY <1>4, <2>1, <2>2 DEF SetExecutionQueue
  <2>4. k.to \in Queues /\ k.task \in Tasks
    BY <1>0, <1>4 DEF SetExecutionQueue, At, CallOK
  <2> QED  BY <1>4, <2>3, <2>4
           DEF SetExecutionQueue, TypeInv, TypeOK, CallsOK, queueVars
<1> QED  BY <1>1, <1>2, <1>3, <1>4 DEF AddTaskStep

LEMMA SweepType ==
  ASSUME TypeInv, NEW p \in Procs, SweepStep(p)
  PROVE  TypeInv'
<1> DEFINE k == call[p]
<1>0. k \in Call /\ CallOK(k) /\ CallsOK
  BY DEF TypeInv, CallsOK
<1>1. CASE Sweep(p)
  <2>1. PICK q \in k.todo :
          /\ entries' = [entries EXCEPT ![q] = {e \in @ : e.task # k.task}]
          /\ Set(p, [k EXCEPT !.todo = @ \ {q}])
    BY <1>1 DEF Sweep
  <2>2. [k EXCEPT !.todo = @ \ {q}] \in Call /\ CallOK([k EXCEPT !.todo = @ \ {q}])
    BY <1>0 DEF Call, CallOK
  <2>3. CallsOK'
    BY <1>0, <2>1, <2>2, SetOK
  <2>4. entries' \in [Queues -> SUBSET Entry]
    BY <1>0, <2>1 DEF TypeInv, TypeOK, Call
  <2> QED  BY <1>1, <2>3, <2>4 DEF Sweep, TypeInv, TypeOK, CallsOK, taskVars
<1>2. CASE SweepDone(p)
  <2>1. ASSUME k.op # "enqueue" /\ Goto(p, "cas")
        PROVE  CallsOK'
    <3>1. CallOK([k EXCEPT !.pc = "cas"]) /\ "cas" \in Label
      BY <1>0, <1>2, <2>1 DEF SweepDone, At, Call, CallOK, Label
    <3> QED  BY <1>0, <2>1, <3>1, GotoOK
  <2>2. ASSUME Return(p)
        PROVE  CallsOK'
    BY <1>0, <2>2, ReturnOK
  <2>3. CallsOK'
    BY <1>2, <2>1, <2>2 DEF SweepDone
  <2> QED  BY <1>2, <2>3
           DEF SweepDone, TypeInv, TypeOK, CallsOK, taskVars, queueVars
<1> QED  BY <1>1, <1>2 DEF SweepStep

LEMMA RemoveTaskType ==
  ASSUME TypeInv, NEW p \in Procs, RemoveTaskStep(p)
  PROVE  TypeInv'
<1> DEFINE k == call[p]
<1>0. k \in Call /\ CallOK(k) /\ CallsOK
  BY DEF TypeInv, CallsOK
<1>1. CASE LocateEntry(p)
  <2> DEFINE found == {e \in entries[k.queue] : e.task = k.task}
             s == [k EXCEPT !.pc = "pull", !.read = found]
  <2>1. ASSUME Set(p, s)
        PROVE  CallsOK'
    <3>1. k.queue \in Queues
      BY <1>0, <1>1 DEF LocateEntry, At, CallOK
    <3>2. s \in Call
      BY <1>0, <3>1 DEF Call, Label, TypeInv, TypeOK
    <3>3. CallOK(s)
      BY <1>0, <1>1 DEF LocateEntry, At, Call, CallOK
    <3> QED  BY <1>0, <2>1, <3>2, <3>3, SetOK
  <2>2. ASSUME Return(p)
        PROVE  CallsOK'
    BY <1>0, <2>2, ReturnOK
  <2>3. ASSUME AfterDequeue(p, k)
        PROVE  CallsOK'
    BY <1>0, <1>1, <2>3, AfterDequeueOK DEF LocateEntry, At, CallOK
  <2>4. CallsOK'
    BY <1>1, <2>1, <2>2, <2>3 DEF LocateEntry
  <2> QED  BY <1>1, <2>4
           DEF LocateEntry, TypeInv, TypeOK, CallsOK, taskVars, queueVars
<1>2. CASE PullEntries(p)
  <2> DEFINE matched == Holding(k.queue, k.task)
             l == IF k.op = "remove_task" /\ k.opt /\ matched THEN "rmload"
                                                             ELSE "pulled"
             r == IF matched THEN k.read ELSE {}
             w == IF k.op = "remove_task" THEN {k.task} ELSE {}
             s == [k EXCEPT !.pc = l, !.read = r, !.work = w]
  <2>1. k.queue \in Queues /\ k.task \in Tasks
    BY <1>0, <1>2 DEF PullEntries, At, CallOK
  <2>2. s \in Call
    <3>1. l \in Label /\ r \in SUBSET Entry /\ w \in SUBSET Tasks
      BY <1>0, <2>1 DEF Call, Label
    <3> HIDE DEF l, r, w
    <3> QED  BY <1>0, <3>1 DEF Call
  <2>3. CallOK(s)
    BY <1>0, <1>2, <2>1 DEF PullEntries, At, Call, CallOK
  <2>4. CallsOK'
    BY <1>0, <1>2, <2>2, <2>3, SetOK DEF PullEntries
  <2>5. entries' \in [Queues -> SUBSET Entry]
    BY <1>2, <2>1 DEF PullEntries, TypeInv, TypeOK
  <2> QED  BY <1>2, <2>4, <2>5
           DEF PullEntries, TypeInv, TypeOK, CallsOK, taskVars
<1>3. CASE ReloadAfterPull(p)
  <2>1. ASSUME k.op = "move_task" /\ Set(p, [k EXCEPT !.pc = "find", !.to = k.target])
        PROVE  CallsOK'
    <3>1. [k EXCEPT !.pc = "find", !.to = k.target] \in Call
      BY <1>0 DEF Call, Label
    <3>2. CallOK([k EXCEPT !.pc = "find", !.to = k.target])
      BY <1>0, <2>1 DEF Call, CallOK
    <3> QED  BY <1>0, <2>1, <3>1, <3>2, SetOK
  <2>2. ASSUME Return(p)
        PROVE  CallsOK'
    BY <1>0, <2>2, ReturnOK
  <2>3. ASSUME AfterDequeue(p, k)
        PROVE  CallsOK'
    BY <1>0, <1>3, <2>3, AfterDequeueOK DEF ReloadAfterPull, At, CallOK
  <2>4. CallsOK'
    BY <1>3, <2>1, <2>2, <2>3 DEF ReloadAfterPull
  <2> QED  BY <1>3, <2>4
           DEF ReloadAfterPull, TypeInv, TypeOK, CallsOK, taskVars, queueVars
<1> QED  BY <1>1, <1>2, <1>3 DEF RemoveTaskStep

(* The status that a task goes back to is a status. *)
LEMMA BeforeOK ==
  ASSUME NEW k \in Call
  PROVE  Before(k) \in Status
  BY DEF Before, Call, Status

(* A change of the task's status keeps the task documents well typed. *)
LEMMA ChangeStatusOK ==
  ASSUME TypeOK, NEW k, k.task \in Tasks, NEW new \in Status,
         NEW enq \in Status \union {None}, NEW exec \in Queues \union {None},
         ChangeStatus(k, new, enq, exec)
  PROVE  /\ status' \in [Tasks -> Status]
         /\ enqueueStatus' \in [Tasks -> Status \union {None}]
         /\ execQueue' \in [Tasks -> Queues \union {None}]
  BY DEF TypeOK, ChangeStatus

LEMMA SnapshotOK ==
  ASSUME TypeOK, NEW k \in Call, k.task \in Tasks
  PROVE  /\ Snapshot(k) \in Call
         /\ Snapshot(k).seen \in Status
         /\ \A f \in {"op", "pc", "task", "queue", "to", "target", "new"} :
              Snapshot(k)[f] = k[f]
  BY DEF TypeOK, Snapshot, Call

LEMMA RemovedLoopType ==
  ASSUME TypeInv, NEW p \in Procs, RemovedLoopStep(p)
  PROVE  TypeInv'
<1> DEFINE k == call[p]
<1>0. k \in Call /\ CallOK(k) /\ CallsOK /\ TypeOK
  BY DEF TypeInv, CallsOK
<1>1. CASE LoadRemoved(p)
  <2>1. PICK t \in k.work :
          Set(p, IF execQueue[t] = k.queue
                 THEN Snapshot([k EXCEPT !.task = t, !.pc = "rmcas"])
                 ELSE [k EXCEPT !.work = @ \ {t}])
    BY <1>1 DEF LoadRemoved
  <2>2. t \in Tasks /\ k.op \in {"remove_task", "clear_queue", "delete_queue"}
    BY <1>0, <1>1 DEF LoadRemoved, At, Call, CallOK
  <2> DEFINE s == [k EXCEPT !.task = t, !.pc = "rmcas"]
             r == [k EXCEPT !.work = @ \ {t}]
  <2>3. ASSUME Set(p, Snapshot(s))
        PROVE  CallsOK'
    <3>1. s \in Call /\ s.task = t
      BY <1>0, <2>2 DEF Call, Label
    <3>2. Snapshot(s) \in Call
      BY <1>0, <2>2, <3>1, SnapshotOK
    <3>3. CallOK(Snapshot(s))
      BY <1>0, <2>2 DEF Snapshot, TypeOK, Call, CallOK
    <3> QED  BY <1>0, <2>3, <3>2, <3>3, SetOK
  <2>4. ASSUME Set(p, r)
        PROVE  CallsOK'
    <3>1. r \in Call /\ CallOK(r)
      BY <1>0 DEF Call, CallOK
    <3> QED  BY <1>0, <2>4, <3>1, SetOK
  <2>5. CallsOK'
    BY <2>1, <2>3, <2>4
  <2> QED  BY <1>1, <2>5
           DEF LoadRemoved, TypeInv, TypeOK, CallsOK, taskVars, queueVars
<1>2. CASE RevertRemoved(p)
  <2> DEFINE s == [k EXCEPT !.pc = "rmload", !.work = @ \ {k.task}]
  <2>1. k.task \in Tasks
    BY <1>0, <1>2 DEF RevertRemoved, At, CallOK
  <2>2. s \in Call
    BY <1>0 DEF Call, Label
  <2>3. CallOK(s)
    BY <1>0, <1>2 DEF RevertRemoved, At, Call, CallOK
  <2>4. CallsOK'
    BY <1>0, <1>2, <2>2, <2>3, SetOK DEF RevertRemoved
  <2>5. /\ status' \in [Tasks -> Status]
        /\ enqueueStatus' \in [Tasks -> Status \union {None}]
        /\ execQueue' \in [Tasks -> Queues \union {None}]
    <3>1. CASE ChangeStatus(k, Before(k), None, None)
      BY <1>0, <2>1, <3>1, BeforeOK, ChangeStatusOK
    <3>2. CASE UNCHANGED taskVars
      BY <1>0, <3>2 DEF TypeOK, taskVars
    <3> QED  BY <1>2, <3>1, <3>2 DEF RevertRemoved
  <2> QED  BY <1>2, <2>4, <2>5
           DEF RevertRemoved, TypeInv, TypeOK, CallsOK, queueVars
<1>3. CASE RemovedDone(p)
  <2>1. ASSUME k.op = "remove_task" /\ Goto(p, "pulled")
        PROVE  CallsOK'
    <3>1. CallOK([k EXCEPT !.pc = "pulled"]) /\ "pulled" \in Label
      BY <1>0, <2>1 DEF Call, CallOK, Label
    <3> QED  BY <1>0, <2>1, <3>1, GotoOK
  <2>2. ASSUME NEW l \in {"wipe", "drop"}, Goto(p, l),
               k.op \in {"clear_queue", "delete_queue"}
        PROVE  CallsOK'
    <3>1. CallOK([k EXCEPT !.pc = l]) /\ l \in Label
      BY <1>0, <2>2 DEF Call, CallOK, Label
    <3> QED  BY <1>0, <2>2, <3>1, GotoOK
  <2>3. CallsOK'
    BY <1>3, <2>1, <2>2 DEF RemovedDone
  <2> QED  BY <1>3, <2>3
           DEF RemovedDone, TypeInv, TypeOK, CallsOK, taskVars, queueVars
<1> QED  BY <1>1, <1>2, <1>3 DEF RemovedLoopStep

LEMMA QueueType ==
  ASSUME TypeInv, NEW p \in Procs, QueueStep(p)
  PROVE  TypeInv'
<1> DEFINE k == call[p]
<1>0. k \in Call /\ CallOK(k) /\ CallsOK /\ TypeOK
  BY DEF TypeInv, CallsOK
<1>1. CASE ReadQueue(p)
  <2> DEFINE s == [k EXCEPT !.pc = "rmload", !.work = TasksIn(k.queue)]
  <2>0. k.op \in {"clear_queue", "delete_queue"} /\ k.queue \in Queues
    BY <1>0, <1>1 DEF ReadQueue, At, CallOK
  <2>1. ASSUME Set(p, s)
        PROVE  CallsOK'
    <3>1. TasksIn(k.queue) \in SUBSET Tasks
      BY <1>0, <2>0 DEF TasksIn, TypeOK, Entry
    <3>2. s \in Call
      BY <1>0, <3>1 DEF Call, Label
    <3>3. CallOK(s)
      BY <1>0, <2>0 DEF Call, CallOK
    <3> QED  BY <1>0, <2>1, <3>2, <3>3, SetOK
  <2>2. ASSUME Goto(p, "drop")
        PROVE  CallsOK'
    <3>1. CallOK([k EXCEPT !.pc = "drop"]) /\ "drop" \in Label
      BY <1>0, <2>0 DEF Call, CallOK, Label
    <3> QED  BY <1>0, <2>2, <3>1, GotoOK
  <2>3. ASSUME Return(p)
        PROVE  CallsOK'
    BY <1>0, <2>3, ReturnOK
  <2>4. CallsOK'
    BY <1>1, <2>1, <2>2, <2>3 DEF ReadQueue
  <2> QED  BY <1>1, <2>4
           DEF ReadQueue, TypeInv, TypeOK, CallsOK, taskVars, queueVars
<1>2. CASE WipeQueue(p)
  <2>1. CallsOK'
    BY <1>0, <1>2, ReturnOK DEF WipeQueue
  <2> QED  BY <1>2, <2>1 DEF WipeQueue, TypeInv, TypeOK, CallsOK, taskVars
<1>3. CASE DropQueue(p)
  <2>1. CallsOK'
    BY <1>0, <1>3, ReturnOK DEF DropQueue
  <2> QED  BY <1>3, <2>1 DEF DropQueue, TypeInv, TypeOK, CallsOK, taskVars
<1> QED  BY <1>1, <1>2, <1>3 DEF QueueStep

LEMMA EnqueueType ==
  ASSUME TypeInv, NEW p \in Procs, EnqueueStep(p)
  PROVE  TypeInv'
<1> DEFINE k == call[p]
<1>0. k \in Call /\ CallOK(k) /\ CallsOK /\ TypeOK
  BY DEF TypeInv, CallsOK
<1>1. CASE EnqueueLoad(p)
  <2> DEFINE s == [k EXCEPT !.pc = "cas"]
  <2>0. k.op = "enqueue" /\ k.task \in Tasks
    BY <1>0, <1>1 DEF EnqueueLoad, CallOK
  <2>1. ASSUME Set(p, Snapshot(s))
        PROVE  CallsOK'
    <3>1. s \in Call /\ s.task \in Tasks
      BY <1>0, <2>0 DEF Call, Label
    <3>2. Snapshot(s) \in Call
      BY <1>0, <3>1, SnapshotOK
    <3>3. CallOK(Snapshot(s))
      BY <1>0, <2>0 DEF Snapshot, TypeOK, Call, CallOK
    <3> QED  BY <1>0, <2>1, <3>2, <3>3, SetOK
  <2>2. ASSUME Return(p)
        PROVE  CallsOK'
    BY <1>0, <2>2, ReturnOK
  <2>3. CallsOK'
    BY <1>1, <2>1, <2>2 DEF EnqueueLoad
  <2> QED  BY <1>1, <2>3
           DEF EnqueueLoad, TypeInv, TypeOK, CallsOK, taskVars, queueVars
<1>2. CASE EnqueueChange(p)
  <2> DEFINE before == IF k.seen = "queued" /\ k.seenEnq # None THEN k.seenEnq
                                                               ELSE k.seen
  <2>0. k.task \in Tasks /\ k.seen \in Status /\ k.op = "enqueue"
    BY <1>0, <1>2 DEF EnqueueChange, At, CallOK
  <2>1. ASSUME Goto(p, "find")
        PROVE  CallsOK'
    <3>1. CallOK([k EXCEPT !.pc = "find"]) /\ "find" \in Label
      BY <1>0, <2>0 DEF Call, CallOK, Label
    <3> QED  BY <1>0, <2>1, <3>1, GotoOK
  <2>2. ASSUME Return(p)
        PROVE  CallsOK'
    BY <1>0, <2>2, ReturnOK
  <2>3. CallsOK'
    BY <1>2, <2>1, <2>2 DEF EnqueueChange
  <2>4. before \in Status \union {None} /\ "queued" \in Status
    BY <1>0, <2>0 DEF Call, Status
  <2>5. /\ status' \in [Tasks -> Status]
        /\ enqueueStatus' \in [Tasks -> Status \union {None}]
        /\ execQueue' \in [Tasks -> Queues \union {None}]
    <3>1. execQueue[k.task] \in Queues \union {None}
      BY <1>0, <2>0 DEF TypeOK
    <3>2. CASE ChangeStatus(k, "queued", before, execQueue[k.task])
      <4> HIDE DEF before
      <4> QED  BY <1>0, <2>0, <2>4, <3>1, <3>2, ChangeStatusOK
    <3>3. CASE UNCHANGED taskVars
      BY <1>0, <3>3 DEF TypeOK, taskVars
    <3> QED  BY <1>2, <3>2, <3>3 DEF EnqueueChange
  <2> QED  BY <1>2, <2>3, <2>5
           DEF EnqueueChange, TypeInv, TypeOK, CallsOK, queueVars
<1>3. CASE EnqueueRevert(p)
  <2>0. k.task \in Tasks /\ k.seen \in Status
    BY <1>0, <1>3 DEF EnqueueRevert, At, CallOK
  <2>1. CallsOK'
    BY <1>0, <1>3, ReturnOK DEF EnqueueRevert
  <2>2. /\ status' \in [Tasks -> Status]
        /\ enqueueStatus' \in [Tasks -> Status \union {None}]
        /\ execQueue' \in [Tasks -> Queues \union {None}]
    <3>1. execQueue[k.task] \in Queues \union {None}
      BY <1>0, <2>0 DEF TypeOK
    <3>2. CASE ChangeStatus(k, k.seen, None, execQueue[k.task])
      BY <1>0, <2>0, <3>1, <3>2, ChangeStatusOK
    <3>3. CASE UNCHANGED taskVars
      BY <1>0, <3>3 DEF TypeOK, taskVars
    <3> QED  BY <1>3, <3>2, <3>3 DEF EnqueueRevert
  <2> QED  BY <1>3, <2>1, <2>2
           DEF EnqueueRevert, TypeInv, TypeOK, CallsOK, queueVars
<1> QED  BY <1>1, <1>2, <1>3 DEF EnqueueStep

(* Reading a task and taking it out of its execution.queue. *)
LEMMA LoadAndDequeueOK ==
  ASSUME TypeOK, CallsOK, NEW p \in Procs, NEW k \in Call, k.task \in Tasks,
         k.op \in {"dequeue", "stop", "reset", "archive"},
         k.op = "stop" => k.new \in Status,
         LoadAndDequeue(p, k)
  PROVE  CallsOK'
<1> DEFINE s == Snapshot(k)
           r == [s EXCEPT !.pc = "locate", !.queue = execQueue[k.task]]
<1>1. /\ s \in Call /\ s.seen \in Status
      /\ s.op = k.op /\ s.task = k.task /\ s.new = k.new
  BY SnapshotOK
<1> HIDE DEF s
<1>2. CASE execQueue[k.task] # None /\ Set(p, r)
  <2>1. execQueue[k.task] \in Queues
    BY <1>2 DEF TypeOK
  <2>2. r \in Call
    <3>1. "locate" \in Label
      BY DEF Label
    <3> QED  BY <1>1, <2>1, <3>1 DEF Call
  <2>3. CallOK(r)
    BY <1>1, <2>1 DEF Call, CallOK
  <2> QED  BY <1>2, <2>2, <2>3, SetOK
<1>3. CASE AfterDequeue(p, s)
  BY <1>1, <1>3, AfterDequeueOK
<1> QED  BY <1>2, <1>3 DEF LoadAndDequeue, s

LEMMA DequeueType ==
  ASSUME TypeInv, NEW p \in Procs, DequeueStep(p)
  PROVE  TypeInv'
<1> DEFINE k == call[p]
<1>0. k \in Call /\ CallOK(k) /\ CallsOK /\ TypeOK
  BY DEF TypeInv, CallsOK
<1>1. CASE DequeueLoad(p)
  <2>1. k.task \in Tasks
    BY <1>0, <1>1 DEF DequeueLoad, CallOK
  <2>2. CallsOK'
    BY <1>0, <1>1, <2>1, LoadAndDequeueOK DEF DequeueLoad
  <2> QED  BY <1>1, <2>2
           DEF DequeueLoad, TypeInv, TypeOK, CallsOK, taskVars, queueVars
<1>2. CASE DequeueChange(p)
  <2> DEFINE new == IF k.op = "archive" /\ k.seen = "in_progress" THEN "stopped"
                    ELSE IF k.new # None THEN k.new ELSE Before(k)
  <2>0. k.task \in Tasks
    BY <1>0, <1>2 DEF DequeueChange, CallOK
  <2>1. CallsOK'
    BY <1>0, <1>2, ReturnOK DEF DequeueChange
  <2>2. new \in Status
    <3>1. k.new # None => k.new \in Status
      BY <1>0 DEF Call
    <3>2. "stopped" \in Status
      BY DEF Status
    <3> QED  BY <1>0, <3>1, <3>2, BeforeOK
  <2>3. /\ status' \in [Tasks -> Status]
        /\ enqueueStatus' \in [Tasks -> Status \union {None}]
        /\ execQueue' \in [Tasks -> Queues \union {None}]
    <3>1. execQueue[k.task] \in Queues \union {None}
      BY <1>0, <2>0 DEF TypeOK
    <3>2. CASE ChangeStatus(k, new, None, execQueue[k.task])
      <4> HIDE DEF new
      <4> QED  BY <1>0, <2>0, <2>2, <3>1, <3>2, ChangeStatusOK
    <3>3. CASE UNCHANGED taskVars
      BY <1>0, <3>3 DEF TypeOK, taskVars
    <3> QED  BY <1>2, <3>2, <3>3 DEF DequeueChange
  <2> QED  BY <1>2, <2>1, <2>3
           DEF DequeueChange, TypeInv, TypeOK, CallsOK, queueVars
<1> QED  BY <1>1, <1>2 DEF DequeueStep

LEMMA ResetType ==
  ASSUME TypeInv, NEW p \in Procs, ResetStep(p)
  PROVE  TypeInv'
<1> DEFINE k == call[p]
<1>0. k \in Call /\ CallOK(k) /\ CallsOK /\ TypeOK
  BY DEF TypeInv, CallsOK
<1>1. CASE ResetLoad(p)
  <2>1. k.task \in Tasks
    BY <1>0, <1>1 DEF ResetLoad, CallOK
  <2>2. CallsOK'
    BY <1>0, <1>1, <2>1, LoadAndDequeueOK, ReturnOK DEF ResetLoad
  <2> QED  BY <1>1, <2>2
           DEF ResetLoad, TypeInv, TypeOK, CallsOK, taskVars, queueVars
<1>2. CASE ResetChange(p)
  <2>0. k.task \in Tasks /\ "created" \in Status
    BY <1>0, <1>2 DEF ResetChange, CallOK, Status
  <2>1. CallsOK'
    BY <1>0, <1>2, ReturnOK DEF ResetChange
  <2>2. /\ status' \in [Tasks -> Status]
        /\ enqueueStatus' \in [Tasks -> Status \union {None}]
        /\ execQueue' \in [Tasks -> Queues \union {None}]
    <3>1. CASE ChangeStatus(k, "created", None, None)
      BY <1>0, <2>0, <3>1, ChangeStatusOK
    <3>2. CASE UNCHANGED taskVars
      BY <1>0, <3>2 DEF TypeOK, taskVars
    <3> QED  BY <1>2, <3>1, <3>2 DEF ResetChange
  <2> QED  BY <1>2, <2>1, <2>2
           DEF ResetChange, TypeInv, TypeOK, CallsOK, queueVars
<1> QED  BY <1>1, <1>2 DEF ResetStep

LEMMA StatusType ==
  ASSUME TypeInv, NEW p \in Procs, StatusStep(p)
  PROVE  TypeInv'
<1> DEFINE k == call[p]
<1>0. k \in Call /\ CallOK(k) /\ CallsOK /\ TypeOK
  BY DEF TypeInv, CallsOK
<1>1. CASE StopLoad(p)
  <2>0. k.op = "stop" /\ k.task \in Tasks
    BY <1>0, <1>1 DEF StopLoad, CallOK
  <2>1. ASSUME NEW new \in Status,
               \/ LoadAndDequeue(p, [k EXCEPT !.new = new])
               \/ AfterDequeue(p, Snapshot([k EXCEPT !.new = new]))
        PROVE  CallsOK'
    <3> DEFINE s == [k EXCEPT !.new = new]
    <3>1. s \in Call /\ s.op = "stop" /\ s.task \in Tasks /\ s.new = new
      BY <1>0, <2>0 DEF Call
    <3>2. CASE LoadAndDequeue(p, s)
      <4> HIDE DEF s
      <4> QED  BY <1>0, <3>1, <3>2, LoadAndDequeueOK
    <3>3. CASE AfterDequeue(p, Snapshot(s))
      <4> HIDE DEF s
      <4>1. /\ Snapshot(s) \in Call /\ Snapshot(s).seen \in Status
            /\ Snapshot(s).op = "stop" /\ Snapshot(s).task \in Tasks
            /\ Snapshot(s).new = new
        BY <1>0, <3>1, SnapshotOK
      <4> QED  BY <1>0, <3>3, <4>1, AfterDequeueOK
    <3> QED  BY <2>1, <3>2, <3>3
  <2>2. "stopped" \in Status /\ status[k.task] \in Status
    BY <1>0, <2>0 DEF TypeOK, Status
  <2>3. CallsOK'
    BY <1>1, <2>1, <2>2 DEF StopLoad
  <2> QED  BY <1>1, <2>3
           DEF StopLoad, TypeInv, TypeOK, CallsOK, taskVars, queueVars
<1>2. CASE SetStatusLoad(p)
  <2> DEFINE s == [k EXCEPT !.pc = "cas"]
  <2>0. k.op = "set_status" /\ k.task \in Tasks
    BY <1>0, <1>2 DEF SetStatusLoad, CallOK
  <2>1. s \in Call /\ s.task \in Tasks
    BY <1>0, <2>0 DEF Call, Label
  <2>2. Snapshot(s) \in Call
    BY <1>0, <2>1, SnapshotOK
  <2>3. CallOK(Snapshot(s))
    BY <1>0, <2>0 DEF Snapshot, TypeOK, Call, CallOK
  <2>4. CallsOK'
    BY <1>0, <1>2, <2>2, <2>3, SetOK DEF SetStatusLoad
  <2> QED  BY <1>2, <2>4
           DEF SetStatusLoad, TypeInv, TypeOK, CallsOK, taskVars, queueVars
<1>3. CASE SetStatusChange(p)
  <2>0. k.task \in Tasks /\ k.new \in Status
    BY <1>0, <1>3 DEF SetStatusChange, At, CallOK
  <2>1. CallsOK'
    BY <1>0, <1>3, ReturnOK DEF SetStatusChange
  <2>2. /\ status' \in [Tasks -> Status]
        /\ enqueueStatus' \in [Tasks -> Status \union {None}]
        /\ execQueue' \in [Tasks -> Queues \union {None}]
    <3>1. /\ execQueue[k.task] \in Queues \union {None}
          /\ enqueueStatus[k.task] \in Status \union {None}
      BY <1>0, <2>0 DEF TypeOK
    <3>2. CASE ChangeStatus(k, k.new, enqueueStatus[k.task], execQueue[k.task])
      BY <1>0, <2>0, <3>1, <3>2, ChangeStatusOK
    <3>3. CASE UNCHANGED taskVars
      BY <1>0, <3>3 DEF TypeOK, taskVars
    <3> QED  BY <1>3, <3>2, <3>3 DEF SetStatusChange
  <2>3. held' \in [Agents -> Tasks \union {None}]
    BY <1>0, <1>3, Zenon DEF SetStatusChange, TypeOK
  <2> QED  BY <1>3, <2>1, <2>2, <2>3
           DEF SetStatusChange, TypeInv, TypeOK, CallsOK, queueVars
<1> QED  BY <1>1, <1>2, <1>3 DEF StatusStep

LEMMA PublishType ==
  ASSUME TypeInv, NEW p \in Procs, PublishStep(p)
  PROVE  TypeInv'
<1> DEFINE k == call[p]
<1>0. k \in Call /\ CallOK(k) /\ CallsOK /\ TypeOK
  BY DEF TypeInv, CallsOK
<1>1. CASE PublishLoad(p)
  <2> DEFINE s == [k EXCEPT !.pc = "publishing"]
  <2>0. k.op = "publish" /\ k.task \in Tasks
    BY <1>0, <1>1 DEF PublishLoad, CallOK
  <2>1. ASSUME Set(p, Snapshot(s))
        PROVE  CallsOK'
    <3>1. s \in Call /\ s.task \in Tasks
      BY <1>0, <2>0 DEF Call, Label
    <3>2. Snapshot(s) \in Call
      BY <1>0, <3>1, SnapshotOK
    <3>3. CallOK(Snapshot(s))
      BY <1>0, <2>0 DEF Snapshot, TypeOK, Call, CallOK
    <3> QED  BY <1>0, <2>1, <3>2, <3>3, SetOK
  <2>2. ASSUME Return(p)
        PROVE  CallsOK'
    BY <1>0, <2>2, ReturnOK
  <2>3. CallsOK'
    BY <1>1, <2>1, <2>2 DEF PublishLoad
  <2> QED  BY <1>1, <2>3
           DEF PublishLoad, TypeInv, TypeOK, CallsOK, taskVars, queueVars
<1>2. ASSUME NEW l \in {"pubcas", "unpublish"}, Goto(p, l), k.op = "publish",
             k.pc # "load"
      PROVE  CallsOK'
  <2>1. CallOK([k EXCEPT !.pc = l]) /\ l \in Label
    BY <1>0, <1>2 DEF Call, CallOK, Label
  <2> QED  BY <1>0, <1>2, <2>1, GotoOK
<1>3. ASSUME At(p, "publishing") \/ At(p, "pubcas") \/ At(p, "unpublish")
      PROVE  /\ k.op = "publish" /\ k.pc # "load"
             /\ k.task \in Tasks /\ k.seen \in Status
  BY <1>0, <1>3 DEF At, CallOK
<1>4. CASE PublishMark(p)
  <2>1. CallsOK'
    BY <1>2, <1>3, <1>4 DEF PublishMark
  <2> QED  BY <1>3, <1>4, <2>1
           DEF PublishMark, TypeInv, TypeOK, CallsOK, queueVars, Status
<1>5. CASE PublishChange(p)
  <2>1. CallsOK'
    BY <1>0, <1>2, <1>3, <1>5, ReturnOK DEF PublishChange
  <2> QED  BY <1>3, <1>5, <2>1
           DEF PublishChange, TypeInv, TypeOK, CallsOK, queueVars, Status
<1>6. CASE PublishUndo(p)
  <2>1. CallsOK'
    BY <1>0, <1>6, ReturnOK DEF PublishUndo
  <2> QED  BY <1>3, <1>6, <2>1
           DEF PublishUndo, TypeInv, TypeOK, CallsOK, queueVars
<1> QED  BY <1>1, <1>4, <1>5, <1>6 DEF PublishStep

LEMMA AgentType ==
  ASSUME TypeInv, NEW a \in Agents, AgentStep(a)
  PROVE  TypeInv'
<1> DEFINE k == call[a]
<1>0. k \in Call /\ CallOK(k) /\ CallsOK /\ TypeOK /\ a \in Procs
  BY DEF TypeInv, CallsOK, Procs
<1>1. CASE PopEntry(a)
  <2>0. PICK q \in live : \E e \in entries[q] :
          /\ entries' = [entries EXCEPT ![q] = @ \ {e}]
          /\ Set(a, [NoCall EXCEPT !.op = "get_next_task", !.pc = "report",
                                   !.task = e.task, !.queue = q])
    BY <1>1 DEF PopEntry
  <2>1. PICK e \in entries[q] :
          /\ entries' = [entries EXCEPT ![q] = @ \ {e}]
          /\ Set(a, [NoCall EXCEPT !.op = "get_next_task", !.pc = "report",
                                   !.task = e.task, !.queue = q])
    BY <2>0
  <2> DEFINE s == [NoCall EXCEPT !.op = "get_next_task", !.pc = "report",
                                 !.task = e.task, !.queue = q]
  <2>2. q \in Queues /\ e.task \in Tasks
    BY <1>0 DEF TypeOK, Entry
  <2>3. s \in Call
    BY <2>2, NoCallOK DEF Call, Label, Op
  <2>4. CallOK(s)
    BY <2>2, NoCallOK DEF Call, CallOK
  <2>5. CallsOK'
    BY <1>0, <2>1, <2>3, <2>4, SetOK
  <2>6. entries' \in [Queues -> SUBSET Entry]
    BY <1>0, <2>1 DEF TypeOK
  <2> QED  BY <1>1, <2>5, <2>6 DEF PopEntry, TypeInv, TypeOK, CallsOK, taskVars
<1>2. ASSUME NEW l \in {"fixread", "fixwrite"}, Goto(a, l), k.op = "get_next_task"
      PROVE  CallsOK'
  <2>1. CallOK([k EXCEPT !.pc = l]) /\ l \in Label
    BY <1>0, <1>2 DEF Call, CallOK, Label
  <2> QED  BY <1>0, <1>2, <2>1, GotoOK
<1>3. ASSUME At(a, "report") \/ At(a, "fixread") \/ At(a, "fixwrite")
      PROVE  k.op = "get_next_task" /\ k.task \in Tasks
  BY <1>0, <1>3 DEF At, CallOK
<1>4. ASSUME Receive(a), k.task \in Tasks
      PROVE  CallsOK' /\ held' \in [Agents -> Tasks \union {None}]
  BY <1>0, <1>4, ReturnOK DEF Receive, TypeOK
<1>5. CASE ReportPop(a)
  <2>1. CallsOK'
    BY <1>0, <1>2, <1>3, <1>5, ReturnOK DEF ReportPop
  <2> QED  BY <1>5, <2>1
           DEF ReportPop, TypeInv, TypeOK, CallsOK, taskVars, queueVars
<1>6. CASE ReadPopped(a)
  <2>1. CallsOK' /\ held' \in [Agents -> Tasks \union {None}]
    BY <1>0, <1>2, <1>3, <1>4, <1>6 DEF ReadPopped, TypeOK
  <2> QED  BY <1>6, <2>1
           DEF ReadPopped, TypeInv, TypeOK, CallsOK, taskVars, queueVars
<1>7. CASE RequeuePopped(a)
  <2>1. CallsOK' /\ held' \in [Agents -> Tasks \union {None}]
    BY <1>3, <1>4, <1>7 DEF RequeuePopped
  <2>2. status' \in [Tasks -> Status]
    BY <1>0, <1>7 DEF RequeuePopped, TypeOK, Status
  <2> QED  BY <1>7, <2>1, <2>2
           DEF RequeuePopped, TypeInv, TypeOK, CallsOK, queueVars
<1>8. CASE StartPopped(a)
  <2> DEFINE s == SetStatusCall(held[a], "in_progress", FALSE)
  <2>1. held[a] \in Tasks
    BY <1>0, <1>8 DEF StartPopped, TypeOK
  <2>2. s \in Call
    BY <2>1, NoCallOK DEF SetStatusCall, Call, Op, Label, Status
  <2>3. CallOK(s)
    BY <2>1, NoCallOK DEF SetStatusCall, Call, CallOK, Status
  <2>4. CallsOK'
    BY <1>0, <1>8, <2>2, <2>3, SetOK DEF StartPopped
  <2> QED  BY <1>8, <2>4
           DEF StartPopped, TypeInv, TypeOK, CallsOK, taskVars, queueVars
<1> QED  BY <1>1, <1>5, <1>6, <1>7, <1>8 DEF AgentStep, PoppedStep

LEMMA WatchdogType ==
  ASSUME TypeInv, NEW w \in Watchdogs, ListSilent(w) \/ StopSilent(w)
  PROVE  TypeInv'
<1> DEFINE k == call[w]
<1>0. k \in Call /\ CallOK(k) /\ CallsOK /\ TypeOK /\ w \in Procs
  BY DEF TypeInv, CallsOK, Procs
<1>1. CASE ListSilent(w)
  <2>1. PICK silent \in SUBSET Tasks :
          Set(w, [NoCall EXCEPT !.op = "cleanup_tasks", !.pc = "stopping",
                                !.work = silent])
    BY <1>1 DEF ListSilent
  <2> DEFINE s == [NoCall EXCEPT !.op = "cleanup_tasks", !.pc = "stopping",
                                 !.work = silent]
  <2>2. s \in Call
    BY NoCallOK DEF Call, Op, Label
  <2>3. CallOK(s)
    BY NoCallOK DEF Call, CallOK
  <2>4. CallsOK'
    BY <1>0, <2>1, <2>2, <2>3, SetOK
  <2> QED  BY <1>1, <2>4
           DEF ListSilent, TypeInv, TypeOK, CallsOK, taskVars, queueVars
<1>2. CASE StopSilent(w)
  <2>1. PICK t \in k.work :
          /\ status' = IF status[t] = "in_progress"
                       THEN [status EXCEPT ![t] = "stopped"] ELSE status
          /\ IF k.work = {t} THEN Return(w)
                             ELSE Set(w, [k EXCEPT !.work = @ \ {t}])
    BY <1>2 DEF StopSilent
  <2>2. [k EXCEPT !.work = @ \ {t}] \in Call /\ CallOK([k EXCEPT !.work = @ \ {t}])
    BY <1>0 DEF Call, CallOK
  <2>3. CallsOK'
    BY <1>0, <2>1, <2>2, SetOK, ReturnOK
  <2>4. status' \in [Tasks -> Status]
    BY <1>0, <2>1 DEF TypeOK, Status
  <2> QED  BY <1>2, <2>3, <2>4
           DEF StopSilent, TypeInv, TypeOK, CallsOK, queueVars
<1> QED  BY <1>1, <1>2

LEMMA IssueType ==
  ASSUME TypeInv, NEW c \in Clients, Issue(c)
  PROVE  TypeInv'
<1>1. PICK k \in Requests[c] : Set(c, k)
  BY DEF Issue
<1>2. k \in Call /\ CallOK(k) /\ CallsOK /\ c \in Procs
  BY Assumptions, RequestOK DEF TypeInv, Procs
<1>3. CallsOK'
  BY <1>1, <1>2, SetOK
<1>4. budget' \in [Clients -> Nat]
  BY DEF Issue, TypeInv, TypeOK
<1> QED  BY <1>3, <1>4 DEF Issue, TypeInv, TypeOK, CallsOK, taskVars, queueVars

LEMMA CrashType ==
  ASSUME TypeInv, NEW p \in Procs, Crash(p)
  PROVE  TypeInv'
<1>1. CallsOK'
  BY ReturnOK DEF Crash, TypeInv
<1>2. held' \in [Agents -> Tasks \union {None}]
  BY Zenon DEF Crash, TypeInv, TypeOK
<1> QED  BY <1>1, <1>2 DEF Crash, TypeInv, TypeOK, CallsOK, taskVars, queueVars

LEMMA TypeInit == Init => TypeInv
<1> SUFFICES ASSUME Init PROVE TypeInv
  OBVIOUS
<1>1. CallsOK
  BY NoCallOK DEF Init, CallsOK
<1>2. TypeOK
  BY <1>1, Assumptions DEF Init, TypeOK, CallsOK, Status
<1> QED  BY <1>1, <1>2 DEF TypeInv

LEMMA TypeStep == TypeInv /\ [Next]_vars => TypeInv'
<1> SUFFICES ASSUME TypeInv, [Next]_vars PROVE TypeInv'
  OBVIOUS
<1>1. CASE \E c \in Clients : Issue(c)
  BY <1>1, IssueType
<1>2. CASE \E p \in Procs : Handle(p)
  BY <1>2, AddTaskType, SweepType, RemoveTaskType, RemovedLoopType, QueueType,
     EnqueueType, DequeueType, ResetType, StatusType, PublishType DEF Handle
<1>3. CASE \E a \in Agents : AgentStep(a)
  BY <1>3, AgentType
<1>4. CASE \E w \in Watchdogs : ListSilent(w) \/ StopSilent(w)
  BY <1>4, WatchdogType
<1>5. CASE \E p \in Procs : Crash(p)
  BY <1>5, CrashType
<1>6. CASE UNCHANGED vars
  BY <1>6 DEF vars, taskVars, queueVars, TypeInv, TypeOK, CallsOK
<1> QED  BY <1>1, <1>2, <1>3, <1>4, <1>5, <1>6 DEF Next

LEMMA TypeInvariant == Spec => []TypeInv
  BY TypeInit, TypeStep, PTL DEF Spec

(* Every variable always holds a value of its type: in particular no        *)
(* handler uses a task, queue or status that it has not read or been given. *)
THEOREM TypeCorrect == Spec => []TypeOK
<1>1. TypeInv => TypeOK
  BY DEF TypeInv
<1> QED  BY <1>1, TypeInvariant, PTL

-----------------------------------------------------------------------------
(* Only add_task puts entries into queues. *)

LEMMA EntriesShrinkOrPush ==
  ASSUME TypeInv, [Next]_vars
  PROVE  \/ \A q \in Queues : entries'[q] \subseteq entries[q]
         \/ \E p \in Procs : PushEntry(p)
<1> USE DEF TypeInv, TypeOK, queueVars
<1>1. CASE \E c \in Clients : Issue(c)
  BY <1>1 DEF Issue
<1>2. ASSUME NEW p \in Procs, Handle(p), ~PushEntry(p)
      PROVE  \A q \in Queues : entries'[q] \subseteq entries[q]
  <2>1. CASE AddTaskStep(p)
    BY <1>2, <2>1 DEF AddTaskStep, FindInQueue, ReloadAfterPush, SetExecutionQueue
  <2>2. CASE SweepStep(p)
    <3>1. CASE Sweep(p)
      <4>1. PICK r \in call[p].todo :
              entries' = [entries EXCEPT ![r] = {e \in @ : e.task # call[p].task}]
        BY <3>1 DEF Sweep
      <4> QED  BY <4>1
    <3> QED  BY <2>2, <3>1 DEF SweepStep, SweepDone
  <2>3. CASE RemoveTaskStep(p)
    BY <2>3 DEF RemoveTaskStep, LocateEntry, PullEntries, ReloadAfterPull
  <2>4. CASE RemovedLoopStep(p)
    BY <2>4 DEF RemovedLoopStep, LoadRemoved, RevertRemoved, RemovedDone
  <2>5. CASE QueueStep(p)
    BY <2>5 DEF QueueStep, ReadQueue, WipeQueue, DropQueue
  <2>6. CASE EnqueueStep(p)
    BY <2>6 DEF EnqueueStep, EnqueueLoad, EnqueueChange, EnqueueRevert
  <2>7. CASE DequeueStep(p)
    BY <2>7 DEF DequeueStep, DequeueLoad, DequeueChange
  <2>8. CASE ResetStep(p)
    BY <2>8 DEF ResetStep, ResetLoad, ResetChange
  <2>9. CASE StatusStep(p)
    BY <2>9 DEF StatusStep, StopLoad, SetStatusLoad, SetStatusChange
  <2>10. CASE PublishStep(p)
    BY <2>10 DEF PublishStep, PublishLoad, PublishMark, PublishChange, PublishUndo
  <2> QED  BY <1>2, <2>1, <2>2, <2>3, <2>4, <2>5, <2>6, <2>7, <2>8, <2>9, <2>10
           DEF Handle
<1>3. ASSUME NEW a \in Agents, AgentStep(a)
      PROVE  \A q \in Queues : entries'[q] \subseteq entries[q]
  <2>1. CASE PopEntry(a)
    <3>1. PICK r \in live : \E e \in entries[r] :
            entries' = [entries EXCEPT ![r] = @ \ {e}]
      BY <2>1 DEF PopEntry
    <3> QED  BY <3>1
  <2> QED  BY <1>3, <2>1
           DEF AgentStep, PoppedStep, ReportPop, ReadPopped, RequeuePopped,
               StartPopped
<1>4. CASE \E w \in Watchdogs : ListSilent(w) \/ StopSilent(w)
  BY <1>4 DEF ListSilent, StopSilent
<1>5. CASE \E p \in Procs : Crash(p)
  BY <1>5 DEF Crash
<1>6. CASE UNCHANGED vars
  BY <1>6 DEF vars
<1> QED  BY <1>1, <1>2, <1>3, <1>4, <1>5, <1>6 DEF Next

(* The push is conditional on the task not being in the queue, so two calls *)
(* that both looked and did not find it cannot both push it.                *)
THEOREM NoDuplicates == Spec => []NoDuplicateEntries
<1>1. Init => NoDuplicateEntries
  BY DEF Init, NoDuplicateEntries
<1>2. TypeInv /\ NoDuplicateEntries /\ [Next]_vars => NoDuplicateEntries'
  <2> SUFFICES ASSUME TypeInv, NoDuplicateEntries, [Next]_vars
               PROVE  NoDuplicateEntries'
    OBVIOUS
  <2>1. CASE \A q \in Queues : entries'[q] \subseteq entries[q]
    BY <2>1 DEF NoDuplicateEntries
  <2>2. ASSUME NEW p \in Procs, PushEntry(p)
        PROVE  NoDuplicateEntries'
    <3> DEFINE k == call[p]
               new == [task |-> k.task, added |-> now]
    <3>1. CASE UNCHANGED entries
      BY <3>1 DEF NoDuplicateEntries
    <3>2. CASE /\ ~Holding(k.to, k.task)
               /\ entries' = [entries EXCEPT ![k.to] = @ \union {new}]
      <4>1. \A q \in Queues : entries'[q] =
              IF q = k.to THEN entries[q] \union {new} ELSE entries[q]
        BY <3>2 DEF TypeInv, TypeOK
      <4>2. \A e \in entries[k.to] : e.task # new.task
        BY <3>2 DEF Holding
      <4> HIDE DEF new
      <4>3. ASSUME NEW q \in Queues, NEW e \in entries'[q], NEW f \in entries'[q],
                   e.task = f.task
            PROVE  e = f
        <5>1. CASE q = k.to
          <6>1. e \in entries[q] \union {new} /\ f \in entries[q] \union {new}
            BY <4>1, <4>3, <5>1
          <6>2. \A g \in entries[q] : g.task # new.task
            BY <4>2, <5>1
          <6> QED  BY <4>3, <6>1, <6>2 DEF NoDuplicateEntries
        <5>2. CASE q # k.to
          BY <4>1, <4>3, <5>2 DEF NoDuplicateEntries
        <5> QED  BY <5>1, <5>2
      <4> QED  BY <4>3 DEF NoDuplicateEntries
    <3> QED  BY <2>2, <3>1, <3>2 DEF PushEntry
  <2> QED  BY <2>1, <2>2, EntriesShrinkOrPush
<1> QED  BY <1>1, <1>2, TypeInvariant, PTL DEF Spec

-----------------------------------------------------------------------------
(* What one step may do to the status of a task. *)
Allowed(t) ==
  \/ ValidTransition(FALSE, status[t], status'[t])
  \/ \E p \in Procs : Forced(p, t)

LEMMA SameStatus ==
  ASSUME status' = status, NEW t \in Tasks
  PROVE  Allowed(t)
  BY DEF Allowed, ValidTransition

(* A compare-and-set changes one task, from the status that its handler read. *)
LEMMA CasAllowed ==
  ASSUME TypeInv, NEW p \in Procs, NEW force, NEW new, NEW enq, NEW exec,
         call[p].task \in Tasks,
         CanChange(call[p], force, new), ChangeStatus(call[p], new, enq, exec),
         force => Forced(p, call[p].task),
         NEW t \in Tasks
  PROVE  Allowed(t)
<1>1. CASE t # call[p].task
  BY <1>1 DEF ChangeStatus, Allowed, ValidTransition, TypeInv, TypeOK
<1>2. CASE t = call[p].task /\ force
  BY <1>2 DEF Allowed
<1>3. CASE t = call[p].task /\ ~force
  <2>1. status[t] = call[p].seen /\ status'[t] = new
    BY <1>3 DEF CanChange, ChangeStatus, TypeInv, TypeOK
  <2>2. ValidTransition(FALSE, call[p].seen, new)
    BY <1>3 DEF CanChange, ValidTransition
  <2> QED  BY <2>1, <2>2 DEF Allowed
<1> QED  BY <1>1, <1>2, <1>3

(* A handler whose call moves on and whose label is one of the listed ones. *)
LEMMA ForcedBy ==
  ASSUME TypeInv, NEW p \in Procs,
         \/ Return(p) /\ call[p].pc # "idle"
         \/ \E k \in Call : Set(p, k) /\ k.pc # call[p].pc,
         \/ call[p].pc \in {"revert", "rmcas", "fixwrite", "publishing", "unpublish"}
         \/ call[p].pc = "cas"
              /\ (call[p].force \/ call[p].op \in {"dequeue", "archive"})
  PROVE  Forced(p, call[p].task)
<1>1. call'[p] # call[p]
  BY DEF Return, Set, NoCall, TypeInv, TypeOK
<1> QED  BY <1>1 DEF Forced

(* A write to one task only. *)
LEMMA WriteAllowed ==
  ASSUME TypeInv, NEW u \in Tasks, NEW new,
         status' = [status EXCEPT ![u] = new], Allowed(u), NEW t \in Tasks
  PROVE  Allowed(t)
<1>1. CASE t # u
  BY <1>1 DEF Allowed, ValidTransition, TypeInv, TypeOK
<1> QED  BY <1>1

LEMMA StatusStepAllowed ==
  ASSUME TypeInv, Next, NEW t \in Tasks
  PROVE  Allowed(t)
<1> USE DEF taskVars
<1>1. CASE \E c \in Clients : Issue(c)
  BY <1>1, SameStatus DEF Issue
<1>2. ASSUME NEW p \in Procs, Handle(p)
      PROVE  Allowed(t)
  <2> DEFINE k == call[p]
  <2>0. k \in Call /\ CallOK(k)
    BY DEF TypeInv, CallsOK
  <2>1. CASE AddTaskStep(p)
    BY <2>1, SameStatus
       DEF AddTaskStep, FindInQueue, PushEntry, ReloadAfterPush, SetExecutionQueue
  <2>2. CASE SweepStep(p)
    BY <2>2, SameStatus DEF SweepStep, Sweep, SweepDone
  <2>3. CASE RemoveTaskStep(p)
    BY <2>3, SameStatus
       DEF RemoveTaskStep, LocateEntry, PullEntries, ReloadAfterPull
  <2>4. CASE RemovedLoopStep(p)
    <3>1. CASE RevertRemoved(p)
      <4> DEFINE s == [k EXCEPT !.pc = "rmload", !.work = @ \ {k.task}]
      <4>1. s \in Call /\ s.pc # k.pc
        BY <2>0, <3>1 DEF RevertRemoved, At, Call, Label
      <4>2. k.task \in Tasks /\ Forced(p, k.task)
        BY <2>0, <3>1, <4>1, ForcedBy DEF RevertRemoved, At, CallOK
      <4> QED  BY <3>1, <4>2, CasAllowed, SameStatus DEF RevertRemoved
    <3> QED  BY <2>4, <3>1, SameStatus DEF RemovedLoopStep, LoadRemoved, RemovedDone
  <2>5. CASE QueueStep(p)
    BY <2>5, SameStatus DEF QueueStep, ReadQueue, WipeQueue, DropQueue
  <2>6. CASE EnqueueStep(p)
    <3>1. CASE EnqueueChange(p)
      <4> DEFINE before == IF k.seen = "queued" /\ k.seenEnq # None
                           THEN k.seenEnq ELSE k.seen
      <4>1. k.task \in Tasks /\ k.pc = "cas"
        BY <2>0, <3>1 DEF EnqueueChange, At, CallOK
      <4>2. CASE /\ CanChange(k, k.force, "queued")
                 /\ ChangeStatus(k, "queued", before, execQueue[k.task])
                 /\ Goto(p, "find")
        <5>1. [k EXCEPT !.pc = "find"] \in Call /\ [k EXCEPT !.pc = "find"].pc # k.pc
          BY <2>0, <4>1 DEF Call, Label
        <5>2. k.force => Forced(p, k.task)
          BY <4>1, <4>2, <5>1, ForcedBy DEF Goto
        <5> HIDE DEF before
        <5> QED  BY <4>1, <4>2, <5>2, CasAllowed
      <4> QED  BY <3>1, <4>2, SameStatus DEF EnqueueChange
    <3>2. CASE EnqueueRevert(p)
      <4>1. k.task \in Tasks /\ Forced(p, k.task)
        BY <2>0, <3>2, ForcedBy DEF EnqueueRevert, At, CallOK
      <4>2. Allowed(k.task)
        BY <4>1 DEF Allowed
      <4> QED  BY <3>2, <4>1, <4>2, WriteAllowed, SameStatus
               DEF EnqueueRevert, ChangeStatus
    <3> QED  BY <2>6, <3>1, <3>2, SameStatus DEF EnqueueStep, EnqueueLoad
  <2>7. CASE DequeueStep(p)
    <3>1. CASE DequeueChange(p)
      <4> DEFINE new == IF k.op = "archive" /\ k.seen = "in_progress" THEN "stopped"
                        ELSE IF k.new # None THEN k.new ELSE Before(k)
      <4>1. k.task \in Tasks /\ Forced(p, k.task)
        BY <2>0, <3>1, ForcedBy DEF DequeueChange, At, CallOK
      <4>2. CASE /\ CanChange(k, TRUE, new)
                 /\ ChangeStatus(k, new, None, execQueue[k.task])
        <5> HIDE DEF new
        <5> QED  BY <4>1, <4>2, CasAllowed
      <4> QED  BY <3>1, <4>2, SameStatus DEF DequeueChange
    <3> QED  BY <2>7, <3>1, SameStatus DEF DequeueStep, DequeueLoad
  <2>8. CASE ResetStep(p)
    <3>1. CASE ResetChange(p)
      <4>1. k.task \in Tasks /\ (k.force => Forced(p, k.task))
        BY <2>0, <3>1, ForcedBy DEF ResetChange, At, CallOK
      <4> QED  BY <3>1, <4>1, CasAllowed, SameStatus DEF ResetChange
    <3> QED  BY <2>8, <3>1, SameStatus DEF ResetStep, ResetLoad
  <2>9. CASE StatusStep(p)
    <3>1. CASE SetStatusChange(p)
      <4>1. k.task \in Tasks /\ (k.force => Forced(p, k.task))
        BY <2>0, <3>1, ForcedBy DEF SetStatusChange, At, CallOK
      <4> QED  BY <3>1, <4>1, CasAllowed, SameStatus DEF SetStatusChange
    <3> QED  BY <2>9, <3>1, SameStatus DEF StatusStep, StopLoad, SetStatusLoad
  <2>10. CASE PublishStep(p)
    <3>0. ASSUME At(p, "publishing") \/ At(p, "pubcas") \/ At(p, "unpublish")
          PROVE  k.task \in Tasks
      BY <2>0, <3>0 DEF At, CallOK
    <3>1. CASE PublishMark(p)
      <4>1. k.pc = "publishing"
        BY <3>1 DEF PublishMark, At
      <4>2. ASSUME NEW l \in {"pubcas", "unpublish"}, Goto(p, l)
            PROVE  Forced(p, k.task)
        <5>1. [k EXCEPT !.pc = l] \in Call /\ [k EXCEPT !.pc = l].pc # k.pc
          BY <2>0, <4>1 DEF Call, Label
        <5> QED  BY <4>1, <4>2, <5>1, ForcedBy DEF Goto
      <4>3. Allowed(k.task)
        BY <3>1, <4>2 DEF PublishMark, Allowed
      <4> QED  BY <3>0, <3>1, <4>3, WriteAllowed DEF PublishMark
    <3>2. CASE PublishChange(p)
      <4>1. CASE status[k.task] = "publishing"
                 /\ status' = [status EXCEPT ![k.task] = "published"]
        <5>1. Allowed(k.task)
          BY <3>0, <3>2, <4>1
             DEF PublishChange, Allowed, ValidTransition, StateMachine, TypeInv,
                 TypeOK
        <5> QED  BY <3>0, <3>2, <4>1, <5>1, WriteAllowed DEF PublishChange
      <4> QED  BY <3>2, <4>1, SameStatus DEF PublishChange
    <3>3. CASE PublishUndo(p)
      <4>1. Forced(p, k.task)
        BY <3>3, ForcedBy DEF PublishUndo, At
      <4>2. Allowed(k.task)
        BY <4>1 DEF Allowed
      <4> QED  BY <3>0, <3>3, <4>2, WriteAllowed DEF PublishUndo
    <3> QED  BY <2>10, <3>1, <3>2, <3>3, SameStatus DEF PublishStep, PublishLoad
  <2> QED  BY <1>2, <2>1, <2>2, <2>3, <2>4, <2>5, <2>6, <2>7, <2>8, <2>9, <2>10
           DEF Handle
<1>3. ASSUME NEW a \in Agents, AgentStep(a)
      PROVE  Allowed(t)
  <2>1. CASE RequeuePopped(a)
    <3>1. a \in Procs /\ call[a].task \in Tasks
      BY <2>1 DEF Procs, RequeuePopped, At, TypeInv, CallsOK, CallOK
    <3>2. Forced(a, call[a].task)
      BY <2>1, <3>1, ForcedBy DEF RequeuePopped, At, Receive
    <3>3. Allowed(call[a].task)
      BY <3>1, <3>2 DEF Allowed
    <3> QED  BY <2>1, <3>1, <3>3, WriteAllowed DEF RequeuePopped
  <2> QED  BY <1>3, <2>1, SameStatus
           DEF AgentStep, PopEntry, PoppedStep, ReportPop, ReadPopped, StartPopped
<1>4. ASSUME NEW w \in Watchdogs, ListSilent(w) \/ StopSilent(w)
      PROVE  Allowed(t)
  <2>1. CASE StopSilent(w)
    <3>1. call[w].work \subseteq Tasks
      BY DEF TypeInv, TypeOK, Call, Procs
    <3>2. PICK u \in call[w].work :
            status' = IF status[u] = "in_progress"
                      THEN [status EXCEPT ![u] = "stopped"] ELSE status
      BY <2>1 DEF StopSilent
    <3>3. CASE status[u] = "in_progress"
      <4>1. Allowed(u)
        BY <3>1, <3>2, <3>3
           DEF Allowed, ValidTransition, StateMachine, TypeInv, TypeOK
      <4> QED  BY <3>1, <3>2, <3>3, <4>1, WriteAllowed
    <3> QED  BY <3>2, <3>3, SameStatus
  <2> QED  BY <1>4, <2>1, SameStatus DEF ListSilent
<1>5. CASE \E p \in Procs : Crash(p)
  BY <1>5, SameStatus DEF Crash
<1> QED  BY <1>1, <1>2, <1>3, <1>4, <1>5 DEF Next

(* An unforced change of status follows the state machine, although every   *)
(* handler validates it against a status that it read earlier.              *)
THEOREM StatusChangesFollowTable == Spec => StatusFollowsTable
<1>1. TypeInv /\ [Next]_vars => [\A t \in Tasks : Allowed(t)]_vars
  BY StatusStepAllowed
<1> QED  BY <1>1, TypeInvariant, PTL DEF Spec, StatusFollowsTable, Allowed

-----------------------------------------------------------------------------
(* A task whose enqueues have all been answered waits in one queue at most. *)

(* The deployments the theorem is about: tasks enter queues by tasks.enqueue *)
(* only (queues.add_task and queues.move_task_to_queue pull nothing from the *)
(* other queues), no process dies in the middle of a call, and writing the   *)
(* queue metrics never raises (enqueue_task would return before its pull).   *)
EnqueueOnly ==
  /\ \A c \in Clients : \A k \in Requests[c] : k.op \notin {"add_task", "move_task"}
  /\ Crashing = {}
  /\ MetricsFail = FALSE

(* p has pushed t into q and has yet to pull it out of r. *)
WillPull(p, t, q, r) ==
  LET k == call[p] IN
  /\ k.op = "enqueue" /\ k.task = t /\ k.to = q
  /\ k.pc \in {"reload", "setexec"} \/ (k.pc = "sweep" /\ r \in k.todo)

NoAddCalls == \A p \in Procs : call[p].op \notin {"add_task", "move_task"}

GoneIsEmpty == \A q \in Queues \ live : entries[q] = {}

(* Of two entries of a task, one is about to be pulled by the enqueue that  *)
(* pushed the other.                                                        *)
ExtraEntriesWillGo ==
  \A t \in Tasks : \A q, r \in Queues :
    q # r /\ Holding(q, t) /\ Holding(r, t)
      => \E p \in Procs : WillPull(p, t, q, r) \/ WillPull(p, t, r, q)

OneQueueInv == TypeInv /\ NoAddCalls /\ GoneIsEmpty /\ ExtraEntriesWillGo

-----------------------------------------------------------------------------
(* A handler's step changes its own call only, and goes on with the same    *)
(* operation or ends.                                                       *)
OwnCallOnly(p) ==
  /\ \A x \in Procs \ {p} : call'[x] = call[x]
  /\ call'[p].op \in {call[p].op, "none"}

LEMMA SetOwn ==
  ASSUME TypeInv, NEW p \in Procs, NEW k, k.op = call[p].op, Set(p, k)
  PROVE  OwnCallOnly(p) /\ call'[p] = k
  BY DEF TypeInv, TypeOK, Set, OwnCallOnly

LEMMA ReturnOwn ==
  ASSUME TypeInv, NEW p \in Procs, Return(p)
  PROVE  OwnCallOnly(p) /\ call'[p] = NoCall
  BY DEF TypeInv, TypeOK, Set, Return, NoCall, OwnCallOnly

LEMMA GotoOwn ==
  ASSUME TypeInv, NEW p \in Procs, NEW l, Goto(p, l)
  PROVE  OwnCallOnly(p) /\ call'[p] = [call[p] EXCEPT !.pc = l]
<1>1. [call[p] EXCEPT !.pc = l].op = call[p].op
  BY DEF TypeInv, TypeOK, Call
<1> QED  BY <1>1, SetOwn DEF Goto

LEMMA AddOwn ==
  ASSUME TypeInv, NEW p \in Procs, AddFailed(p) \/ AddSucceeded(p)
  PROVE  OwnCallOnly(p)
<1> DEFINE k == call[p]
           f == [k EXCEPT !.pc = "find", !.to = k.queue]
           s == [k EXCEPT !.pc = "sweep", !.todo = Queues \ {k.to}]
<1>1. f.op = k.op /\ s.op = k.op
  BY DEF TypeInv, TypeOK, Call
<1>2. ASSUME Set(p, f) \/ Set(p, s)
      PROVE  OwnCallOnly(p)
  <2> HIDE DEF f, s
  <2> QED  BY <1>1, <1>2, SetOwn
<1> QED  BY <1>2, GotoOwn, ReturnOwn DEF AddFailed, AddSucceeded

LEMMA AfterDequeueOwn ==
  ASSUME TypeInv, NEW p \in Procs, NEW k \in Call, k.op = call[p].op,
         AfterDequeue(p, k)
  PROVE  OwnCallOnly(p)
<1> DEFINE f == [k EXCEPT !.pc = "cas"]
           s == [k EXCEPT !.pc = "sweep", !.todo = Queues]
<1>1. f.op = k.op /\ s.op = k.op
  BY DEF Call
<1>2. ASSUME Set(p, f) \/ Set(p, s)
      PROVE  OwnCallOnly(p)
  <2> HIDE DEF f, s
  <2> QED  BY <1>1, <1>2, SetOwn
<1> QED  BY <1>2, ReturnOwn DEF AfterDequeue

LEMMA LoadAndDequeueOwn ==
  ASSUME TypeInv, NEW p \in Procs, NEW k \in Call, k.op = call[p].op,
         k.task \in Tasks, LoadAndDequeue(p, k)
  PROVE  OwnCallOnly(p)
<1> DEFINE s == Snapshot(k)
           f == [s EXCEPT !.pc = "locate", !.queue = execQueue[k.task]]
<1>1. s \in Call /\ s.op = call[p].op
  BY SnapshotOK DEF TypeInv
<1> HIDE DEF s
<1>2. f.op = s.op
  BY <1>1 DEF Call
<1>3. CASE Set(p, f)
  <2> HIDE DEF f
  <2> QED  BY <1>1, <1>2, <1>3, SetOwn
<1>4. CASE AfterDequeue(p, s)
  BY <1>1, <1>4, AfterDequeueOwn
<1> QED  BY <1>3, <1>4 DEF LoadAndDequeue, s

LEMMA HandleOwn ==
  ASSUME TypeInv, NEW p \in Procs, Handle(p)
  PROVE  OwnCallOnly(p)
<1> DEFINE k == call[p]
<1>0. k \in Call /\ CallOK(k) /\ TypeOK
  BY DEF TypeInv, CallsOK
<1>1. CASE AddTaskStep(p)
  <2>1. [k EXCEPT !.pc = "sweep", !.todo = Queues \ {k.to}].op = k.op
    BY <1>0 DEF Call
  <2> QED  BY <1>1, <2>1, SetOwn, GotoOwn, ReturnOwn, AddOwn
           DEF AddTaskStep, FindInQueue, PushEntry, ReloadAfterPush,
               SetExecutionQueue
<1>2. CASE SweepStep(p)
  <2>1. \A q : [k EXCEPT !.todo = @ \ {q}].op = k.op
    BY <1>0 DEF Call
  <2> QED  BY <1>2, <2>1, SetOwn, GotoOwn, ReturnOwn
           DEF SweepStep, Sweep, SweepDone
<1>3. CASE RemoveTaskStep(p)
  <2>1. CASE LocateEntry(p)
    <3>1. \A found : [k EXCEPT !.pc = "pull", !.read = found].op = k.op
      BY <1>0 DEF Call
    <3> QED  BY <1>0, <2>1, <3>1, SetOwn, ReturnOwn, AfterDequeueOwn
             DEF LocateEntry
  <2>2. CASE PullEntries(p)
    <3> DEFINE matched == Holding(k.queue, k.task)
               s == [k EXCEPT
                       !.pc = IF k.op = "remove_task" /\ k.opt /\ matched
                              THEN "rmload" ELSE "pulled",
                       !.read = IF matched THEN @ ELSE {},
                       !.work = IF k.op = "remove_task" THEN {k.task} ELSE {}]
    <3>1. s.op = k.op
      BY <1>0 DEF Call
    <3>2. Set(p, s)
      BY <2>2 DEF PullEntries
    <3> HIDE DEF s
    <3> QED  BY <3>1, <3>2, SetOwn
  <2>3. CASE ReloadAfterPull(p)
    <3>1. [k EXCEPT !.pc = "find", !.to = k.target].op = k.op
      BY <1>0 DEF Call
    <3> QED  BY <1>0, <2>3, <3>1, SetOwn, ReturnOwn, AfterDequeueOwn
             DEF ReloadAfterPull
  <2> QED  BY <1>3, <2>1, <2>2, <2>3 DEF RemoveTaskStep
<1>4. CASE RemovedLoopStep(p)
  <2>1. CASE LoadRemoved(p)
    <3>1. PICK t \in k.work :
            Set(p, IF execQueue[t] = k.queue
                   THEN Snapshot([k EXCEPT !.task = t, !.pc = "rmcas"])
                   ELSE [k EXCEPT !.work = @ \ {t}])
      BY <2>1 DEF LoadRemoved
    <3>2. /\ Snapshot([k EXCEPT !.task = t, !.pc = "rmcas"]).op = k.op
          /\ [k EXCEPT !.work = @ \ {t}].op = k.op
      BY <1>0 DEF Call, Snapshot
    <3> QED  BY <3>1, <3>2, SetOwn
  <2>2. CASE RevertRemoved(p)
    <3>1. [k EXCEPT !.pc = "rmload", !.work = @ \ {k.task}].op = k.op
      BY <1>0 DEF Call
    <3> QED  BY <2>2, <3>1, SetOwn DEF RevertRemoved
  <2> QED  BY <1>4, <2>1, <2>2, GotoOwn DEF RemovedLoopStep, RemovedDone
<1>5. CASE QueueStep(p)
  <2>1. \A w : [k EXCEPT !.pc = "rmload", !.work = w].op = k.op
    BY <1>0 DEF Call
  <2> QED  BY <1>5, <2>1, SetOwn, GotoOwn, ReturnOwn
           DEF QueueStep, ReadQueue, WipeQueue, DropQueue
<1>6. CASE EnqueueStep(p)
  <2>1. Snapshot([k EXCEPT !.pc = "cas"]).op = k.op
    BY <1>0 DEF Call, Snapshot
  <2> QED  BY <1>6, <2>1, SetOwn, GotoOwn, ReturnOwn
           DEF EnqueueStep, EnqueueLoad, EnqueueChange, EnqueueRevert
<1>7. CASE DequeueStep(p)
  <2>1. DequeueLoad(p) => k.task \in Tasks
    BY <1>0 DEF DequeueLoad, CallOK
  <2> QED  BY <1>0, <1>7, <2>1, LoadAndDequeueOwn, ReturnOwn
           DEF DequeueStep, DequeueLoad, DequeueChange
<1>8. CASE ResetStep(p)
  <2>1. ResetLoad(p) => k.task \in Tasks
    BY <1>0 DEF ResetLoad, CallOK
  <2> QED  BY <1>0, <1>8, <2>1, LoadAndDequeueOwn, ReturnOwn
           DEF ResetStep, ResetLoad, ResetChange
<1>9. CASE StatusStep(p)
  <2>1. CASE StopLoad(p)
    <3>1. k.op = "stop" /\ k.task \in Tasks
      BY <1>0, <2>1 DEF StopLoad, CallOK
    <3>2. ASSUME NEW new \in Status,
                 \/ LoadAndDequeue(p, [k EXCEPT !.new = new])
                 \/ AfterDequeue(p, Snapshot([k EXCEPT !.new = new]))
          PROVE  OwnCallOnly(p)
      <4> DEFINE s == [k EXCEPT !.new = new]
      <4>1. s \in Call /\ s.op = k.op /\ s.task \in Tasks
        BY <1>0, <3>1 DEF Call
      <4> HIDE DEF s
      <4>2. Snapshot(s) \in Call /\ Snapshot(s).op = k.op
        BY <1>0, <4>1, SnapshotOK
      <4> QED  BY <3>2, <4>1, <4>2, LoadAndDequeueOwn, AfterDequeueOwn DEF s
    <3>3. "stopped" \in Status /\ status[k.task] \in Status
      BY <1>0, <3>1 DEF TypeOK, Status
    <3> QED  BY <2>1, <3>2, <3>3 DEF StopLoad
  <2>2. CASE SetStatusLoad(p)
    <3>1. Snapshot([k EXCEPT !.pc = "cas"]).op = k.op
      BY <1>0 DEF Call, Snapshot
    <3> QED  BY <2>2, <3>1, SetOwn DEF SetStatusLoad
  <2> QED  BY <1>9, <2>1, <2>2, ReturnOwn DEF StatusStep, SetStatusChange
<1>10. CASE PublishStep(p)
  <2>1. Snapshot([k EXCEPT !.pc = "publishing"]).op = k.op
    BY <1>0 DEF Call, Snapshot
  <2> QED  BY <1>10, <2>1, SetOwn, GotoOwn, ReturnOwn
           DEF PublishStep, PublishLoad, PublishMark, PublishChange, PublishUndo
<1> QED  BY <1>1, <1>2, <1>3, <1>4, <1>5, <1>6, <1>7, <1>8, <1>9, <1>10
         DEF Handle

-----------------------------------------------------------------------------
(* Steps that push nothing and leave every pending pull pending. *)

WillPullKept(p) ==
  \A t \in Tasks : \A q, r \in Queues :
    q # r /\ WillPull(p, t, q, r) /\ Holding(q, t)' /\ Holding(r, t)'
      => WillPull(p, t, q, r)'

LEMMA ShrinkKeepsExtra ==
  ASSUME TypeInv, ExtraEntriesWillGo,
         \A q \in Queues : entries'[q] \subseteq entries[q],
         \A p \in Procs : WillPullKept(p)
  PROVE  ExtraEntriesWillGo'
<1>1. \A t \in Tasks, q \in Queues : Holding(q, t)' => Holding(q, t)
  BY DEF Holding
<1> QED  BY <1>1 DEF ExtraEntriesWillGo, WillPullKept

(* A process whose call does not change, or that is not between its push    *)
(* and its pulls, keeps its pending pulls.                                  *)
LEMMA OthersKeep ==
  ASSUME NEW p \in Procs, call'[p] = call[p]
  PROVE  WillPullKept(p)
  BY DEF WillPullKept, WillPull

LEMMA IdleKeep ==
  ASSUME NEW p \in Procs,
         call[p].op # "enqueue" \/ call[p].pc \notin {"reload", "setexec", "sweep"}
  PROVE  WillPullKept(p)
  BY DEF WillPullKept, WillPull

(* The operations of a call between its push and its last pull. *)
LEMMA ReloadKeep ==
  ASSUME OneQueueInv, EnqueueOnly, NEW p \in Procs, ReloadAfterPush(p)
  PROVE  WillPullKept(p)
<1> DEFINE k == call[p]
<1>0. k \in Call /\ CallOK(k) /\ k.op = "enqueue" /\ k.pc = "reload" /\ TypeInv
      /\ ~MetricsFail
  BY DEF OneQueueInv, TypeInv, CallsOK, ReloadAfterPush, At, CallOK, NoAddCalls,
         EnqueueOnly
<1>1. CASE k.to \notin live
  <2>1. entries[k.to] = {} /\ entries' = entries
    BY <1>0, <1>1 DEF OneQueueInv, GoneIsEmpty, CallOK, ReloadAfterPush, queueVars
  <2>2. ASSUME NEW t \in Tasks, NEW q \in Queues, NEW r \in Queues,
               WillPull(p, t, q, r)
        PROVE  ~Holding(q, t)'
    BY <2>1, <2>2 DEF Holding, WillPull
  <2> QED  BY <2>2 DEF WillPullKept
<1>2. CASE k.to \in live
  <2>1. AddSucceeded(p)
    BY <1>0, <1>2 DEF ReloadAfterPush
  <2> DEFINE s == [k EXCEPT !.pc = "sweep", !.todo = Queues \ {k.to}]
             x == [k EXCEPT !.pc = "setexec"]
  <2>2. CASE Set(p, s)
    <3>1. call'[p] = s
      BY <1>0, <2>2 DEF Set, TypeInv, TypeOK
    <3>2. s.op = k.op /\ s.task = k.task /\ s.to = k.to /\ s.pc = "sweep"
          /\ s.todo = Queues \ {k.to}
      BY <1>0 DEF Call
    <3> HIDE DEF s
    <3>3. ASSUME NEW t \in Tasks, NEW q \in Queues, NEW r \in Queues, q # r,
                 WillPull(p, t, q, r)
          PROVE  WillPull(p, t, q, r)'
      BY <3>1, <3>2, <3>3 DEF WillPull
    <3> QED  BY <3>1, <3>2, <3>3 DEF WillPullKept
  <2>3. CASE Set(p, x)
    <3>1. call'[p] = x
      BY <1>0, <2>3 DEF Set, TypeInv, TypeOK
    <3>2. x.op = k.op /\ x.task = k.task /\ x.to = k.to /\ x.pc = "setexec"
      BY <1>0 DEF Call
    <3> HIDE DEF x
    <3> QED  BY <1>0, <3>1, <3>2 DEF WillPullKept, WillPull
  <2> QED  BY <1>0, <2>1, <2>2, <2>3 DEF AddSucceeded, Goto
<1> QED  BY <1>1, <1>2

LEMMA SetExecKeep ==
  ASSUME OneQueueInv, NEW p \in Procs, SetExecutionQueue(p)
  PROVE  WillPullKept(p)
<1> DEFINE k == call[p]
           s == [k EXCEPT !.pc = "sweep", !.todo = Queues \ {k.to}]
<1>1. k \in Call /\ CallOK(k) /\ k.op = "enqueue" /\ k.pc = "setexec" /\ TypeInv
  BY DEF OneQueueInv, TypeInv, CallsOK, SetExecutionQueue, At, CallOK, NoAddCalls
<1>2. call'[p] = s
  BY <1>1 DEF SetExecutionQueue, Set, TypeInv, TypeOK
<1>3. s.op = k.op /\ s.task = k.task /\ s.to = k.to /\ s.pc = "sweep"
      /\ s.todo = Queues \ {k.to}
  BY <1>1 DEF Call
<1> HIDE DEF s
<1>4. ASSUME NEW t \in Tasks, NEW q \in Queues, NEW r \in Queues, q # r,
             WillPull(p, t, q, r)
      PROVE  WillPull(p, t, q, r)'
  BY <1>2, <1>3, <1>4 DEF WillPull
<1> QED  BY <1>4 DEF WillPullKept

LEMMA SweepKeep ==
  ASSUME OneQueueInv, NEW p \in Procs, Sweep(p)
  PROVE  WillPullKept(p)
<1> DEFINE k == call[p]
<1>1. k \in Call /\ k.pc = "sweep" /\ TypeInv
  BY DEF OneQueueInv, TypeInv, CallsOK, Sweep, At
<1>2. PICK u \in k.todo :
        /\ entries' = [entries EXCEPT ![u] = {e \in @ : e.task # k.task}]
        /\ Set(p, [k EXCEPT !.todo = @ \ {u}])
  BY DEF Sweep
<1> DEFINE s == [k EXCEPT !.todo = @ \ {u}]
<1>3. call'[p] = s
  BY <1>1, <1>2 DEF Set, TypeInv, TypeOK
<1>4. s.op = k.op /\ s.task = k.task /\ s.to = k.to /\ s.pc = "sweep"
      /\ s.todo = k.todo \ {u}
  BY <1>1 DEF Call
<1> HIDE DEF s
<1>5. u \in Queues => \A e \in entries'[u] : e.task # k.task
  <2>1. u \in Queues => entries'[u] = {e \in entries[u] : e.task # k.task}
    BY <1>1, <1>2 DEF TypeInv, TypeOK
  <2> QED  BY <2>1
<1>6. ASSUME NEW t \in Tasks, NEW q \in Queues, NEW r \in Queues,
             WillPull(p, t, q, r), Holding(r, t)'
      PROVE  WillPull(p, t, q, r)'
  <2>1. k.task = t /\ r \in k.todo
    BY <1>1, <1>6 DEF WillPull
  <2>2. r # u
    BY <1>5, <1>6, <2>1 DEF Holding
  <2> QED  BY <1>3, <1>4, <1>6, <2>1, <2>2 DEF WillPull
<1> QED  BY <1>6 DEF WillPullKept

LEMMA SweepDoneKeep ==
  ASSUME NEW p \in Procs, SweepDone(p)
  PROVE  WillPullKept(p)
<1>1. call[p].pc = "sweep" /\ call[p].todo = {}
  BY DEF SweepDone, At
<1>2. ASSUME NEW t, NEW q, NEW r
      PROVE  ~WillPull(p, t, q, r)
  BY <1>1 DEF WillPull
<1> QED  BY <1>2 DEF WillPullKept

-----------------------------------------------------------------------------
(* What happens at each kind of step. *)

LEMMA HandleKeep ==
  ASSUME OneQueueInv, EnqueueOnly, NEW p \in Procs, Handle(p)
  PROVE  \A x \in Procs : WillPullKept(x)
<1>1. TypeInv
  BY DEF OneQueueInv
<1>2. ASSUME NEW x \in Procs, x # p
      PROVE  WillPullKept(x)
  <2>1. call'[x] = call[x]
    BY <1>1, <1>2, HandleOwn DEF OwnCallOnly
  <2> QED  BY <2>1, OthersKeep
<1>3. WillPullKept(p)
  <2>1. CASE call[p].pc \notin {"reload", "setexec", "sweep"}
    BY <2>1, IdleKeep
  <2>2. CASE call[p].pc \in {"reload", "setexec", "sweep"}
    <3>1. \/ ReloadAfterPush(p) \/ SetExecutionQueue(p) \/ Sweep(p) \/ SweepDone(p)
      BY <2>2 DEF Handle, At,
           AddTaskStep, FindInQueue, PushEntry, SweepStep,
           RemoveTaskStep, LocateEntry, PullEntries, ReloadAfterPull,
           RemovedLoopStep, LoadRemoved, RevertRemoved, RemovedDone,
           QueueStep, ReadQueue, WipeQueue, DropQueue,
           EnqueueStep, EnqueueLoad, EnqueueChange, EnqueueRevert,
           DequeueStep, DequeueLoad, DequeueChange,
           ResetStep, ResetLoad, ResetChange,
           StatusStep, StopLoad, SetStatusLoad, SetStatusChange,
           PublishStep, PublishLoad, PublishMark, PublishChange, PublishUndo
    <3> QED  BY <3>1, ReloadKeep, SetExecKeep, SweepKeep, SweepDoneKeep
  <2> QED  BY <2>1, <2>2
<1> QED  BY <1>2, <1>3

(* Pushing t into q: every other entry of t is now the pusher's to pull. *)
LEMMA PushKeep ==
  ASSUME OneQueueInv, EnqueueOnly, NEW p \in Procs, PushEntry(p)
  PROVE  ExtraEntriesWillGo'
<1> DEFINE k == call[p]
           new == [task |-> k.task, added |-> now]
<1>0. /\ k \in Call /\ CallOK(k) /\ k.pc = "push" /\ k.op = "enqueue"
      /\ TypeInv /\ ExtraEntriesWillGo
  BY DEF OneQueueInv, TypeInv, CallsOK, PushEntry, At, CallOK, NoAddCalls
<1>1. \A x \in Procs : WillPullKept(x)
  BY HandleKeep DEF Handle, AddTaskStep
<1>2. CASE UNCHANGED entries
  BY <1>0, <1>1, <1>2, ShrinkKeepsExtra
<1>3. CASE /\ entries' = [entries EXCEPT ![k.to] = @ \union {new}]
           /\ Goto(p, "reload")
  <2>1. /\ call'[p].op = "enqueue" /\ call'[p].task = k.task
        /\ call'[p].to = k.to /\ call'[p].pc = "reload"
    <3>1. call'[p] = [k EXCEPT !.pc = "reload"]
      BY <1>0, <1>3, GotoOwn
    <3> QED  BY <1>0, <3>1 DEF Call
  <2>2. \A t, q, r : t = k.task /\ q = k.to => WillPull(p, t, q, r)'
    BY <2>1 DEF WillPull
  <2>3. \A q \in Queues : entries'[q] =
          IF q = k.to THEN entries[q] \union {new} ELSE entries[q]
    BY <1>0, <1>3 DEF TypeInv, TypeOK
  <2>4. ASSUME NEW t \in Tasks, NEW q \in Queues, NEW r \in Queues, q # r,
               Holding(q, t)', Holding(r, t)'
        PROVE  \E x \in Procs : WillPull(x, t, q, r)' \/ WillPull(x, t, r, q)'
    <3>1. CASE t = k.task /\ k.to \in {q, r}
      BY <2>2, <3>1
    <3>2. CASE ~(t = k.task /\ k.to \in {q, r})
      <4>1. ASSUME NEW u \in {q, r}
            PROVE  Holding(u, t)' => Holding(u, t)
        <5>1. u \in Queues
          BY <4>1
        <5>2. CASE u = k.to
          <6>1. entries'[u] = entries[u] \union {new} /\ new.task # t
            BY <2>3, <3>2, <4>1, <5>1, <5>2
          <6> HIDE DEF new
          <6> QED  BY <6>1 DEF Holding
        <5>3. CASE u # k.to
          BY <2>3, <5>1, <5>3 DEF Holding
        <5> QED  BY <5>2, <5>3
      <4>2. Holding(q, t) /\ Holding(r, t)
        BY <2>4, <4>1
      <4>3. PICK x \in Procs : WillPull(x, t, q, r) \/ WillPull(x, t, r, q)
        BY <1>0, <2>4, <4>2 DEF ExtraEntriesWillGo
      <4> QED  BY <1>1, <2>4, <4>3 DEF WillPullKept
    <3> QED  BY <3>1, <3>2
  <2> QED  BY <2>4 DEF ExtraEntriesWillGo
<1> QED  BY <1>2, <1>3 DEF PushEntry

LEMMA ExtraStep ==
  ASSUME OneQueueInv, EnqueueOnly, [Next]_vars
  PROVE  ExtraEntriesWillGo'
<1>0. TypeInv /\ ExtraEntriesWillGo
  BY DEF OneQueueInv
<1>1. CASE \E p \in Procs : PushEntry(p)
  BY <1>1, PushKeep
<1>2. CASE \A q \in Queues : entries'[q] \subseteq entries[q]
  <2>1. ASSUME NEW p \in Procs, call[p].pc \notin {"reload", "setexec", "sweep"},
               \A x \in Procs \ {p} : call'[x] = call[x]
        PROVE  \A x \in Procs : WillPullKept(x)
    <3>1. ASSUME NEW x \in Procs, x # p
          PROVE  WillPullKept(x)
      <4>1. call'[x] = call[x]
        BY <2>1, <3>1
      <4> QED  BY <4>1, OthersKeep
    <3> QED  BY <2>1, <3>1, IdleKeep
  <2>2. ASSUME NEW p \in Procs, NEW k, Set(p, k)
        PROVE  \A x \in Procs \ {p} : call'[x] = call[x]
    BY <1>0, <2>2 DEF Set, TypeInv, TypeOK
  <2>3. \A x \in Procs : WillPullKept(x)
    <3>1. ASSUME NEW c \in Clients, Issue(c)
          PROVE  \A x \in Procs : WillPullKept(x)
      <4>1. PICK k \in Requests[c] : Set(c, k) /\ call[c].pc = "idle" /\ c \in Procs
        BY <3>1 DEF Issue, Procs
      <4> QED  BY <2>1, <2>2, <4>1
    <3>2. ASSUME NEW p \in Procs, Handle(p)
          PROVE  \A x \in Procs : WillPullKept(x)
      BY <3>2, HandleKeep
    <3>3. ASSUME NEW a \in Agents, AgentStep(a)
          PROVE  \A x \in Procs : WillPullKept(x)
      <4>1. a \in Procs /\ call[a].pc \notin {"reload", "setexec", "sweep"}
        BY <3>3 DEF Procs, AgentStep, PoppedStep, PopEntry, ReportPop, ReadPopped,
                    RequeuePopped, StartPopped, At
      <4>2. \E k : Set(a, k)
        BY <3>3 DEF AgentStep, PoppedStep, PopEntry, ReportPop, ReadPopped,
                    RequeuePopped, StartPopped, Receive, Return, Goto
      <4> QED  BY <2>1, <2>2, <4>1, <4>2
    <3>4. ASSUME NEW w \in Watchdogs, ListSilent(w) \/ StopSilent(w)
          PROVE  \A x \in Procs : WillPullKept(x)
      <4>1. w \in Procs /\ call[w].pc \notin {"reload", "setexec", "sweep"}
        BY <3>4 DEF Procs, ListSilent, StopSilent, At
      <4>2. \E k : Set(w, k)
        BY <3>4 DEF ListSilent, StopSilent, Return
      <4> QED  BY <2>1, <2>2, <4>1, <4>2
    <3>5. \A p \in Procs : ~Crash(p)
      BY DEF Crash, EnqueueOnly
    <3>6. CASE UNCHANGED vars
      BY <3>6, OthersKeep DEF vars
    <3> QED  BY <3>1, <3>2, <3>3, <3>4, <3>5, <3>6 DEF Next
  <2> QED  BY <1>0, <1>2, <2>3, ShrinkKeepsExtra
<1> QED  BY <1>0, <1>1, <1>2, EntriesShrinkOrPush

LEMMA NoAddStep ==
  ASSUME TypeInv, NoAddCalls, EnqueueOnly, [Next]_vars
  PROVE  NoAddCalls'
<1>0. call \in [Procs -> Call]
  BY DEF TypeInv, TypeOK
<1>1. ASSUME NEW p \in Procs, NEW k, Set(p, k),
             k.op \notin {"add_task", "move_task"}
      PROVE  NoAddCalls'
  BY <1>0, <1>1 DEF NoAddCalls, Set
<1>2. ASSUME NEW p \in Procs, Return(p)
      PROVE  NoAddCalls'
  BY <1>1, <1>2 DEF Return, NoCall
<1>3. CASE \E c \in Clients : Issue(c)
  BY <1>1, <1>3 DEF Issue, EnqueueOnly, Procs
<1>4. CASE \E p \in Procs : Handle(p)
  BY <1>4, HandleOwn DEF OwnCallOnly, NoAddCalls
<1>5. ASSUME NEW a \in Agents, AgentStep(a)
      PROVE  NoAddCalls'
  <2>0. a \in Procs /\ call[a] \in Call
    BY <1>0 DEF Procs
  <2>1. CASE PopEntry(a)
    <3>1. \A t, q : [NoCall EXCEPT !.op = "get_next_task", !.pc = "report",
                                   !.task = t, !.queue = q].op = "get_next_task"
      BY DEF NoCall
    <3> QED  BY <1>1, <2>0, <2>1, <3>1 DEF PopEntry
  <2>2. CASE StartPopped(a)
    <3>1. SetStatusCall(held[a], "in_progress", FALSE).op = "set_status"
      BY DEF SetStatusCall, NoCall
    <3> QED  BY <1>1, <2>0, <2>2, <3>1 DEF StartPopped
  <2>3. ASSUME NEW l, Goto(a, l)
        PROVE  NoAddCalls'
    BY <2>0, <2>3, GotoOwn DEF OwnCallOnly, NoAddCalls
  <2> QED  BY <1>2, <1>5, <2>0, <2>1, <2>2, <2>3
           DEF AgentStep, PoppedStep, ReportPop, ReadPopped, RequeuePopped, Receive
<1>6. ASSUME NEW w \in Watchdogs, ListSilent(w) \/ StopSilent(w)
      PROVE  NoAddCalls'
  <2>0. w \in Procs /\ call[w] \in Call
    BY <1>0 DEF Procs
  <2>1. CASE ListSilent(w)
    <3>1. \A s : [NoCall EXCEPT !.op = "cleanup_tasks", !.pc = "stopping",
                                !.work = s].op = "cleanup_tasks"
      BY DEF NoCall
    <3> QED  BY <1>1, <2>0, <2>1, <3>1 DEF ListSilent
  <2>2. CASE StopSilent(w)
    <3>1. \A t : [call[w] EXCEPT !.work = @ \ {t}].op = call[w].op
      BY <2>0 DEF Call
    <3>2. call[w].op \notin {"add_task", "move_task"}
      BY <2>0 DEF NoAddCalls
    <3>3. ASSUME NEW t, Set(w, [call[w] EXCEPT !.work = @ \ {t}])
          PROVE  NoAddCalls'
      BY <1>1, <2>0, <3>1, <3>2, <3>3
    <3> QED  BY <1>2, <2>0, <2>2, <3>3 DEF StopSilent
  <2> QED  BY <1>6, <2>1, <2>2
<1>7. CASE \E p \in Procs : Crash(p)
  BY <1>7 DEF Crash, EnqueueOnly
<1>8. CASE UNCHANGED vars
  BY <1>8 DEF vars, NoAddCalls
<1> QED  BY <1>3, <1>4, <1>5, <1>6, <1>7, <1>8 DEF Next

(* A queue that is gone stays gone, and nothing is pushed into it. *)
LEMMA GoneStep ==
  ASSUME TypeInv, GoneIsEmpty, [Next]_vars
  PROVE  GoneIsEmpty'
<1>1. CASE \E p \in Procs : DropQueue(p)
  BY <1>1 DEF DropQueue, GoneIsEmpty, TypeInv, TypeOK
<1>2. CASE \A p \in Procs : ~DropQueue(p)
  <2>1. live' = live
    BY <1>2 DEF Next, vars, queueVars, Issue, Handle, AgentStep, PoppedStep,
         AddTaskStep, FindInQueue, PushEntry, ReloadAfterPush, SetExecutionQueue,
         SweepStep, Sweep, SweepDone,
         RemoveTaskStep, LocateEntry, PullEntries, ReloadAfterPull,
         RemovedLoopStep, LoadRemoved, RevertRemoved, RemovedDone,
         QueueStep, ReadQueue, WipeQueue,
         EnqueueStep, EnqueueLoad, EnqueueChange, EnqueueRevert,
         DequeueStep, DequeueLoad, DequeueChange, ResetStep, ResetLoad, ResetChange,
         StatusStep, StopLoad, SetStatusLoad, SetStatusChange,
         PublishStep, PublishLoad, PublishMark, PublishChange, PublishUndo,
         PopEntry, ReportPop, ReadPopped, RequeuePopped, StartPopped,
         ListSilent, StopSilent, Crash
  <2>2. CASE \A q \in Queues : entries'[q] \subseteq entries[q]
    BY <2>1, <2>2 DEF GoneIsEmpty
  <2>3. CASE \E p \in Procs : PushEntry(p)
    <3>1. PICK p \in Procs : PushEntry(p)
      BY <2>3
    <3>2. \A q \in Queues \ live : entries'[q] = entries[q]
      BY <3>1 DEF PushEntry, TypeInv, TypeOK
    <3> QED  BY <2>1, <3>2 DEF GoneIsEmpty
  <2> QED  BY <2>2, <2>3, EntriesShrinkOrPush
<1> QED  BY <1>1, <1>2

(* However the enqueues of a task interleave with each other and with every *)
(* other call, once none of them is running the task is in one queue at     *)
(* most (enqueue_task: "make sure that the task is not queued in any other  *)
(* queue").                                                                 *)
THEOREM OneQueueAtMost ==
  ASSUME EnqueueOnly
  PROVE  Spec => []SettledInOneQueue
<1>1. Init => OneQueueInv
  <2> SUFFICES ASSUME Init PROVE OneQueueInv
    OBVIOUS
  <2>1. NoAddCalls /\ GoneIsEmpty /\ ExtraEntriesWillGo
    BY DEF Init, NoAddCalls, GoneIsEmpty, ExtraEntriesWillGo, Holding, NoCall
  <2> QED  BY <2>1, TypeInit DEF OneQueueInv
<1>2. OneQueueInv /\ [Next]_vars => OneQueueInv'
  BY TypeStep, NoAddStep, GoneStep, ExtraStep DEF OneQueueInv
<1>3. OneQueueInv => SettledInOneQueue
  BY DEF OneQueueInv, ExtraEntriesWillGo, SettledInOneQueue, Enqueueing, WillPull
<1> QED  BY <1>1, <1>2, <1>3, PTL DEF Spec
-----------------------------------------------------------------------------
(* A queued task is where it says, as long as one client submits it.        *)

(* The deployments the theorem is about: no two clients enqueue the same    *)
(* task; dequeue takes it from its execution.queue and names the status it  *)
(* leaves it in; what else is asked of tasks stops them, sets a status, or  *)
(* publishes unforced.  No process dies in a call, and metrics can be       *)
(* written.  The violated runs and the hazards show what the others do.     *)
LoneSubmitters ==
  /\ \A c \in Clients : \A k \in Requests[c] :
       \/ k.op = "enqueue" /\ ~k.opt
       \/ k.op = "dequeue" /\ ~k.opt /\ k.new \notin {None, "queued"}
       \/ k.op \in {"stop", "set_status"}
       \/ k.op = "publish" /\ ~k.force
  /\ \A c, d \in Clients : \A k \in Requests[c], l \in Requests[d] :
       k.op = "enqueue" /\ l.op = "enqueue" /\ k.task = l.task => c = d
  /\ Agents \intersect (Clients \union Watchdogs) = {}
  /\ Crashing = {} /\ MetricsFail = FALSE

(* The calls there are. *)
LoneCall(p, k) ==
  /\ k.op \in {"none", "enqueue", "dequeue", "stop", "set_status", "publish",
               "get_next_task", "cleanup_tasks"}
  /\ k.op = "none" <=> k.pc = "idle"
  /\ k.op = "enqueue" =>
       /\ p \in Clients /\ \E r \in Requests[p] : r.op = "enqueue" /\ r.task = k.task
       /\ ~k.opt /\ (k.pc = "sweep" => k.to \notin k.todo)
       /\ k.pc \in {"load", "cas", "find", "push", "reload", "setexec", "revert", "sweep"}
  /\ k.op = "dequeue" => ~k.opt /\ k.new \notin {None, "queued"}
  /\ k.op = "stop" /\ k.pc # "load" =>
       k.new # "queued" /\ (k.seen = "queued" => k.new = "stopped")
  /\ k.op \in {"dequeue", "stop"} =>
       /\ k.pc \in {"load", "locate", "pull", "pulled", "cas"}
       /\ k.pc \in {"locate", "pull", "pulled"} => k.seen = "queued"
       /\ k.pc = "pull" => \A e \in k.read : e.task = k.task
  /\ k.op = "set_status" => k.pc \in {"load", "cas"} /\ k.new # "queued"
  /\ k.op = "publish" =>
       /\ ~k.force /\ k.pc \in {"load", "publishing", "pubcas", "unpublish"}
       /\ k.pc # "load" => k.seen # "queued"
  /\ k.op = "get_next_task" => k.pc \in {"report", "fixread", "fixwrite"}
  /\ k.op = "cleanup_tasks" => k.pc = "stopping"

(* What an agent does with the task that it holds. *)
LoneAgent(k, h) ==
  /\ k.op \in {"none", "get_next_task", "set_status"}
  /\ k.op = "get_next_task" => h = None
  /\ k.op = "set_status" => h = k.task /\ k.new = "in_progress"

LoneCalls ==
  /\ \A p \in Procs : LoneCall(p, call[p])
  /\ \A a \in Agents : LoneAgent(call[a], held[a])
  /\ live = Queues

(* Only the submitter of a task writes its execution.queue. *)
SweptAround ==
  \A p \in Procs : call[p].pc = "sweep" => execQueue[call[p].task] = call[p].to

(* A queued task that is not where it says will not stay queued (Taken), or *)
(* an enqueue is yet to put it there, or to take the status back (Putting). *)
Takes(k, t) ==
  k.op \in {"dequeue", "stop"} /\ k.task = t /\ k.seen = "queued" /\ k.pc # "load"
Has(k, h, t) ==
  \/ k.op = "get_next_task" /\ k.task = t
  \/ h = t /\ (k.pc = "cas" => k.seen = "queued")
Taken(t) ==
  \/ \E p \in Procs : Takes(call[p], t)
  \/ \E a \in Agents : Has(call[a], held[a], t)

Pushed(k, t) == k.op = "enqueue" /\ k.task = t /\ k.pc \in {"reload", "setexec"}
Puts(k, t) ==
  \/ Pushed(k, t)
  \/ /\ k.op = "enqueue" /\ k.task = t
     /\ k.pc \in {"find", "push", "revert"} /\ k.seen # "queued"

Found(t) == execQueue[t] # None /\ Holding(execQueue[t], t)

QueuedIsFound ==
  \A t \in Tasks : status[t] = "queued" =>
    Found(t) \/ Taken(t) \/ \E p \in Procs : Puts(call[p], t)

PushIsFound ==
  \A p \in Procs, t \in Tasks : status[t] = "queued" /\ Pushed(call[p], t) =>
    Holding(call[p].to, t) \/ Taken(t)

LoneInv == TypeInv /\ LoneCalls /\ SweptAround /\ QueuedIsFound /\ PushIsFound

-----------------------------------------------------------------------------
(* What a step of p, which leaves it with the call c, has to do for the     *)
(* tasks that are queued then and that p does not take.                     *)
LeavesAlone(p, t) ==
  ~Takes(call[p], t) /\ (p \in Agents => ~Has(call[p], held[p], t))

Keeps(p, t) ==
  LET k == call[p]
      c == call'[p]
  IN
  status'[t] = "queued" /\ LeavesAlone(p, t)' =>
    /\ status[t] # "queued" => Puts(c, t) /\ ~Pushed(c, t)
    /\ status[t] = "queued" =>
         /\ LeavesAlone(p, t)
         /\ \/ k.op = "enqueue" /\ k.task = t
            \/ \A q \in Queues : Holding(q, t) => Holding(q, t)'
         /\ (Pushed(k, t) => Holding(k.to, t)) =>
              /\ Found(t) => Found(t)'
              /\ Puts(k, t) => Puts(c, t) \/ Found(t)'
              /\ Pushed(c, t) => \E e \in entries'[c.to] : e.task = t

Steps(p) ==
  /\ \A x \in Procs \ {p} : call'[x] = call[x]
  /\ \A a \in Agents \ {p} : held'[a] = held[a]
  /\ live' = live
  /\ LoneCall(p, call'[p]) /\ (p \in Agents => LoneAgent(call'[p], held'[p]))
  /\ \/ execQueue' = execQueue /\ (call'[p].pc = "sweep" =>
          call[p].pc = "sweep" /\ call'[p].task = call[p].task /\ call'[p].to = call[p].to)
     \/ SetExecutionQueue(p)
  /\ \A t \in Tasks : Keeps(p, t)

(* One client submits a task. *)
LEMMA OneEnqueuer ==
  ASSUME LoneSubmitters, NEW p, NEW x, NEW k, NEW l, LoneCall(p, k), LoneCall(x, l),
         k.op = "enqueue", l.op = "enqueue", k.task = l.task
  PROVE  p = x
BY DEF LoneSubmitters, LoneCall

LEMMA StepsKeep ==
  ASSUME LoneSubmitters, LoneInv, NEW p \in Procs, Steps(p)
  PROVE  (LoneCalls /\ QueuedIsFound /\ PushIsFound)'
<1>1. LoneCalls'
  BY DEF LoneInv, LoneCalls, Steps, Procs
<1>2. SUFFICES ASSUME NEW t \in Tasks, status'[t] = "queued", ~Taken(t)'
               PROVE  /\ Found(t)' \/ \E x \in Procs : Puts(call[x], t)'
                      /\ \A x \in Procs : Pushed(call[x], t)' => Holding(call[x].to, t)'
  BY <1>1 DEF QueuedIsFound, PushIsFound
<1>3. LeavesAlone(p, t)'
  BY <1>2 DEF Taken, LeavesAlone
<1>4. Keeps(p, t)
  BY DEF Steps
<1>5. CASE status[t] # "queued"
  <2>1. Puts(call'[p], t) /\ ~Pushed(call'[p], t)
    BY <1>2, <1>3, <1>4, <1>5 DEF Keeps
  <2>2. ASSUME NEW x \in Procs, Pushed(call'[x], t) PROVE FALSE
    <3>1. p = x
      BY <1>1, <2>1, <2>2, OneEnqueuer DEF LoneCalls, Puts, Pushed
    <3> QED BY <2>1, <2>2, <3>1
  <2> QED BY <2>1, <2>2
<1>6. CASE status[t] = "queued"
  <2>1. LeavesAlone(p, t)
    BY <1>2, <1>3, <1>4, <1>6 DEF Keeps
  <2>2. ~Taken(t)
    BY <1>2, <2>1 DEF Taken, LeavesAlone, Steps, Procs
  <2>3. \A x \in Procs : Pushed(call[x], t) => Holding(call[x].to, t)
    BY <1>6, <2>2 DEF LoneInv, PushIsFound
  <2>4. /\ Found(t) => Found(t)'
        /\ Puts(call[p], t) => Puts(call'[p], t) \/ Found(t)'
        /\ Pushed(call'[p], t) => \E e \in entries'[call'[p].to] : e.task = t
    BY <1>2, <1>3, <1>4, <1>6, <2>3 DEF Keeps
  <2>5. Found(t)' \/ \E x \in Procs : Puts(call[x], t)'
    <3>1. Found(t) \/ \E x \in Procs : Puts(call[x], t)
      BY <1>6, <2>2 DEF LoneInv, QueuedIsFound
    <3> QED BY <2>4, <3>1 DEF Steps
  <2>6. ASSUME NEW x \in Procs, Pushed(call[x], t)' PROVE Holding(call[x].to, t)'
    <3>1. CASE x = p
      BY <2>4, <2>6, <3>1 DEF Holding
    <3>2. CASE x # p
      <4>1. call'[x] = call[x]
        BY <3>2 DEF Steps
      <4>2. ~(call[p].op = "enqueue" /\ call[p].task = t)
        BY <2>6, <3>2, <4>1, OneEnqueuer DEF LoneInv, LoneCalls, Pushed
      <4>3. call[x].to \in Queues
        BY <2>6, <4>1 DEF LoneInv, TypeInv, CallsOK, CallOK, Pushed
      <4>4. \A q \in Queues : Holding(q, t) => Holding(q, t)'
        BY <1>2, <1>3, <1>4, <1>6, <4>2 DEF Keeps
      <4>5. Holding(call[x].to, t)
        BY <2>3, <2>6, <4>1
      <4>6. call[x].to = call'[x].to
        BY <4>1
      <4> QED BY <4>3, <4>4, <4>5, <4>6 DEF Holding
    <3> QED BY <3>1, <3>2
  <2> QED BY <2>5, <2>6
<1> QED BY <1>5, <1>6

(* A step of p that leaves the queues alone. *)
Writes(p, c) ==
  LET k == call[p] IN
  /\ Set(p, c) /\ execQueue' = execQueue /\ entries' = entries /\ live' = live
  /\ \A a \in Agents \ {p} : held'[a] = held[a]
  /\ LoneCall(p, c) /\ (p \in Agents => LoneAgent(c, held'[p]))
  /\ c.pc # "sweep"
  /\ \A t \in Tasks :
       status'[t] = "queued" /\ ~Takes(c, t) /\ (p \in Agents => ~Has(c, held'[p], t)) =>
         IF status[t] = "queued"
         THEN /\ LeavesAlone(p, t) /\ (Puts(k, t) => Puts(c, t))
              /\ Pushed(c, t) => Pushed(k, t) /\ c.to = k.to
         ELSE Puts(c, t) /\ ~Pushed(c, t)

(* A step that only moves p from one operation to the next. *)
Moves(p, c) ==
  LET k == call[p] IN
  /\ Set(p, c) /\ status' = status /\ execQueue' = execQueue
  /\ entries' = entries /\ live' = live /\ held' = held
  /\ LoneCall(p, c) /\ (p \in Agents => LoneAgent(c, held[p]))
  /\ c.pc # "sweep"
  /\ \A t \in Tasks : status[t] = "queued" =>
       /\ Takes(k, t) => Takes(c, t)
       /\ p \in Agents /\ Has(k, held[p], t) => Has(c, held[p], t)
       /\ Puts(k, t) => Puts(c, t)
       /\ Pushed(c, t) => Pushed(k, t) /\ c.to = k.to

LEMMA SetIs ==
  ASSUME TypeInv, NEW p \in Procs, NEW c, Set(p, c)
  PROVE  call'[p] = c /\ \A x \in Procs \ {p} : call'[x] = call[x]
BY DEF TypeInv, TypeOK, Set

LEMMA WritesSteps ==
  ASSUME TypeInv, NEW p \in Procs, NEW c, Writes(p, c)
  PROVE  Steps(p)
<1>1. call'[p] = c /\ \A x \in Procs \ {p} : call'[x] = call[x]
  BY SetIs DEF Writes
<1>2. ASSUME NEW t \in Tasks PROVE Keeps(p, t)
  <2> SUFFICES ASSUME status'[t] = "queued", LeavesAlone(p, t)'
               PROVE  /\ status[t] # "queued" => Puts(c, t) /\ ~Pushed(c, t)
                      /\ status[t] = "queued" =>
                           /\ LeavesAlone(p, t)
                           /\ \A q \in Queues : Holding(q, t) => Holding(q, t)'
                           /\ (Pushed(call[p], t) => Holding(call[p].to, t)) =>
                                /\ Found(t) => Found(t)'
                                /\ Puts(call[p], t) => Puts(c, t) \/ Found(t)'
                                /\ Pushed(c, t) => \E e \in entries'[c.to] : e.task = t
    BY <1>1 DEF Keeps
  <2>1. ~Takes(c, t) /\ (p \in Agents => ~Has(c, held'[p], t))
    BY <1>1 DEF LeavesAlone
  <2>2. \A q : Holding(q, t)' <=> Holding(q, t)
    BY DEF Holding, Writes
  <2>3. Found(t) => Found(t)'
    BY <2>2 DEF Found, Writes, Holding
  <2> QED BY <2>1, <2>2, <2>3 DEF Writes, Holding
<1> QED BY <1>1, <1>2 DEF Steps, Writes

LEMMA MovesSteps ==
  ASSUME TypeInv, NEW p \in Procs, NEW c, Moves(p, c)
  PROVE  Steps(p)
<1>1. Writes(p, c)
  BY DEF Moves, Writes, LeavesAlone
<1> QED BY <1>1, WritesSteps

(* The requests of the clients. *)
LEMMA LoneRequests ==
  ASSUME LoneSubmitters, NEW p \in Clients, NEW r \in Requests[p]
  PROVE  r \in Call /\ r.pc = "load" /\ LoneCall(p, r)
<1>1. r \in AllRequests
  BY Assumptions
<1>2. r \in Call
  BY <1>1, RequestOK
<1>3. r.op \in {"enqueue", "dequeue", "stop", "set_status", "publish"}
  BY DEF LoneSubmitters
<1>4. r.pc = "load" /\ (r.op = "set_status" => r.new # "queued")
  <2>1. \A t, q, x, force : LET e == EnqueueCall(t, q, x, force)
                           IN  e.pc = "load" /\ e.op = "enqueue"
    BY DEF EnqueueCall, NoCall
  <2>2. \A t, x, new : LET d == DequeueCall(t, x, new)
                      IN  d.pc = "load" /\ d.op = "dequeue"
    BY DEF DequeueCall, NoCall
  <2>3. \A t, new, force : LET s == SetStatusCall(t, new, force)
                          IN  s.pc = "load" /\ s.new = new
    BY DEF SetStatusCall, NoCall
  <2>4. \A op, t, force : LET s == TaskCall(op, t, force)
                         IN  s.pc = "load" /\ s.op = op
    BY DEF TaskCall, NoCall
  <2>5. /\ \A t, q, x : AddCall(t, q, x).op = "add_task" /\ RemoveCall(t, q, x).op = "remove_task"
        /\ \A t, q, s, x : MoveCall(t, q, s, x).op = "move_task"
        /\ \A op, q, x : QueueCall(op, q, x).op = op
    BY DEF AddCall, RemoveCall, MoveCall, QueueCall, NoCall
  <2>6. CASE r \in EnqueueRequests \union DequeueRequests
    BY <2>1, <2>2, <2>6 DEF EnqueueRequests, DequeueRequests
  <2>7. CASE r \in SetStatusRequests
    BY <2>3, <2>7 DEF SetStatusRequests
  <2>8. CASE r \in TaskRequests
    BY <2>4, <2>8 DEF TaskRequests
  <2>9. CASE r \in AddRequests \union RemoveRequests \union MoveRequests \union QueueRequests
    BY <1>3, <2>5, <2>9 DEF AddRequests, RemoveRequests, MoveRequests, QueueRequests
  <2> QED BY <1>1, <2>6, <2>7, <2>8, <2>9 DEF AllRequests
<1>5. LoneCall(p, r)
  BY <1>3, <1>4 DEF LoneCall, LoneSubmitters
<1> QED BY <1>2, <1>4, <1>5

LEMMA NoCallIs ==
  /\ NoCall.op = "none" /\ NoCall.pc = "idle"
  /\ \A p : LoneCall(p, NoCall)
  /\ \A h : LoneAgent(NoCall, h)
  /\ \A t : ~Takes(NoCall, t) /\ ~Puts(NoCall, t) /\ ~Pushed(NoCall, t)
BY DEF NoCall, LoneCall, LoneAgent, Takes, Puts, Pushed

LEMMA IssueSteps ==
  ASSUME LoneSubmitters, LoneInv, NEW p \in Clients, Issue(p)
  PROVE  Steps(p)
<1>1. PICK r \in Requests[p] : Set(p, r)
  BY DEF Issue
<1>2. r \in Call /\ r.pc = "load" /\ LoneCall(p, r)
  BY LoneRequests
<1>3. p \in Procs /\ p \notin Agents /\ call[p].op = "none"
  BY DEF Procs, LoneSubmitters, Issue, LoneInv, LoneCalls, LoneCall
<1>4. Moves(p, r)
  BY <1>1, <1>2, <1>3 DEF Moves, Issue, taskVars, queueVars, Takes, Puts, Pushed
<1> QED BY <1>3, <1>4, MovesSteps DEF LoneInv

-----------------------------------------------------------------------------
(* The enqueue.                                                             *)
LEMMA EnqueueLoadSteps ==
  ASSUME LoneInv, NEW p \in Procs, EnqueueLoad(p)
  PROVE  Steps(p)
<1> DEFINE k == call[p]
           c == Snapshot([k EXCEPT !.pc = "cas"])
<1>1. /\ k \in Call /\ k.op = "enqueue" /\ k.pc = "load" /\ LoneCall(p, k) /\ TypeInv
      /\ p \in Agents => LoneAgent(k, held[p])
  BY DEF LoneInv, TypeInv, TypeOK, LoneCalls, EnqueueLoad, At
<1>2. CASE Set(p, c)
  <2>1. /\ c.op = "enqueue" /\ c.pc = "cas" /\ c.task = k.task /\ c.opt = k.opt
    BY <1>1 DEF Snapshot, Call
  <2> HIDE DEF c
  <2>2. Moves(p, c)
    BY <1>1, <1>2, <2>1 DEF Moves, EnqueueLoad, taskVars, queueVars, Takes, Puts, Pushed,
       LoneCall, LoneAgent
  <2> QED BY <1>1, <2>2, MovesSteps
<1>3. CASE Set(p, NoCall)
  <2>1. Moves(p, NoCall)
    BY <1>1, <1>3, NoCallIs DEF Moves, EnqueueLoad, taskVars, queueVars, Takes, Puts, Pushed,
       LoneAgent
  <2> QED BY <1>1, <2>1, MovesSteps
<1> QED BY <1>2, <1>3 DEF EnqueueLoad, Return

LEMMA FindSteps ==
  ASSUME LoneInv, NEW p \in Procs, FindInQueue(p)
  PROVE  Steps(p)
<1> DEFINE k == call[p]
           c(l) == [k EXCEPT !.pc = l]
<1>1. /\ k \in Call /\ k.op = "enqueue" /\ k.pc = "find" /\ LoneCall(p, k) /\ TypeInv
      /\ p \in Agents => LoneAgent(k, held[p])
  BY DEF LoneInv, TypeInv, TypeOK, LoneCalls, LoneCall, FindInQueue, At
<1>2. PICK l \in {"push", "revert"} : Set(p, c(l))
  BY <1>1 DEF FindInQueue, AddFailed, Goto
<1>3. /\ c(l).op = "enqueue" /\ c(l).pc = l /\ c(l).task = k.task /\ c(l).opt = k.opt
      /\ c(l).seen = k.seen
  BY <1>1 DEF Call
<1> HIDE DEF c
<1>4. Moves(p, c(l))
  BY <1>1, <1>2, <1>3 DEF Moves, FindInQueue, taskVars, queueVars, Takes, Puts, Pushed,
     LoneCall, LoneAgent
<1> QED BY <1>1, <1>4, MovesSteps

LEMMA ReloadSteps ==
  ASSUME LoneSubmitters, LoneInv, NEW p \in Procs, ReloadAfterPush(p)
  PROVE  Steps(p)
<1> DEFINE k == call[p]
           c == [k EXCEPT !.pc = "setexec"]
<1>1. /\ k \in Call /\ k.op = "enqueue" /\ k.pc = "reload" /\ LoneCall(p, k) /\ TypeInv
      /\ p \in Agents => LoneAgent(k, held[p])
  BY DEF LoneInv, TypeInv, TypeOK, LoneCalls, LoneCall, ReloadAfterPush, At
<1>2. k.to \in live /\ ~k.opt
  BY <1>1 DEF LoneInv, LoneCalls, LoneCall, TypeInv, CallsOK, CallOK
<1>3. Set(p, c)
  BY <1>1, <1>2 DEF ReloadAfterPush, AddSucceeded, Goto, LoneSubmitters
<1>4. /\ c.op = "enqueue" /\ c.pc = "setexec" /\ c.task = k.task /\ c.opt = k.opt
      /\ c.to = k.to
  BY <1>1 DEF Call
<1> HIDE DEF c
<1>5. Moves(p, c)
  BY <1>1, <1>3, <1>4 DEF Moves, ReloadAfterPush, taskVars, queueVars, Takes, Puts, Pushed,
     LoneCall, LoneAgent
<1> QED BY <1>1, <1>5, MovesSteps

LEMMA ChangeIs ==
  ASSUME TypeInv, NEW k, k.task \in Tasks, NEW new, NEW enq,
         ChangeStatus(k, new, enq, execQueue[k.task])
  PROVE  /\ execQueue' = execQueue
         /\ \A t \in Tasks : status'[t] = IF t = k.task THEN new ELSE status[t]
BY DEF ChangeStatus, TypeInv, TypeOK

LEMMA EnqueueChangeSteps ==
  ASSUME LoneInv, NEW p \in Procs, EnqueueChange(p)
  PROVE  Steps(p)
<1> DEFINE k == call[p]
           c == [k EXCEPT !.pc = "find"]
<1>1. /\ k \in Call /\ k.op = "enqueue" /\ k.pc = "cas" /\ LoneCall(p, k) /\ TypeInv
      /\ p \in Agents => LoneAgent(k, held[p])
      /\ k.task \in Tasks
  BY DEF LoneInv, TypeInv, TypeOK, CallsOK, CallOK, LoneCalls, EnqueueChange, At
<1>2. CASE /\ Set(p, c) /\ status[k.task] = k.seen
           /\ \E enq : ChangeStatus(k, "queued", enq, execQueue[k.task])
  <2>1. /\ c.op = "enqueue" /\ c.pc = "find" /\ c.task = k.task /\ c.opt = k.opt
        /\ c.seen = k.seen
    BY <1>1 DEF Call
  <2> HIDE DEF c
  <2>2. /\ execQueue' = execQueue
        /\ \A t \in Tasks : status'[t] = IF t = k.task THEN "queued" ELSE status[t]
    BY <1>1, <1>2, ChangeIs
  <2>3. Writes(p, c)
    BY <1>1, <1>2, <2>1, <2>2 DEF Writes, EnqueueChange, queueVars, Takes, Puts, Pushed,
       LoneCall, LoneAgent, LeavesAlone, Has
  <2> QED BY <1>1, <2>3, WritesSteps
<1>3. CASE Set(p, NoCall) /\ UNCHANGED taskVars
  <2>1. Moves(p, NoCall)
    BY <1>1, <1>3, NoCallIs DEF Moves, EnqueueChange, taskVars, queueVars, Takes, Puts, Pushed,
       LoneAgent
  <2> QED BY <1>1, <2>1, MovesSteps
<1>4. CASE CanChange(k, k.force, "queued")
  BY <1>2, <1>4 DEF EnqueueChange, Goto, CanChange
<1> QED BY <1>3, <1>4 DEF EnqueueChange, Return

LEMMA RevertSteps ==
  ASSUME LoneInv, NEW p \in Procs, EnqueueRevert(p)
  PROVE  Steps(p)
<1> DEFINE k == call[p]
<1>1. /\ k \in Call /\ k.op = "enqueue" /\ k.pc = "revert" /\ LoneCall(p, k) /\ TypeInv
      /\ p \in Agents => LoneAgent(k, held[p])
      /\ k.task \in Tasks /\ Set(p, NoCall)
  BY DEF LoneInv, TypeInv, TypeOK, CallsOK, CallOK, LoneCalls, LoneCall, EnqueueRevert, At, Return
<1>2. /\ execQueue' = execQueue
      /\ \A t \in Tasks : status'[t] = IF t = k.task /\ status[t] = "queued" THEN k.seen
                                                                              ELSE status[t]
  <2>1. CASE status[k.task] = "queued"
    BY <1>1, <2>1, ChangeIs DEF EnqueueRevert
  <2>2. CASE status[k.task] # "queued"
    BY <2>2 DEF EnqueueRevert, taskVars
  <2> QED BY <2>1, <2>2
<1>3. Writes(p, NoCall)
  BY <1>1, <1>2, NoCallIs DEF Writes, EnqueueRevert, queueVars, Takes, Puts, Pushed,
     LoneAgent, LeavesAlone, Has
<1> QED BY <1>1, <1>3, WritesSteps

LEMMA SetExecSteps ==
  ASSUME LoneInv, NEW p \in Procs, SetExecutionQueue(p)
  PROVE  Steps(p)
<1> DEFINE k == call[p]
           c == [k EXCEPT !.pc = "sweep", !.todo = Queues \ {k.to}]
<1>1. /\ k \in Call /\ k.op = "enqueue" /\ k.pc = "setexec" /\ LoneCall(p, k) /\ TypeInv
      /\ p \in Agents => LoneAgent(k, held[p])
      /\ k.task \in Tasks /\ k.to \in Queues
  BY DEF LoneInv, TypeInv, TypeOK, CallsOK, CallOK, LoneCalls, LoneCall, SetExecutionQueue, At
<1>2. Set(p, c) /\ execQueue' = [execQueue EXCEPT ![k.task] = k.to]
  BY <1>1 DEF SetExecutionQueue
<1>3. /\ c.op = "enqueue" /\ c.pc = "sweep" /\ c.task = k.task /\ c.opt = k.opt
      /\ c.to = k.to /\ c.to \notin c.todo
  BY <1>1 DEF Call
<1> HIDE DEF c
<1>4. call'[p] = c /\ \A x \in Procs \ {p} : call'[x] = call[x]
  BY <1>1, <1>2, SetIs
<1>5. LoneCall(p, c) /\ (p \in Agents => LoneAgent(c, held'[p]))
  BY <1>1, <1>3 DEF LoneCall, LoneAgent
<1>6. ASSUME NEW t \in Tasks PROVE Keeps(p, t)
  <2> SUFFICES ASSUME status'[t] = "queued", LeavesAlone(p, t)'
               PROVE  /\ status[t] = "queued"
                      /\ LeavesAlone(p, t)
                      /\ \A q \in Queues : Holding(q, t) => Holding(q, t)'
                      /\ (Pushed(k, t) => Holding(k.to, t)) =>
                           /\ Found(t) => Found(t)'
                           /\ Puts(k, t) => Found(t)'
                           /\ ~Pushed(c, t)
    BY <1>4 DEF Keeps
  <2>1. status[t] = "queued" /\ entries' = entries /\ held' = held
    BY DEF SetExecutionQueue, queueVars
  <2>2. LeavesAlone(p, t)
    BY <1>1, <1>3, <1>4, <2>1 DEF LeavesAlone, Takes, Has
  <2>3. ~Pushed(c, t)
    BY <1>3 DEF Pushed
  <2>4. execQueue'[t] = IF t = k.task THEN k.to ELSE execQueue[t]
    BY <1>1, <1>2 DEF TypeInv, TypeOK
  <2>5. None \notin Queues
    BY Assumptions
  <2>6. CASE t = k.task
    <3>1. Pushed(k, t)
      BY <1>1, <2>6 DEF Pushed
    <3>2. Holding(k.to, t) => Found(t)'
      BY <1>1, <2>1, <2>4, <2>5, <2>6 DEF Found, Holding
    <3> QED BY <2>1, <2>2, <2>3, <3>1, <3>2 DEF Holding
  <2>7. CASE t # k.task
    <3>1. ~Puts(k, t)
      BY <2>7 DEF Puts, Pushed
    <3>2. Found(t) => Found(t)'
      BY <2>1, <2>4, <2>7 DEF Found, Holding
    <3> QED BY <2>1, <2>2, <2>3, <3>1, <3>2 DEF Holding
  <2> QED BY <2>6, <2>7
<1> QED BY <1>4, <1>5, <1>6 DEF Steps, SetExecutionQueue, queueVars

LEMMA PushSteps ==
  ASSUME LoneInv, NEW p \in Procs, PushEntry(p)
  PROVE  Steps(p)
<1> DEFINE k == call[p]
           c(l) == [k EXCEPT !.pc = l]
           e == [task |-> k.task, added |-> now]
<1>1. /\ k \in Call /\ k.op = "enqueue" /\ k.pc = "push" /\ LoneCall(p, k) /\ TypeInv
      /\ p \in Agents => LoneAgent(k, held[p])
      /\ k.task \in Tasks /\ k.to \in Queues
  BY DEF LoneInv, TypeInv, TypeOK, CallsOK, CallOK, LoneCalls, LoneCall, PushEntry, At
<1>2. ASSUME NEW l
      PROVE  /\ c(l).op = "enqueue" /\ c(l).pc = l /\ c(l).task = k.task /\ c(l).opt = k.opt
             /\ c(l).to = k.to /\ c(l).seen = k.seen
  BY <1>1 DEF Call
<1>3. CASE Set(p, c("revert")) /\ entries' = entries
  <2> HIDE DEF c
  <2>1. Moves(p, c("revert"))
    BY <1>1, <1>2, <1>3 DEF Moves, PushEntry, taskVars, Takes, Puts, Pushed, LoneCall, LoneAgent
  <2> QED BY <1>1, <2>1, MovesSteps
<1>4. CASE Set(p, c("reload")) /\ entries' = [entries EXCEPT ![k.to] = @ \union {e}]
  <2> DEFINE d == c("reload")
  <2> HIDE DEF c
  <2>1. call'[p] = d /\ \A x \in Procs \ {p} : call'[x] = call[x]
    BY <1>1, <1>4, SetIs
  <2>2. LoneCall(p, d) /\ (p \in Agents => LoneAgent(d, held'[p]))
    BY <1>1, <1>2 DEF LoneCall, LoneAgent
  <2>3. /\ \A q \in Queues : entries[q] \subseteq entries'[q]
        /\ e \in entries'[k.to] /\ e.task = k.task
    BY <1>1, <1>4 DEF TypeInv, TypeOK
  <2>4. status' = status /\ execQueue' = execQueue /\ held' = held /\ live' = live
    BY DEF PushEntry, taskVars
  <2>5. ASSUME NEW t \in Tasks PROVE Keeps(p, t)
    <3> SUFFICES ASSUME status'[t] = "queued", LeavesAlone(p, t)'
                 PROVE  /\ LeavesAlone(p, t)
                        /\ \A q \in Queues : Holding(q, t) => Holding(q, t)'
                        /\ Found(t) => Found(t)'
                        /\ Puts(k, t) => Puts(d, t)
                        /\ Pushed(d, t) => \E x \in entries'[d.to] : x.task = t
      BY <2>1, <2>4 DEF Keeps
    <3>1. LeavesAlone(p, t)
      BY <1>1, <1>2, <2>1, <2>4 DEF LeavesAlone, Takes, Has
    <3>2. \A q \in Queues : Holding(q, t) => Holding(q, t)'
      BY <2>3 DEF Holding
    <3>3. execQueue[t] \in Queues \union {None}
      BY <1>1 DEF TypeInv, TypeOK
    <3>4. Found(t) => Found(t)'
      BY <2>4, <3>2, <3>3 DEF Found, Holding
    <3>5. Puts(k, t) => Puts(d, t)
      BY <1>1, <1>2 DEF Puts, Pushed
    <3>6. Pushed(d, t) => \E x \in entries'[d.to] : x.task = t
      BY <1>2, <2>3 DEF Pushed
    <3> QED BY <3>1, <3>2, <3>4, <3>5, <3>6
  <2>6. d.pc # "sweep"
    BY <1>2
  <2> QED BY <2>1, <2>2, <2>4, <2>5, <2>6 DEF Steps
<1> QED BY <1>1, <1>3, <1>4 DEF PushEntry, AddFailed, Goto

LEMMA SweepSteps ==
  ASSUME LoneInv, NEW p \in Procs, Sweep(p)
  PROVE  Steps(p)
<1> DEFINE k == call[p]
           c(q) == [k EXCEPT !.todo = @ \ {q}]
<1>1. /\ k \in Call /\ k.op = "enqueue" /\ k.pc = "sweep" /\ LoneCall(p, k) /\ TypeInv
      /\ p \in Agents => LoneAgent(k, held[p])
      /\ k.task \in Tasks /\ k.to \in Queues /\ execQueue[k.task] = k.to /\ k.to \notin k.todo
  BY DEF LoneInv, TypeInv, TypeOK, CallsOK, CallOK, LoneCalls, LoneCall, SweptAround, Sweep, At
<1>2. PICK q \in k.todo : /\ entries' = [entries EXCEPT ![q] = {e \in @ : e.task # k.task}]
                          /\ Set(p, c(q))
  BY DEF Sweep
<1> DEFINE d == c(q)
<1>3. /\ d.op = "enqueue" /\ d.pc = "sweep" /\ d.task = k.task /\ d.opt = k.opt
      /\ d.to = k.to /\ d.todo = k.todo \ {q} /\ d.seen = k.seen
  BY <1>1 DEF Call
<1> HIDE DEF c
<1>4. call'[p] = d /\ \A x \in Procs \ {p} : call'[x] = call[x]
  BY <1>1, <1>2, SetIs
<1>5. LoneCall(p, d) /\ (p \in Agents => LoneAgent(d, held'[p]))
  BY <1>1, <1>3 DEF LoneCall, LoneAgent
<1>6. status' = status /\ execQueue' = execQueue /\ held' = held /\ live' = live
  BY DEF Sweep, taskVars
<1>7. \A r \in Queues : entries'[r] = IF r = q THEN {e \in entries[q] : e.task # k.task}
                                              ELSE entries[r]
  BY <1>1, <1>2 DEF TypeInv, TypeOK
<1>8. ASSUME NEW t \in Tasks PROVE Keeps(p, t)
  <2> SUFFICES ASSUME status'[t] = "queued", LeavesAlone(p, t)'
               PROVE  /\ LeavesAlone(p, t)
                      /\ \/ k.op = "enqueue" /\ k.task = t
                         \/ \A r \in Queues : Holding(r, t) => Holding(r, t)'
                      /\ Found(t) => Found(t)'
                      /\ ~Puts(k, t) /\ ~Pushed(d, t)
    BY <1>4, <1>6 DEF Keeps
  <2>1. LeavesAlone(p, t)
    BY <1>1, <1>3, <1>4, <1>6 DEF LeavesAlone, Takes, Has
  <2>2. \A r \in Queues : Holding(r, t) /\ (t # k.task \/ r # q) => Holding(r, t)'
    BY <1>7 DEF Holding
  <2>3. Found(t) => Found(t)'
    <3>1. execQueue[t] \in Queues \union {None} /\ q # k.to
      BY <1>1 DEF TypeInv, TypeOK
    <3> QED BY <1>1, <1>6, <2>2, <3>1 DEF Found, Holding
  <2>4. ~Puts(k, t) /\ ~Pushed(d, t)
    BY <1>1, <1>3 DEF Puts, Pushed
  <2> QED BY <1>1, <2>1, <2>2, <2>3, <2>4
<1> QED BY <1>1, <1>3, <1>4, <1>5, <1>6, <1>8 DEF Steps

LEMMA SweepDoneSteps ==
  ASSUME LoneInv, NEW p \in Procs, SweepDone(p)
  PROVE  Steps(p)
<1>1. /\ call[p].op = "enqueue" /\ call[p].pc = "sweep" /\ TypeInv
      /\ p \in Agents => LoneAgent(call[p], held[p])
  BY DEF LoneInv, LoneCalls, LoneCall, SweepDone, At
<1>2. Moves(p, NoCall)
  BY <1>1, NoCallIs DEF Moves, SweepDone, Return, taskVars, queueVars, Takes, Puts, Pushed,
     LoneAgent
<1> QED BY <1>1, <1>2, MovesSteps

-----------------------------------------------------------------------------
(* Dequeue and stop.                                                        *)

(* After the dequeue: the call is over, or about to change the status.      *)
LEMMA AfterDequeueMoves ==
  ASSUME LoneInv, NEW p \in Procs, call[p].op \in {"dequeue", "stop"}, NEW k \in Call,
         k.op = call[p].op, k.task = call[p].task, ~k.opt \/ k.op # "dequeue",
         k.new = call[p].new \/ k.op = "stop",
         k.op = "stop" => k.new # "queued" /\ (k.seen = "queued" => k.new = "stopped"),
         call[p].pc = "load" \/ k.seen = call[p].seen,
         AfterDequeue(p, k),
         status' = status, execQueue' = execQueue, entries' = entries, live' = live, held' = held
  PROVE  Steps(p)
<1> DEFINE c == [k EXCEPT !.pc = "cas"]
<1>1. /\ c.op = k.op /\ c.pc = "cas" /\ c.task = k.task /\ c.opt = k.opt
      /\ c.new = k.new /\ c.seen = k.seen
  BY DEF Call
<1>2. LoneCall(p, call[p]) /\ TypeInv /\ (p \in Agents => LoneAgent(call[p], held[p]))
  BY DEF LoneInv, LoneCalls
<1> HIDE DEF c
<1>3. CASE Set(p, c)
  <2>1. Moves(p, c)
    BY <1>1, <1>2, <1>3 DEF Moves, Takes, Puts, Pushed, LoneCall, LoneAgent
  <2> QED BY <1>2, <2>1, MovesSteps
<1>4. CASE Set(p, NoCall) /\ k.op = "dequeue" /\ k.seen # "queued"
  <2>1. Moves(p, NoCall)
    BY <1>2, <1>4, NoCallIs DEF Moves, Takes, Puts, Pushed, LoneAgent
  <2> QED BY <1>2, <2>1, MovesSteps
<1> QED BY <1>3, <1>4 DEF AfterDequeue, Return, c

LEMMA LoadAndDequeueMoves ==
  ASSUME LoneInv, NEW p \in Procs, call[p].op \in {"dequeue", "stop"}, call[p].pc = "load",
         NEW k \in Call, k.op = call[p].op, k.task = call[p].task, k.opt = call[p].opt,
         k.new = call[p].new \/ (k.op = "stop" /\ k.new = "stopped"),
         k.op = "stop" => status[k.task] = "queued" /\ k.new = "stopped",
         LoadAndDequeue(p, k),
         status' = status, execQueue' = execQueue, entries' = entries, live' = live, held' = held
  PROVE  Steps(p)
<1> DEFINE s == Snapshot(k)
           c == [s EXCEPT !.pc = "locate", !.queue = execQueue[k.task]]
<1>1. /\ LoneCall(p, call[p]) /\ TypeInv /\ (p \in Agents => LoneAgent(call[p], held[p]))
      /\ call[p].task \in Tasks
  BY DEF LoneInv, LoneCalls, TypeInv, CallsOK, CallOK
<1>2. /\ s \in Call /\ s.op = k.op /\ s.task = k.task /\ s.opt = k.opt /\ s.new = k.new
      /\ s.seen = status[k.task]
  <2>1. s \in Call
    BY <1>1, SnapshotOK DEF TypeInv
  <2> QED BY <2>1 DEF Snapshot, Call
<1>3. /\ c.op = k.op /\ c.pc = "locate" /\ c.task = k.task /\ c.opt = k.opt
      /\ c.new = k.new /\ c.seen = status[k.task]
  BY <1>2 DEF Call
<1> HIDE DEF c, s
<1>4. CASE Set(p, c) /\ status[k.task] = "queued"
  <2>1. Moves(p, c)
    BY <1>1, <1>3, <1>4 DEF Moves, Takes, Puts, Pushed, LoneCall, LoneAgent
  <2> QED BY <1>1, <2>1, MovesSteps
<1>5. CASE AfterDequeue(p, s)
  BY <1>1, <1>2, <1>5, AfterDequeueMoves DEF LoneCall
<1> QED BY <1>4, <1>5 DEF LoadAndDequeue, c, s

LEMMA DequeueLoadSteps ==
  ASSUME LoneInv, NEW p \in Procs, DequeueLoad(p)
  PROVE  Steps(p)
<1>1. /\ call[p] \in Call /\ call[p].op = "dequeue" /\ call[p].pc = "load"
      /\ LoadAndDequeue(p, call[p])
      /\ status' = status /\ execQueue' = execQueue /\ entries' = entries /\ live' = live
      /\ held' = held
  BY DEF LoneInv, TypeInv, TypeOK, LoneCalls, LoneCall, DequeueLoad, At, taskVars, queueVars
<1> QED BY <1>1, LoadAndDequeueMoves

LEMMA StopLoadSteps ==
  ASSUME LoneInv, NEW p \in Procs, StopLoad(p)
  PROVE  Steps(p)
<1> DEFINE k == call[p]
           c(new) == [k EXCEPT !.new = new]
<1>1. /\ k \in Call /\ k.op = "stop" /\ k.pc = "load" /\ TypeInv /\ k.task \in Tasks
      /\ status' = status /\ execQueue' = execQueue /\ entries' = entries /\ live' = live
      /\ held' = held /\ status[k.task] \in Status
  BY DEF LoneInv, TypeInv, TypeOK, CallsOK, CallOK, StopLoad, At, taskVars, queueVars
<1>2. ASSUME NEW new \in Status
      PROVE  /\ c(new) \in Call /\ c(new).op = "stop" /\ c(new).task = k.task
             /\ c(new).opt = k.opt /\ c(new).new = new
  BY <1>1 DEF Call
<1>3. "stopped" \in Status
  BY DEF Status
<1> HIDE DEF c
<1>4. CASE status[k.task] = "queued"
  BY <1>1, <1>2, <1>3, <1>4, LoadAndDequeueMoves DEF StopLoad, c
<1>5. CASE status[k.task] # "queued"
  <2>1. PICK new \in {"stopped", status[k.task]} : AfterDequeue(p, Snapshot(c(new)))
    BY <1>5 DEF StopLoad, c
  <2> DEFINE s == Snapshot(c(new))
  <2>2. /\ s \in Call /\ s.op = "stop" /\ s.task = k.task /\ s.new = new
        /\ s.seen = status[k.task]
    <3>1. new \in Status
      BY <1>1, <1>3
    <3>2. s \in Call
      BY <1>1, <1>2, <3>1, SnapshotOK DEF TypeInv
    <3> QED BY <1>2, <3>1, <3>2 DEF Snapshot, Call
  <2> HIDE DEF s
  <2> QED BY <1>1, <1>5, <2>1, <2>2, AfterDequeueMoves DEF s
<1> QED BY <1>4, <1>5

LEMMA LocateSteps ==
  ASSUME LoneInv, NEW p \in Procs, LocateEntry(p)
  PROVE  Steps(p)
<1> DEFINE k == call[p]
           c(found) == [k EXCEPT !.pc = "pull", !.read = found]
<1>1. /\ k \in Call /\ k.op \in {"dequeue", "stop"} /\ k.pc = "locate" /\ LoneCall(p, k) /\ TypeInv
      /\ p \in Agents => LoneAgent(k, held[p])
      /\ status' = status /\ execQueue' = execQueue /\ entries' = entries /\ live' = live
      /\ held' = held
  BY DEF LoneInv, TypeInv, TypeOK, LoneCalls, LoneCall, LocateEntry, At, taskVars, queueVars
<1>2. ASSUME NEW found, \A e \in found : e.task = k.task, Set(p, c(found)) PROVE Steps(p)
  <2>1. /\ c(found).op = k.op /\ c(found).pc = "pull" /\ c(found).task = k.task
        /\ c(found).opt = k.opt /\ c(found).new = k.new /\ c(found).seen = k.seen
        /\ c(found).read = found
    BY <1>1 DEF Call
  <2> HIDE DEF c
  <2>2. Moves(p, c(found))
    BY <1>1, <1>2, <2>1 DEF Moves, Takes, Puts, Pushed, LoneCall, LoneAgent
  <2> QED BY <1>1, <2>2, MovesSteps
<1>3. CASE AfterDequeue(p, k)
  BY <1>1, <1>3, AfterDequeueMoves DEF LoneCall
<1> QED BY <1>1, <1>2, <1>3 DEF LocateEntry

LEMMA PulledSteps ==
  ASSUME LoneSubmitters, LoneInv, NEW p \in Procs, ReloadAfterPull(p)
  PROVE  Steps(p)
<1> DEFINE k == call[p]
<1>1. /\ k \in Call /\ k.op \in {"dequeue", "stop"} /\ k.pc = "pulled" /\ LoneCall(p, k)
      /\ k.queue \in live
      /\ status' = status /\ execQueue' = execQueue /\ entries' = entries /\ live' = live
      /\ held' = held
  BY DEF LoneInv, TypeInv, TypeOK, CallsOK, CallOK, LoneCalls, LoneCall, ReloadAfterPull, At,
     taskVars, queueVars
<1>2. AfterDequeue(p, k)
  BY <1>1 DEF ReloadAfterPull, LoneSubmitters
<1> QED BY <1>1, <1>2, AfterDequeueMoves DEF LoneCall

LEMMA PullSteps ==
  ASSUME LoneInv, NEW p \in Procs, PullEntries(p)
  PROVE  Steps(p)
<1> DEFINE k == call[p]
           matched == Holding(k.queue, k.task)
           c == [k EXCEPT !.pc = IF k.op = "remove_task" /\ k.opt /\ matched THEN "rmload"
                                                                             ELSE "pulled",
                          !.read = IF matched THEN @ ELSE {},
                          !.work = IF k.op = "remove_task" THEN {k.task} ELSE {}]
<1>1. /\ k \in Call /\ k.op \in {"dequeue", "stop"} /\ k.pc = "pull" /\ LoneCall(p, k) /\ TypeInv
      /\ p \in Agents => LoneAgent(k, held[p])
      /\ k.task \in Tasks /\ k.queue \in Queues
      /\ \A e \in k.read : e.task = k.task
  BY DEF LoneInv, TypeInv, TypeOK, CallsOK, CallOK, LoneCalls, LoneCall, PullEntries, At
<1>2. Set(p, c) /\ entries' = [entries EXCEPT ![k.queue] = @ \ k.read]
  BY DEF PullEntries
<1>3. /\ c.op = k.op /\ c.pc = "pulled" /\ c.task = k.task /\ c.opt = k.opt
      /\ c.new = k.new /\ c.seen = k.seen
  BY <1>1 DEF Call
<1> HIDE DEF c
<1>4. call'[p] = c /\ \A x \in Procs \ {p} : call'[x] = call[x]
  BY <1>1, <1>2, SetIs
<1>5. LoneCall(p, c) /\ (p \in Agents => LoneAgent(c, held'[p]))
  BY <1>1, <1>3 DEF LoneCall, LoneAgent
<1>6. status' = status /\ execQueue' = execQueue /\ held' = held /\ live' = live
  BY DEF PullEntries, taskVars
<1>7. ASSUME NEW t \in Tasks PROVE Keeps(p, t)
  <2>1. Takes(c, t) <=> t = k.task
    BY <1>1, <1>3 DEF Takes, LoneCall
  <2> SUFFICES ASSUME t # k.task, status'[t] = "queued", LeavesAlone(p, t)'
               PROVE  /\ LeavesAlone(p, t)
                      /\ \A r \in Queues : Holding(r, t) => Holding(r, t)'
                      /\ Found(t) => Found(t)'
                      /\ ~Puts(k, t) /\ ~Pushed(c, t)
    BY <1>4, <1>6, <2>1 DEF Keeps, LeavesAlone
  <2>2. LeavesAlone(p, t)
    BY <1>1, <1>3, <1>4, <1>6 DEF LeavesAlone, Takes, Has
  <2>3. ASSUME NEW r \in Queues, Holding(r, t) PROVE Holding(r, t)'
    <3>1. PICK e \in entries[r] : e.task = t
      BY <2>3 DEF Holding
    <3>2. e \notin k.read
      BY <1>1, <3>1
    <3>3. e \in entries'[r]
      BY <1>1, <1>2, <3>1, <3>2 DEF TypeInv, TypeOK
    <3> QED BY <3>1, <3>3 DEF Holding
  <2>4. execQueue[t] \in Queues \union {None}
    BY <1>1 DEF TypeInv, TypeOK
  <2>5. Found(t) => Found(t)'
    BY <1>6, <2>3, <2>4 DEF Found, Holding
  <2>6. ~Puts(k, t) /\ ~Pushed(c, t)
    BY <1>1, <1>3 DEF Puts, Pushed
  <2> QED BY <2>2, <2>3, <2>5, <2>6
<1> QED BY <1>3, <1>4, <1>5, <1>6, <1>7 DEF Steps

LEMMA DequeueChangeSteps ==
  ASSUME LoneInv, NEW p \in Procs, DequeueChange(p)
  PROVE  Steps(p)
<1> DEFINE k == call[p]
<1>1. /\ k.op = "dequeue" /\ k.pc = "cas" /\ LoneCall(p, k) /\ TypeInv
      /\ p \in Agents => LoneAgent(k, held[p])
      /\ k.task \in Tasks /\ k.new \notin {None, "queued"}
  BY DEF LoneInv, TypeInv, CallsOK, CallOK, LoneCalls, LoneCall, DequeueChange, At
<1>2. /\ execQueue' = execQueue
      /\ \A t \in Tasks : status'[t] = IF t = k.task /\ status[t] = k.seen THEN k.new ELSE status[t]
  <2>1. CASE status[k.task] = k.seen
    <3>1. ChangeStatus(k, k.new, None, execQueue[k.task])
      BY <1>1, <2>1 DEF DequeueChange, CanChange, ValidTransition
    <3> QED BY <1>1, <2>1, <3>1, ChangeIs
  <2>2. CASE status[k.task] # k.seen
    BY <2>2 DEF DequeueChange, CanChange, taskVars
  <2> QED BY <2>1, <2>2
<1>3. Writes(p, NoCall)
  BY <1>1, <1>2, NoCallIs DEF Writes, DequeueChange, queueVars, Takes, Puts, Pushed, Return,
     LoneAgent, LeavesAlone, Has
<1> QED BY <1>1, <1>3, WritesSteps

LEMMA SetStatusLoadSteps ==
  ASSUME LoneInv, NEW p \in Procs, SetStatusLoad(p)
  PROVE  Steps(p)
<1> DEFINE k == call[p]
           c == Snapshot([k EXCEPT !.pc = "cas"])
<1>1. /\ k \in Call /\ k.op = "set_status" /\ k.pc = "load" /\ LoneCall(p, k) /\ TypeInv
      /\ p \in Agents => LoneAgent(k, held[p])
      /\ Set(p, c)
  BY DEF LoneInv, TypeInv, TypeOK, LoneCalls, SetStatusLoad, At
<1>2. /\ c.op = "set_status" /\ c.pc = "cas" /\ c.task = k.task /\ c.new = k.new
      /\ c.seen = status[k.task]
  BY <1>1 DEF Snapshot, Call
<1> HIDE DEF c
<1>3. Moves(p, c)
  BY <1>1, <1>2 DEF Moves, SetStatusLoad, taskVars, queueVars, Takes, Puts, Pushed, Has,
     LoneCall, LoneAgent
<1> QED BY <1>1, <1>3, MovesSteps

LEMMA SetStatusChangeSteps ==
  ASSUME LoneInv, NEW p \in Procs, SetStatusChange(p)
  PROVE  Steps(p)
<1> DEFINE k == call[p]
<1>1. /\ k.op \in {"set_status", "stop"} /\ k.pc = "cas" /\ LoneCall(p, k) /\ TypeInv
      /\ p \in Agents => LoneAgent(k, held[p])
      /\ k.task \in Tasks /\ k.new # "queued"
  BY DEF LoneInv, TypeInv, CallsOK, CallOK, LoneCalls, LoneCall, SetStatusChange, At
<1>2. /\ execQueue' = execQueue
      /\ \A t \in Tasks : status'[t] = IF t = k.task /\ CanChange(k, k.force, k.new)
                                       THEN k.new ELSE status[t]
  <2>1. CASE CanChange(k, k.force, k.new)
    BY <1>1, <2>1, ChangeIs DEF SetStatusChange
  <2>2. CASE ~CanChange(k, k.force, k.new)
    BY <2>2 DEF SetStatusChange, taskVars
  <2> QED BY <2>1, <2>2
<1>3. k.new \in {"stopped", "in_progress"} /\ k.seen = "queued" /\ status[k.task] = "queued"
        => CanChange(k, k.force, k.new)
  BY DEF CanChange, ValidTransition, StateMachine
<1>4. \A a \in Agents : held'[a] = IF a = p THEN None ELSE held[a]
  BY DEF SetStatusChange
<1>5. ASSUME NEW t \in Tasks, status'[t] = "queued"
      PROVE  /\ status[t] = "queued" /\ ~Takes(k, t)
             /\ p \in Agents => ~Has(k, held[p], t)
             /\ ~Puts(k, t)
  <2>1. status[t] = "queued" /\ (t = k.task => ~CanChange(k, k.force, k.new))
    BY <1>1, <1>2, <1>5
  <2>2. ~Takes(k, t)
    BY <1>1, <1>3, <2>1 DEF Takes, LoneCall
  <2>3. ASSUME p \in Agents PROVE ~Has(k, held[p], t)
    BY <1>1, <1>3, <2>1, <2>3 DEF Has, LoneAgent
  <2>4. ~Puts(k, t)
    BY <1>1 DEF Puts, Pushed
  <2> QED BY <2>1, <2>2, <2>3, <2>4
<1>6. Writes(p, NoCall)
  BY <1>2, <1>4, <1>5, NoCallIs DEF Writes, SetStatusChange, queueVars, Return, LeavesAlone
<1> QED BY <1>1, <1>6, WritesSteps

-----------------------------------------------------------------------------
(* Publish.                                                                 *)
LEMMA PublishSteps ==
  ASSUME LoneInv, NEW p \in Procs, PublishStep(p)
  PROVE  Steps(p)
<1> DEFINE k == call[p]
           c(l) == [k EXCEPT !.pc = l]
           s == Snapshot([k EXCEPT !.pc = "publishing"])
<1>1. /\ k \in Call /\ LoneCall(p, k) /\ TypeInv /\ k.op = "publish" /\ p \notin Agents
      /\ k.task \in Tasks
  BY DEF LoneInv, TypeInv, TypeOK, CallsOK, CallOK, LoneCalls, LoneCall, LoneAgent,
     PublishStep, PublishLoad, PublishMark, PublishChange, PublishUndo, At
<1>2. /\ entries' = entries /\ live' = live /\ held' = held /\ execQueue' = execQueue
  BY DEF PublishStep, PublishLoad, PublishMark, PublishChange, PublishUndo, taskVars, queueVars
<1>3. \A l : c(l).op = "publish" /\ c(l).pc = l /\ c(l).task = k.task /\ c(l).force = k.force
             /\ c(l).seen = k.seen
  BY <1>1 DEF Call
<1>4. /\ s.op = "publish" /\ s.pc = "publishing" /\ s.task = k.task /\ s.force = k.force
      /\ s.seen = status[k.task]
  BY <1>1 DEF Snapshot, Call
<1> HIDE DEF c, s
<1>5. ASSUME NEW d, Set(p, d), LoneCall(p, d), d.op \in {"publish", "none"}, d.pc # "sweep",
             \A t \in Tasks : status'[t] = "queued" => status[t] = "queued"
      PROVE  Steps(p)
  <2>1. Writes(p, d)
    BY <1>1, <1>2, <1>5 DEF Writes, LeavesAlone, Takes, Puts, Pushed
  <2> QED BY <1>1, <2>1, WritesSteps
<1>6. CASE PublishLoad(p)
  <2>1. CASE Set(p, s) /\ "published" \in StateMachine[status[k.task]]
    <3>1. LoneCall(p, s)
      BY <1>1, <1>4, <2>1 DEF LoneCall, StateMachine
    <3> QED BY <1>4, <1>5, <1>6, <2>1, <3>1 DEF PublishLoad, taskVars
  <2>2. CASE Set(p, NoCall)
    BY <1>5, <1>6, <2>2, NoCallIs DEF PublishLoad, taskVars
  <2> QED BY <1>1, <1>6, <2>1, <2>2 DEF PublishLoad, Return, LoneCall, s
<1>7. CASE PublishMark(p)
  <2>1. PICK l \in {"pubcas", "unpublish"} : Set(p, c(l))
    BY <1>7 DEF PublishMark, Goto, c
  <2>2. LoneCall(p, c(l))
    BY <1>1, <1>3, <1>7, <2>1 DEF LoneCall, PublishMark, At
  <2> QED BY <1>1, <1>3, <1>5, <1>7, <2>1, <2>2 DEF PublishMark, TypeInv, TypeOK
<1>8. CASE PublishChange(p)
  <2>1. CASE Set(p, NoCall)
    BY <1>1, <1>5, <1>8, <2>1, NoCallIs DEF PublishChange, TypeInv, TypeOK
  <2>2. CASE Set(p, c("unpublish")) /\ status' = status
    <3>1. LoneCall(p, c("unpublish"))
      BY <1>1, <1>3, <1>8 DEF LoneCall, PublishChange, At
    <3> QED BY <1>3, <1>5, <2>2, <3>1
  <2> QED BY <1>8, <2>1, <2>2 DEF PublishChange, Return, Goto, c
<1>9. CASE PublishUndo(p)
  <2>1. k.seen # "queued" /\ status' = [status EXCEPT ![k.task] = k.seen] /\ Set(p, NoCall)
    BY <1>1, <1>9 DEF PublishUndo, At, LoneCall, Return
  <2> QED BY <1>1, <1>5, <2>1, NoCallIs DEF TypeInv, TypeOK
<1> QED BY <1>6, <1>7, <1>8, <1>9 DEF PublishStep

-----------------------------------------------------------------------------
(* Agents and watchdogs.                                                    *)
LEMMA PopSteps ==
  ASSUME LoneInv, NEW p \in Agents, PopEntry(p)
  PROVE  Steps(p)
<1>1. /\ p \in Procs /\ call[p].pc = "idle" /\ call[p].op = "none" /\ held[p] = None /\ TypeInv
  BY DEF LoneInv, LoneCalls, LoneCall, PopEntry, Procs
<1>2. PICK q \in live : \E e \in entries[q] :
        /\ entries' = [entries EXCEPT ![q] = @ \ {e}]
        /\ Set(p, [NoCall EXCEPT !.op = "get_next_task", !.pc = "report",
                                 !.task = e.task, !.queue = q])
  BY DEF PopEntry
<1>3. PICK e \in entries[q] :
        /\ entries' = [entries EXCEPT ![q] = @ \ {e}]
        /\ Set(p, [NoCall EXCEPT !.op = "get_next_task", !.pc = "report",
                                 !.task = e.task, !.queue = q])
  BY <1>2
<1> DEFINE c == [NoCall EXCEPT !.op = "get_next_task", !.pc = "report",
                               !.task = e.task, !.queue = q]
<1>4. c.op = "get_next_task" /\ c.pc = "report" /\ c.task = e.task
  BY DEF NoCall
<1> HIDE DEF c
<1>5. call'[p] = c /\ \A x \in Procs \ {p} : call'[x] = call[x]
  BY <1>1, <1>3, SetIs DEF c
<1>6. status' = status /\ execQueue' = execQueue /\ held' = held /\ live' = live
  BY DEF PopEntry, taskVars
<1>7. LoneCall(p, c) /\ LoneAgent(c, held'[p])
  BY <1>1, <1>4, <1>6 DEF LoneCall, LoneAgent
<1>8. ASSUME NEW t \in Tasks PROVE Keeps(p, t)
  <2>1. t = e.task => Has(c, held'[p], t)
    BY <1>4 DEF Has
  <2> SUFFICES ASSUME t # e.task, status'[t] = "queued", LeavesAlone(p, t)'
               PROVE  /\ LeavesAlone(p, t)
                      /\ \A r \in Queues : Holding(r, t) => Holding(r, t)'
                      /\ Found(t) => Found(t)'
                      /\ ~Puts(call[p], t) /\ ~Pushed(c, t)
    BY <1>5, <1>6, <2>1 DEF Keeps, LeavesAlone
  <2>2. None # t
    BY Assumptions
  <2>3. LeavesAlone(p, t)
    BY <1>1, <2>2 DEF LeavesAlone, Takes, Has
  <2>4. ASSUME NEW r \in Queues, Holding(r, t) PROVE Holding(r, t)'
    <3>1. PICK x \in entries[r] : x.task = t
      BY <2>4 DEF Holding
    <3>2. x \in entries'[r]
      BY <1>1, <1>3, <3>1 DEF TypeInv, TypeOK
    <3> QED BY <3>1, <3>2 DEF Holding
  <2>5. execQueue[t] \in Queues \union {None}
    BY <1>1 DEF TypeInv, TypeOK
  <2>6. Found(t) => Found(t)'
    BY <1>6, <2>4, <2>5 DEF Found, Holding
  <2>7. ~Puts(call[p], t) /\ ~Pushed(c, t)
    BY <1>1, <1>4 DEF Puts, Pushed
  <2> QED BY <2>3, <2>4, <2>6, <2>7
<1> QED BY <1>4, <1>5, <1>6, <1>7, <1>8 DEF Steps

LEMMA PoppedSteps ==
  ASSUME LoneSubmitters, LoneInv, NEW p \in Agents, PoppedStep(p)
  PROVE  Steps(p)
<1> DEFINE k == call[p]
           c(l) == [k EXCEPT !.pc = l]
<1>1. /\ p \in Procs /\ k \in Call /\ TypeInv /\ held[p] = None
      /\ k.op = "get_next_task" /\ k.task \in Tasks /\ LoneCall(p, k)
  BY DEF LoneInv, TypeInv, TypeOK, CallsOK, CallOK, LoneCalls, LoneAgent, Procs,
     PoppedStep, ReportPop, ReadPopped, RequeuePopped, At
<1>2. execQueue' = execQueue /\ entries' = entries /\ live' = live
  BY DEF PoppedStep, ReportPop, ReadPopped, RequeuePopped, taskVars, queueVars
<1>3. \A l : c(l).op = "get_next_task" /\ c(l).pc = l /\ c(l).task = k.task
  BY <1>1 DEF Call
<1> HIDE DEF c
<1>4. ASSUME NEW l \in {"fixread", "fixwrite"}, Set(p, c(l)), status' = status, held' = held
      PROVE  Steps(p)
  <2>1. Moves(p, c(l))
    BY <1>1, <1>2, <1>3, <1>4 DEF Moves, Takes, Has, Puts, Pushed, LoneCall, LoneAgent
  <2> QED BY <1>1, <2>1, MovesSteps
<1>5. ASSUME Receive(p), \A t \in Tasks : status'[t] = "queued" =>
                           status[t] = "queued" \/ t = k.task
      PROVE  Steps(p)
  <2>1. /\ Set(p, NoCall) /\ held'[p] = k.task
        /\ \A a \in Agents \ {p} : held'[a] = held[a]
    BY <1>1, <1>5 DEF Receive, Return, TypeInv, TypeOK
  <2>2. ASSUME NEW t \in Tasks, status'[t] = "queued", ~Has(NoCall, held'[p], t)
        PROVE  status[t] = "queued" /\ LeavesAlone(p, t)
    <3>1. t # k.task /\ t # None
      BY <2>1, <2>2, NoCallIs, Assumptions DEF Has
    <3> QED BY <1>1, <1>5, <2>2, <3>1 DEF LeavesAlone, Takes, Has
  <2>3. ~Takes(k, k.task) /\ \A t : ~Puts(k, t)
    BY <1>1 DEF Takes, Puts, Pushed
  <2>4. Writes(p, NoCall)
    BY <1>2, <2>1, <2>2, <2>3, NoCallIs DEF Writes
  <2> QED BY <1>1, <2>4, WritesSteps
<1>6. CASE ReportPop(p)
  BY <1>4, <1>6 DEF ReportPop, Goto, c, taskVars, LoneSubmitters
<1>7. CASE ReadPopped(p)
  BY <1>4, <1>5, <1>7 DEF ReadPopped, Goto, c, taskVars
<1>8. CASE RequeuePopped(p)
  <2>1. Receive(p) /\ status' = [status EXCEPT ![k.task] = "queued"]
    BY <1>8 DEF RequeuePopped
  <2> QED BY <1>1, <1>5, <2>1 DEF TypeInv, TypeOK
<1> QED BY <1>6, <1>7, <1>8 DEF PoppedStep

LEMMA StartSteps ==
  ASSUME LoneInv, NEW p \in Agents, StartPopped(p)
  PROVE  Steps(p)
<1> DEFINE c == SetStatusCall(held[p], "in_progress", FALSE)
<1>1. /\ p \in Procs /\ call[p].pc = "idle" /\ call[p].op = "none" /\ TypeInv
      /\ Set(p, c)
  BY DEF LoneInv, LoneCalls, LoneCall, StartPopped, Procs
<1>2. c.op = "set_status" /\ c.pc = "load" /\ c.task = held[p] /\ c.new = "in_progress"
  BY DEF SetStatusCall, NoCall
<1> HIDE DEF c
<1>3. Moves(p, c)
  BY <1>1, <1>2 DEF Moves, StartPopped, taskVars, queueVars, Takes, Has, Puts, Pushed,
     LoneCall, LoneAgent
<1> QED BY <1>1, <1>3, MovesSteps

LEMMA WatchdogSteps ==
  ASSUME LoneSubmitters, LoneInv, NEW p \in Watchdogs, ListSilent(p) \/ StopSilent(p)
  PROVE  Steps(p)
<1> DEFINE k == call[p]
           l(s) == [NoCall EXCEPT !.op = "cleanup_tasks", !.pc = "stopping", !.work = s]
           c(t) == [k EXCEPT !.work = @ \ {t}]
<1>1. /\ p \in Procs /\ p \notin Agents /\ k \in Call /\ TypeInv /\ LoneCall(p, k)
      /\ k.op \in {"none", "cleanup_tasks"}
  BY DEF LoneInv, TypeInv, TypeOK, CallsOK, LoneCalls, LoneCall, LoneSubmitters, Procs,
     ListSilent, StopSilent, At
<1>2. ASSUME NEW d, Set(p, d), d.op \in {"none", "cleanup_tasks"}, LoneCall(p, d),
             d.pc # "sweep", \A t \in Tasks : status'[t] = "queued" => status[t] = "queued"
      PROVE  Steps(p)
  <2>1. execQueue' = execQueue /\ entries' = entries /\ live' = live /\ held' = held
    BY DEF ListSilent, StopSilent, taskVars, queueVars
  <2>2. Writes(p, d)
    BY <1>1, <1>2, <2>1 DEF Writes, LeavesAlone, Takes, Puts, Pushed
  <2> QED BY <1>1, <2>2, WritesSteps
<1>3. ASSUME NEW s PROVE l(s).op = "cleanup_tasks" /\ l(s).pc = "stopping"
  BY DEF NoCall
<1>4. CASE ListSilent(p)
  <2>1. PICK s : Set(p, l(s)) /\ status' = status
    BY <1>4 DEF ListSilent, taskVars
  <2> HIDE DEF l
  <2>2. LoneCall(p, l(s))
    BY <1>3 DEF LoneCall
  <2> QED BY <1>2, <1>3, <2>1, <2>2
<1>5. CASE StopSilent(p)
  <2>1. PICK t \in k.work :
          /\ status' = IF status[t] = "in_progress" THEN [status EXCEPT ![t] = "stopped"]
                                                    ELSE status
          /\ Set(p, NoCall) \/ Set(p, c(t))
    BY <1>5 DEF StopSilent, Return
  <2>2. k.op = "cleanup_tasks" /\ k.pc = "stopping"
    BY <1>1, <1>5 DEF StopSilent, At, LoneCall
  <2>3. c(t).op = "cleanup_tasks" /\ c(t).pc = "stopping"
    BY <1>1, <2>2 DEF Call
  <2>4. \A x \in Tasks : status'[x] = "queued" => status[x] = "queued"
    BY <1>1, <2>1 DEF TypeInv, TypeOK
  <2> HIDE DEF c
  <2>5. LoneCall(p, c(t))
    BY <2>3 DEF LoneCall
  <2> QED BY <1>2, <2>1, <2>3, <2>4, <2>5, NoCallIs
<1> QED BY <1>4, <1>5

-----------------------------------------------------------------------------
LEMMA HandleSteps ==
  ASSUME LoneSubmitters, LoneInv, NEW p \in Procs, Handle(p)
  PROVE  Steps(p)
<1>1. call[p] \in Call /\ LoneCall(p, call[p])
  BY DEF LoneInv, LoneCalls, TypeInv, TypeOK
<1>2. ~RemovedLoopStep(p) /\ ~QueueStep(p) /\ ~ResetStep(p)
  BY <1>1 DEF LoneCall, RemovedLoopStep, LoadRemoved, RevertRemoved, RemovedDone, QueueStep,
     ReadQueue, WipeQueue, DropQueue, ResetStep, ResetLoad, ResetChange, At
<1> QED BY <1>2, FindSteps, PushSteps, ReloadSteps, SetExecSteps, SweepSteps, SweepDoneSteps,
       LocateSteps, PullSteps, PulledSteps, EnqueueLoadSteps, EnqueueChangeSteps, RevertSteps,
       DequeueLoadSteps, DequeueChangeSteps, StopLoadSteps, SetStatusLoadSteps,
       SetStatusChangeSteps, PublishSteps
    DEF Handle, AddTaskStep, SweepStep, RemoveTaskStep, EnqueueStep, DequeueStep, StatusStep

LEMMA SomebodySteps ==
  ASSUME LoneSubmitters, LoneInv, Next
  PROVE  \E p \in Procs : Steps(p)
<1>1. \A p : ~Crash(p)
  BY DEF Crash, LoneSubmitters
<1>2. Clients \subseteq Procs /\ Agents \subseteq Procs /\ Watchdogs \subseteq Procs
  BY DEF Procs
<1> QED BY <1>1, <1>2, IssueSteps, HandleSteps, PopSteps, PoppedSteps, StartSteps, WatchdogSteps
        DEF Next, AgentStep

(* execution.queue is the submitter's. *)
LEMMA SweptStep ==
  ASSUME LoneSubmitters, LoneInv, NEW p \in Procs, Steps(p)
  PROVE  SweptAround'
<1> SUFFICES ASSUME NEW x \in Procs, call'[x].pc = "sweep"
             PROVE  execQueue'[call'[x].task] = call'[x].to
  BY DEF SweptAround
<1>1. LoneCalls' /\ TypeInv
  BY StepsKeep DEF LoneInv
<1>2. CASE /\ execQueue' = execQueue
           /\ call'[p].pc = "sweep" =>
                /\ call[p].pc = "sweep" /\ call'[p].task = call[p].task
                /\ call'[p].to = call[p].to
  BY <1>2 DEF Steps, LoneInv, SweptAround
<1>3. CASE SetExecutionQueue(p)
  <2> DEFINE k == call[p]
             c == [k EXCEPT !.pc = "sweep", !.todo = Queues \ {k.to}]
  <2>1. /\ k \in Call /\ k.op = "enqueue" /\ k.task \in Tasks /\ LoneCall(p, k)
        /\ execQueue' = [execQueue EXCEPT ![k.task] = k.to] /\ Set(p, c)
    BY <1>3 DEF LoneInv, TypeInv, TypeOK, CallsOK, CallOK, LoneCalls, LoneCall, SetExecutionQueue, At
  <2>2. c.task = k.task /\ c.to = k.to
    BY <2>1 DEF Call
  <2> HIDE DEF c
  <2>3. CASE x = p
    BY <1>1, <2>1, <2>2, <2>3, SetIs DEF TypeInv, TypeOK
  <2>4. CASE x # p
    <3>1. call'[x] = call[x] /\ LoneCall(x, call[x])
      BY <2>4 DEF Steps, LoneInv, LoneCalls
    <3>2. call[x].op = "enqueue" /\ call[x].task # k.task
      BY <2>1, <2>4, <3>1, OneEnqueuer DEF LoneCall
    <3>3. execQueue[call[x].task] = call[x].to
      BY <3>1 DEF LoneInv, SweptAround
    <3> QED BY <2>1, <3>1, <3>2, <3>3
  <2> QED BY <2>3, <2>4
<1> QED BY <1>2, <1>3 DEF Steps

LEMMA LoneStep == LoneSubmitters /\ LoneInv /\ [Next]_vars => LoneInv'
<1> SUFFICES ASSUME LoneSubmitters, LoneInv, [Next]_vars PROVE LoneInv'
  OBVIOUS
<1>1. TypeInv'
  BY TypeStep DEF LoneInv
<1>2. CASE Next
  BY <1>1, <1>2, SomebodySteps, StepsKeep, SweptStep DEF LoneInv
<1>3. CASE UNCHANGED vars
  <2>1. (LoneCalls /\ SweptAround /\ QueuedIsFound /\ PushIsFound)'
    BY <1>3 DEF vars, taskVars, queueVars, LoneInv, LoneCalls, SweptAround, QueuedIsFound,
       PushIsFound, Found, Taken, Holding
  <2> QED BY <1>1, <2>1 DEF LoneInv
<1> QED BY <1>2, <1>3

(* With one client to submit it, a queued task that no call is working on   *)
(* and no agent has is in the queue that it names: each client that takes   *)
(* its entry is on the way to the change of status, each agent that pops it *)
(* has it until tasks.started answers, and the enqueue sets execution.queue *)
(* to the queue that it has pushed it into (enqueue_task, dequeue,          *)
(* get_next_task).                                                          *)
THEOREM QueuedIsWhereItSays ==
  ASSUME LoneSubmitters
  PROVE  Spec => []QueuedTaskIsWhereItSays
<1>1. Init => LoneInv
  <2> SUFFICES ASSUME Init PROVE LoneInv
    OBVIOUS
  <2>1. \A p \in Procs : call[p] = NoCall
    BY DEF Init
  <2>2. \A a \in Agents : a \in Procs
    BY DEF Procs
  <2>3. LoneCalls /\ SweptAround
    BY <2>1, <2>2, NoCallIs DEF Init, LoneCalls, SweptAround
  <2>4. QueuedIsFound /\ PushIsFound
    BY DEF Init, QueuedIsFound, PushIsFound
  <2> QED BY <2>3, <2>4, TypeInit DEF LoneInv
<1>2. LoneInv => QueuedTaskIsWhereItSays
  <2> SUFFICES ASSUME LoneInv, NEW t \in Tasks, status[t] = "queued", Unattended(t)
               PROVE  Found(t)
    BY DEF QueuedTaskIsWhereItSays, Found
  <2>1. ASSUME NEW p \in Procs PROVE ~Takes(call[p], t) /\ ~Puts(call[p], t)
    BY DEF Unattended, Concerns, LoneInv, LoneCalls, LoneCall, Takes, Puts, Pushed
  <2>2. ASSUME NEW a \in Agents PROVE ~Has(call[a], held[a], t)
    BY DEF Unattended, Concerns, LoneInv, LoneCalls, LoneCall, Has, Procs
  <2> QED BY <2>1, <2>2 DEF LoneInv, QueuedIsFound, Taken
<1> QED BY <1>1, <1>2, LoneStep, PTL DEF Spec
=============================================================================
