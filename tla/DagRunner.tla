----------------------------- MODULE DagRunner ------------------------------
(***************************************************************************)
(* The controller of a ClearPipe run (bll/clearpipe/controller_runner.py): *)
(* a process, started by an agent, that launches a child task for each     *)
(* node of a graph when the node's parents allow it, polls the children,   *)
(* retries and times them out, and records what it did in the Pipeline     *)
(* configuration of its own task, from which it is restored when it is     *)
(* started again.                                                          *)
(*                                                                         *)
(* Children run on their own: between two remote calls of the controller   *)
(* agents and users may move them.  Each action below is one remote call   *)
(* with the decisions the controller makes on its answer.  A read of a     *)
(* child's status and the record that follows from it are one action: the  *)
(* controller is the only writer of the record.  Nodes are visited in any  *)
(* order within a pass; the code uses the order of the graph document.     *)
(***************************************************************************)
EXTENDS TaskStatus, Naturals, Sequences, FiniteSets

CONSTANTS
  Nodes,
  Parents,         \* Parents[n]: the nodes with an edge to n
  Retries,         \* Retries[n]: config.retries
  Timed,           \* the nodes with a config.timeout, which may have elapsed at any poll
  ContinueOnFail,  \* the nodes with config.continueOnFail
  ErrorLimit,      \* failing status reads before a child counts as failed (5)
  None,
  MaxLives,        \* bound: how often the controller task is started
  MayCrash,        \* whether the controller process may be killed
  MayFail,         \* whether its remote calls may raise
  UsersStop        \* whether users stop the controller and the children

VARIABLES
  child,      \* child[n]: the child tasks created for n, in order
  pipeline,   \* pipeline[n]: the step's job_id (an index of child[n]) and status
  cancelled,  \* the controller task was stopped
  life,       \* how often the controller was started
  pc,         \* what the controller does next, or how it ended
  state, attempts, handle, errors,  \* the local variables of run()
  todo,       \* the nodes the current loop has yet to visit
  cur         \* the node that is being launched or was timed out

remote  == <<child, pipeline, cancelled>>
memory  == <<state, attempts, handle, errors>>
control == <<pc, todo, cur, life>>
vars    == <<remote, memory, control>>

TERMINAL == {"completed", "failed", "stopped", "closed", "published"}
SUCCESS  == {"completed", "closed", "published"}

(* Where a child is: created and not yet enqueued, in its queue, popped by  *)
(* an agent, executed by it, or none of these any more.                     *)
Place == {"new", "queue", "agent", "running", "off"}
Child == [status : Status, place : Place]
Step  == [job : Nat, status : Status \union {"pending", "aborted"}]

Outcome == {"done", "failed", "cancelled", "raised"}
Label   == {"down", "restore", "check", "cancelling", "poll", "timedout",
            "launch", "enqueue", "record"} \union Outcome

ASSUME GraphAssumption ==
  /\ Parents \in [Nodes -> SUBSET Nodes]
  /\ Retries \in [Nodes -> Nat]
  /\ Timed \subseteq Nodes /\ ContinueOnFail \subseteq Nodes
  /\ ErrorLimit \in Nat \ {0} /\ MaxLives \in Nat
  /\ MayCrash \in BOOLEAN /\ MayFail \in BOOLEAN /\ UsersStop \in BOOLEAN
  /\ None \notin Nodes

Running == pc \notin Outcome \union {"down"}

AllPending == [n \in Nodes |-> "pending"]
AllZero    == [n \in Nodes |-> 0]

(* A process that starts, or is gone, knows nothing of the run. *)
Forget ==
  /\ state' = AllPending
  /\ attempts' = AllZero /\ handle' = AllZero /\ errors' = AllZero
  /\ cur' = None

Init ==
  /\ child = [n \in Nodes |-> <<>>]
  /\ pipeline = [n \in Nodes |-> [job |-> 0, status |-> "pending"]]
  /\ cancelled = FALSE
  /\ life = 0 /\ pc = "down" /\ todo = {} /\ cur = None
  /\ state = AllPending
  /\ attempts = AllZero /\ handle = AllZero /\ errors = AllZero

At(l, n)      == pc = l /\ n \in todo
Goto(l, todo2) == pc' = l /\ todo' = todo2
Visited(n)    == todo' = todo \ {n} /\ pc' = pc

(* The children the controller waits for. *)
Active == { n \in Nodes : handle[n] # 0 /\ state[n] \notin TERMINAL }

Stopped(n) == [child EXCEPT ![n][handle[n]].status = "stopped"]

-----------------------------------------------------------------------------
(* An agent starts the controller task, for the first time or after it was  *)
(* enqueued again: run() starts with fresh variables and the record.        *)
StartController ==
  /\ pc \in {"down", "failed", "cancelled", "raised"} /\ life < MaxLives
  /\ life' = life + 1
  /\ Goto("restore", Nodes)
  /\ Forget
  /\ cancelled' = FALSE
  /\ UNCHANGED <<child, pipeline>>

(* Mutant: a recorded child is taken for one that has completed. *)
RestoreNode_AsCompleted(n) ==
  /\ At("restore", n)
  /\ IF pipeline[n].job = 0
     THEN UNCHANGED <<state, handle>>
     ELSE /\ handle' = [handle EXCEPT ![n] = pipeline[n].job]
          /\ state' = [state EXCEPT ![n] = "completed"]
  /\ Visited(n)
  /\ UNCHANGED <<remote, attempts, errors, cur, life>>

(* ClearMLBackend.restore: a recorded child that cannot be read is failed. *)
RestoreNode(n) ==
  LET job == pipeline[n].job IN
  /\ At("restore", n)
  /\ IF job = 0
     THEN UNCHANGED <<state, handle>>
     ELSE /\ handle' = [handle EXCEPT ![n] = job]
          /\ \E seen \in {child[n][job].status}
                         \union (IF MayFail THEN {"failed"} ELSE {}) :
               state' = [state EXCEPT ![n] = seen]
  /\ Visited(n)
  /\ UNCHANGED <<remote, attempts, errors, cur, life>>

RestoreDone ==
  /\ pc = "restore" /\ todo = {}
  /\ Goto("check", {})
  /\ UNCHANGED <<remote, memory, cur, life>>

(* backend.cancelled: when the reload fails the old status is used. *)
CheckCancelled ==
  /\ pc = "check"
  /\ \/ cancelled /\ Goto("cancelling", Active)
     \/ (~cancelled \/ MayFail) /\ Goto("poll", Active)
  /\ UNCHANGED <<remote, memory, cur, life>>

(* mark_stopped(force = true) sets the status and leaves the queue alone. *)
CancelChild(n) ==
  /\ At("cancelling", n)
  /\ child' = Stopped(n)
  /\ Visited(n)
  /\ UNCHANGED <<pipeline, cancelled, memory, cur, life>>

CancelDone ==
  /\ pc = "cancelling" /\ todo = {}
  /\ Goto("cancelled", {})
  /\ UNCHANGED <<remote, memory, cur, life>>

-----------------------------------------------------------------------------
(* The polling loop. *)

(* Mutant: one retry too many. *)
Settle_ExtraRetry(n, final) ==
  /\ pipeline' = [pipeline EXCEPT ![n] = [job |-> handle[n], status |-> final]]
  /\ IF final \notin SUCCESS /\ attempts[n] <= Retries[n] + 1
     THEN /\ state' = [state EXCEPT ![n] = "pending"]
          /\ handle' = [handle EXCEPT ![n] = 0]
     ELSE state' = [state EXCEPT ![n] = final] /\ UNCHANGED handle
  /\ Goto("poll", todo \ {n})

(* The child of n has ended, or is given up: record it, and have the node   *)
(* launched again if it has retries left.                                   *)
Settle(n, final) ==
  /\ pipeline' = [pipeline EXCEPT ![n] = [job |-> handle[n], status |-> final]]
  /\ IF final \notin SUCCESS /\ attempts[n] <= Retries[n]
     THEN /\ state' = [state EXCEPT ![n] = "pending"]
          /\ handle' = [handle EXCEPT ![n] = 0]
     ELSE state' = [state EXCEPT ![n] = final] /\ UNCHANGED handle
  /\ Goto("poll", todo \ {n})

(* A child whose time is up is stopped whatever its status; another one is  *)
(* settled when it has ended.                                               *)
Judge(n, seen) ==
  \/ /\ n \in Timed
     /\ child' = Stopped(n)
     /\ pc' = "timedout" /\ cur' = n
     /\ UNCHANGED <<pipeline, state, handle, todo>>
  \/ /\ seen \in TERMINAL
     /\ Settle(n, seen)
     /\ UNCHANGED <<child, cur>>
  \/ /\ seen \notin TERMINAL
     /\ Visited(n)
     /\ UNCHANGED <<child, pipeline, state, handle, cur>>

PollChild(n) ==
  /\ At("poll", n)
  /\ errors' = [errors EXCEPT ![n] = 0]
  /\ Judge(n, child[n][handle[n]].status)
  /\ UNCHANGED <<cancelled, attempts, life>>

(* The status cannot be read: after ErrorLimit failures in a row the child  *)
(* counts as failed.                                                        *)
PollError(n) ==
  /\ MayFail /\ At("poll", n)
  /\ errors' = [errors EXCEPT ![n] = @ + 1]
  /\ IF errors[n] + 1 < ErrorLimit
     THEN Visited(n) /\ UNCHANGED <<child, pipeline, state, handle, cur>>
     ELSE Judge(n, "failed")
  /\ UNCHANGED <<cancelled, attempts, life>>

SettleTimedOut ==
  /\ pc = "timedout"
  /\ Settle(cur, "failed")
  /\ cur' = None
  /\ UNCHANGED <<child, cancelled, attempts, errors, life>>

PollDone ==
  /\ pc = "poll" /\ todo = {}
  /\ Goto("launch", { n \in Nodes : state[n] = "pending" })
  /\ UNCHANGED <<remote, memory, cur, life>>

-----------------------------------------------------------------------------
(* The launching loop. *)

Blocked(n) ==
  n \notin ContinueOnFail /\ \E p \in Parents[n] : state[p] \in TERMINAL \ SUCCESS

(* Mutant: a node that continues on failure does not wait for all parents. *)
Ready_SomeParent(n) ==
  IF n \in ContinueOnFail
  THEN Parents[n] = {} \/ \E p \in Parents[n] : state[p] \in TERMINAL
  ELSE \A p \in Parents[n] : state[p] \in SUCCESS

Ready(n) ==
  \A p \in Parents[n] :
    state[p] \in IF n \in ContinueOnFail THEN TERMINAL ELSE SUCCESS

(* Mutants: a blocked node is not recorded; it is left pending. *)
Block_Unrecorded(n) ==
  /\ At("launch", n) /\ Blocked(n)
  /\ state' = [state EXCEPT ![n] = "stopped"]
  /\ Visited(n)
  /\ UNCHANGED <<remote, attempts, handle, errors, cur, life>>

Block_Never(n) ==
  /\ At("launch", n) /\ Blocked(n)
  /\ Visited(n)
  /\ UNCHANGED <<remote, memory, cur, life>>

Block(n) ==
  /\ At("launch", n) /\ Blocked(n)
  /\ state' = [state EXCEPT ![n] = "stopped"]
  /\ pipeline' = [pipeline EXCEPT ![n] = [job |-> 0, status |-> "aborted"]]
  /\ Visited(n)
  /\ UNCHANGED <<child, cancelled, attempts, handle, errors, cur, life>>

Wait(n) ==
  /\ At("launch", n) /\ ~Blocked(n) /\ ~Ready(n)
  /\ Visited(n)
  /\ UNCHANGED <<remote, memory, cur, life>>

(* backend.launch creates the child and then enqueues it; the controller    *)
(* then records it.                                                         *)
CreateChild(n) ==
  /\ At("launch", n) /\ ~Blocked(n) /\ Ready(n)
  /\ attempts' = [attempts EXCEPT ![n] = @ + 1]
  /\ child' = [child EXCEPT ![n] = Append(@, [status |-> "created", place |-> "new"])]
  /\ Goto("enqueue", todo \ {n}) /\ cur' = n
  /\ UNCHANGED <<pipeline, cancelled, state, handle, errors, life>>

EnqueueChild ==
  /\ pc = "enqueue"
  /\ child' = [child EXCEPT ![cur][Len(child[cur])] =
                 [status |-> "queued", place |-> "queue"]]
  /\ Goto("record", todo)
  /\ UNCHANGED <<pipeline, cancelled, memory, cur, life>>

(* Mutant: the number of the next child is recorded. *)
RecordChild_Next ==
  /\ pc = "record"
  /\ handle' = [handle EXCEPT ![cur] = Len(child[cur])]
  /\ state' = [state EXCEPT ![cur] = "queued"]
  /\ pipeline' = [pipeline EXCEPT ![cur] =
                    [job |-> Len(child[cur]) + 1, status |-> "queued"]]
  /\ Goto("launch", todo) /\ cur' = None
  /\ UNCHANGED <<child, cancelled, attempts, errors, life>>

RecordChild ==
  /\ pc = "record"
  /\ handle' = [handle EXCEPT ![cur] = Len(child[cur])]
  /\ state' = [state EXCEPT ![cur] = "queued"]
  /\ pipeline' = [pipeline EXCEPT ![cur] =
                    [job |-> Len(child[cur]), status |-> "queued"]]
  /\ Goto("launch", todo) /\ cur' = None
  /\ UNCHANGED <<child, cancelled, attempts, errors, life>>

(* Mutant: the failures are forgotten. *)
PassDone_NoFailures ==
  /\ pc = "launch" /\ todo = {}
  /\ IF \E n \in Nodes : state[n] \notin TERMINAL THEN Goto("check", {})
     ELSE Goto("done", {})
  /\ UNCHANGED <<remote, memory, cur, life>>

(* All nodes have ended: return, or raise naming the nodes that failed. *)
PassDone ==
  /\ pc = "launch" /\ todo = {}
  /\ IF \E n \in Nodes : state[n] \notin TERMINAL THEN Goto("check", {})
     ELSE IF \E n \in Nodes : state[n] \notin SUCCESS THEN Goto("failed", {})
     ELSE Goto("done", {})
  /\ UNCHANGED <<remote, memory, cur, life>>

-----------------------------------------------------------------------------
(* A remote call other than a status read raises, and run() with it. *)
Raise ==
  /\ MayFail
  /\ pc \in {"cancelling", "poll", "timedout", "launch", "enqueue", "record"}
  /\ Goto("raised", {}) /\ cur' = None
  /\ UNCHANGED <<remote, memory, life>>

(* The process is killed. *)
Crash ==
  /\ MayCrash /\ Running
  /\ Goto("down", {})
  /\ Forget
  /\ UNCHANGED <<remote, life>>

-----------------------------------------------------------------------------
(* Users and agents. *)

Move(n, k, status2, place2) ==
  /\ child' = [child EXCEPT ![n][k] = [status |-> status2, place |-> place2]]
  /\ UNCHANGED <<pipeline, cancelled, memory, control>>

StopController ==
  /\ UsersStop /\ Running /\ ~cancelled
  /\ cancelled' = TRUE
  /\ UNCHANGED <<child, pipeline, memory, control>>

(* tasks.stop takes a queued task out of its queue. *)
StopChild(n, k) ==
  LET c == child[n][k] IN
  /\ UsersStop /\ c.status \in {"queued", "in_progress"}
  /\ Move(n, k, "stopped", IF c.place = "queue" THEN "off" ELSE c.place)

(* queues.get_next_task: a stopped task that is popped is queued again. *)
PopChild(n, k) ==
  LET c == child[n][k] IN
  /\ c.place = "queue"
  /\ Move(n, k, IF c.status = "stopped" THEN "queued" ELSE c.status, "agent")

(* The agent's tasks.started, which the state machine may refuse. *)
StartChild(n, k) ==
  LET c == child[n][k] IN
  /\ c.place = "agent"
  /\ IF ValidTransition(FALSE, c.status, "in_progress")
     THEN Move(n, k, "in_progress", "running")
     ELSE Move(n, k, c.status, "off")

(* The child's run ends; one that was stopped may still report its end. *)
EndChild(n, k) ==
  LET c == child[n][k] IN
  /\ c.place = "running" /\ c.status \in {"in_progress", "stopped"}
  /\ \E end \in {"completed", "failed", "stopped"} : Move(n, k, end, "off")

AgentStep(n) ==
  \E k \in DOMAIN child[n] : PopChild(n, k) \/ StartChild(n, k) \/ EndChild(n, k)

Visit(n) ==
  \/ RestoreNode(n) \/ CancelChild(n) \/ PollChild(n) \/ PollError(n)
  \/ Block(n) \/ Wait(n) \/ CreateChild(n)

Controller ==
  \/ \E n \in Nodes : Visit(n)
  \/ RestoreDone \/ CheckCancelled \/ CancelDone \/ SettleTimedOut
  \/ PollDone \/ EnqueueChild \/ RecordChild \/ PassDone

Next ==
  \/ StartController \/ Controller \/ Raise \/ Crash
  \/ StopController
  \/ \E n \in Nodes : \E k \in DOMAIN child[n] : StopChild(n, k)
  \/ \E n \in Nodes : AgentStep(n)

Spec == Init /\ [][Next]_vars

(* The controller's process goes on, agents serve the queues and what they  *)
(* run comes to an end.  Nobody owes a start, a stop, an error or a crash.  *)
Fairness == WF_vars(Controller) /\ \A n \in Nodes : WF_vars(AgentStep(n))

FairSpec == Spec /\ Fairness

-----------------------------------------------------------------------------
(* The variables hold values of their types, and an index of a child names  *)
(* a child.                                                                 *)
TypeOK ==
  /\ child \in [Nodes -> Seq(Child)]
  /\ pipeline \in [Nodes -> Step]
  /\ cancelled \in BOOLEAN
  /\ life \in 0..MaxLives
  /\ pc \in Label
  /\ state \in [Nodes -> Status \union {"pending"}]
  /\ attempts \in [Nodes -> Nat]
  /\ handle \in [Nodes -> Nat]
  /\ errors \in [Nodes -> Nat]
  /\ todo \subseteq Nodes
  /\ cur \in Nodes \union {None}
  /\ \A n \in Nodes : /\ pipeline[n].job \in 0..Len(child[n])
                      /\ handle[n] \in 0..Len(child[n])

(* A child is about to be created for n. *)
Launches(n) == Len(child'[n]) > Len(child[n])

(* "respect dependencies" (integrating-clearpipe.md): when a node is        *)
(* launched, each parent's recorded child has really succeeded, unless the  *)
(* node continues on failure.  The controller decides on statuses it read   *)
(* earlier, perhaps before a crash.                                         *)
LaunchedAfterParents ==
  [][\A n \in Nodes \ ContinueOnFail : Launches(n) =>
       \A p \in Parents[n] :
         /\ pipeline[p].job # 0
         /\ child[p][pipeline[p].job].status \in SUCCESS]_vars

(* Whatever is retried, timed out, lost or restored, a node gets at most    *)
(* config.retries + 1 children in each life of the controller.              *)
AttemptsBounded ==
  \A n \in Nodes : Len(child[n]) <= (Retries[n] + 1) * life

(* A node is not launched again once a node that depends on it was          *)
(* launched: a dependent waits for the last retry of each parent.           *)
ParentsSettleFirst ==
  [][\A n \in Nodes, p \in Nodes :
       p \in Parents[n] /\ attempts[n] > 0 => ~Launches(p)]_vars

(* When the run returns or fails, its Pipeline record tells how each node   *)
(* ended, which is what the pipeline page shows: a step recorded as a       *)
(* success has a child that succeeded, and a step is recorded as aborted    *)
(* because of a parent that did not succeed.                                *)
RecordIsTrue ==
  pc \in {"done", "failed"} =>
    \A n \in Nodes :
      LET s == pipeline[n] IN
      /\ s.status \in TERMINAL \union {"aborted"}
      /\ s.status \in SUCCESS => child[n][s.job].status \in SUCCESS
      /\ s.status = "aborted" =>
           \E p \in Parents[n] : pipeline[p].status \notin SUCCESS

(* A controller that runs comes to an end: no node waits for ever. *)
RunEnds == Running ~> ~Running

(* The run as the abstract specification sees it: a node that waits for a   *)
(* retry is running.                                                        *)
Phase(n) ==
  IF state[n] \in SUCCESS THEN "succeeded"
  ELSE IF state[n] \in TERMINAL
       THEN IF attempts[n] = 0 THEN "skipped" ELSE "failed"
  ELSE IF attempts[n] = 0 THEN "waiting" ELSE "running"

Result ==
  IF pc \in {"done", "failed"} THEN pc
  ELSE IF pc \in {"cancelled", "raised"} THEN "interrupted" ELSE "open"

Promise == INSTANCE Workflow
  WITH phase <- [n \in Nodes |-> Phase(n)], result <- Result

(* One life of the controller implements Workflow. *)
ImplementsWorkflow == Promise!Spec

(* "The runner will ... propagate failure/cancellation"                     *)
(* (integrating-clearpipe.md): once a run has been cancelled, none of its   *)
(* children goes on to run.                                                 *)
CancelledChildrenStayStopped ==
  [][pc = "cancelled" =>
       \A n \in Nodes : \A k \in DOMAIN child[n] :
         child[n][k].status # "in_progress" => child'[n][k].status # "in_progress"]_vars
=============================================================================
