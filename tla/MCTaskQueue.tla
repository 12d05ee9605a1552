---------------------------- MODULE MCTaskQueue -----------------------------
(* Instances of TaskQueue for TLC. *)
EXTENDS TaskQueue, TLC

CONSTANTS t1, q1, q2, alice, bob, agent, agent2, dog

QueueSymmetry == Permutations(Queues)

EnqueueCalls == { EnqueueCall(t1, q, FALSE, FALSE) : q \in Queues }

(* Two clients enqueue the task at the same time. *)
RacingEnqueues == (alice :> EnqueueCalls) @@ (bob :> EnqueueCalls)

(* One client enqueues; the other stops the task, takes it out of its queue *)
(* or reports how its run ended.                                            *)
OneSubmitter ==
  (alice :> EnqueueCalls)
  @@ (bob :> { TaskCall("stop", t1, FALSE), DequeueCall(t1, FALSE, "created"),
               SetStatusCall(t1, "failed", FALSE) })

(* Everything the API offers on the task and its queues, with API server    *)
(* processes that die and metrics that cannot be written.  One client puts  *)
(* the task into queues and runs it, the other takes it out.                *)
AnyCall ==
  (alice :> EnqueueCalls
            \union { EnqueueCall(t1, q1, TRUE, TRUE), AddCall(t1, q1, FALSE),
                     MoveCall(t1, q1, q2, FALSE), TaskCall("publish", t1, FALSE),
                     SetStatusCall(t1, "completed", FALSE) })
  @@ (bob :> { DequeueCall(t1, TRUE, None), DequeueCall(t1, FALSE, "published"),
               TaskCall("archive", t1, FALSE), TaskCall("reset", t1, FALSE),
               TaskCall("stop", t1, FALSE), RemoveCall(t1, q1, TRUE),
               QueueCall("clear_queue", q1, FALSE),
               QueueCall("delete_queue", q2, TRUE) })

SubmitterTwice == (alice :> 2) @@ (bob :> 1)
SubmitterThree == (alice :> 3) @@ (bob :> 2)
TwoCallsEach   == [c \in Clients |-> 2]
=============================================================================
