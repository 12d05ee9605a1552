----------------------------- MODULE TaskStatus -----------------------------
(***************************************************************************)
(* The statuses of a task and the table of the changes between them that   *)
(* the API server allows (bll/task/utils.py).                              *)
(***************************************************************************)

Status == { "created", "queued", "in_progress", "stopped", "closed",
            "failed", "publishing", "published", "completed", "unknown" }

(* The statuses a task may move to, by the status it is in.  The table has  *)
(* no row for "unknown": asking for a change from it is a server error.     *)
StateMachine ==
  [ created     |-> {"queued", "in_progress"},
    queued      |-> {"created", "in_progress", "stopped"},
    in_progress |-> {"stopped", "failed", "created", "completed"},
    stopped     |-> {"closed", "created", "failed", "queued", "in_progress",
                     "published", "publishing", "completed"},
    closed      |-> {"created", "failed", "published", "publishing", "stopped"},
    failed      |-> {"created", "stopped", "published", "queued"},
    publishing  |-> {"published"},
    published   |-> {},
    completed   |-> {"published", "in_progress", "created"},
    unknown     |-> {} ]

(* ChangeStatusRequest.validate_transition: a forced request passes, and so *)
(* does a request for the status the task already has.                      *)
ValidTransition(force, from, new) ==
  force \/ new = from \/ new \in StateMachine[from]

=============================================================================
