------------------------------ MODULE Workflow ------------------------------
(***************************************************************************)
(* What a ClearPipe run promises, with no word of tasks, retries, polling  *)
(* or pipeline records: every node of the graph begins once, after its     *)
(* parents have settled in its favour, and the run's result follows from   *)
(* how its nodes ended.  DagRunner implements it.                          *)
(***************************************************************************)
CONSTANTS
  Nodes,
  Parents,        \* Parents[n]: the nodes with an edge to n
  ContinueOnFail  \* the nodes that run even when a parent failed

VARIABLES phase, result

Phase  == {"waiting", "running", "succeeded", "failed", "skipped"}
Result == {"open", "done", "failed", "interrupted"}

Settled == {"succeeded", "failed", "skipped"}

Init ==
  /\ phase = [n \in Nodes |-> "waiting"]
  /\ result = "open"

Enter(n, new) ==
  /\ result = "open"
  /\ phase' = [phase EXCEPT ![n] = new]
  /\ UNCHANGED result

Begin(n) ==
  /\ phase[n] = "waiting"
  /\ \A p \in Parents[n] :
       phase[p] \in IF n \in ContinueOnFail THEN Settled ELSE {"succeeded"}
  /\ Enter(n, "running")

End(n) == phase[n] = "running" /\ \E new \in {"succeeded", "failed"} : Enter(n, new)

Skip(n) ==
  /\ phase[n] = "waiting" /\ n \notin ContinueOnFail
  /\ \E p \in Parents[n] : phase[p] \in {"failed", "skipped"}
  /\ Enter(n, "skipped")

(* The run is over when every node has settled, or is interrupted before. *)
Finish ==
  /\ result = "open"
  /\ \/ (\A n \in Nodes : phase[n] = "succeeded") /\ result' = "done"
     \/ (\A n \in Nodes : phase[n] \in Settled)
        /\ (\E n \in Nodes : phase[n] # "succeeded") /\ result' = "failed"
     \/ result' = "interrupted"
  /\ UNCHANGED phase

Next == (\E n \in Nodes : Begin(n) \/ End(n) \/ Skip(n)) \/ Finish

Spec == Init /\ [][Next]_<<phase, result>>
=============================================================================
