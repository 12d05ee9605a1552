---------------------------- MODULE MCFlowEditor ----------------------------
(* An instance of FlowEditor for TLC. *)
EXTENDS FlowEditor, TLC

CONSTANT box

(* A task that still holds two base tasks, and one that runs after it.     *)
Chain ==
  [status |-> [n \in {1, 2} |-> "idle"], edges |-> {<<1, 2>>}, groups |-> {},
   holds |-> [b \in {} |-> {}], stops |-> {}, multi |-> {1}, detail |-> "d1"]

(* The same, and the run stops at a boundary around the first task.        *)
Bounded == [Chain EXCEPT !.holds = (box :> {1}), !.stops = {box}]

(* A file that was exported while the pipeline ran. *)
Exported == {[Chain EXCEPT !.status[1] = "running", !.detail = "d2"]}

Few(edit, name, save, click, fail, other) ==
  [edit |-> edit, name |-> name, save |-> save, click |-> click, fail |-> fail, other |-> other]

Session(g, phase, budgets) ==
  { [graph |-> g, editing |-> TRUE, activated |-> TRUE, phase |-> phase, budget |-> b] : b \in budgets }

(* Many commands between two saves, or many requests with few commands; a  *)
(* run that is on when the page is opened, and a new pipeline.             *)
AnySession ==
  Session(Bounded, None, {Few(3, 0, 0, 0, 0, 0), Few(2, 0, 1, 0, 0, 0)})
    \union Session(Bounded, "pending", {Few(0, 0, 0, 3, 0, 0), Few(0, 0, 0, 2, 1, 0),
                                        Few(1, 0, 1, 0, 0, 0)})
    \union Session(Chain, None, {Few(0, 0, 1, 2, 0, 0), Few(0, 1, 1, 1, 1, 0), Few(0, 0, 2, 1, 0, 1)})
    \union { [graph |-> EmptyGraph("d1"), editing |-> FALSE, activated |-> FALSE,
              phase |-> None, budget |-> Few(2, 1, 1, 1, 1, 0)] }
=============================================================================
