---------------------------- MODULE MCDagRunner -----------------------------
(* Instances of DagRunner for TLC. *)
EXTENDS DagRunner, TLC

CONSTANTS n1, n2, n3

(* n2 needs n1; n3, which continues on failure, follows both. *)
Join   == (n1 :> {}) @@ (n2 :> {n1}) @@ (n3 :> {n1, n2})
(* Two nodes in a row. *)
Chain  == (n1 :> {}) @@ (n2 :> {n1})
Single == (n1 :> {})

RetryFirst == [n \in Nodes |-> IF n = n1 THEN 1 ELSE 0]
NoRetries  == [n \in Nodes |-> 0]
=============================================================================
