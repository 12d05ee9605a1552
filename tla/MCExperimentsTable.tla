------------------------- MODULE MCExperimentsTable --------------------------
(* An instance of ExperimentsTable for TLC. *)
EXTENDS ExperimentsTable, TLC

CONSTANTS allTasks, myTasks, t1, t2, t3

(* The narrow filter leaves the first task out. *)
Selects == allTasks :> Task @@ myTasks :> {t2, t3}

Budget(k) == [e \in {"query", "select", "refresh", "page", "expire", "change", "fail",
                     "create", "archive", "slow"} |-> IF e \in DOMAIN k THEN k[e] ELSE 0]

Session(auto, k) ==
  [tasks |-> <<t1, t2>>, autoRefresh |-> auto, filter |-> allTasks, refreshList |-> FALSE,
   budget |-> Budget(k)]

AnySession ==
  { Session(FALSE, k) : k \in
      { [query |-> 2, fail |-> 2], [page |-> 1, query |-> 1, fail |-> 1],
        [page |-> 2, refresh |-> 1], [refresh |-> 2, fail |-> 1],
        [expire |-> 1, page |-> 1, refresh |-> 1], [select |-> 2, fail |-> 1],
        [create |-> 2, refresh |-> 1, fail |-> 1], [archive |-> 1, page |-> 1] } }
    \union
  { Session(TRUE, k) : k \in
      { [query |-> 1, fail |-> 2], [query |-> 1, page |-> 1], [page |-> 1, slow |-> 1], [page |-> 1, expire |-> 1],
        [create |-> 1, refresh |-> 1], [archive |-> 1],
        [change |-> 1, select |-> 1, page |-> 1] } }
    \union
  { [Session(TRUE, [fail |-> 1, query |-> 1]) EXCEPT !.refreshList = TRUE] }
    \union
  { [Session(TRUE, [change |-> 1]) EXCEPT !.tasks = <<>>, !.refreshList = TRUE] }
=============================================================================
