--------------------------- MODULE ClearPipeStart ---------------------------
(***************************************************************************)
(* clearpipe.start for a graph of version 2 (services/clearpipe.py): the   *)
(* start requests that carry one idempotency key, the settings document    *)
(* that reserves a run id for the key, the run that is cloned from the     *)
(* definition under that id, and the queue the run is put into.            *)
(*                                                                         *)
(* Requests run concurrently in the API server's processes; each action is *)
(* one database operation with what the request decides on its result.     *)
(* The caller, the company, the definition and its revision are the same   *)
(* for all of them; the queue is the one of the reservation.               *)
(***************************************************************************)
EXTENDS TaskStatus, Naturals, FiniteSets

CONSTANTS
  Attempts,  \* the requests; the run id that a request draws is named after it
  Body,      \* Body[a]: the fingerprint of what a asks for
  None,
  MayCrash,  \* whether a process may die in the middle of a request
  MayFail,   \* whether database and Elasticsearch calls may raise
  UsersAct   \* whether users dequeue and stop the run

VARIABLES
  reservation,  \* the settings document of the key
  runs,         \* runs[r]: the task with id r
  queue,        \* the runs with an entry in the queue
  popped,       \* the runs an agent has popped and not yet started
  placed,       \* the runs that were ever put into the queue, or that a user stopped
  call          \* call[a]: where the request is and what it knows

store == <<reservation, runs>>
queues == <<queue, popped, placed>>
vars == <<store, queues, call>>

Ended == {"ok", "refused", "failed", "dead"}
EnqueueSteps == {"load", "change", "check", "push", "revert"}
Label == {"lookup", "reserve", "find", "clone", "adopt", "mark", "refetch",
          "commit", "recheck", "sync", "cleanup"} \union EnqueueSteps \union Ended

Bodies == { Body[a] : a \in Attempts }

Reservation == [run : Attempts, body : Bodies,
                state : {"reserved", "pending", "committed"}]
Run == [status : Status, record : {"pending", "committed"}]

(* res: the reservation as the request last read or wrote it.  record: the  *)
(* run's idempotency record as it last read it.  seen: the status that      *)
(* enqueue_task loaded.  mine: it created the run.  raising: the enqueue    *)
(* fails with something other than TaskAlreadyQueued.  again: this is its   *)
(* second enqueue.                                                          *)
Call == [pc : Label, res : Reservation \union {None},
         record : {"pending", "committed", None}, seen : Status \union {None},
         mine : BOOLEAN, raising : BOOLEAN, again : BOOLEAN]

ASSUME StartAssumption ==
  /\ None \notin Attempts \union Reservation \union Run
  /\ None \notin [run : Attempts, body : Bodies]
  /\ None \notin Status \union {"pending", "committed", "refused", "failed"}
  /\ MayCrash \in BOOLEAN /\ MayFail \in BOOLEAN /\ UsersAct \in BOOLEAN

NewCall == [pc |-> "lookup", res |-> None, record |-> None, seen |-> None,
            mine |-> FALSE, raising |-> FALSE, again |-> FALSE]

Init ==
  /\ reservation = None
  /\ runs = [r \in Attempts |-> None]
  /\ queue = {} /\ popped = {} /\ placed = {}
  /\ call = [a \in Attempts |-> NewCall]

At(a, l)   == call[a].pc = l
Set(a, k)  == call' = [call EXCEPT ![a] = k]

(* What a request that goes on at l still knows: what enqueue_task read is  *)
(* gone when it returns, and an answer keeps only the run it names.         *)
Then(a, l) ==
  IF l = "ok" THEN [NewCall EXCEPT !.pc = l, !.res = call[a].res]
  ELSE IF l \in Ended THEN [NewCall EXCEPT !.pc = l]
  ELSE IF l \in EnqueueSteps THEN [call[a] EXCEPT !.pc = l]
  ELSE [call[a] EXCEPT !.pc = l, !.seen = None, !.raising = FALSE]

Goto(a, l) == Set(a, Then(a, l))

Id(a) == call[a].res.run

SetStatus(r, s) == runs' = [runs EXCEPT ![r] = [@ EXCEPT !.status = s]]

(* The except clause of start: a request that created the run cleans it up. *)
Except(a) == Goto(a, IF call[a].mine THEN "cleanup" ELSE "failed")

-----------------------------------------------------------------------------
(* The reservation. *)

Lookup(a) ==
  /\ At(a, "lookup")
  /\ \/ reservation = None /\ Goto(a, "reserve")
     \/ reservation # None /\ reservation.body # Body[a] /\ Goto(a, "refused")
     \/ /\ reservation # None /\ reservation.body = Body[a]
        /\ Set(a, [call[a] EXCEPT !.pc = "find", !.res = reservation])
  /\ UNCHANGED <<store, queues>>

Reserved(a) == [run |-> a, body |-> Body[a], state |-> "reserved"]

(* Mutants: the insert overwrites a reservation; the new reservation is not *)
(* kept.                                                                    *)
Reserve_Overwrite(a) ==
  /\ At(a, "reserve")
  /\ reservation' = Reserved(a)
  /\ Set(a, [call[a] EXCEPT !.pc = "find", !.res = Reserved(a)])
  /\ UNCHANGED <<runs, queues>>

Reserve_Unkept(a) ==
  /\ At(a, "reserve")
  /\ IF reservation = None
     THEN reservation' = Reserved(a) /\ Goto(a, "find")
     ELSE Goto(a, "lookup") /\ UNCHANGED reservation
  /\ UNCHANGED <<runs, queues>>

(* Settings.add_value inserts a new document or fails; then the one that is *)
(* there is read.                                                           *)
Reserve(a) ==
  /\ At(a, "reserve")
  /\ IF reservation = None
     THEN /\ reservation' = Reserved(a)
          /\ Set(a, [call[a] EXCEPT !.pc = "find", !.res = Reserved(a)])
     ELSE Goto(a, "lookup") /\ UNCHANGED reservation
  /\ UNCHANGED <<runs, queues>>

-----------------------------------------------------------------------------
(* The run. *)

(* Mutant: a run that is queued is taken for one that was put into the      *)
(* queue.                                                                   *)
Proceed_TrustQueued(a, r) ==
  Set(a, [call[a] EXCEPT !.record = r.record,
            !.pc = IF r.status = "created" THEN "load" ELSE "commit"])

(* Goes on with a run that is there: one that has left the queue was        *)
(* enqueued by an earlier request.                                          *)
Proceed(a, r) ==
  Set(a, [call[a] EXCEPT !.record = r.record,
            !.pc = IF r.status \in {"created", "queued"} THEN "load" ELSE "commit"])

FindRun(a) ==
  LET r == runs[Id(a)]
      committed == call[a].res.state = "committed"
  IN
  /\ At(a, "find")
  /\ \/ r = None /\ Goto(a, IF committed THEN "failed" ELSE "clone")
     \/ /\ r # None /\ r.record = "committed"
        /\ Goto(a, IF committed THEN "ok" ELSE "sync")
     \/ r # None /\ r.record = "pending" /\ Proceed(a, r)
  /\ UNCHANGED <<store, queues>>

(* clone_task inserts the run under the reserved id. *)
CloneRun(a) ==
  /\ At(a, "clone")
  /\ IF runs[Id(a)] = None
     THEN /\ runs' = [runs EXCEPT ![Id(a)] =
                        [status |-> "created", record |-> "pending"]]
          /\ Set(a, [call[a] EXCEPT !.pc = "mark", !.mine = TRUE,
                                    !.record = "pending"])
     ELSE Goto(a, "adopt") /\ UNCHANGED runs
  /\ UNCHANGED <<reservation, queues>>

(* NotUniqueError: another request has created the run. *)
AdoptRun(a) ==
  LET r == runs[Id(a)] IN
  /\ At(a, "adopt")
  /\ IF r = None THEN Goto(a, "failed") ELSE Proceed(a, r)
  /\ UNCHANGED <<store, queues>>

(* The reservation is written over, whatever it has become. *)
MarkPending(a) ==
  LET res == [call[a].res EXCEPT !.state = "pending"] IN
  /\ At(a, "mark")
  /\ reservation' = res
  /\ Set(a, [call[a] EXCEPT !.res = res, !.pc = "load"])
  /\ UNCHANGED <<runs, queues>>

-----------------------------------------------------------------------------
(* enqueue_task. *)

EnqueueLoad(a) ==
  LET r == runs[Id(a)] IN
  /\ At(a, "load")
  /\ IF r # None /\ ValidTransition(FALSE, r.status, "queued")
     THEN Set(a, [call[a] EXCEPT !.seen = r.status, !.pc = "change"])
     ELSE Except(a)
  /\ UNCHANGED <<store, queues>>

(* FailedChangingTaskStatus: start looks at the run again, once. *)
StatusRaced(a) == IF call[a].again THEN Except(a) ELSE Goto(a, "refetch")

EnqueueChange(a) ==
  LET r == runs[Id(a)] IN
  /\ At(a, "change")
  /\ IF r # None /\ r.status = call[a].seen
     THEN SetStatus(Id(a), "queued") /\ Goto(a, "check")
     ELSE StatusRaced(a) /\ UNCHANGED runs
  /\ UNCHANGED <<reservation, queues>>

(* add_task raises TaskAlreadyQueued when it finds an entry, *)
FindEntry(a) ==
  /\ At(a, "check")
  /\ IF Id(a) \in queue
     THEN Set(a, [call[a] EXCEPT !.pc = "revert", !.raising = FALSE])
     ELSE Goto(a, "push")
  /\ UNCHANGED <<store, queues>>

RaiseInAdd(a) == Set(a, [call[a] EXCEPT !.pc = "revert", !.raising = TRUE])

(* and InvalidQueueOrTaskNotQueued when one has come in between.  The       *)
(* metrics, and what enqueue_task does next, may raise after the push.      *)
PushEntry(a) ==
  /\ At(a, "push")
  /\ IF Id(a) \in queue
     THEN RaiseInAdd(a) /\ UNCHANGED <<queue, placed>>
     ELSE /\ queue' = queue \union {Id(a)} /\ placed' = placed \union {Id(a)}
          /\ \/ Goto(a, "commit")
             \/ MayFail /\ (RaiseInAdd(a) \/ Except(a))
  /\ UNCHANGED <<store, popped>>

(* The failed enqueue puts the status that it loaded back. *)
EnqueueRevert(a) ==
  LET r == runs[Id(a)] IN
  /\ At(a, "revert")
  /\ IF r # None /\ r.status = "queued"
     THEN /\ SetStatus(Id(a), call[a].seen)
          /\ IF call[a].raising THEN Except(a) ELSE Goto(a, "commit")
     ELSE StatusRaced(a) /\ UNCHANGED runs
  /\ UNCHANGED <<reservation, queues>>

Refetch(a) ==
  LET r == runs[Id(a)] IN
  /\ At(a, "refetch")
  /\ IF r = None \/ r.status = "created" THEN Except(a)
     ELSE Set(a, [call[a] EXCEPT !.record = r.record, !.again = TRUE,
                    !.pc = IF r.status = "queued" THEN "load" ELSE "commit"])
  /\ UNCHANGED <<store, queues>>

-----------------------------------------------------------------------------
(* The answer. *)

(* _commit_idempotent_run: a compare and set on the pending record, *)
Commit(a) ==
  LET r == runs[Id(a)] IN
  /\ At(a, "commit")
  /\ IF r # None /\ r.record = "pending" /\ call[a].record = "pending"
     THEN /\ runs' = [runs EXCEPT ![Id(a)] = [@ EXCEPT !.record = "committed"]]
          /\ Goto(a, "sync")
     ELSE Goto(a, "recheck") /\ UNCHANGED runs
  /\ UNCHANGED <<reservation, queues>>

(* and when it fails another request must have committed. *)
Recheck(a) ==
  LET r == runs[Id(a)] IN
  /\ At(a, "recheck")
  /\ IF r # None /\ r.record = "committed" THEN Goto(a, "sync") ELSE Except(a)
  /\ UNCHANGED <<store, queues>>

SyncReservation(a) ==
  /\ At(a, "sync")
  /\ reservation' = [call[a].res EXCEPT !.state = "committed"]
  /\ Goto(a, "ok")
  /\ UNCHANGED <<runs, queues>>

(* _cleanup_unqueued_run deletes the run if its status is created. *)
Cleanup(a) ==
  LET r == runs[Id(a)] IN
  /\ At(a, "cleanup")
  /\ runs' = IF r # None /\ r.status = "created"
             THEN [runs EXCEPT ![Id(a)] = None] ELSE runs
  /\ Goto(a, "failed")
  /\ UNCHANGED <<reservation, queues>>

-----------------------------------------------------------------------------
(* A call raises before it does anything: in add_task the enqueue reverts,  *)
(* elsewhere the request fails.                                             *)
RaiseElsewhere(a) ==
  /\ MayFail /\ call[a].pc \notin Ended
  /\ IF call[a].pc \in {"check", "push"} THEN RaiseInAdd(a)
     ELSE IF At(a, "cleanup") THEN Goto(a, "failed")
     ELSE Except(a)
  /\ UNCHANGED <<store, queues>>

Crash(a) ==
  /\ MayCrash /\ call[a].pc \notin Ended
  /\ Goto(a, "dead")
  /\ UNCHANGED <<store, queues>>

Handle(a) ==
  \/ Lookup(a) \/ Reserve(a)
  \/ FindRun(a) \/ CloneRun(a) \/ AdoptRun(a) \/ MarkPending(a)
  \/ EnqueueLoad(a) \/ EnqueueChange(a) \/ FindEntry(a) \/ PushEntry(a)
  \/ EnqueueRevert(a) \/ Refetch(a)
  \/ Commit(a) \/ Recheck(a) \/ SyncReservation(a) \/ Cleanup(a)
  \/ RaiseElsewhere(a) \/ Crash(a)

-----------------------------------------------------------------------------
(* Agents and users. *)

PopRun(r) ==
  /\ r \in queue
  /\ queue' = queue \ {r} /\ popped' = popped \union {r}
  /\ IF runs[r] # None /\ runs[r].status = "stopped"
     THEN SetStatus(r, "queued") ELSE UNCHANGED runs
  /\ UNCHANGED <<reservation, placed, call>>

StartRun(r) ==
  /\ r \in popped
  /\ popped' = popped \ {r}
  /\ IF runs[r] # None /\ ValidTransition(FALSE, runs[r].status, "in_progress")
     THEN SetStatus(r, "in_progress") ELSE UNCHANGED runs
  /\ UNCHANGED <<reservation, queue, placed, call>>

EndRun(r) ==
  /\ runs[r] # None /\ runs[r].status = "in_progress"
  /\ \E end \in {"completed", "failed", "stopped"} : SetStatus(r, end)
  /\ UNCHANGED <<reservation, queues, call>>

(* tasks.dequeue and tasks.stop take the run out of the queue. *)
DequeueRun(r) ==
  /\ UsersAct /\ r \in queue /\ runs[r] # None /\ runs[r].status = "queued"
  /\ queue' = queue \ {r} /\ SetStatus(r, "created")
  /\ UNCHANGED <<reservation, popped, placed, call>>

StopRun(r) ==
  /\ UsersAct /\ runs[r] # None /\ runs[r].status \in {"queued", "in_progress"}
  /\ queue' = queue \ {r} /\ SetStatus(r, "stopped")
  /\ placed' = placed \union {r}
  /\ UNCHANGED <<reservation, popped, call>>

Outside(r) == PopRun(r) \/ StartRun(r) \/ EndRun(r) \/ DequeueRun(r) \/ StopRun(r)

Next == \E a \in Attempts : Handle(a) \/ Outside(a)

Spec == Init /\ [][Next]_vars

-----------------------------------------------------------------------------
(* The variables hold values of their types, and a request that has passed  *)
(* the reservation knows it.                                                *)
TypeOK ==
  /\ reservation \in Reservation \union {None}
  /\ runs \in [Attempts -> Run \union {None}]
  /\ queue \subseteq Attempts /\ popped \subseteq Attempts
  /\ placed \subseteq Attempts
  /\ call \in [Attempts -> Call]
  /\ \A a \in Attempts :
       /\ call[a].res = None =>
            call[a].pc \in {"lookup", "reserve", "refused", "failed", "dead"}
       /\ call[a].pc \in {"change", "check", "push", "revert"} =>
            call[a].seen # None

(* A request that is answered with success was told of a run that has been  *)
(* put into the queue, by whichever of the requests, "enqueued" being true  *)
(* in every such answer, unless a user has stopped it on its way there.     *)
EnqueuedIsReal ==
  \A a \in Attempts : At(a, "ok") => Id(a) \in placed

(* "The returned task ID is the only run-navigation ID"                     *)
(* (clearpipe-task-vertical-slice.evidence.md): the run that a request was  *)
(* told of is there.                                                        *)
AnsweredRunExists ==
  \A a \in Attempts : At(a, "ok") => runs[Id(a)] # None

(* The key as the abstract specification sees it. *)
Bound ==
  IF reservation = None THEN None
  ELSE [run |-> reservation.run, body |-> reservation.body]

Answer(a) ==
  IF At(a, "ok") THEN Id(a)
  ELSE IF call[a].pc \in {"refused", "failed"} THEN call[a].pc
  ELSE None

Promise == INSTANCE IdempotentStart
  WITH bound <- Bound, answer <- [a \in Attempts |-> Answer(a)]

(* However requests interleave, fail and die, the key is bound once and     *)
(* every answer is the one it is bound to.                                  *)
ImplementsIdempotentStart == Promise!Spec
=============================================================================
