--------------------------- MODULE IdempotentStart ---------------------------
(***************************************************************************)
(* What an idempotency key promises of the start requests that carry it:   *)
(* it is bound once to a request and a run, every request that is answered *)
(* is the one it is bound to and is told that run, and any other request   *)
(* is refused or fails.  ClearPipeStart implements it.                     *)
(***************************************************************************)
CONSTANTS
  Attempts,  \* the start requests with the key, and the run each would create
  Body,      \* Body[a]: what a asks for
  None

VARIABLES bound, answer

Init ==
  /\ bound = None
  /\ answer = [a \in Attempts |-> None]

Bind(a) ==
  /\ bound = None
  /\ \E run \in Attempts : bound' = [run |-> run, body |-> Body[a]]
  /\ UNCHANGED answer

Reply(a, r) ==
  /\ answer[a] = None
  /\ answer' = [answer EXCEPT ![a] = r]
  /\ UNCHANGED bound

Succeed(a) == bound # None /\ bound.body = Body[a] /\ Reply(a, bound.run)

Refuse(a) == bound # None /\ bound.body # Body[a] /\ Reply(a, "refused")

Fail(a) == Reply(a, "failed")

Next == \E a \in Attempts : Bind(a) \/ Succeed(a) \/ Refuse(a) \/ Fail(a)

Spec == Init /\ [][Next]_<<bound, answer>>
=============================================================================
