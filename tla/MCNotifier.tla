------------------------------ MODULE MCNotifier ------------------------------
(* An instance of Notifier for TLC. *)
EXTENDS Notifier

Info(h) == [auto |-> TRUE, suppress |-> FALSE, action |-> FALSE, height |-> h]
Offer(h) == [Info(h) EXCEPT !.action = TRUE]
Error == [auto |-> FALSE, suppress |-> FALSE, action |-> FALSE, height |-> 1]
Forbidden == [Error EXCEPT !.suppress = TRUE]

Session(m, c, v) == [message |-> m, budget |-> [click |-> c, move |-> v]]

(* Bursts that fill the stack and more, with few clicks, or few messages    *)
(* with more of the user.                                                   *)
AnySession ==
  { Session(<<Error, Info(2), Info(1), Error>>, 1, 0),
    Session(<<Info(1), Error, Forbidden>>, 0, 1),
    Session(<<Offer(2), Info(1), Error>>, 1, 1),
    Session(<<Offer(1), Info(2)>>, 2, 1),
    Session(<<Offer(1)>>, 2, 3) }
=============================================================================
