------------------------------ MODULE Notifier -------------------------------
(***************************************************************************)
(* The notifications of the web application: the effect that turns         *)
(* messages into notifications (layout.effects.ts), the queue of actions   *)
(* (notifier-queue.service.ts), and the container and the notifications    *)
(* that animate them (webapp-common/angular-notifier), with the            *)
(* configuration of app.module.ts.                                         *)
(*                                                                         *)
(* The container handles one action of the queue at a time, and an action  *)
(* is over when the animation it waits for has finished.  What setTimeout  *)
(* postpones may come before or after that: in a page that is not visible  *)
(* timers are late.                                                        *)
(***************************************************************************)
EXTENDS Integers, Sequences, FiniteSets

CONSTANTS
  None,
  Stacking,      \* behaviour.stacking
  MaxMessages,   \* bound on the messages of a session
  Sessions       \* their kinds, in order, and a budget of clicks and of moves

VARIABLES
  message,       \* what the messages of the session are
  added, buffer, \* how many were added; the batch of addMessage
  queue, current,                    \* the queue service, and the action in progress
  notifications, elementShift,       \* the container
  timeouts,      \* what setTimeout is to do
  animations,    \* the animations somebody waits for
  autoHide,      \* the timer service of each notification
  pointer,       \* the notification under the mouse
  actionsClicked, dispatched,
  shown, hidden, dropped, early, tooLate,   \* history
  budget

show == <<notifications, elementShift, timeouts, animations>>
mouse == <<pointer, actionsClicked, early, tooLate>>
vars == <<message, added, buffer, queue, current, show, autoHide, mouse, dispatched, shown,
          hidden, dropped, budget>>

Note == 1..MaxMessages
Kind == [auto : BOOLEAN, suppress : BOOLEAN, action : BOOLEAN, height : Nat]
Action == [type : {"SHOW", "HIDE"}, id : Note]
Progress == [type : {"SHOW", "HIDE"}, id : Note, waits : {"ready", "show", "shift", "hide"}, on : Note]
Timer == [promise : {"none", "waiting", "resolved"}, running : BOOLEAN, stray : Nat]

ASSUME NotifierAssumption ==
  /\ Stacking \in Nat /\ Stacking >= 2 /\ MaxMessages \in Nat
  /\ None \notin Note \union Progress
  /\ \A s \in Sessions : s.message \in Seq(Kind) /\ Len(s.message) <= MaxMessages

On(list) == {list[i] : i \in DOMAIN list}
Spend(kind) == budget[kind] > 0 /\ budget' = [budget EXCEPT ![kind] = @ - 1]

TypeOK ==
  /\ message \in Seq(Kind) /\ Len(message) <= MaxMessages
  /\ added \in 0..Len(message) /\ buffer \in Seq(1..added)
  /\ queue \in Seq(Action) /\ current \in Progress \union {None}
  /\ notifications \in Seq(Note) /\ elementShift \in [Note -> Int]
  /\ \A t \in timeouts : t.do \in {"shift", "show"} /\ t.for \in Note
  /\ animations \subseteq [do : {"show", "hide", "shift"}, id : Note]
  /\ autoHide \in [Note -> Timer]
  /\ pointer \in Note \union {None}
  /\ actionsClicked \in [Note -> Nat] /\ dispatched \in [Note -> Nat]
  /\ {shown, dropped, early, tooLate} \subseteq SUBSET Note /\ hidden \in [Note -> Nat]

Init ==
  /\ \E s \in Sessions : message = s.message /\ budget = s.budget
  /\ added = 0 /\ buffer = <<>> /\ queue = <<>> /\ current = None
  /\ notifications = <<>> /\ elementShift = [n \in Note |-> 0]
  /\ timeouts = {} /\ animations = {}
  /\ autoHide = [n \in Note |-> [promise |-> "none", running |-> FALSE, stray |-> 0]]
  /\ pointer = None /\ actionsClicked = [n \in Note |-> 0] /\ dispatched = [n \in Note |-> 0]
  /\ shown = {} /\ hidden = [n \in Note |-> 0] /\ dropped = {} /\ early = {} /\ tooLate = {}

-----------------------------------------------------------------------------
(* The timer service: continue does not clear a timeout that still runs.    *)
Continue_Fresh(t) ==
  IF t.promise = "waiting" /\ ~t.running THEN t ELSE [t EXCEPT !.running = TRUE]

Continue(t) == [t EXCEPT !.running = TRUE, !.stray = IF t.running THEN @ + 1 ELSE @]
Start(t) == [Continue(t) EXCEPT !.promise = "waiting"]

Pause_Keep(t) == t

Pause(t) == [t EXCEPT !.running = FALSE]

(* The notifications older than the one at i, which make place for it, and  *)
(* a shift of some of them. *)
Older_Newest(list, i) == {list[j] : j \in 1..i}

Older(list, i) == {list[j] : j \in 1..i - 1}
Shifted(who, by) == [n \in Note |-> IF n \in who THEN elementShift[n] + by ELSE elementShift[n]]
Shift(who, by, id) == [do |-> "shift", for |-> id, who |-> who, by |-> by]
Show(id) == [do |-> "show", for |-> id, who |-> {}, by |-> 0]

(* hide of a notification: the timer stops, and the observer gets what has  *)
(* been clicked, by the click that is handled too. *)
Hide_ClickLost(id, running, timers) ==
  /\ animations' = running \union {[do |-> "hide", id |-> id]}
  /\ autoHide' = [timers EXCEPT ![id] = Pause(@)]
  /\ dispatched' = [dispatched EXCEPT ![id] = @ + actionsClicked[id]]
  /\ hidden' = [hidden EXCEPT ![id] = @ + 1]

Hide(id, running, timers) ==
  /\ animations' = running \union {[do |-> "hide", id |-> id]}
  /\ autoHide' = [timers EXCEPT ![id] = Pause(@)]
  /\ dispatched' = [dispatched EXCEPT ![id] = @ + actionsClicked'[id]]
  /\ hidden' = [hidden EXCEPT ![id] = @ + 1]

(* tryToRunNextAction on a queue, and the handler of the action it finds.   *)
(* To hide what is not there is over at once. *)
Pending(q, list) ==
  LET live == {i \in DOMAIN q : q[i].type = "SHOW" \/ q[i].id \in On(list)}
  IN IF live = {} THEN <<>>
     ELSE SubSeq(q, CHOOSE i \in live : \A j \in live : i <= j, Len(q))

Handle(q, list, running, timers) ==
  LET pending == Pending(q, list)
      a == Head(pending)
      at == CHOOSE i \in DOMAIN list : list[i] = a.id
  IN IF pending = <<>>
     THEN /\ queue' = <<>> /\ current' = None /\ notifications' = list
          /\ animations' = running /\ autoHide' = timers
          /\ UNCHANGED <<timeouts, dispatched, hidden>>
     ELSE /\ queue' = Tail(pending)
          /\ current' = [type |-> a.type, id |-> a.id, on |-> a.id,
                         waits |-> IF a.type = "SHOW" THEN "ready" ELSE "hide"]
          /\ IF a.type = "SHOW"
             THEN /\ notifications' = Append(list, a.id)
                  /\ animations' = running /\ autoHide' = timers
                  /\ UNCHANGED <<timeouts, dispatched, hidden>>
             ELSE /\ notifications' = list
                  /\ Hide(a.id, running, timers)
                  /\ timeouts' = timeouts \union
                       IF at = 1 THEN {}
                       ELSE {Shift(Older(list, at), -message[a.id].height, a.id)}

(* push *)
Push_AtOnce(actions, timers) == Handle(queue \o actions, notifications, animations, timers)

Push(actions, timers) ==
  IF current = None
  THEN Handle(queue \o actions, notifications, animations, timers)
  ELSE /\ queue' = queue \o actions /\ autoHide' = timers
       /\ UNCHANGED <<current, notifications, animations, timeouts, dispatched, hidden>>

HideAction_Component(id) == <<[type |-> "HIDE", id |-> None]>>

HideAction(id) == <<[type |-> "HIDE", id |-> id]>>
-----------------------------------------------------------------------------
(* bufferTime: of a batch with a message that suppresses, it alone is shown.*)
AddMessage ==
  /\ added < Len(message) /\ added' = added + 1
  /\ buffer' = Append(buffer, added')
  /\ UNCHANGED <<message, queue, current, show, autoHide, mouse, dispatched, shown, hidden,
                 dropped, budget>>

Batch ==
  LET s == {i \in DOMAIN buffer : message[buffer[i]].suppress}
  IN IF s = {} THEN buffer ELSE <<buffer[CHOOSE i \in s : \A j \in s : i <= j]>>

ShowMessages ==
  /\ buffer # <<>> /\ buffer' = <<>> /\ UNCHANGED mouse
  /\ Push([i \in DOMAIN Batch |-> [type |-> "SHOW", id |-> Batch[i]]], autoHide)
  /\ dropped' = dropped \union (On(buffer) \ On(Batch))
  /\ UNCHANGED <<message, added, elementShift, shown, budget>>

(* The component of the new notification is ready: it is shown at once, or  *)
(* when the older ones have made place for it, the oldest having left.      *)
TooMany_One(n) == n > Stacking + 1

TooMany(n) == n > Stacking

ReadyAlone_Unresolved ==
  /\ Len(notifications) = 1
  /\ current' = [current EXCEPT !.waits = "shift"]
  /\ animations' = animations \union {[do |-> "show", id |-> current.id]}
  /\ shown' = shown \union {current.id}
  /\ UNCHANGED <<elementShift, timeouts, autoHide, dispatched, hidden>>

ReadyAlone ==
  /\ Len(notifications) = 1
  /\ current' = [current EXCEPT !.waits = "show"]
  /\ animations' = animations \union {[do |-> "show", id |-> current.id]}
  /\ shown' = shown \union {current.id}
  /\ UNCHANGED <<elementShift, timeouts, autoHide, dispatched, hidden>>

ReadyFull ==
  LET n == Len(notifications)
      oldest == notifications[1]
  IN /\ n > 1 /\ TooMany(n)
     /\ current' = [current EXCEPT !.waits = "hide", !.on = oldest]
     /\ Hide(oldest, animations, autoHide)
     /\ timeouts' = timeouts \union
          {Shift(Older(notifications, n) \ {oldest}, message[current.id].height, current.id),
           Show(current.id)}
     /\ UNCHANGED <<elementShift, shown>>

ReadyStacked ==
  LET n == Len(notifications)
  IN /\ n > 1 /\ ~TooMany(n)
     /\ current' = [current EXCEPT !.waits = "shift"]
     /\ elementShift' = Shifted(Older(notifications, n), message[current.id].height)
     /\ animations' = animations \union {[do |-> "shift", id |-> current.id]}
     /\ timeouts' = timeouts \union {Show(current.id)}
     /\ UNCHANGED <<autoHide, dispatched, hidden, shown>>

NotificationReady ==
  /\ current # None /\ current.waits = "ready" /\ UNCHANGED mouse
  /\ ReadyAlone \/ ReadyFull \/ ReadyStacked
  /\ UNCHANGED <<message, added, buffer, queue, notifications, dropped, budget>>

(* What setTimeout postponed.  A notification that has been removed since   *)
(* is still animated, and cannot be seen. *)
TimeoutFires ==
  \E t \in timeouts :
    /\ timeouts' = timeouts \ {t}
    /\ IF t.do = "shift"
       THEN elementShift' = Shifted(t.who, t.by) /\ UNCHANGED <<animations, shown>>
       ELSE /\ animations' = animations \union {[do |-> "show", id |-> t.for]}
            /\ shown' = shown \union ({t.for} \intersect On(notifications))
            /\ UNCHANGED elementShift
    /\ UNCHANGED <<message, added, buffer, queue, current, notifications, autoHide, mouse,
                   dispatched, hidden, dropped, budget>>

(* An animation finishes: the action that waits for it is over, what it hid *)
(* is removed, and the queue continues. *)
ShowEnds(id, running) ==
  LET timers == [autoHide EXCEPT ![id] = IF message[id].auto THEN Start(@) ELSE @]
  IN /\ UNCHANGED pointer
     /\ IF current # None /\ current.waits = "show" /\ current.id = id
        THEN Handle(queue, notifications, running, timers)
        ELSE /\ animations' = running /\ autoHide' = timers
             /\ UNCHANGED <<queue, current, notifications, timeouts, dispatched, hidden>>

Without(list, id) ==
  LET at == CHOOSE i \in DOMAIN list : list[i] = id
  IN [i \in 1..Len(list) - 1 |-> list[IF i < at THEN i ELSE i + 1]]

HideEnds(id, running) ==
  /\ Handle(queue, Without(notifications, id), running, autoHide)
  /\ pointer' = IF pointer = id THEN None ELSE pointer

ShiftEnds(running) ==
  /\ Handle(queue, notifications, running, autoHide)
  /\ UNCHANGED pointer

AnimationEnds ==
  /\ UNCHANGED <<actionsClicked, early, tooLate>>
  /\ \E a \in animations :
       \/ a.do = "show" /\ ShowEnds(a.id, animations \ {a})
       \/ a.do = "hide" /\ HideEnds(a.id, animations \ {a})
       \/ a.do = "shift" /\ ShiftEnds(animations \ {a})
  /\ UNCHANGED <<message, added, buffer, elementShift, shown, dropped, budget>>

(* A timeout of a timer: only the first one resolves the promise. *)
AutoHideEnds ==
  /\ UNCHANGED mouse
  /\ \E n \in Note :
       /\ autoHide[n].running \/ autoHide[n].stray > 0
       /\ \E t \in {[autoHide[n] EXCEPT !.running = FALSE],
                    [autoHide[n] EXCEPT !.stray = @ - 1]} :
            /\ t.stray >= 0 /\ t # autoHide[n]
            /\ IF t.promise = "waiting"
               THEN Push(HideAction(n), [autoHide EXCEPT ![n] = [t EXCEPT !.promise = "resolved"]])
               ELSE /\ autoHide' = [autoHide EXCEPT ![n] = t]
                    /\ UNCHANGED <<queue, current, notifications, timeouts, animations,
                                   dispatched, hidden>>
  /\ UNCHANGED <<message, added, buffer, elementShift, shown, dropped, budget>>

-----------------------------------------------------------------------------
(* The user.  The mouse leaves a notification before it is over another.    *)
Visible_Rendered == On(notifications)

Visible == On(notifications) \intersect shown

MouseMoves ==
  /\ Spend("move")
  /\ \E n \in (Visible \union {None}) \ {pointer} :
       /\ pointer' = n
       /\ autoHide' = [m \in Note |->
            IF m = pointer /\ message[m].auto THEN Continue(autoHide[m])
            ELSE IF m = n /\ message[m].auto THEN Pause(autoHide[m])
            ELSE autoHide[m]]
       /\ early' = IF n # None /\ autoHide[n].promise = "none" THEN early \union {n} ELSE early
  /\ UNCHANGED <<message, added, buffer, queue, current, show, actionsClicked, tooLate,
                 dispatched, shown, hidden, dropped>>

ClickDismiss ==
  /\ Spend("click") /\ UNCHANGED mouse
  /\ \E n \in Visible : Push(HideAction(n), autoHide)
  /\ UNCHANGED <<message, added, buffer, elementShift, shown, dropped>>

ActionClick ==
  /\ Spend("click")
  /\ \E n \in Visible :
       /\ message[n].action
       /\ actionsClicked' = [actionsClicked EXCEPT ![n] = @ + 1]
       /\ tooLate' = IF hidden[n] > 0 THEN tooLate \union {n} ELSE tooLate
       /\ Push(HideAction(n), autoHide)
  /\ UNCHANGED <<message, added, buffer, elementShift, pointer, early, shown, dropped>>
Next ==
  \/ AddMessage \/ ShowMessages \/ NotificationReady \/ TimeoutFires \/ AnimationEnds
  \/ AutoHideEnds \/ MouseMoves \/ ClickDismiss \/ ActionClick

(* The browser goes on: timers fire, animations finish, views are rendered. *)
Fairness ==
  /\ WF_vars(ShowMessages) /\ WF_vars(NotificationReady) /\ WF_vars(TimeoutFires)
  /\ WF_vars(AnimationEnds) /\ WF_vars(AutoHideEnds)

Spec == Init /\ [][Next]_vars /\ Fairness

-----------------------------------------------------------------------------
(* One action at a time: nothing waits while nothing is in progress, a      *)
(* notification is hidden, and its observer answered, once, however often   *)
(* it is dismissed, times out or has to make place, and one that is hidden  *)
(* and still in the list is what the action in progress waits for           *)
(* (tryToRunNextAction, continue, handleHideAction).                        *)
ActionsAreSerialized ==
  /\ current = None => queue = <<>>
  /\ \A n \in Note :
       /\ hidden[n] <= 1
       /\ hidden[n] = 1 /\ n \in On(notifications) =>
            current # None /\ current.waits = "hide" /\ current.on = n

(* There is never more than one notification too many, and only while it    *)
(* takes the place of the oldest (continueHandleShowAction).                *)
StackIsBounded ==
  /\ Len(notifications) <= Stacking + 1
  /\ Len(notifications) > Stacking =>
       current # None /\ current.type = "SHOW" /\ current.waits \in {"ready", "hide"}

(* When everything has come to rest, each notification is below exactly the *)
(* newer ones, whatever was hidden or added while shifts were postponed     *)
(* (shiftNotifications, its three callers).                                 *)
Below(i) ==
  LET height[j \in 0..Len(notifications)] ==
        IF j <= i THEN 0 ELSE height[j - 1] + message[notifications[j]].height
  IN height[Len(notifications)]

StackHasNoGaps ==
  current = None /\ timeouts = {} =>
    \A i \in DOMAIN notifications : elementShift[notifications[i]] = Below(i)

(* A notification does not time out under the mouse, unless the mouse was   *)
(* on it before its timer started: pausing then has nothing to pause, and   *)
(* leaving starts a second timeout (onNotificationMouseover, start,         *)
(* continue).                                                               *)
HoveredStays ==
  [][ \A n \in Note :
        autoHide[n].promise = "waiting" /\ autoHide'[n].promise = "resolved" =>
          pointer # n \/ n \in early ]_vars

(* A notification was hidden before it could be seen. *)
HiddenUnseen(n) == hidden[n] > 0 /\ n \notin shown

(* A message can be seen in the end, unless one of its batch suppresses it, *)
(* or it was hidden while its show() was still postponed: an action is over *)
(* without waiting for that, and what comes next may hide and remove the    *)
(* notification before (addMessage, continueHandleShowAction).              *)
MessagesAreShown ==
  \A n \in Note : n \in On(buffer) ~> n \in shown \union dropped \/ HiddenUnseen(n)

(* It takes a full stack of newer notifications to hide one unseen: nobody  *)
(* can dismiss it, and its timer does not run (onClickDismiss,              *)
(* startAutoHideTimer, continueHandleShowAction).                           *)
HiddenUnseenForPlace ==
  [][ \A n \in Note : hidden'[n] > hidden[n] /\ n \notin shown =>
        n = notifications[1] /\ Len(notifications) > Stacking ]_vars

(* A notification that hides by itself leaves the list, or is under the     *)
(* mouse (startAutoHideTimer, pause, continue, handleHideAction).           *)
NotificationsEnd ==
  \A n \in Note :
    n \in Visible /\ message[n].auto ~> n \notin On(notifications) \/ pointer = n

(* What is clicked on a notification is dispatched, unless it was already   *)
(* being hidden (onActionClick, hide).                                      *)
ClicksAreDispatched ==
  \A n \in Note :
    actionsClicked[n] > 0 ~> dispatched[n] = actionsClicked[n] \/ n \in tooLate
=============================================================================
