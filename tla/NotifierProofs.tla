--------------------------- MODULE NotifierProofs ----------------------------
(***************************************************************************)
(* What is proved of the notifications, for any limit of the stack, any    *)
(* messages, of any heights and in any number, and any user:               *)
(*   - Inv: one action at a time is handled, each notification is hidden   *)
(*     once, and never more than one is too many;                          *)
(*   - PlacesInv: how far each notification is from its place is what the  *)
(*     postponed shifts will move it, so that at rest there is no gap;     *)
(*   - OnceInv, MouseInv, SilentInv: a notification is shown once, and its *)
(*     timer starts then, so that none times out under the mouse;          *)
(*   - SeenInv: what asks for a notification to be hidden has shown it     *)
(*     first, unless it makes place for a newer one;                       *)
(*   - TypesInv: the types of the rest.                                    *)
(***************************************************************************)
EXTENDS Notifier, Induction, FiniteSetTheorems, SequenceTheorems

(* The first of a set of positions. *)
LEMMA FirstExists ==
  ASSUME NEW n \in Nat, NEW S \in SUBSET (1..n), S # {}
  PROVE  LET first == CHOOSE i \in S : \A j \in S : i <= j
         IN  first \in S
<1> DEFINE T == {1..i : i \in S}
<1>1. IsWellFoundedOn(StrictSubsetOrdering(1..n), FiniteSubsetsOf(1..n))
  BY FS_StrictSubsetOrderingWellFounded
<1>2. T \subseteq FiniteSubsetsOf(1..n) /\ T # {}
  <2>1. ASSUME NEW i \in S PROVE 1..i \in FiniteSubsetsOf(1..n)
    BY FS_Interval DEF FiniteSubsetsOf
  <2> QED BY <2>1
<1>3. PICK x \in T : \A y \in T : <<y, x>> \notin StrictSubsetOrdering(1..n)
  BY <1>1, <1>2, WFMin, Zenon
<1>4. PICK i \in S : x = 1..i
  BY <1>3
<1>5. \A j \in S : i <= j
  <2> SUFFICES ASSUME NEW j \in S, j < i PROVE FALSE
    OBVIOUS
  <2>1. 1..j \in T /\ 1..j \subseteq 1..i /\ 1..j # 1..i /\ 1..j \subseteq 1..n /\ 1..i \subseteq 1..n
    OBVIOUS
  <2> QED BY <1>3, <1>4, <2>1 DEF StrictSubsetOrdering
<1> QED BY <1>5

-----------------------------------------------------------------------------
(* The invariant.  A notification comes from the batch into the queue, from *)
(* there into the list, and is hidden there: it is in one of these only,    *)
(* and what somebody waits for is what the action in progress waits for.    *)
Distinct(s) == \A i, j \in DOMAIN s : s[i] = s[j] => i = j

Shows(q) == {i \in DOMAIN q : q[i].type = "SHOW"}
ToShow(q) == {q[i].id : i \in Shows(q)}
WasHidden == {n \in Note : hidden[n] = 1}
Held == On(notifications) \union ToShow(queue) \union WasHidden

QueueOK(q, list) ==
  /\ q \in Seq(Action)
  /\ \A i, j \in Shows(q) : q[i].id = q[j].id => i = j
  /\ ToShow(q) \intersect (On(list) \union WasHidden) = {}

ListOK(list) == list \in Seq(Note) /\ Distinct(list)

HiddenOK == hidden \in [Note -> {0, 1}]

AnimationsOK ==
  \A a \in animations :
    /\ a = [do |-> a.do, id |-> a.id] /\ a.do \in {"show", "hide", "shift"}
    /\ a.do = "hide" =>
         /\ current # None /\ current.waits = "hide" /\ current.on = a.id
         /\ a.id \in On(notifications) /\ hidden[a.id] = 1
    /\ a.do = "shift" => current # None /\ current.waits = "shift" /\ current.id = a.id

HandlerOK ==
  /\ QueueOK(queue, notifications) /\ ListOK(notifications) /\ HiddenOK /\ AnimationsOK
  /\ current \in Progress \union {None}
  /\ ActionsAreSerialized /\ StackIsBounded

BatchOK ==
  /\ message \in Seq(Kind) /\ Len(message) <= MaxMessages /\ added \in 0..Len(message)
  /\ buffer \in Seq(1..added) /\ Distinct(buffer)
  /\ Held \subseteq (1..added) \ On(buffer)

Inv == HandlerOK /\ BatchOK

-----------------------------------------------------------------------------
(* The actions that are left when those with nothing to hide are skipped.   *)
LEMMA PendingIsTail ==
  ASSUME NEW q \in Seq(Action), NEW list \in Seq(Note), Pending(q, list) # <<>>
  PROVE  \E k \in 1..Len(q) :
           /\ q[k].type = "SHOW" \/ q[k].id \in On(list)
           /\ Head(Pending(q, list)) = q[k]
           /\ Tail(Pending(q, list)) \in Seq(Action)
           /\ Len(Tail(Pending(q, list))) = Len(q) - k
           /\ \A i \in 1..Len(q) - k : Tail(Pending(q, list))[i] = q[k + i]
<1> DEFINE live == {i \in DOMAIN q : q[i].type = "SHOW" \/ q[i].id \in On(list)}
           k == CHOOSE i \in live : \A j \in live : i <= j
<1>1. live # {} /\ Pending(q, list) = SubSeq(q, k, Len(q))
  BY DEF Pending
<1>2. DOMAIN q = 1..Len(q) /\ Len(q) \in Nat
  BY LenProperties
<1>3. k \in live
  BY <1>1, <1>2, FirstExists
<1> HIDE DEF k
<1>4. k \in 1..Len(q) /\ (q[k].type = "SHOW" \/ q[k].id \in On(list))
  BY <1>2, <1>3
<1>5. Head(SubSeq(q, k, Len(q))) = q[k] /\ Tail(SubSeq(q, k, Len(q))) = SubSeq(q, k + 1, Len(q))
  BY <1>2, <1>4, HeadTailOfSubSeq
<1>6. /\ SubSeq(q, k + 1, Len(q)) \in Seq(Action)
      /\ Len(SubSeq(q, k + 1, Len(q))) = Len(q) - k
      /\ \A i \in 1..Len(q) - k : SubSeq(q, k + 1, Len(q))[i] = q[k + i]
  <2>1. \A i \in k + 1..Len(q) : q[i] \in Action
    BY <1>2, <1>4, ElementOfSeq
  <2>2. k + 1 \in Int /\ Len(q) \in Int
    BY <1>2, <1>4
  <2>3. /\ SubSeq(q, k + 1, Len(q)) \in Seq(Action)
        /\ Len(SubSeq(q, k + 1, Len(q))) = IF k + 1 <= Len(q) THEN Len(q) - (k + 1) + 1 ELSE 0
        /\ \A i \in 1..Len(q) - (k + 1) + 1 : SubSeq(q, k + 1, Len(q))[i] = q[k + 1 + i - 1]
    BY <2>1, <2>2, SubSeqProperties
  <2> QED BY <2>3, <1>2, <1>4
<1> QED BY <1>1, <1>4, <1>5, <1>6

(* A list without one of its members. *)
LEMMA WithoutProperties ==
  ASSUME NEW list \in Seq(Note), Distinct(list), NEW id \in On(list)
  PROVE  /\ ListOK(Without(list, id))
         /\ Len(Without(list, id)) = Len(list) - 1
         /\ On(Without(list, id)) \subseteq On(list) \ {id}
<1> DEFINE at == CHOOSE i \in DOMAIN list : list[i] = id
           e(i) == list[IF i < at THEN i ELSE i + 1]
           w == [i \in 1..Len(list) - 1 |-> e(i)]
<1>1. DOMAIN list = 1..Len(list) /\ Len(list) \in Nat
  BY LenProperties
<1>2. at \in 1..Len(list) /\ list[at] = id
  BY <1>1 DEF On
<1>3. Len(list) - 1 \in Nat
  BY <1>1, <1>2
<1> HIDE DEF at
<1>4. \A i \in 1..Len(list) - 1 : e(i) \in Note /\ e(i) \in On(list) \ {id}
  <2> SUFFICES ASSUME NEW i \in 1..Len(list) - 1 PROVE e(i) \in Note /\ e(i) \in On(list) \ {id}
    OBVIOUS
  <2> DEFINE k == IF i < at THEN i ELSE i + 1
  <2>1. k \in 1..Len(list) /\ k # at
    BY <1>1, <1>2
  <2>2. list[k] # id /\ list[k] \in On(list) /\ list[k] \in Note
    BY <1>1, <1>2, <2>1, ElementOfSeq DEF Distinct, On
  <2> QED BY <2>2
<1>5. w \in Seq(Note)
  BY <1>3, <1>4, IsASeq
<1>6. Len(w) = Len(list) - 1 /\ DOMAIN w = 1..Len(list) - 1
  BY <1>3, <1>5, LenProperties
<1>7. Distinct(w)
  BY <1>1, <1>2, <1>6 DEF Distinct
<1>8. Without(list, id) = w
  BY DEF Without, at
<1> HIDE DEF e
<1> QED BY <1>4, <1>5, <1>6, <1>7, <1>8 DEF ListOK, On

-----------------------------------------------------------------------------
(* The handler of the next action, when no notification of the list has     *)
(* been hidden and nothing but appearances is animated.                     *)
LEMMA HandleKeeps ==
  ASSUME NEW q, NEW list, NEW running, NEW timers,
         QueueOK(q, list), ListOK(list), Len(list) <= Stacking, HiddenOK,
         \A n \in On(list) : hidden[n] = 0,
         \A a \in running : a = [do |-> a.do, id |-> a.id] /\ a.do = "show",
         Handle(q, list, running, timers)
  PROVE  HandlerOK' /\ Held' \subseteq On(list) \union ToShow(q) \union WasHidden
<1> DEFINE pending == Pending(q, list)
<1>a. /\ q \in Seq(Action) /\ list \in Seq(Note) /\ Distinct(list)
      /\ DOMAIN q = 1..Len(q) /\ Len(q) \in Nat
      /\ DOMAIN list = 1..Len(list) /\ Len(list) \in Nat
  BY LenProperties DEF QueueOK, ListOK
<1>b. None \notin Progress /\ Stacking \in Nat /\ Stacking >= 2
  BY NotifierAssumption
<1>c. \A i \in DOMAIN q : q[i] \in Action
  BY <1>a, ElementOfSeq
<1>1. CASE pending = <<>>
  <2>1. /\ queue' = <<>> /\ current' = None /\ notifications' = list
        /\ animations' = running /\ hidden' = hidden
    BY <1>1 DEF Handle
  <2>2. QueueOK(queue, notifications)' /\ ToShow(queue)' = {}
    BY <2>1 DEF QueueOK, ToShow, Shows
  <2>3. AnimationsOK'
    BY <2>1 DEF AnimationsOK
  <2>4. ActionsAreSerialized'
    BY <2>1 DEF ActionsAreSerialized, HiddenOK
  <2>5. StackIsBounded'
    BY <2>1, <1>a, <1>b DEF StackIsBounded
  <2> QED BY <2>1, <2>2, <2>3, <2>4, <2>5 DEF HandlerOK, ListOK, HiddenOK, Held, WasHidden
<1>2. CASE pending # <<>>
  <2>1. PICK k \in 1..Len(q) :
           /\ q[k].type = "SHOW" \/ q[k].id \in On(list)
           /\ Head(pending) = q[k]
           /\ Tail(pending) \in Seq(Action)
           /\ Len(Tail(pending)) = Len(q) - k
           /\ \A i \in 1..Len(q) - k : Tail(pending)[i] = q[k + i]
    BY <1>a, <1>2, PendingIsTail
  <2> DEFINE id == q[k].id
  <2>2. q[k] \in Action /\ id \in Note /\ q[k].type \in {"SHOW", "HIDE"}
    BY <1>a, <1>c, <2>1 DEF Action
  <2>3. /\ queue' = Tail(pending)
        /\ current' = [type |-> q[k].type, id |-> id, on |-> id,
                       waits |-> IF q[k].type = "SHOW" THEN "ready" ELSE "hide"]
    BY <1>2, <2>1 DEF Handle
  <2>4. current' \in Progress /\ current' # None
    BY <1>b, <2>2, <2>3 DEF Progress
  <2>5. \A i \in Shows(queue)' : i \in 1..Len(q) - k /\ queue'[i] = q[k + i] /\ k + i \in Shows(q)
    <3>1. DOMAIN queue' = 1..Len(q) - k
      BY <2>1, <2>3, LenProperties
    <3> QED BY <1>a, <2>1, <2>3, <3>1 DEF Shows
  <2>6. /\ queue' \in Seq(Action) /\ ToShow(queue)' \subseteq ToShow(q)
        /\ \A i, j \in Shows(queue)' : queue'[i].id = queue'[j].id => i = j
    <3>1. ToShow(queue)' \subseteq ToShow(q)
      BY <2>5 DEF ToShow
    <3>2. ASSUME NEW i \in Shows(queue)', NEW j \in Shows(queue)', queue'[i].id = queue'[j].id
          PROVE  i = j
      <4>1. k + i = k + j /\ i \in Int /\ j \in Int /\ k \in Int
        BY <1>a, <2>5, <3>2 DEF QueueOK
      <4> QED BY <4>1
    <3> QED BY <2>1, <2>3, <3>1, <3>2
  <2>7. CASE q[k].type = "SHOW"
    <3>1. /\ notifications' = Append(list, id) /\ animations' = running /\ hidden' = hidden
          /\ current'.waits = "ready" /\ current'.type = "SHOW"
      BY <1>2, <2>1, <2>3, <2>7 DEF Handle
    <3>2. k \in Shows(q) /\ id \in ToShow(q) /\ id \notin On(list) /\ id \notin WasHidden
      BY <1>a, <2>7 DEF QueueOK, Shows, ToShow
    <3>3. /\ notifications' \in Seq(Note) /\ Len(notifications') = Len(list) + 1
          /\ \A i \in 1..Len(list) : notifications'[i] = list[i]
          /\ notifications'[Len(list) + 1] = id
          /\ DOMAIN notifications' = 1..Len(list) + 1
      BY <1>a, <2>2, <3>1, AppendProperties, LenProperties
    <3>4. On(notifications)' = On(list) \union {id}
      BY <1>a, <3>3 DEF On
    <3>5. Distinct(notifications)'
      <4> SUFFICES ASSUME NEW i \in 1..Len(list) + 1, NEW j \in 1..Len(list) + 1,
                          notifications'[i] = notifications'[j]
                   PROVE  i = j
        BY <3>3 DEF Distinct
      <4>1. \A m \in 1..Len(list) : list[m] # id
        BY <1>a, <3>2 DEF On
      <4> QED BY <1>a, <3>3, <4>1 DEF Distinct
    <3>6. QueueOK(queue, notifications)'
      <4>1. id \notin ToShow(queue)'
        <5> SUFFICES ASSUME NEW i \in Shows(queue)', queue'[i].id = id PROVE FALSE
          BY DEF ToShow
        <5>1. k + i = k /\ i \in 1..Len(q) - k
          BY <2>5, <3>2 DEF QueueOK
        <5> QED BY <1>a, <5>1
      <4>2. ToShow(queue)' \intersect (On(notifications)' \union WasHidden') = {}
        BY <2>6, <3>1, <3>4, <4>1 DEF QueueOK, WasHidden
      <4> QED BY <2>6, <4>2 DEF QueueOK
    <3>7. AnimationsOK'
      BY <3>1 DEF AnimationsOK
    <3>8. ActionsAreSerialized'
      <4> SUFFICES ASSUME NEW n \in Note
                   PROVE  hidden[n] <= 1 /\ ~(hidden[n] = 1 /\ n \in On(list) \union {id})
        BY <2>4, <3>1, <3>4 DEF ActionsAreSerialized
      <4> QED BY <3>2 DEF HiddenOK, WasHidden
    <3>9. StackIsBounded'
      BY <1>a, <1>b, <2>4, <3>1, <3>3 DEF StackIsBounded
    <3>10. Held' \subseteq On(list) \union ToShow(q) \union WasHidden
      BY <2>6, <3>1, <3>2, <3>4 DEF Held, WasHidden
    <3> QED BY <2>4, <3>1, <3>3, <3>5, <3>6, <3>7, <3>8, <3>9, <3>10
            DEF HandlerOK, ListOK, HiddenOK
  <2>8. CASE q[k].type # "SHOW"
    <3>1. id \in On(list) /\ hidden[id] = 0 /\ current'.waits = "hide" /\ current'.on = id
      BY <2>1, <2>3, <2>8
    <3>2. notifications' = list /\ Hide(id, running, timers)
      BY <1>2, <2>1, <2>8 DEF Handle
    <3>3. /\ animations' = running \union {[do |-> "hide", id |-> id]}
          /\ hidden' = [hidden EXCEPT ![id] = 1]
      BY <2>2, <3>1, <3>2 DEF Hide, HiddenOK
    <3>4. HiddenOK' /\ WasHidden' = WasHidden \union {id}
      BY <2>2, <3>3 DEF HiddenOK, WasHidden
    <3>5. QueueOK(queue, notifications)'
      BY <2>6, <3>1, <3>2, <3>4 DEF QueueOK
    <3>6. AnimationsOK'
      <4>1. hidden'[id] = 1
        BY <2>2, <3>3 DEF HiddenOK
      <4> QED BY <2>2, <2>4, <3>1, <3>2, <3>3, <4>1 DEF AnimationsOK
    <3>7. ActionsAreSerialized'
      BY <2>2, <2>4, <3>1, <3>2, <3>3, <3>4 DEF ActionsAreSerialized, HiddenOK
    <3>8. StackIsBounded'
      BY <1>a, <1>b, <3>2 DEF StackIsBounded
    <3>9. Held' \subseteq On(list) \union ToShow(q) \union WasHidden
      BY <2>6, <3>1, <3>2, <3>4 DEF Held
    <3> QED BY <2>4, <3>2, <3>4, <3>5, <3>6, <3>7, <3>8, <3>9 DEF HandlerOK, ListOK
  <2> QED BY <2>7, <2>8
<1> QED BY <1>1, <1>2

(* What is pushed joins the queue. *)
LEMMA JoinedQueue ==
  ASSUME NEW q, NEW r, NEW list,
         QueueOK(q, list), QueueOK(r, list), ToShow(q) \intersect ToShow(r) = {}
  PROVE  QueueOK(q \o r, list) /\ ToShow(q \o r) = ToShow(q) \union ToShow(r)
<1>1. /\ q \in Seq(Action) /\ r \in Seq(Action)
      /\ DOMAIN q = 1..Len(q) /\ Len(q) \in Nat /\ DOMAIN r = 1..Len(r) /\ Len(r) \in Nat
  BY LenProperties DEF QueueOK
<1>2. /\ q \o r \in Seq(Action) /\ DOMAIN (q \o r) = 1..Len(q) + Len(r)
      /\ \A i \in 1..Len(q) + Len(r) : (q \o r)[i] = IF i <= Len(q) THEN q[i] ELSE r[i - Len(q)]
  BY <1>1, ConcatProperties, LenProperties
<1>3. \A i \in Shows(q \o r) :
        \/ i \in Shows(q) /\ (q \o r)[i] = q[i] /\ i <= Len(q)
        \/ i - Len(q) \in Shows(r) /\ (q \o r)[i] = r[i - Len(q)] /\ i > Len(q) /\ i \in Nat
  BY <1>1, <1>2 DEF Shows
<1>4. ToShow(q \o r) \subseteq ToShow(q) \union ToShow(r)
  BY <1>3 DEF ToShow
<1>5. ToShow(q) \subseteq ToShow(q \o r)
  <2>1. \A i \in Shows(q) : i \in Shows(q \o r) /\ (q \o r)[i] = q[i]
    BY <1>1, <1>2 DEF Shows
  <2> QED BY <2>1 DEF ToShow
<1>6. ToShow(r) \subseteq ToShow(q \o r)
  <2>1. \A i \in Shows(r) : Len(q) + i \in Shows(q \o r) /\ (q \o r)[Len(q) + i] = r[i]
    BY <1>1, <1>2 DEF Shows
  <2> QED BY <2>1 DEF ToShow
<1>7. ASSUME NEW i \in Shows(q \o r), NEW j \in Shows(q \o r), (q \o r)[i].id = (q \o r)[j].id
      PROVE  i = j
  <2>1. CASE i \in Shows(q) /\ (q \o r)[i] = q[i]
    <3>1. q[i].id \in ToShow(q)
      BY <2>1 DEF ToShow
    <3>2. j \in Shows(q) /\ (q \o r)[j] = q[j]
      BY <1>3, <1>7, <2>1, <3>1 DEF ToShow
    <3> QED BY <1>7, <2>1, <3>2 DEF QueueOK
  <2>2. CASE i - Len(q) \in Shows(r) /\ (q \o r)[i] = r[i - Len(q)] /\ i \in Nat
    <3>1. r[i - Len(q)].id \in ToShow(r)
      BY <2>2 DEF ToShow
    <3>2. j - Len(q) \in Shows(r) /\ (q \o r)[j] = r[j - Len(q)] /\ j \in Nat
      BY <1>3, <1>7, <2>2, <3>1 DEF ToShow
    <3>3. i - Len(q) = j - Len(q)
      BY <1>7, <2>2, <3>2 DEF QueueOK
    <3> QED BY <1>1, <2>2, <3>2, <3>3
  <2> QED BY <1>3, <2>1, <2>2
<1> QED BY <1>2, <1>4, <1>5, <1>6, <1>7 DEF QueueOK

(* push *)
LEMMA PushKeeps ==
  ASSUME HandlerOK, NEW actions, NEW timers,
         QueueOK(actions, notifications), ToShow(queue) \intersect ToShow(actions) = {},
         Push(actions, timers)
  PROVE  HandlerOK' /\ Held' \subseteq Held \union ToShow(actions)
<1> DEFINE q == queue \o actions
<1>1. QueueOK(q, notifications) /\ ToShow(q) = ToShow(queue) \union ToShow(actions)
  BY JoinedQueue DEF HandlerOK
<1>2. CASE current = None
  <2>1. Handle(q, notifications, animations, timers)
    BY <1>2 DEF Push
  <2>2. Len(notifications) <= Stacking
    <3>1. Len(notifications) \in Nat /\ Stacking \in Nat
      BY NotifierAssumption, LenProperties DEF HandlerOK, ListOK
    <3> QED BY <1>2, <3>1 DEF HandlerOK, StackIsBounded
  <2>3. \A n \in On(notifications) : hidden[n] = 0
    <3> SUFFICES ASSUME NEW i \in DOMAIN notifications PROVE hidden[notifications[i]] = 0
      BY DEF On
    <3>1. notifications[i] \in Note /\ notifications[i] \in On(notifications)
      BY ElementOfSeq, LenProperties DEF HandlerOK, ListOK, On
    <3> QED BY <1>2, <3>1 DEF HandlerOK, ActionsAreSerialized, HiddenOK
  <2>4. \A a \in animations : a = [do |-> a.do, id |-> a.id] /\ a.do = "show"
    BY <1>2 DEF HandlerOK, AnimationsOK
  <2>5. HandlerOK' /\ Held' \subseteq On(notifications) \union ToShow(q) \union WasHidden
    BY <1>1, <2>1, <2>2, <2>3, <2>4, HandleKeeps DEF HandlerOK
  <2> QED BY <1>1, <2>5 DEF Held
<1>3. CASE current # None
  <2>1. queue' = q /\ UNCHANGED <<current, notifications, animations, hidden>>
    BY <1>3 DEF Push
  <2>2. QueueOK(queue, notifications)' /\ WasHidden' = WasHidden
    BY <1>1, <2>1 DEF QueueOK, ToShow, Shows, WasHidden
  <2>3. AnimationsOK' /\ StackIsBounded' /\ ActionsAreSerialized'
    BY <1>3, <2>1 DEF HandlerOK, AnimationsOK, StackIsBounded, ActionsAreSerialized
  <2> QED BY <1>1, <2>1, <2>2, <2>3 DEF HandlerOK, ListOK, HiddenOK, Held
<1> QED BY <1>2, <1>3

(* To dismiss a notification shows none. *)
LEMMA DismissShowsNone ==
  ASSUME NEW n \in Note
  PROVE  QueueOK(HideAction(n), notifications) /\ ToShow(HideAction(n)) = {}
<1>1. HideAction(n) \in Seq(Action) /\ Shows(HideAction(n)) = {}
  <2>1. [type |-> "HIDE", id |-> n] \in Action
    BY DEF Action
  <2> QED BY <2>1 DEF HideAction, Shows
<1> QED BY <1>1 DEF QueueOK, ToShow

LEMMA DismissKeeps ==
  ASSUME HandlerOK, NEW n \in Note, NEW timers, Push(HideAction(n), timers)
  PROVE  HandlerOK' /\ Held' \subseteq Held
BY DismissShowsNone, PushKeeps

-----------------------------------------------------------------------------
(* The actions. *)
LEMMA BatchStays ==
  ASSUME BatchOK, UNCHANGED <<message, added, buffer>>, Held' \subseteq Held
  PROVE  BatchOK'
BY DEF BatchOK, Distinct, On

LEMMA AddMessageKeeps == Inv /\ AddMessage => Inv'
<1> SUFFICES ASSUME Inv, AddMessage PROVE Inv'
  OBVIOUS
<1>1. /\ added < Len(message) /\ added' = added + 1 /\ buffer' = Append(buffer, added + 1)
      /\ UNCHANGED <<message, queue, current, notifications, animations, hidden>>
  BY DEF AddMessage, show
<1>2. HandlerOK' /\ Held' = Held
  BY <1>1 DEF Inv, HandlerOK, QueueOK, ListOK, HiddenOK, AnimationsOK, ActionsAreSerialized,
              StackIsBounded, Held, WasHidden, ToShow, Shows, On, Distinct
<1>3. /\ message \in Seq(Kind) /\ Len(message) \in Nat /\ added \in Nat /\ added' \in 0..Len(message)
      /\ 1..added \subseteq 1..added' /\ added' \in 1..added'
  BY <1>1, LenProperties DEF Inv, BatchOK
<1>4. buffer \in Seq(1..added') /\ DOMAIN buffer = 1..Len(buffer) /\ Len(buffer) \in Nat
  BY <1>3, SeqMonotonic, LenProperties DEF Inv, BatchOK
<1>5. /\ buffer' \in Seq(1..added') /\ DOMAIN buffer' = 1..Len(buffer) + 1
      /\ \A i \in 1..Len(buffer) : buffer'[i] = buffer[i] /\ buffer'[Len(buffer) + 1] = added'
  BY <1>1, <1>3, <1>4, AppendProperties, LenProperties
<1>6. \A i \in 1..Len(buffer) : buffer[i] \in 1..added
  BY <1>4, ElementOfSeq DEF Inv, BatchOK
<1>7. Distinct(buffer')
  <2> SUFFICES ASSUME NEW i \in 1..Len(buffer) + 1, NEW k \in 1..Len(buffer) + 1, buffer'[i] = buffer'[k]
               PROVE  i = k
    BY <1>5 DEF Distinct
  <2>1. \A m \in 1..Len(buffer) : buffer[m] # added'
    BY <1>1, <1>3, <1>6
  <2>2. buffer'[Len(buffer) + 1] = added'
    BY <1>1, <1>3, <1>4, AppendProperties
  <2>3. \A m, l \in 1..Len(buffer) : buffer[m] = buffer[l] => m = l
    BY <1>4 DEF Distinct, Inv, BatchOK
  <2>4. \A m \in 1..Len(buffer) : buffer'[m] = buffer[m]
    BY <1>5
  <2>5. \A m \in 1..Len(buffer) + 1 : m \in 1..Len(buffer) \/ m = Len(buffer) + 1
    BY <1>4
  <2>6. CASE i \in 1..Len(buffer) /\ k \in 1..Len(buffer)
    BY <2>3, <2>4, <2>6
  <2>7. CASE i = Len(buffer) + 1 \/ k = Len(buffer) + 1
    BY <2>1, <2>2, <2>4, <2>5, <2>7
  <2> QED BY <2>5, <2>6, <2>7
<1>8. On(buffer') \subseteq On(buffer) \union {added'}
  <2>1. buffer'[Len(buffer) + 1] = added'
    BY <1>1, <1>3, <1>4, AppendProperties
  <2> QED BY <1>4, <1>5, <2>1 DEF On
<1>9. Held \subseteq (1..added') \ On(buffer')
  <2>1. Held \subseteq (1..added) \ On(buffer) /\ added' \notin 1..added
    BY <1>1, <1>3 DEF Inv, BatchOK
  <2> QED BY <1>3, <1>8, <2>1
<1> QED BY <1>1, <1>2, <1>3, <1>5, <1>7, <1>9 DEF Inv, BatchOK

(* What is shown of a batch. *)
ShowActions == [i \in DOMAIN Batch |-> [type |-> "SHOW", id |-> Batch[i]]]

LEMMA BatchShows ==
  ASSUME Inv
  PROVE  /\ QueueOK(ShowActions, notifications) /\ ToShow(queue) \intersect ToShow(ShowActions) = {}
         /\ ToShow(ShowActions) \subseteq 1..added
<1> DEFINE actions == ShowActions
           s == {i \in DOMAIN buffer : message[buffer[i]].suppress}
<1>1. /\ Len(message) \in Nat /\ Len(message) <= MaxMessages /\ MaxMessages \in Nat
      /\ added \in Nat /\ 1..added \subseteq Note
  BY NotifierAssumption, LenProperties DEF Inv, BatchOK, Note
<1>2. buffer \in Seq(1..added) /\ Distinct(buffer) /\ DOMAIN buffer = 1..Len(buffer) /\ Len(buffer) \in Nat
  BY LenProperties DEF Inv, BatchOK
<1>3. Batch \in Seq(1..added) /\ Distinct(Batch) /\ On(Batch) \subseteq On(buffer)
  <2>1. CASE s = {}
    BY <1>2, <2>1 DEF Batch
  <2>2. CASE s # {}
    <3> DEFINE first == CHOOSE i \in s : \A k \in s : i <= k
    <3>1. first \in s
      BY <1>2, <2>2, FirstExists
    <3>2. Batch = <<buffer[first]>>
      BY <2>2 DEF Batch
    <3> HIDE DEF first
    <3>3. buffer[first] \in 1..added /\ buffer[first] \in On(buffer)
      BY <1>2, <3>1, ElementOfSeq DEF On
    <3> QED BY <3>2, <3>3 DEF Distinct, On
  <2> QED BY <2>1, <2>2
<1>4. DOMAIN Batch = 1..Len(Batch) /\ Len(Batch) \in Nat /\ \A i \in DOMAIN Batch : Batch[i] \in 1..added
  BY <1>3, LenProperties, ElementOfSeq
<1>5. actions \in Seq(Action) /\ DOMAIN actions = DOMAIN Batch
  <2>1. \A i \in 1..Len(Batch) : [type |-> "SHOW", id |-> Batch[i]] \in Action
    BY <1>1, <1>4 DEF Action
  <2>2. [i \in 1..Len(Batch) |-> [type |-> "SHOW", id |-> Batch[i]]] \in Seq(Action)
    BY <1>4, <2>1, IsASeq
  <2> QED BY <1>4, <2>2 DEF ShowActions
<1>6. ToShow(actions) = On(Batch) /\ \A i, k \in Shows(actions) : actions[i].id = actions[k].id => i = k
  BY <1>3, <1>4, <1>5 DEF ToShow, Shows, On, Distinct, ShowActions
<1>7. Held \intersect On(buffer) = {} /\ Held \subseteq 1..added
  BY DEF Inv, BatchOK
<1>8. QueueOK(actions, notifications) /\ ToShow(queue) \intersect ToShow(actions) = {}
  BY <1>3, <1>5, <1>6, <1>7 DEF QueueOK, Held
<1> HIDE DEF actions
<1> QED BY <1>4, <1>6, <1>8 DEF On, actions

LEMMA ShowMessagesKeeps == Inv /\ ShowMessages => Inv'
<1> SUFFICES ASSUME Inv, ShowMessages PROVE Inv'
  OBVIOUS
<1>1. Push(ShowActions, autoHide) /\ buffer' = <<>> /\ UNCHANGED <<message, added>>
  BY DEF ShowMessages, ShowActions
<1>2. HandlerOK' /\ Held' \subseteq Held \union ToShow(ShowActions)
  BY <1>1, BatchShows, PushKeeps DEF Inv
<1>3. BatchOK'
  <2>1. Held' \subseteq 1..added
    BY <1>2, BatchShows DEF Inv, BatchOK
  <2>2. On(<<>>) = {} /\ Distinct(<<>>) /\ <<>> \in Seq(1..added)
    BY DEF On, Distinct
  <2> QED BY <1>1, <2>1, <2>2 DEF BatchOK, Inv
<1> QED BY <1>2, <1>3 DEF Inv

LEMMA ReadyKeeps == Inv /\ NotificationReady => Inv'
<1> SUFFICES ASSUME Inv, NotificationReady PROVE Inv'
  OBVIOUS
<1>1. /\ current \in Progress /\ current # None /\ current.waits = "ready"
      /\ UNCHANGED <<message, added, buffer, queue, notifications>>
  BY DEF NotificationReady, Inv, HandlerOK
<1>2. /\ ListOK(notifications) /\ HiddenOK /\ AnimationsOK /\ QueueOK(queue, notifications)
      /\ ActionsAreSerialized /\ StackIsBounded
  BY DEF Inv, HandlerOK
<1>3. \A a \in animations : a.do \notin {"hide", "shift"}
  BY <1>1, <1>2 DEF AnimationsOK
<1>4. Len(notifications) \in Nat /\ DOMAIN notifications = 1..Len(notifications) /\ Stacking \in Nat /\ Stacking >= 2
  BY <1>2, NotifierAssumption, LenProperties DEF ListOK
<1>5. None \notin Progress /\ current.id \in Note /\ current.type \in {"SHOW", "HIDE"}
  BY <1>1, NotifierAssumption DEF Progress
<1>6. ASSUME hidden' = hidden, current' = [current EXCEPT !.waits = "show"] \/ current' = [current EXCEPT !.waits = "shift"],
             Len(notifications) <= Stacking,
             \A a \in animations' \ animations :
               a = [do |-> a.do, id |-> current.id] /\ a.do \in {"show", current'.waits}
      PROVE  HandlerOK' /\ Held' = Held
  <2>1. current' \in Progress /\ current' # None /\ current'.id = current.id /\ current'.waits \in {"show", "shift"}
    BY <1>1, <1>5, <1>6 DEF Progress
  <2>2. AnimationsOK'
    BY <1>1, <1>2, <1>3, <1>5, <1>6, <2>1 DEF AnimationsOK
  <2>3. ActionsAreSerialized'
    BY <1>1, <1>2, <1>6, <2>1 DEF ActionsAreSerialized
  <2>4. StackIsBounded'
    BY <1>1, <1>4, <1>6 DEF StackIsBounded
  <2>5. QueueOK(queue, notifications)' /\ Held' = Held
    <3>1. WasHidden' = WasHidden
      BY <1>6 DEF WasHidden
    <3>2. ToShow(queue)' = ToShow(queue) /\ Shows(queue)' = Shows(queue) /\ On(notifications)' = On(notifications)
      BY <1>1 DEF ToShow, Shows, On
    <3> QED BY <1>1, <1>2, <3>1, <3>2 DEF QueueOK, Held
  <2> QED BY <1>1, <1>2, <1>6, <2>1, <2>2, <2>3, <2>4, <2>5 DEF HandlerOK, ListOK, HiddenOK, Distinct
<1>7. CASE ReadyAlone
  <2>1. HandlerOK' /\ Held' = Held
    BY <1>4, <1>6, <1>7 DEF ReadyAlone
  <2> QED BY <1>1, <2>1, BatchStays DEF Inv
<1>8. CASE ReadyStacked
  <2>1. Len(notifications) <= Stacking
    BY <1>4, <1>8 DEF ReadyStacked, TooMany
  <2>2. current' = [current EXCEPT !.waits = "shift"] /\ current'.waits = "shift"
    BY <1>1, <1>8 DEF ReadyStacked, Progress
  <2>3. HandlerOK' /\ Held' = Held
    BY <1>6, <1>8, <2>1, <2>2 DEF ReadyStacked
  <2> QED BY <1>1, <2>3, BatchStays DEF Inv
<1>9. CASE ReadyFull
  <2> DEFINE oldest == notifications[1]
  <2>1. /\ Len(notifications) > 1 /\ current' = [current EXCEPT !.waits = "hide", !.on = oldest]
        /\ Hide(oldest, animations, autoHide)
    BY <1>9 DEF ReadyFull
  <2>2. oldest \in Note /\ oldest \in On(notifications)
    BY <1>2, <1>4, <2>1, ElementOfSeq DEF On, ListOK
  <2>3. /\ current' \in Progress /\ current' # None /\ current'.waits = "hide" /\ current'.on = oldest
        /\ current'.type = current.type
    BY <1>1, <1>5, <2>1, <2>2 DEF Progress
  <2>4. \A n \in On(notifications) : n \in Note => hidden[n] = 0
    BY <1>1, <1>2 DEF ActionsAreSerialized, HiddenOK
  <2>5. /\ animations' = animations \union {[do |-> "hide", id |-> oldest]}
        /\ hidden' = [hidden EXCEPT ![oldest] = 1]
    <3>1. hidden[oldest] = 0
      BY <2>2, <2>4
    <3>2. /\ animations' = animations \union {[do |-> "hide", id |-> oldest]}
          /\ hidden' = [hidden EXCEPT ![oldest] = hidden[oldest] + 1]
      BY <2>1 DEF Hide
    <3> QED BY <3>1, <3>2
  <2>6. HiddenOK' /\ WasHidden' = WasHidden \union {oldest}
    BY <1>2, <2>2, <2>5 DEF HiddenOK, WasHidden
  <2>7. QueueOK(queue, notifications)' /\ Held' = Held
    <3>1. ToShow(queue)' = ToShow(queue) /\ Shows(queue)' = Shows(queue) /\ On(notifications)' = On(notifications)
      BY <1>1 DEF ToShow, Shows, On
    <3> QED BY <1>1, <1>2, <2>2, <2>6, <3>1 DEF QueueOK, Held
  <2>8. AnimationsOK'
    <3>1. hidden'[oldest] = 1 /\ oldest \in On(notifications')
      BY <1>1, <1>2, <2>2, <2>5 DEF HiddenOK
    <3>2. \A a \in animations : a = [do |-> a.do, id |-> a.id] /\ a.do = "show"
      BY <1>2, <1>3 DEF AnimationsOK
    <3> QED BY <2>3, <2>5, <3>1, <3>2 DEF AnimationsOK
  <2>9. ActionsAreSerialized'
    <3>1. \A n \in Note : hidden'[n] = 1 /\ n \in On(notifications) => n = oldest
      BY <1>2, <2>2, <2>4, <2>5 DEF HiddenOK
    <3>2. \A n \in Note : hidden'[n] <= 1
      BY <2>6 DEF HiddenOK
    <3> QED BY <1>1, <2>3, <3>1, <3>2 DEF ActionsAreSerialized, On
  <2>10. StackIsBounded'
    BY <1>1, <1>2, <1>4, <2>3 DEF StackIsBounded
  <2>11. HandlerOK'
    BY <1>1, <1>2, <2>3, <2>6, <2>7, <2>8, <2>9, <2>10 DEF HandlerOK, ListOK, Distinct
  <2> QED BY <1>1, <2>7, <2>11, BatchStays DEF Inv
<1> QED BY <1>7, <1>8, <1>9 DEF NotificationReady

LEMMA TimeoutKeeps == Inv /\ TimeoutFires => Inv'
<1> SUFFICES ASSUME Inv, TimeoutFires PROVE Inv'
  OBVIOUS
<1>1. UNCHANGED <<message, added, buffer, queue, current, notifications, hidden>>
  BY DEF TimeoutFires
<1>2. \A a \in animations' \ animations : a = [do |-> "show", id |-> a.id]
  BY DEF TimeoutFires
<1>3. AnimationsOK'
  <2>1. \A a \in animations' \ animations : a.do = "show"
    BY <1>2
  <2> QED BY <1>1, <1>2, <2>1 DEF AnimationsOK, Inv, HandlerOK
<1>4. Held' = Held /\ HandlerOK'
  BY <1>1, <1>3 DEF Inv, HandlerOK, QueueOK, ListOK, HiddenOK, ActionsAreSerialized,
              StackIsBounded, Held, WasHidden, ToShow, Shows, On, Distinct
<1> QED BY <1>1, <1>4, BatchStays DEF Inv

(* What is left of the animations when one has finished.                    *)
LEMMA AnimationKeeps == Inv /\ AnimationEnds => Inv'
<1> SUFFICES ASSUME Inv, AnimationEnds PROVE Inv'
  OBVIOUS
<1>1. UNCHANGED <<message, added, buffer>>
  BY DEF AnimationEnds
<1>2. /\ ListOK(notifications) /\ HiddenOK /\ AnimationsOK /\ QueueOK(queue, notifications)
      /\ ActionsAreSerialized /\ StackIsBounded /\ current \in Progress \union {None}
  BY DEF Inv, HandlerOK
<1>3. Len(notifications) \in Nat /\ DOMAIN notifications = 1..Len(notifications) /\ Stacking \in Nat
  BY <1>2, NotifierAssumption, LenProperties DEF ListOK
<1>4. On(notifications) \subseteq Note
  BY <1>2, <1>3, ElementOfSeq DEF ListOK, On
<1>5. SUFFICES HandlerOK' /\ Held' \subseteq Held
  BY <1>1, BatchStays DEF Inv
<1>6. PICK a \in animations :
        \/ a.do = "show" /\ ShowEnds(a.id, animations \ {a})
        \/ a.do = "hide" /\ HideEnds(a.id, animations \ {a})
        \/ a.do = "shift" /\ ShiftEnds(animations \ {a})
  BY DEF AnimationEnds
<1> DEFINE running == animations \ {a}
(* No other animation is waited for by the action in progress. *)
<1>7. ASSUME current # None, current.waits \in {"show", "shift"},
             current.waits = "shift" => a.do = "shift"
      PROVE  /\ \A b \in running : b = [do |-> b.do, id |-> b.id] /\ b.do = "show"
             /\ \A n \in On(notifications) : hidden[n] = 0
             /\ Len(notifications) <= Stacking
  <2>1. \A b \in running : b.do = "show"
    BY <1>2, <1>7 DEF AnimationsOK
  <2>2. \A n \in On(notifications) : hidden[n] = 0
    BY <1>2, <1>4, <1>7 DEF ActionsAreSerialized, HiddenOK
  <2> QED BY <1>2, <1>3, <1>7, <2>1, <2>2 DEF AnimationsOK, StackIsBounded
<1>8. CASE a.do = "show" /\ ShowEnds(a.id, running)
  <2> DEFINE timers == [autoHide EXCEPT ![a.id] = IF message[a.id].auto THEN Start(@) ELSE @]
  <2>1. CASE current # None /\ current.waits = "show" /\ current.id = a.id
    <3>1. Handle(queue, notifications, running, timers)
      BY <1>8, <2>1 DEF ShowEnds
    <3> HIDE DEF running, timers
    <3> QED BY <1>2, <1>7, <2>1, <3>1, HandleKeeps DEF Held
  <2>2. CASE ~(current # None /\ current.waits = "show" /\ current.id = a.id)
    <3>1. animations' = running /\ UNCHANGED <<queue, current, notifications, hidden>>
      BY <1>8, <2>2 DEF ShowEnds
    <3>2. AnimationsOK'
      BY <1>2, <3>1 DEF AnimationsOK
    <3> QED BY <1>2, <3>1, <3>2
            DEF HandlerOK, QueueOK, ListOK, HiddenOK, ActionsAreSerialized,
                StackIsBounded, Held, WasHidden, ToShow, Shows, On, Distinct
  <2> QED BY <2>1, <2>2
<1>9. CASE a.do = "shift" /\ ShiftEnds(running)
  <2>1. Handle(queue, notifications, running, autoHide)
    BY <1>9 DEF ShiftEnds
  <2>2. current # None /\ current.waits = "shift"
    BY <1>2, <1>9 DEF AnimationsOK
  <2> HIDE DEF running
  <2> QED BY <1>2, <1>7, <1>9, <2>1, <2>2, HandleKeeps DEF Held
<1>10. CASE a.do = "hide" /\ HideEnds(a.id, running)
  <2> DEFINE list == Without(notifications, a.id)
  <2>1. /\ current # None /\ current.waits = "hide" /\ current.on = a.id /\ a.id \in On(notifications)
        /\ Handle(queue, list, running, autoHide)
    BY <1>2, <1>10 DEF AnimationsOK, HideEnds
  <2>2. /\ ListOK(list) /\ Len(list) = Len(notifications) - 1
        /\ On(list) \subseteq On(notifications) \ {a.id}
    BY <1>2, <2>1, WithoutProperties DEF ListOK
  <2>3. Len(list) <= Stacking
    BY <1>2, <1>3, <2>2 DEF StackIsBounded
  <2>4. \A n \in On(list) : hidden[n] = 0
    BY <1>2, <1>4, <2>1, <2>2 DEF ActionsAreSerialized, HiddenOK
  <2>5. \A b \in running : b = [do |-> b.do, id |-> b.id] /\ b.do = "show"
    BY <1>2, <1>10, <2>1 DEF AnimationsOK
  <2>6. QueueOK(queue, list)
    BY <1>2, <2>2 DEF QueueOK
  <2>7. HandlerOK' /\ Held' \subseteq On(list) \union ToShow(queue) \union WasHidden
    <3> HIDE DEF list, running
    <3> QED BY <1>2, <2>1, <2>2, <2>3, <2>4, <2>5, <2>6, HandleKeeps
  <2> QED BY <2>2, <2>7 DEF Held
<1> QED BY <1>6, <1>8, <1>9, <1>10

LEMMA AutoHideKeeps == Inv /\ AutoHideEnds => Inv'
<1> SUFFICES ASSUME Inv, AutoHideEnds PROVE Inv'
  OBVIOUS
<1>1. UNCHANGED <<message, added, buffer>>
  BY DEF AutoHideEnds
<1>2. HandlerOK' /\ Held' \subseteq Held
  <2>1. ASSUME NEW n \in Note, NEW timers, Push(HideAction(n), timers)
        PROVE  HandlerOK' /\ Held' \subseteq Held
    BY <2>1, DismissKeeps DEF Inv
  <2>2. ASSUME UNCHANGED <<queue, current, notifications, animations, hidden>>
        PROVE  HandlerOK' /\ Held' \subseteq Held
    BY <2>2 DEF Inv, HandlerOK, AnimationsOK, QueueOK, ListOK, HiddenOK, ActionsAreSerialized,
                StackIsBounded, Held, WasHidden, ToShow, Shows, On, Distinct
  <2> QED BY <2>1, <2>2 DEF AutoHideEnds
<1> QED BY <1>1, <1>2, BatchStays DEF Inv

LEMMA ClickKeeps == Inv /\ (ClickDismiss \/ ActionClick) => Inv'
<1> SUFFICES ASSUME Inv, ClickDismiss \/ ActionClick PROVE Inv'
  OBVIOUS
<1>1. UNCHANGED <<message, added, buffer>>
  BY DEF ClickDismiss, ActionClick
<1>2. PICK n \in Visible : Push(HideAction(n), autoHide)
  BY DEF ClickDismiss, ActionClick
<1>3. n \in Note
  BY <1>2, ElementOfSeq, LenProperties DEF Visible, On, Inv, HandlerOK, ListOK
<1> QED BY <1>1, <1>2, <1>3, DismissKeeps, BatchStays DEF Inv

LEMMA OthersKeep == Inv /\ (MouseMoves \/ UNCHANGED vars) => Inv'
<1> SUFFICES ASSUME Inv, MouseMoves \/ UNCHANGED vars PROVE Inv'
  OBVIOUS
<1>1. UNCHANGED <<message, added, buffer, queue, current, notifications, animations, hidden>>
  BY DEF MouseMoves, vars, show
<1>2. /\ On(notifications)' = On(notifications) /\ ToShow(queue)' = ToShow(queue)
      /\ Shows(queue)' = Shows(queue) /\ WasHidden' = WasHidden
  BY <1>1 DEF On, ToShow, Shows, WasHidden
<1>3. HandlerOK'
  BY <1>1, <1>2 DEF Inv, HandlerOK, AnimationsOK, QueueOK, ListOK, HiddenOK,
                    ActionsAreSerialized, StackIsBounded
<1>4. Held' \subseteq Held
  BY <1>1, <1>2 DEF Held
<1> QED BY <1>1, <1>3, <1>4, BatchStays DEF Inv

LEMMA InvInductive == Spec => []Inv
<1>1. Init => Inv
  <2> SUFFICES ASSUME Init PROVE Inv
    OBVIOUS
  <2>1. /\ message \in Seq(Kind) /\ Len(message) <= MaxMessages
        /\ added = 0 /\ buffer = <<>> /\ queue = <<>> /\ current = None /\ notifications = <<>>
        /\ animations = {} /\ hidden = [n \in Note |-> 0]
    BY NotifierAssumption DEF Init
  <2>2. Len(message) \in Nat /\ Stacking \in Nat
    BY <2>1, NotifierAssumption, LenProperties
  <2>3. On(<<>>) = {} /\ ToShow(<<>>) = {} /\ Distinct(<<>>) /\ Shows(<<>>) = {} /\ WasHidden = {}
    BY <2>1 DEF On, ToShow, Shows, Distinct, WasHidden
  <2>4. HandlerOK
    BY <2>1, <2>2, <2>3 DEF HandlerOK, QueueOK, ListOK, HiddenOK, AnimationsOK,
                            ActionsAreSerialized, StackIsBounded
  <2> QED BY <2>1, <2>2, <2>3, <2>4 DEF Inv, BatchOK, Held
<1>2. Inv /\ [Next]_vars => Inv'
  BY AddMessageKeeps, ShowMessagesKeeps, ReadyKeeps, TimeoutKeeps, AnimationKeeps, AutoHideKeeps,
     ClickKeeps, OthersKeep DEF Next
<1> QED BY <1>1, <1>2, PTL DEF Spec

(* However notifications are dismissed, time out or make place, each is     *)
(* hidden and its observer answered once, and one action is handled at a    *)
(* time (tryToRunNextAction, handleHideAction, continueHandleShowAction).   *)
THEOREM OneActionAtATime == Spec => []ActionsAreSerialized
<1>1. Inv => ActionsAreSerialized
  BY DEF Inv, HandlerOK
<1> QED BY <1>1, InvInductive, PTL

(* At no time are there more than one notification too many, and then the   *)
(* action in progress makes place (continueHandleShowAction).               *)
THEOREM NeverTooMany == Spec => []StackIsBounded
<1>1. Inv => StackIsBounded
  BY DEF Inv, HandlerOK
<1> QED BY <1>1, InvInductive, PTL

-----------------------------------------------------------------------------
(* The places of the notifications.  The sum of the heights of some.       *)
Total(P, h) ==
  LET s[k \in 0..MaxMessages] ==
        IF k = 0 THEN 0 ELSE s[k - 1] + (IF k \in P THEN h[k] ELSE 0)
  IN s[MaxMessages]

Sums(P, h, s) ==
  /\ s \in [0..MaxMessages -> Int] /\ s[0] = 0
  /\ \A k \in 1..MaxMessages : s[k] = s[k - 1] + (IF k \in P THEN h[k] ELSE 0)

LEMMA RecursionOnInt ==
  ASSUME NEW F \in [Nat \X Int -> Int], NEW m \in Nat
  PROVE  \E f \in [0..m -> Int] : Recursion(f, m, 0, F)
<1>1. PICK V : V = Int
  OBVIOUS
<1>2. 0 \in V /\ F \in [Nat \X V -> V]
  BY <1>1
<1>3. \E f \in [0..m -> V] : Recursion(f, m, 0, F)
  BY <1>2, RecursionExists
<1> QED BY <1>1, <1>3

LEMMA TotalIs ==
  ASSUME NEW P, NEW h \in [Note -> Int]
  PROVE  \E s : Sums(P, h, s) /\ Total(P, h) = s[MaxMessages]
<1> DEFINE plus(k) == IF k \in Note /\ k \in P THEN h[k] ELSE 0
           F == [p \in Nat \X Int |-> p[2] + plus(p[1])]
           Is(s) == s = [k \in 0..MaxMessages |->
                           IF k = 0 THEN 0 ELSE s[k - 1] + (IF k \in P THEN h[k] ELSE 0)]
<1>1. MaxMessages \in Nat
  BY NotifierAssumption
<1>2. \A k \in Nat : plus(k) \in Int
  OBVIOUS
<1>3. F \in [Nat \X Int -> Int]
  <2> HIDE DEF plus
  <2> QED BY <1>2
<1>4. \A k \in 1..MaxMessages : plus(k) = IF k \in P THEN h[k] ELSE 0
  BY DEF Note
<1>5. \A k \in Nat, v \in Int : F[<<k, v>>] = v + plus(k)
  OBVIOUS
<1> HIDE DEF F, plus
<1>6. PICK s \in [0..MaxMessages -> Int] : Recursion(s, MaxMessages, 0, F)
  BY <1>1, <1>3, RecursionOnInt
<1>7. /\ s[0] = 0
      /\ \A k \in 1..MaxMessages : s[k] = s[k - 1] + (IF k \in P THEN h[k] ELSE 0)
  <2>1. \A k \in 1..MaxMessages : k \in Nat /\ k \in 0..MaxMessages /\ k # 0 /\ k - 1 \in 0..MaxMessages
    BY <1>1
  <2>2. 0 \in 0..MaxMessages
    BY <1>1
  <2> QED BY <1>4, <1>5, <1>6, <2>1, <2>2 DEF Recursion
<1>8. Is(s)
  BY <1>1, <1>6, <1>7
<1>9. ASSUME NEW g, Is(g) PROVE Sums(P, h, g)
  <2>1. /\ g[0] = 0
        /\ \A k \in 0..MaxMessages : k # 0 => g[k] = g[k - 1] + (IF k \in P THEN h[k] ELSE 0)
    BY <1>1, <1>9
  <2> DEFINE T == {k \in Nat : k <= MaxMessages => g[k] \in Int}
  <2>2. \A k \in Nat : k \in T => k + 1 \in T
    <3> SUFFICES ASSUME NEW k \in Nat, k + 1 <= MaxMessages, g[k] \in Int PROVE g[k + 1] \in Int
      BY <1>1
    <3>1. k + 1 \in 0..MaxMessages /\ k + 1 # 0 /\ (k + 1) - 1 = k /\ k + 1 \in Note
      BY <1>1 DEF Note
    <3> QED BY <2>1, <3>1
  <2>3. 0 \in T
    BY <2>1
  <2> HIDE DEF T
  <2>4. Nat \subseteq T
    BY <2>2, <2>3, NatSetInduction
  <2>5. \A k \in 0..MaxMessages : g[k] \in Int
    BY <1>1, <2>4 DEF T
  <2>6. g \in [0..MaxMessages -> Int]
    BY <1>9, <2>5
  <2>7. \A k \in 1..MaxMessages : k \in 0..MaxMessages /\ k # 0
    BY <1>1
  <2> HIDE DEF Is
  <2> QED BY <2>1, <2>6, <2>7 DEF Sums
<1>10. Total(P, h) = (CHOOSE g : Is(g))[MaxMessages]
  BY DEF Total
<1>11. Is(CHOOSE g : Is(g))
  <2> HIDE DEF Is
  <2> QED BY <1>8
<1> HIDE DEF Is
<1> QED BY <1>9, <1>10, <1>11

LEMMA TotalInt ==
  ASSUME NEW P, NEW h \in [Note -> Int]
  PROVE  Total(P, h) \in Int
<1>1. MaxMessages \in Nat
  BY NotifierAssumption
<1> QED BY <1>1, TotalIs DEF Sums

LEMMA TotalOfNone ==
  ASSUME NEW h \in [Note -> Int]
  PROVE  Total({}, h) = 0
<1>1. PICK s : Sums({}, h, s) /\ Total({}, h) = s[MaxMessages]
  BY TotalIs
<1>2. MaxMessages \in Nat
  BY NotifierAssumption
<1> DEFINE T == {k \in Nat : k <= MaxMessages => s[k] = 0}
<1>3. ASSUME NEW k \in Nat, k \in T PROVE k + 1 \in T
  <2> SUFFICES ASSUME k + 1 <= MaxMessages PROVE s[k + 1] = 0
    OBVIOUS
  <2>1. k + 1 \in 1..MaxMessages /\ (k + 1) - 1 = k /\ s[k] = 0
    BY <1>2, <1>3
  <2> QED BY <1>1, <2>1 DEF Sums
<1>4. 0 \in T
  BY <1>1 DEF Sums
<1> HIDE DEF T
<1>5. Nat \subseteq T
  BY <1>3, <1>4, NatSetInduction
<1> QED BY <1>1, <1>2, <1>5 DEF T

LEMMA TotalOfMore ==
  ASSUME NEW P, NEW h \in [Note -> Int], NEW x \in Note, x \notin P
  PROVE  /\ Total(P, h) \in Int
         /\ Total(P \union {x}, h) = Total(P, h) + h[x]
<1> DEFINE Q == P \union {x}
<1>1. PICK s : Sums(P, h, s) /\ Total(P, h) = s[MaxMessages]
  BY TotalIs
<1>2. PICK u : Sums(Q, h, u) /\ Total(Q, h) = u[MaxMessages]
  BY TotalIs
<1>3. MaxMessages \in Nat /\ x \in 1..MaxMessages /\ h[x] \in Int
  BY NotifierAssumption DEF Note
<1> DEFINE T == {k \in Nat : k <= MaxMessages => u[k] = s[k] + (IF x <= k THEN h[x] ELSE 0)}
<1>4. ASSUME NEW k \in Nat, k \in T PROVE k + 1 \in T
  <2> SUFFICES ASSUME k + 1 <= MaxMessages
               PROVE  u[k + 1] = s[k + 1] + (IF x <= k + 1 THEN h[x] ELSE 0)
    OBVIOUS
  <2>1. /\ k + 1 \in 1..MaxMessages /\ (k + 1) - 1 = k /\ k \in 0..MaxMessages /\ k + 1 \in Note
        /\ u[k] = s[k] + (IF x <= k THEN h[x] ELSE 0)
    BY <1>3, <1>4 DEF Note
  <2>2. /\ s[k + 1] = s[k] + (IF k + 1 \in P THEN h[k + 1] ELSE 0)
        /\ u[k + 1] = u[k] + (IF k + 1 \in Q THEN h[k + 1] ELSE 0)
        /\ s[k] \in Int /\ u[k] \in Int /\ h[k + 1] \in Int
    BY <1>1, <1>2, <2>1 DEF Sums
  <2>3. CASE k + 1 = x
    BY <1>3, <2>1, <2>2, <2>3
  <2>4. CASE k + 1 # x
    <3>1. (k + 1 \in Q <=> k + 1 \in P) /\ (x <= k + 1 <=> x <= k)
      BY <1>3, <2>4
    <3> HIDE DEF Q
    <3> QED BY <1>3, <2>1, <2>2, <3>1
  <2> QED BY <2>3, <2>4
<1>5. 0 \in T
  BY <1>1, <1>2, <1>3 DEF Sums
<1> HIDE DEF T
<1>6. Nat \subseteq T
  BY <1>4, <1>5, NatSetInduction
<1>7. Total(P, h) \in Int
  BY <1>1, <1>3 DEF Sums
<1>8. Total(Q, h) = Total(P, h) + h[x]
  BY <1>1, <1>2, <1>3, <1>6 DEF T
<1> QED BY <1>7, <1>8

LEMMA TotalOfLess ==
  ASSUME NEW P, NEW h \in [Note -> Int], NEW x \in Note, x \in P
  PROVE  Total(P \ {x}, h) = Total(P, h) - h[x]
<1>1. Total(P \ {x}, h) \in Int /\ Total((P \ {x}) \union {x}, h) = Total(P \ {x}, h) + h[x]
  BY TotalOfMore
<1>2. (P \ {x}) \union {x} = P
  OBVIOUS
<1>3. h[x] \in Int
  OBVIOUS
<1>4. Total(P, h) = Total(P \ {x}, h) + h[x]
  BY <1>1, <1>2
<1> QED BY <1>1, <1>3, <1>4

(* What the property adds up is the sum of the heights below. *)
LEMMA BelowIs ==
  ASSUME NEW h \in [Note -> Int], ListOK(notifications), NEW i \in DOMAIN notifications,
         \A j \in DOMAIN notifications : message[notifications[j]].height = h[notifications[j]]
  PROVE  Below(i) = Total({notifications[j] : j \in i + 1..Len(notifications)}, h)
<1> DEFINE n == Len(notifications)
           rows(k) == {notifications[j] : j \in i + 1..k}
           plus(k) == IF k <= i \/ k \notin 1..n THEN 0 ELSE h[notifications[k]]
           F == [p \in Nat \X Int |-> IF p[1] <= i THEN 0 ELSE p[2] + plus(p[1])]
           Is(s) == s = [j \in 0..n |->
                           IF j <= i THEN 0 ELSE s[j - 1] + message[notifications[j]].height]
<1>1. n \in Nat /\ DOMAIN notifications = 1..n /\ \A j \in 1..n : notifications[j] \in Note
  BY LenProperties, ElementOfSeq DEF ListOK
<1> HIDE DEF n
<1>2. i \in 1..n /\ \A k \in Nat : plus(k) \in Int
  BY <1>1
<1>3. F \in [Nat \X Int -> Int]
  <2> HIDE DEF plus
  <2> QED BY <1>2
<1>4. \A k \in Nat, v \in Int : F[<<k, v>>] = IF k <= i THEN 0 ELSE v + plus(k)
  OBVIOUS
<1>5. \A k \in 1..n : k > i => plus(k) = message[notifications[k]].height /\ plus(k) = h[notifications[k]]
  BY <1>1, <1>2
<1> HIDE DEF F, plus
<1>6. PICK s \in [0..n -> Int] : Recursion(s, n, 0, F)
  BY <1>1, <1>3, RecursionOnInt
<1>7. /\ s[0] = 0
      /\ \A k \in 1..n : s[k] = IF k <= i THEN 0 ELSE s[k - 1] + plus(k)
  <2>1. \A k \in 1..n : k \in Nat /\ k \in 0..n /\ k # 0 /\ k - 1 \in 0..n
    BY <1>1
  <2>2. 0 \in 0..n
    BY <1>1
  <2> QED BY <1>4, <1>6, <2>1, <2>2 DEF Recursion
<1>8. Is(s)
  <2>1. \A k \in 0..n : k = 0 \/ k \in 1..n
    BY <1>1
  <2>2. \A k \in 0..n :
          s[k] = IF k <= i THEN 0 ELSE s[k - 1] + message[notifications[k]].height
    <3> SUFFICES ASSUME NEW k \in 0..n
                 PROVE  s[k] = IF k <= i THEN 0 ELSE s[k - 1] + message[notifications[k]].height
      OBVIOUS
    <3>1. CASE k = 0
      BY <1>2, <1>7, <3>1
    <3>2. CASE k \in 1..n /\ k <= i
      BY <1>7, <3>2
    <3>3. CASE k \in 1..n /\ ~(k <= i)
      <4>1. k > i
        BY <1>2, <3>3
      <4> QED BY <1>5, <1>7, <3>3, <4>1
    <3> QED BY <2>1, <3>1, <3>2, <3>3
  <2> QED BY <1>6, <2>2
<1>9. Below(i) = (CHOOSE g : Is(g))[n]
  BY DEF Below, n
<1>10. Is(CHOOSE g : Is(g))
  <2> HIDE DEF Is
  <2> QED BY <1>8
<1>11. ASSUME NEW g, Is(g) PROVE g[n] = Total(rows(n), h)
  <2>1. \A k \in 0..n : g[k] = IF k <= i THEN 0 ELSE g[k - 1] + message[notifications[k]].height
    BY <1>11
  <2> DEFINE T == {k \in Nat : k \in i..n => g[k] = Total(rows(k), h)}
  <2>2. 0 \in T
    BY <1>2
  <2>3. ASSUME NEW k \in Nat, k \in T PROVE k + 1 \in T
    <3> SUFFICES ASSUME k + 1 \in i..n PROVE g[k + 1] = Total(rows(k + 1), h)
      OBVIOUS
    <3>1. CASE k + 1 = i
      <4>1. g[k + 1] = 0 /\ rows(k + 1) = {}
        BY <1>1, <1>2, <2>1, <3>1
      <4> HIDE DEF rows
      <4> QED BY <4>1, TotalOfNone
    <3>2. CASE k + 1 # i
      <4> DEFINE x == notifications[k + 1]
      <4>1. k \in i..n /\ k + 1 \in 1..n /\ k + 1 > i /\ (k + 1) - 1 = k /\ k + 1 \in 0..n
        <5>1. n \in Nat /\ i \in 1..n /\ k + 1 \in i..n
          BY <1>1, <1>2, <2>3
        <5> QED BY <3>2, <5>1
      <4>2. g[k + 1] = g[k] + h[x] /\ g[k] = Total(rows(k), h) /\ x \in Note
        <5>1. ~(k + 1 <= i)
          BY <1>2, <4>1
        <5>2. g[k + 1] = g[k] + message[x].height
          BY <2>1, <4>1, <5>1
        <5>3. message[x].height = h[x] /\ x \in Note
          BY <1>1, <4>1
        <5>4. g[k] = Total(rows(k), h)
          BY <2>3, <4>1
        <5> QED BY <5>2, <5>3, <5>4
      <4>3. rows(k + 1) = rows(k) \union {x}
        <5>1. i + 1..k + 1 = (i + 1..k) \union {k + 1}
          BY <1>2, <4>1
        <5> QED BY <5>1
      <4>4. x \notin rows(k)
        <5> SUFFICES ASSUME NEW j \in i + 1..k, notifications[j] = x PROVE FALSE
          OBVIOUS
        <5>1. j \in 1..n /\ j # k + 1
          BY <1>1, <1>2, <4>1
        <5> QED BY <1>1, <4>1, <5>1 DEF ListOK, Distinct
      <4> HIDE DEF rows, x
      <4> QED BY <4>2, <4>3, <4>4, TotalOfMore
    <3> QED BY <3>1, <3>2
  <2> HIDE DEF T
  <2>4. Nat \subseteq T
    BY <2>2, <2>3, NatSetInduction
  <2>5. n \in T /\ n \in i..n
    BY <1>1, <1>2, <2>4
  <2> QED BY <2>5 DEF T
<1>12. rows(n) = {notifications[j] : j \in i + 1..Len(notifications)}
  BY DEF n
<1> HIDE DEF Is, rows
<1> QED BY <1>9, <1>10, <1>11, <1>12

(* What the shifts that are due will do to n. *)
Up(ts, n) == {m \in Note : \E t \in ts : t.for = m /\ t.by > 0 /\ n \in t.who}
Down(ts, n) == {m \in Note : \E t \in ts : t.for = m /\ t.by < 0 /\ n \in t.who}

(* Those of the list that come after i, stay, and are not still to be shown. *)
After(list, ready, hid, i) ==
  {list[j] : j \in {k \in DOMAIN list : k > i /\ hid[list[k]] = 0 /\ list[k] \notin ready}}

DueOK(h, list, ready, hid, ts) ==
  /\ \A t \in ts :
       /\ t.do \in {"shift", "show"} /\ t.for \in Note /\ t.who \subseteq Note
       /\ t.by \in {0, h[t.for], -h[t.for]} /\ (t.do = "show" => t.by = 0)
       /\ t.by < 0 => hid[t.for] = 1
       /\ t.by > 0 => t.for \notin ready /\ (t.for \in On(list) \/ hid[t.for] = 1)
  /\ \A t, u \in ts : t.for = u.for /\ t.by = u.by /\ t.by # 0 => t = u

Untouched(list, hid, ts, shift) ==
  \A n \in Note : n \notin On(list) /\ hid[n] = 0 =>
    shift[n] = 0 /\ \A t \in ts : n \notin t.who

Balance(h, ts, shift, n) == shift[n] + Total(Up(ts, n), h) - Total(Down(ts, n), h)

Balanced(h, list, ready, hid, ts, shift) ==
  \A i \in DOMAIN list : hid[list[i]] = 0 =>
    Balance(h, ts, shift, list[i]) = Total(After(list, ready, hid, i), h)

Places(h, list, ready, hid, ts, shift) ==
  /\ shift \in [Note -> Int] /\ h \in [Note -> Nat] /\ hid \in [Note -> {0, 1}] /\ ListOK(list)
  /\ DueOK(h, list, ready, hid, ts)
  /\ Untouched(list, hid, ts, shift)
  /\ Balanced(h, list, ready, hid, ts, shift)

LEMMA ListForms ==
  ASSUME NEW list, ListOK(list)
  PROVE  /\ DOMAIN list = 1..Len(list) /\ Len(list) \in Nat
         /\ \A i \in 1..Len(list) : list[i] \in Note /\ list[i] \in On(list)
         /\ \A i, j \in 1..Len(list) : list[i] = list[j] => i = j
         /\ \A n \in On(list) : n \in Note /\ \E i \in 1..Len(list) : list[i] = n
<1>1. DOMAIN list = 1..Len(list) /\ Len(list) \in Nat /\ \A i \in 1..Len(list) : list[i] \in Note
  BY LenProperties, ElementOfSeq DEF ListOK
<1> QED BY <1>1 DEF ListOK, Distinct, On

(* A timeout is added. *)
LEMMA OneMoreDue ==
  ASSUME NEW ts, NEW t, t.for \in Note, NEW n
  PROVE  /\ Up(ts \union {t}, n) = Up(ts, n) \union (IF t.by > 0 /\ n \in t.who THEN {t.for} ELSE {})
         /\ Down(ts \union {t}, n) = Down(ts, n) \union (IF t.by < 0 /\ n \in t.who THEN {t.for} ELSE {})
BY DEF Up, Down

(* A notification is added, and is not ready yet. *)
LEMMA PlacesAppend ==
  ASSUME NEW h, NEW list, NEW hid, NEW ts, NEW shift, Places(h, list, {}, hid, ts, shift),
         NEW id \in Note, id \notin On(list), hid[id] = 0
  PROVE  Places(h, Append(list, id), {id}, hid, ts, shift)
<1> DEFINE new == Append(list, id)
           n == Len(list)
<1>1. /\ DOMAIN list = 1..n /\ n \in Nat /\ list \in Seq(Note)
      /\ \A i \in 1..n : list[i] \in Note /\ list[i] \in On(list) /\ list[i] # id
      /\ \A i, j \in 1..n : list[i] = list[j] => i = j
  BY ListForms DEF Places, ListOK
<1>2. /\ new \in Seq(Note) /\ DOMAIN new = 1..n + 1 /\ new[n + 1] = id
      /\ \A i \in 1..n : new[i] = list[i]
  BY <1>1, AppendProperties, LenProperties
<1> HIDE DEF n, new
<1>3. On(new) = On(list) \union {id}
  BY <1>1, <1>2 DEF On
<1>4. ListOK(new)
  <2> SUFFICES ASSUME NEW i \in 1..n + 1, NEW j \in 1..n + 1, new[i] = new[j] PROVE i = j
    BY <1>2 DEF ListOK, Distinct
  <2> QED BY <1>1, <1>2
<1>5. DueOK(h, new, {id}, hid, ts)
  BY <1>3 DEF Places, DueOK
<1>6. Untouched(new, hid, ts, shift)
  BY <1>3 DEF Places, Untouched
<1>7. ASSUME NEW i \in 1..n + 1, hid[new[i]] = 0
      PROVE  Balance(h, ts, shift, new[i]) = Total(After(new, {id}, hid, i), h)
  <2>1. CASE i = n + 1
    <3>1. Up(ts, id) = {} /\ Down(ts, id) = {} /\ shift[id] = 0
      BY DEF Places, Untouched, Up, Down
    <3>2. After(new, {id}, hid, i) = {}
      BY <1>1, <1>2, <2>1 DEF After
    <3>3. Total({}, h) = 0
      BY TotalOfNone DEF Places
    <3>4. new[i] = id
      BY <1>2, <2>1
    <3>5. Balance(h, ts, shift, id) = 0 + 0 - 0
      BY <3>1, <3>3 DEF Balance
    <3> QED BY <3>2, <3>3, <3>4, <3>5
  <2>2. CASE i # n + 1
    <3>1. i \in 1..n /\ new[i] = list[i]
      BY <1>1, <1>2, <2>2
    <3>2. {k \in 1..n + 1 : k > i /\ hid[new[k]] = 0 /\ new[k] \notin {id}}
            = {k \in 1..n : k > i /\ hid[list[k]] = 0 /\ list[k] \notin {}}
      BY <1>1, <1>2
    <3>3. After(new, {id}, hid, i) = After(list, {}, hid, i)
      BY <1>1, <1>2, <3>2 DEF After
    <3> QED BY <1>1, <1>7, <3>1, <3>3 DEF Places, Balanced
  <2> QED BY <2>1, <2>2
<1> QED BY <1>2, <1>4, <1>5, <1>6, <1>7 DEF Places, Balanced, new

(* A notification is hidden: the older ones will fall by its height.       *)
LEMMA PlacesHide ==
  ASSUME NEW h, NEW list, NEW ready, NEW hid, NEW ts, NEW shift,
         Places(h, list, ready, hid, ts, shift),
         NEW at \in DOMAIN list, hid[list[at]] = 0, list[at] \notin ready
  PROVE  Places(h, list, ready, [hid EXCEPT ![list[at]] = 1],
                ts \union IF at = 1 THEN {} ELSE {Shift(Older(list, at), -h[list[at]], list[at])},
                shift)
<1> DEFINE id == list[at]
           hid2 == [hid EXCEPT ![id] = 1]
           t == Shift(Older(list, at), -h[id], id)
           ts2 == ts \union IF at = 1 THEN {} ELSE {t}
<1>1. /\ DOMAIN list = 1..Len(list) /\ Len(list) \in Nat
      /\ \A i \in 1..Len(list) : list[i] \in Note /\ list[i] \in On(list)
      /\ \A i, j \in 1..Len(list) : list[i] = list[j] => i = j
  BY ListForms DEF Places
<1>2. /\ id \in Note /\ id \in On(list) /\ h[id] \in Nat /\ h \in [Note -> Int] /\ at \in Nat /\ at >= 1
      /\ hid2 \in [Note -> {0, 1}] /\ hid2[id] = 1 /\ hid[id] = 0 /\ id \notin ready
      /\ \A n \in Note : n # id => hid2[n] = hid[n]
  BY <1>1 DEF Places
<1>3. /\ t.do = "shift" /\ t.for = id /\ t.by = -h[id] /\ t.who = {list[j] : j \in 1..at - 1}
      /\ t.who \subseteq On(list) /\ t.who \subseteq Note /\ ~(t.by > 0)
      /\ \A i \in 1..Len(list) : list[i] \in t.who <=> i < at
  <2>1. t.do = "shift" /\ t.for = id /\ t.by = -h[id] /\ t.who = {list[j] : j \in 1..at - 1}
    BY DEF Shift, Older
  <2>2. \A j \in 1..at - 1 : j \in 1..Len(list) /\ j < at
    BY <1>1, <1>2
  <2>3. \A i \in 1..Len(list) : i < at => i \in 1..at - 1
    BY <1>1, <1>2
  <2> HIDE DEF t, id
  <2> QED BY <1>1, <1>2, <2>1, <2>2, <2>3
<1> HIDE DEF hid2, t, id
<1>4. DueOK(h, list, ready, hid2, ts2)
  <2>1. \A u \in ts : u.for = id => ~(u.by < 0)
    BY <1>2 DEF Places, DueOK
  <2>2. ASSUME NEW u \in ts2
        PROVE  /\ u.do \in {"shift", "show"} /\ u.for \in Note /\ u.who \subseteq Note
               /\ u.by \in {0, h[u.for], -h[u.for]} /\ (u.do = "show" => u.by = 0)
               /\ u.by < 0 => hid2[u.for] = 1
               /\ u.by > 0 => u.for \notin ready /\ (u.for \in On(list) \/ hid2[u.for] = 1)
    <3>1. CASE u \in ts
      BY <1>2, <3>1 DEF Places, DueOK
    <3>2. CASE u = t
      BY <1>2, <1>3, <3>2
    <3> QED BY <3>1, <3>2
  <2>3. ASSUME NEW u \in ts2, NEW v \in ts2, u.for = v.for, u.by = v.by, u.by # 0 PROVE u = v
    <3>1. CASE u \in ts /\ v \in ts
      BY <2>3, <3>1 DEF Places, DueOK
    <3>2. CASE (u = t /\ v \in ts) \/ (v = t /\ u \in ts)
      BY <1>2, <1>3, <2>1, <2>3, <3>2
    <3> QED BY <3>1, <3>2
  <2> QED BY <2>2, <2>3 DEF DueOK
<1>5. Untouched(list, hid2, ts2, shift)
  BY <1>2, <1>3 DEF Places, Untouched
<1>6. ASSUME NEW i \in 1..Len(list), hid2[list[i]] = 0
      PROVE  Balance(h, ts2, shift, list[i]) = Total(After(list, ready, hid2, i), h)
  <2> DEFINE n == list[i]
             K(x) == {k \in DOMAIN list : k > i /\ x[list[k]] = 0 /\ list[k] \notin ready}
  <2>1. i # at /\ hid[n] = 0 /\ n \in Note
    BY <1>1, <1>2, <1>6 DEF id
  <2>2. Balance(h, ts, shift, n) = Total(After(list, ready, hid, i), h)
    BY <1>1, <2>1 DEF Places, Balanced
  <2>3. K(hid2) = K(hid) \ {at}
    <3> SUFFICES ASSUME NEW k \in 1..Len(list) PROVE hid2[list[k]] = 0 <=> hid[list[k]] = 0 /\ k # at
      BY <1>1
    <3> QED BY <1>1, <1>2 DEF id
  <2>4. CASE i > at
    <3>1. K(hid2) = K(hid)
      BY <1>1, <2>3, <2>4
    <3>2. After(list, ready, hid2, i) = After(list, ready, hid, i)
      BY <3>1 DEF After
    <3>3. Up(ts2, n) = Up(ts, n) /\ Down(ts2, n) = Down(ts, n)
      <4>1. n \notin t.who
        BY <1>1, <1>2, <1>3, <2>4
      <4>2. /\ Up(ts \union {t}, n) = Up(ts, n) \union (IF t.by > 0 /\ n \in t.who THEN {t.for} ELSE {})
            /\ Down(ts \union {t}, n) = Down(ts, n) \union (IF t.by < 0 /\ n \in t.who THEN {t.for} ELSE {})
        BY <1>2, <1>3, OneMoreDue
      <4>3. Up(ts \union {t}, n) = Up(ts, n) /\ Down(ts \union {t}, n) = Down(ts, n)
        BY <4>1, <4>2
      <4>4. ts2 = ts \/ ts2 = ts \union {t}
        OBVIOUS
      <4> QED BY <4>3, <4>4
    <3> QED BY <2>2, <3>2, <3>3 DEF Balance
  <2>5. CASE i < at
    <3> DEFINE A == After(list, ready, hid, i)
               D == Down(ts, n)
    <3>1. id \in A /\ After(list, ready, hid2, i) = A \ {id}
      <4>1. at \in K(hid)
        BY <1>1, <1>2, <2>5 DEF id
      <4>2. A = {list[j] : j \in K(hid)} /\ After(list, ready, hid2, i) = {list[j] : j \in K(hid) \ {at}}
        BY <2>3 DEF After
      <4>3. K(hid) \subseteq 1..Len(list)
        BY <1>1
      <4> HIDE DEF K, A
      <4> QED BY <1>1, <4>1, <4>2, <4>3 DEF id
    <3>2. Total(After(list, ready, hid2, i), h) = Total(A, h) - h[id]
      <4> HIDE DEF A
      <4> QED BY <1>2, <3>1, TotalOfLess
    <3>3. n \in t.who /\ at # 1 /\ ts2 = ts \union {t}
      BY <1>1, <1>2, <1>3, <2>5
    <3>4. Up(ts2, n) = Up(ts, n) /\ Down(ts2, n) = D \union (IF t.by < 0 THEN {id} ELSE {})
      <4>1. /\ Up(ts \union {t}, n) = Up(ts, n) \union (IF t.by > 0 /\ n \in t.who THEN {t.for} ELSE {})
            /\ Down(ts \union {t}, n) = D \union (IF t.by < 0 /\ n \in t.who THEN {t.for} ELSE {})
        BY <1>2, <1>3, OneMoreDue
      <4> HIDE DEF D
      <4> QED BY <1>3, <3>3, <4>1
    <3>5. id \notin D
      BY <1>2 DEF Places, DueOK, Down
    <3>6. Total(D, h) \in Int /\ Total(D \union {id}, h) = Total(D, h) + h[id]
      <4> HIDE DEF D
      <4>1. Total(D, h) \in Int
        BY <1>2, TotalInt
      <4>2. Total(D \union {id}, h) = Total(D, h) + h[id]
        BY <1>2, <3>5, TotalOfMore
      <4> QED BY <4>1, <4>2
    <3>7. Total(Down(ts2, n), h) = Total(D, h) + h[id]
      <4>1. CASE h[id] = 0
        <5>1. Down(ts2, n) = D
          BY <1>3, <3>4, <4>1
        <5> QED BY <3>6, <4>1, <5>1
      <4>2. CASE h[id] # 0
        <5>1. t.by < 0
          BY <1>2, <1>3, <4>2
        <5> QED BY <3>4, <3>6, <5>1
      <4> QED BY <4>1, <4>2
    <3>8. Total(Up(ts, n), h) \in Int /\ shift[n] \in Int
      BY <1>2, <2>1, TotalInt DEF Places
    <3> QED BY <1>2, <2>2, <3>2, <3>4, <3>6, <3>7, <3>8 DEF Balance
  <2> QED BY <1>1, <1>2, <2>1, <2>4, <2>5
<1> QED BY <1>1, <1>2, <1>4, <1>5, <1>6 DEF Places, Balanced, hid2, ts2, t, id

(* The last notification is ready: the others are shifted at once, *)
Arrives(list, hid, id, who) ==
  /\ list # <<>> /\ id = list[Len(list)] /\ who \subseteq On(list) \ {id} /\ hid[id] = 0
  /\ \A i \in DOMAIN list : hid[list[i]] = 0 /\ list[i] # id => list[i] \in who

LEMMA AfterLast ==
  ASSUME NEW list, NEW hid, NEW id, NEW who, ListOK(list), Arrives(list, hid, id, who),
         NEW i \in DOMAIN list, hid[list[i]] = 0
  PROVE  /\ list[i] = id => After(list, {}, hid, i) = After(list, {id}, hid, i)
         /\ list[i] # id => /\ After(list, {}, hid, i) = After(list, {id}, hid, i) \union {id}
                            /\ id \notin After(list, {id}, hid, i)
<1>1. /\ DOMAIN list = 1..Len(list) /\ Len(list) \in Nat
      /\ \A k, j \in 1..Len(list) : list[k] = list[j] => k = j
  BY ListForms
<1>2. Len(list) \in 1..Len(list) /\ list[Len(list)] = id
  BY <1>1 DEF Arrives
<1> DEFINE K(r) == {k \in 1..Len(list) : k > i /\ hid[list[k]] = 0 /\ list[k] \notin r}
<1>3. After(list, {}, hid, i) = {list[j] : j \in K({})}
      /\ After(list, {id}, hid, i) = {list[j] : j \in K({id})}
  BY <1>1 DEF After
<1>4. K({id}) = K({}) \ {Len(list)}
  BY <1>1, <1>2
<1>5. CASE list[i] = id
  <2>1. i = Len(list)
    BY <1>1, <1>2, <1>5
  <2>2. K({}) = K({id})
    BY <1>1, <1>4, <2>1
  <2> HIDE DEF K
  <2> QED BY <1>3, <1>5, <2>2
<1>6. CASE list[i] # id
  <2>1. Len(list) > i
    BY <1>1, <1>2, <1>6
  <2>2. Len(list) \in K({})
    BY <1>2, <2>1 DEF Arrives
  <2>3. \A j \in K({id}) : list[j] # id
    OBVIOUS
  <2> HIDE DEF K
  <2> QED BY <1>2, <1>3, <1>4, <1>6, <2>2, <2>3
<1> QED BY <1>5, <1>6

LEMMA PlacesArrive ==
  ASSUME NEW h, NEW list, NEW hid, NEW ts, NEW shift, NEW id, NEW who, NEW shift2,
         Places(h, list, {id}, hid, ts, shift), Arrives(list, hid, id, who),
         shift2 = [n \in Note |-> IF n \in who THEN shift[n] + h[id] ELSE shift[n]]
  PROVE  Places(h, list, {}, hid, ts, shift2)
<1>1. /\ DOMAIN list = 1..Len(list) /\ Len(list) \in Nat
      /\ \A i \in 1..Len(list) : list[i] \in Note /\ list[i] \in On(list)
  BY ListForms DEF Places
<1>2. /\ id \in Note /\ h[id] \in Nat /\ h \in [Note -> Int] /\ shift \in [Note -> Int]
  BY <1>1 DEF Places, Arrives
<1>3. shift2 \in [Note -> Int]
  BY <1>2
<1>4. DueOK(h, list, {}, hid, ts)
  BY DEF Places, DueOK
<1>5. Untouched(list, hid, ts, shift2)
  BY DEF Places, Untouched, Arrives
<1>6. ASSUME NEW i \in DOMAIN list, hid[list[i]] = 0
      PROVE  Balance(h, ts, shift2, list[i]) = Total(After(list, {}, hid, i), h)
  <2> DEFINE n == list[i]
             A == After(list, {id}, hid, i)
  <2>0. /\ n = id => After(list, {}, hid, i) = A
        /\ n # id => After(list, {}, hid, i) = A \union {id} /\ id \notin A
    <3>1. ListOK(list)
      BY DEF Places
    <3> QED BY <1>6, <3>1, AfterLast
  <2>1. n \in Note /\ Balance(h, ts, shift, n) = Total(A, h)
    BY <1>1, <1>6 DEF Places, Balanced
  <2>2. Total(Up(ts, n), h) \in Int /\ Total(Down(ts, n), h) \in Int /\ shift[n] \in Int
    BY <1>2, <2>1, TotalInt
  <2>3. CASE n = id
    <3>1. shift2[n] = shift[n]
      BY <1>2, <2>1, <2>3 DEF Arrives
    <3>2. After(list, {}, hid, i) = A
      BY <1>6, <2>0, <2>3
    <3> QED BY <2>1, <3>1, <3>2 DEF Balance
  <2>4. CASE n # id
    <3>1. shift2[n] = shift[n] + h[id]
      BY <1>2, <1>6, <2>1, <2>4 DEF Arrives
    <3>2. After(list, {}, hid, i) = A \union {id} /\ id \notin A
      BY <1>6, <2>0, <2>4
    <3>3. Total(A \union {id}, h) = Total(A, h) + h[id]
      <4> HIDE DEF A
      <4> QED BY <1>2, <3>2, TotalOfMore
    <3>4. Balance(h, ts, shift2, n) = Balance(h, ts, shift, n) + h[id]
      BY <1>2, <2>2, <3>1 DEF Balance
    <3> QED BY <2>1, <3>2, <3>3, <3>4
  <2> QED BY <2>3, <2>4
<1> QED BY <1>3, <1>4, <1>5, <1>6 DEF Places, Balanced

(* or later. *)
LEMMA PlacesArriveLater ==
  ASSUME NEW h, NEW list, NEW hid, NEW ts, NEW shift, NEW id, NEW who,
         Places(h, list, {id}, hid, ts, shift), Arrives(list, hid, id, who)
  PROVE  Places(h, list, {}, hid, ts \union {Shift(who, h[id], id)}, shift)
<1> DEFINE t == Shift(who, h[id], id)
           ts2 == ts \union {t}
<1>1. /\ DOMAIN list = 1..Len(list) /\ Len(list) \in Nat
      /\ \A i \in 1..Len(list) : list[i] \in Note /\ list[i] \in On(list)
      /\ \A n \in On(list) : n \in Note
  BY ListForms DEF Places
<1>2. /\ id \in Note /\ id \in On(list) /\ h[id] \in Nat /\ h \in [Note -> Int]
      /\ shift \in [Note -> Int] /\ who \subseteq On(list)
  BY <1>1 DEF Places, Arrives
<1>3. t.do = "shift" /\ t.for = id /\ t.by = h[id] /\ t.who = who /\ ~(t.by < 0) /\ who \subseteq Note
  BY <1>1, <1>2 DEF Shift
<1> HIDE DEF t
<1>4. \A u \in ts : u.for = id => ~(u.by > 0)
  BY DEF Places, DueOK
<1>5. DueOK(h, list, {}, hid, ts2)
  <2>1. ASSUME NEW u \in ts2
        PROVE  /\ u.do \in {"shift", "show"} /\ u.for \in Note /\ u.who \subseteq Note
               /\ u.by \in {0, h[u.for], -h[u.for]} /\ (u.do = "show" => u.by = 0)
               /\ u.by < 0 => hid[u.for] = 1
               /\ u.by > 0 => u.for \notin {} /\ (u.for \in On(list) \/ hid[u.for] = 1)
    <3>1. CASE u \in ts
      BY <3>1 DEF Places, DueOK
    <3>2. CASE u = t
      BY <1>2, <1>3, <3>2
    <3> QED BY <3>1, <3>2
  <2>2. ASSUME NEW u \in ts2, NEW v \in ts2, u.for = v.for, u.by = v.by, u.by # 0 PROVE u = v
    <3>1. CASE u \in ts /\ v \in ts
      BY <2>2, <3>1 DEF Places, DueOK
    <3>2. CASE (u = t /\ v \in ts) \/ (v = t /\ u \in ts)
      BY <1>2, <1>3, <1>4, <2>2, <3>2
    <3> QED BY <3>1, <3>2
  <2> QED BY <2>1, <2>2 DEF DueOK
<1>6. Untouched(list, hid, ts2, shift)
  BY <1>2, <1>3 DEF Places, Untouched
<1>7. ASSUME NEW i \in DOMAIN list, hid[list[i]] = 0
      PROVE  Balance(h, ts2, shift, list[i]) = Total(After(list, {}, hid, i), h)
  <2> DEFINE n == list[i]
             A == After(list, {id}, hid, i)
             U == Up(ts, n)
  <2>0. /\ n = id => After(list, {}, hid, i) = A
        /\ n # id => After(list, {}, hid, i) = A \union {id} /\ id \notin A
    <3>1. ListOK(list)
      BY DEF Places
    <3> QED BY <1>7, <3>1, AfterLast
  <2>1. n \in Note /\ Balance(h, ts, shift, n) = Total(A, h)
    BY <1>1, <1>7 DEF Places, Balanced
  <2>2. Total(U, h) \in Int /\ Total(Down(ts, n), h) \in Int /\ shift[n] \in Int
    BY <1>2, <2>1, TotalInt
  <2>3. /\ Up(ts2, n) = U \union (IF t.by > 0 /\ n \in t.who THEN {t.for} ELSE {})
        /\ Down(ts2, n) = Down(ts, n)
    <3>1. /\ Up(ts2, n) = U \union (IF t.by > 0 /\ n \in t.who THEN {t.for} ELSE {})
          /\ Down(ts2, n) = Down(ts, n) \union (IF t.by < 0 /\ n \in t.who THEN {t.for} ELSE {})
      BY <1>2, <1>3, OneMoreDue
    <3> HIDE DEF U, ts2
    <3> QED BY <1>3, <3>1
  <2>4. CASE n = id
    <3>1. n \notin t.who
      BY <1>3, <2>4 DEF Arrives
    <3>2. Up(ts2, n) = U
      <4> HIDE DEF U, ts2
      <4> QED BY <2>3, <3>1
    <3>3. After(list, {}, hid, i) = A
      BY <1>7, <2>0, <2>4
    <3> QED BY <2>1, <2>3, <3>2, <3>3 DEF Balance
  <2>5. CASE n # id
    <3>1. n \in t.who
      BY <1>3, <1>7, <2>5 DEF Arrives
    <3>2. After(list, {}, hid, i) = A \union {id} /\ id \notin A
      BY <1>7, <2>0, <2>5
    <3>3. Total(A \union {id}, h) = Total(A, h) + h[id]
      <4> HIDE DEF A
      <4> QED BY <1>2, <3>2, TotalOfMore
    <3>4. id \notin U
      BY <1>4 DEF Up
    <3>5. Total(U \union {id}, h) = Total(U, h) + h[id]
      <4> HIDE DEF U
      <4> QED BY <1>2, <3>4, TotalOfMore
    <3>6. Total(Up(ts2, n), h) = Total(U, h) + h[id]
      <4>1. CASE h[id] = 0
        <5>1. Up(ts2, n) = U
          <6> HIDE DEF U, ts2
          <6> QED BY <1>3, <2>3, <4>1
        <5> QED BY <2>2, <4>1, <5>1
      <4>2. CASE h[id] # 0
        <5>1. t.by > 0
          BY <1>2, <1>3, <4>2
        <5>2. Up(ts2, n) = U \union {id}
          <6> HIDE DEF U, ts2
          <6> QED BY <1>3, <2>3, <3>1, <5>1
        <5> QED BY <3>5, <5>2
      <4> QED BY <4>1, <4>2
    <3>7. Balance(h, ts2, shift, n) = Balance(h, ts, shift, n) + h[id]
      <4> HIDE DEF ts2
      <4> QED BY <1>2, <2>2, <2>3, <3>6 DEF Balance
    <3> QED BY <2>1, <3>2, <3>3, <3>7
  <2> QED BY <2>4, <2>5
<1> QED BY <1>2, <1>5, <1>6, <1>7 DEF Places, Balanced, t

(* Something else is due than a shift. *)
LEMMA PlacesShowDue ==
  ASSUME NEW h, NEW list, NEW ready, NEW hid, NEW ts, NEW shift,
         Places(h, list, ready, hid, ts, shift), NEW id \in Note
  PROVE  Places(h, list, ready, hid, ts \union {Show(id)}, shift)
<1> DEFINE t == Show(id)
           ts2 == ts \union {t}
<1>1. t.do = "show" /\ t.for = id /\ t.by = 0 /\ t.who = {}
  BY DEF Show
<1> HIDE DEF t
<1>2. DueOK(h, list, ready, hid, ts2)
  BY <1>1 DEF Places, DueOK
<1>3. Untouched(list, hid, ts2, shift)
  BY <1>1 DEF Places, Untouched
<1>4. \A n : Up(ts2, n) = Up(ts, n) /\ Down(ts2, n) = Down(ts, n)
  BY <1>1 DEF Up, Down
<1>5. Balanced(h, list, ready, hid, ts2, shift)
  BY <1>4 DEF Places, Balanced, Balance
<1> QED BY <1>2, <1>3, <1>5 DEF Places, t

(* A timeout fires: what it shifts is no longer due. *)
LEMMA PlacesFire ==
  ASSUME NEW h, NEW list, NEW ready, NEW hid, NEW ts, NEW shift,
         Places(h, list, ready, hid, ts, shift), NEW t \in ts
  PROVE  Places(h, list, ready, hid, ts \ {t},
                [n \in Note |-> IF n \in t.who THEN shift[n] + t.by ELSE shift[n]])
<1> DEFINE ts2 == ts \ {t}
           shift2 == [n \in Note |-> IF n \in t.who THEN shift[n] + t.by ELSE shift[n]]
<1>1. /\ DOMAIN list = 1..Len(list) /\ \A i \in 1..Len(list) : list[i] \in Note
  BY ListForms DEF Places
<1>2. /\ shift \in [Note -> Int] /\ h \in [Note -> Int] /\ h \in [Note -> Nat]
      /\ t.for \in Note /\ t.by \in {0, h[t.for], -h[t.for]}
  BY DEF Places, DueOK
<1>3. t.by \in Int /\ h[t.for] \in Nat
  BY <1>2
<1>4. shift2 \in [Note -> Int]
  BY <1>2, <1>3
<1>5. DueOK(h, list, ready, hid, ts2)
  BY DEF Places, DueOK
<1>6. Untouched(list, hid, ts2, shift2)
  BY DEF Places, Untouched
<1>7. ASSUME NEW n \in Note PROVE Balance(h, ts2, shift2, n) = Balance(h, ts, shift, n)
  <2> DEFINE U == Up(ts, n)
             D == Down(ts, n)
  <2>1. Total(U, h) \in Int /\ Total(D, h) \in Int /\ shift[n] \in Int
    BY <1>2, TotalInt
  <2>2. \A u \in ts : u.by \in {0, h[u.for], -h[u.for]} /\ u.for \in Note /\ h[u.for] \in Nat
    BY DEF Places, DueOK
  <2>3. \A u \in ts : u # t /\ u.for = t.for => ~(u.by > 0 /\ t.by > 0) /\ ~(u.by < 0 /\ t.by < 0)
    <3> SUFFICES ASSUME NEW u \in ts, u.for = t.for, (u.by > 0 /\ t.by > 0) \/ (u.by < 0 /\ t.by < 0)
                 PROVE  u = t
      OBVIOUS
    <3>1. u.by = t.by /\ u.by # 0
      BY <1>2, <1>3, <2>2
    <3> QED BY <3>1 DEF Places, DueOK
  <2>4. CASE n \in t.who /\ t.by > 0
    <3>1. t.for \in U /\ Up(ts2, n) = U \ {t.for} /\ Down(ts2, n) = D /\ t.by = h[t.for]
      <4>1. t.by = h[t.for] /\ ~(t.by < 0)
        BY <1>2, <1>3, <2>4
      <4>2. t.for \in U
        BY <1>2, <2>4 DEF Up
      <4>3. Up(ts2, n) = U \ {t.for}
        BY <2>3, <2>4 DEF Up
      <4>4. Down(ts2, n) = D
        BY <4>1 DEF Down
      <4> QED BY <4>1, <4>2, <4>3, <4>4
    <3>2. Total(U \ {t.for}, h) = Total(U, h) - h[t.for]
      <4> HIDE DEF U
      <4> QED BY <1>2, <3>1, TotalOfLess
    <3>3. shift2[n] = shift[n] + t.by
      BY <2>4
    <3> HIDE DEF shift2, ts2
    <3> QED BY <1>3, <2>1, <3>1, <3>2, <3>3 DEF Balance
  <2>5. CASE n \in t.who /\ t.by < 0
    <3>1. t.for \in D /\ Down(ts2, n) = D \ {t.for} /\ Up(ts2, n) = U /\ t.by = -h[t.for]
      <4>1. t.by = -h[t.for] /\ ~(t.by > 0)
        BY <1>2, <1>3, <2>5
      <4>2. t.for \in D
        BY <1>2, <2>5 DEF Down
      <4>3. Down(ts2, n) = D \ {t.for}
        BY <2>3, <2>5 DEF Down
      <4>4. Up(ts2, n) = U
        BY <4>1 DEF Up
      <4> QED BY <4>1, <4>2, <4>3, <4>4
    <3>2. Total(D \ {t.for}, h) = Total(D, h) - h[t.for]
      <4> HIDE DEF D
      <4> QED BY <1>2, <3>1, TotalOfLess
    <3>3. shift2[n] = shift[n] + t.by
      BY <2>5
    <3> HIDE DEF shift2, ts2
    <3> QED BY <1>3, <2>1, <3>1, <3>2, <3>3 DEF Balance
  <2>6. CASE n \notin t.who \/ t.by = 0
    <3>1. Up(ts2, n) = U /\ Down(ts2, n) = D
      BY <2>6 DEF Up, Down
    <3>2. shift2[n] = shift[n]
      BY <2>1, <2>6
    <3> HIDE DEF shift2, ts2
    <3> QED BY <3>1, <3>2 DEF Balance
  <2> QED BY <1>3, <2>4, <2>5, <2>6
<1> HIDE DEF ts2, shift2
<1>8. Balanced(h, list, ready, hid, ts2, shift2)
  BY <1>1, <1>7 DEF Places, Balanced
<1> QED BY <1>2, <1>4, <1>5, <1>6, <1>8 DEF Places, ts2, shift2

(* What is hidden leaves the list, alone. *)
LEMMA RemovesOne ==
  ASSUME NEW list, ListOK(list), NEW id \in On(list)
  PROVE  On(Without(list, id)) = On(list) \ {id}
<1> DEFINE at == CHOOSE i \in DOMAIN list : list[i] = id
           w == Without(list, id)
<1>1. /\ DOMAIN list = 1..Len(list) /\ Len(list) \in Nat
      /\ \A n \in On(list) : n \in Note /\ \E i \in 1..Len(list) : list[i] = n
  BY ListForms
<1>2. at \in 1..Len(list) /\ list[at] = id
  BY <1>1
<1>3. w = [i \in 1..Len(list) - 1 |-> list[IF i < at THEN i ELSE i + 1]]
  BY DEF Without
<1>4. On(w) \subseteq On(list) \ {id}
  BY WithoutProperties DEF ListOK
<1> HIDE DEF at, w
<1>5. ASSUME NEW n \in On(list), n # id PROVE n \in On(w)
  <2>1. PICK k \in 1..Len(list) : list[k] = n
    BY <1>1
  <2>2. CASE k < at
    <3>1. k \in 1..Len(list) - 1 /\ w[k] = n
      BY <1>1, <1>2, <1>3, <2>1, <2>2
    <3> QED BY <1>3, <3>1 DEF On
  <2>3. CASE k > at
    <3>1. k - 1 \in 1..Len(list) - 1 /\ ~(k - 1 < at) /\ k - 1 + 1 = k
      BY <1>1, <1>2, <2>3
    <3>2. w[k - 1] = n
      BY <1>3, <2>1, <3>1
    <3> QED BY <1>3, <3>1, <3>2 DEF On
  <2> QED BY <1>2, <1>5, <2>1, <2>2, <2>3
<1> QED BY <1>4, <1>5 DEF w

LEMMA PlacesRemove ==
  ASSUME NEW h, NEW list, NEW hid, NEW ts, NEW shift, Places(h, list, {}, hid, ts, shift),
         NEW id \in On(list), hid[id] = 1
  PROVE  Places(h, Without(list, id), {}, hid, ts, shift)
<1> DEFINE at == CHOOSE i \in DOMAIN list : list[i] = id
           w == Without(list, id)
           e(i) == IF i < at THEN i ELSE i + 1
<1>1. /\ DOMAIN list = 1..Len(list) /\ Len(list) \in Nat
      /\ \A i \in 1..Len(list) : list[i] \in Note /\ list[i] \in On(list)
      /\ \A i, j \in 1..Len(list) : list[i] = list[j] => i = j
      /\ \A n \in On(list) : n \in Note /\ \E i \in 1..Len(list) : list[i] = n
  BY ListForms DEF Places
<1>2. at \in 1..Len(list) /\ list[at] = id
  BY <1>1
<1>3. ListOK(w) /\ Len(w) = Len(list) - 1 /\ On(w) \subseteq On(list) \ {id}
  BY WithoutProperties DEF Places, ListOK
<1>4. DOMAIN w = 1..Len(list) - 1 /\ \A i \in 1..Len(list) - 1 : w[i] = list[e(i)]
  BY DEF Without
<1> HIDE DEF at, w
<1>5. \A i \in 1..Len(list) - 1 : e(i) \in 1..Len(list) /\ e(i) # at
  BY <1>1, <1>2
<1>6. \A k \in 1..Len(list) : k # at => \E i \in 1..Len(list) - 1 : k = e(i)
  <2> SUFFICES ASSUME NEW k \in 1..Len(list), k # at
               PROVE  \E i \in 1..Len(list) - 1 : k = e(i)
    OBVIOUS
  <2>1. CASE k < at
    <3>1. k \in 1..Len(list) - 1 /\ k = e(k)
      BY <1>1, <1>2, <2>1
    <3> QED BY <3>1
  <2>2. CASE k > at
    <3>1. k - 1 \in 1..Len(list) - 1 /\ k = e(k - 1)
      BY <1>1, <1>2, <2>2
    <3> QED BY <3>1
  <2> QED BY <1>2, <2>1, <2>2
<1>7. \A i, j \in 1..Len(list) - 1 : i < j <=> e(i) < e(j)
  BY <1>1, <1>2
<1> HIDE DEF e
<1>8. On(w) = On(list) \ {id}
  BY RemovesOne DEF w, Places
<1>9. DueOK(h, w, {}, hid, ts)
  BY <1>8 DEF Places, DueOK
<1>10. Untouched(w, hid, ts, shift)
  BY <1>8 DEF Places, Untouched
<1>11. ASSUME NEW i \in 1..Len(list) - 1, hid[w[i]] = 0
       PROVE  Balance(h, ts, shift, w[i]) = Total(After(w, {}, hid, i), h)
  <2> DEFINE K == {k \in 1..Len(list) : k > e(i) /\ hid[list[k]] = 0}
             M == {k \in 1..Len(list) - 1 : k > i /\ hid[w[k]] = 0}
  <2>1. After(w, {}, hid, i) = {w[k] : k \in M} /\ After(list, {}, hid, e(i)) = {list[k] : k \in K}
    BY <1>1, <1>4 DEF After
  <2>2. \A k \in M : e(k) \in K /\ w[k] = list[e(k)]
    <3> SUFFICES ASSUME NEW k \in M PROVE e(k) > e(i)
      BY <1>4, <1>5
    <3>1. e(i) < e(k) /\ e(i) \in Int /\ e(k) \in Int
      BY <1>1, <1>5, <1>7
    <3> QED BY <3>1
  <2>3. \A k \in K : \E m \in M : k = e(m)
    <3> SUFFICES ASSUME NEW k \in K PROVE \E m \in M : k = e(m)
      OBVIOUS
    <3>1. k # at
      BY <1>2
    <3>2. PICK m \in 1..Len(list) - 1 : k = e(m)
      BY <1>6, <3>1
    <3>3. e(i) < e(m) /\ i < m
      BY <1>1, <1>5, <1>7, <3>2
    <3>4. m \in M
      BY <1>1, <1>4, <3>2, <3>3
    <3> QED BY <3>2, <3>4
  <2> HIDE DEF K, M
  <2>4. {w[k] : k \in M} = {list[k] : k \in K}
    BY <2>2, <2>3
  <2>5. e(i) \in DOMAIN list /\ w[i] = list[e(i)] /\ hid[list[e(i)]] = 0
    BY <1>1, <1>4, <1>5, <1>11
  <2> QED BY <2>1, <2>4, <2>5 DEF Places, Balanced
<1> QED BY <1>3, <1>4, <1>9, <1>10, <1>11 DEF Places, Balanced, w

(* The heights of the messages, and the notification that is not ready.    *)
Heights == [m \in Note |-> IF m \in DOMAIN message THEN message[m].height ELSE 0]
Waiting == current # None /\ current.waits = "ready"
Ready == IF Waiting THEN {current.id} ELSE {}

PlacesInv ==
  /\ Places(Heights, notifications, Ready, hidden, timeouts, elementShift)
  /\ Waiting => notifications # <<>> /\ current.id = notifications[Len(notifications)]

LEMMA HeightsAre ==
  ASSUME BatchOK
  PROVE  /\ Heights \in [Note -> Nat] /\ 1..added \subseteq Note
         /\ \A m \in 1..added : message[m].height = Heights[m]
<1>1. /\ DOMAIN message = 1..Len(message) /\ Len(message) \in Nat
      /\ \A m \in 1..Len(message) : message[m] \in Kind
  BY LenProperties, ElementOfSeq DEF BatchOK
<1>2. \A m \in 1..added : m \in DOMAIN message /\ m \in Note
  BY <1>1, NotifierAssumption DEF BatchOK, Note
<1>3. \A m \in DOMAIN message : message[m].height \in Nat
  BY <1>1 DEF Kind
<1> QED BY <1>2, <1>3 DEF Heights

LEMMA PlacesStay ==
  ASSUME PlacesInv, UNCHANGED <<message, current, notifications, hidden, timeouts, elementShift>>
  PROVE  PlacesInv'
<1>1. Heights' = Heights /\ Ready' = Ready /\ Waiting' = Waiting
  BY DEF Heights, Ready, Waiting
<1> QED BY <1>1 DEF PlacesInv

(* The handler of the next action. *)
LEMMA HandlePlaces ==
  ASSUME BatchOK, NEW q, NEW list, NEW running, NEW timers,
         QueueOK(q, list), HiddenOK, \A n \in On(list) : hidden[n] = 0,
         On(list) \union ToShow(q) \subseteq 1..added,
         Places(Heights, list, {}, hidden, timeouts, elementShift),
         Handle(q, list, running, timers), UNCHANGED <<message, elementShift>>
  PROVE  PlacesInv'
<1> DEFINE pending == Pending(q, list)
<1>1. /\ q \in Seq(Action) /\ list \in Seq(Note) /\ ListOK(list)
      /\ DOMAIN q = 1..Len(q) /\ Len(q) \in Nat /\ \A i \in 1..Len(q) : q[i] \in Action
      /\ Heights' = Heights
  BY LenProperties, ElementOfSeq DEF QueueOK, Places, ListOK, Heights
<1>2. None \notin Progress
  BY NotifierAssumption
<1>3. CASE pending = <<>>
  <2>1. current' = None /\ notifications' = list /\ UNCHANGED <<timeouts, hidden>>
    BY <1>3 DEF Handle
  <2>2. Ready' = {} /\ ~Waiting'
    BY <2>1 DEF Ready, Waiting
  <2> QED BY <1>1, <2>1, <2>2 DEF PlacesInv
<1>4. CASE pending # <<>>
  <2>1. PICK k \in 1..Len(q) : (q[k].type = "SHOW" \/ q[k].id \in On(list)) /\ Head(pending) = q[k]
    BY <1>1, <1>4, PendingIsTail
  <2> DEFINE id == q[k].id
  <2>2. id \in Note /\ q[k].type \in {"SHOW", "HIDE"}
    BY <1>1 DEF Action
  <2>3. current' = [type |-> q[k].type, id |-> id, on |-> id,
                    waits |-> IF q[k].type = "SHOW" THEN "ready" ELSE "hide"]
    BY <1>4, <2>1 DEF Handle
  <2>4. current' # None /\ current'.id = id
        /\ (q[k].type = "SHOW" => current'.waits = "ready")
        /\ (q[k].type # "SHOW" => current'.waits = "hide")
    BY <1>2, <2>2, <2>3 DEF Progress
  <2>5. CASE q[k].type = "SHOW"
    <3>1. notifications' = Append(list, id) /\ UNCHANGED <<timeouts, hidden>>
      BY <1>4, <2>1, <2>5 DEF Handle
    <3>2. id \in ToShow(q)
      BY <1>1, <2>5 DEF ToShow, Shows
    <3>3. id \notin On(list) /\ hidden[id] = 0
      BY <2>2, <3>2 DEF QueueOK, WasHidden, HiddenOK
    <3>4. Ready' = {id}
      BY <2>4, <2>5 DEF Ready, Waiting
    <3>5. Places(Heights, Append(list, id), {id}, hidden, timeouts, elementShift)
      BY <2>2, <3>3, PlacesAppend
    <3>6. notifications' # <<>> /\ notifications'[Len(notifications')] = id
      BY <1>1, <2>2, <3>1, AppendProperties
    <3> QED BY <1>1, <2>4, <3>1, <3>4, <3>5, <3>6 DEF PlacesInv
  <2>6. CASE q[k].type # "SHOW"
    <3> DEFINE at == CHOOSE i \in DOMAIN list : list[i] = id
    <3>1. at \in DOMAIN list /\ list[at] = id /\ id \in On(list)
      BY <2>1, <2>6 DEF On
    <3>2. /\ notifications' = list /\ Hide(id, running, timers)
          /\ timeouts' = timeouts \union
               IF at = 1 THEN {} ELSE {Shift(Older(list, at), -message[id].height, id)}
      <4> DEFINE a == Head(pending)
      <4>1. a = q[k]
        BY <2>1
      <4>2. a.type # "SHOW"
        BY <2>6, <4>1
      <4>3. notifications' = list /\ Hide(a.id, running, timers)
        BY <1>4, <4>2 DEF Handle
      <4>4. timeouts' = timeouts \union
              IF (CHOOSE i \in DOMAIN list : list[i] = a.id) = 1 THEN {}
              ELSE {Shift(Older(list, CHOOSE i \in DOMAIN list : list[i] = a.id),
                          -message[a.id].height, a.id)}
        BY <1>4, <4>2 DEF Handle
      <4> HIDE DEF a
      <4> QED BY <4>1, <4>3, <4>4
    <3>3. hidden[id] = 0 /\ message[id].height = Heights[id]
      BY <3>1, HeightsAre
    <3>4. hidden' = [hidden EXCEPT ![id] = 1]
      BY <3>2, <3>3 DEF Hide
    <3> HIDE DEF at
    <3>5. Places(Heights, list, {}, [hidden EXCEPT ![list[at]] = 1],
                 timeouts \union IF at = 1 THEN {}
                                 ELSE {Shift(Older(list, at), -Heights[list[at]], list[at])},
                 elementShift)
      BY <3>1, <3>3, PlacesHide
    <3>6. Places(Heights, list, {}, hidden', timeouts', elementShift)
      BY <3>1, <3>2, <3>3, <3>4, <3>5
    <3>7. Ready' = {} /\ ~Waiting'
      BY <2>4, <2>6 DEF Ready, Waiting
    <3> QED BY <1>1, <3>2, <3>6, <3>7 DEF PlacesInv
  <2> QED BY <2>5, <2>6
<1> QED BY <1>3, <1>4

LEMMA PushPlaces ==
  ASSUME Inv, PlacesInv, NEW actions, NEW timers,
         QueueOK(actions, notifications), ToShow(queue) \intersect ToShow(actions) = {},
         ToShow(actions) \subseteq 1..added,
         Push(actions, timers), UNCHANGED <<message, elementShift>>
  PROVE  PlacesInv'
<1> DEFINE q == queue \o actions
<1>1. QueueOK(q, notifications) /\ ToShow(q) = ToShow(queue) \union ToShow(actions)
  BY JoinedQueue DEF Inv, HandlerOK
<1>2. CASE current = None
  <2>1. Handle(q, notifications, animations, timers)
    BY <1>2 DEF Push
  <2>2. \A n \in On(notifications) : hidden[n] = 0
    <3>1. \A n \in On(notifications) : n \in Note
      BY ListForms DEF Inv, HandlerOK
    <3> QED BY <1>2, <3>1 DEF Inv, HandlerOK, ActionsAreSerialized, HiddenOK
  <2>3. Places(Heights, notifications, {}, hidden, timeouts, elementShift)
    BY <1>2 DEF PlacesInv, Ready, Waiting
  <2>4. On(notifications) \union ToShow(q) \subseteq 1..added
    BY <1>1 DEF Inv, BatchOK, Held
  <2> HIDE DEF q
  <2> QED BY <1>1, <2>1, <2>2, <2>3, <2>4, HandlePlaces DEF Inv, HandlerOK
<1>3. CASE current # None
  BY <1>3, PlacesStay DEF Push
<1> QED BY <1>2, <1>3

(* The actions. *)
LEMMA ShowMessagesPlaces == Inv /\ PlacesInv /\ ShowMessages => PlacesInv'
<1> SUFFICES ASSUME Inv, PlacesInv, ShowMessages PROVE PlacesInv'
  OBVIOUS
<1>1. Push(ShowActions, autoHide) /\ UNCHANGED <<message, elementShift>>
  BY DEF ShowMessages, ShowActions
<1> QED BY <1>1, BatchShows, PushPlaces

LEMMA DismissPlaces ==
  ASSUME Inv, PlacesInv, NEW n \in Note, NEW timers, Push(HideAction(n), timers),
         UNCHANGED <<message, elementShift>>
  PROVE  PlacesInv'
BY DismissShowsNone, PushPlaces

LEMMA ReadyPlaces == Inv /\ PlacesInv /\ NotificationReady => PlacesInv'
<1> SUFFICES ASSUME Inv, PlacesInv, NotificationReady PROVE PlacesInv'
  OBVIOUS
<1> DEFINE n == Len(notifications)
           id == current.id
           oldest == notifications[1]
<1>1. /\ current \in Progress /\ current # None /\ current.waits = "ready"
      /\ UNCHANGED <<message, added, buffer, queue, notifications>>
  BY DEF NotificationReady, Inv, HandlerOK
<1>2. /\ ListOK(notifications) /\ HiddenOK /\ ActionsAreSerialized /\ None \notin Progress
  BY NotifierAssumption DEF Inv, HandlerOK
<1>3. /\ DOMAIN notifications = 1..n /\ n \in Nat
      /\ \A i \in 1..n : notifications[i] \in Note /\ notifications[i] \in On(notifications)
      /\ \A i, j \in 1..n : notifications[i] = notifications[j] => i = j
      /\ \A m \in On(notifications) : m \in Note
  BY <1>2, ListForms
<1>4. /\ Waiting /\ Ready = {id} /\ id \in Note /\ notifications # <<>> /\ id = notifications[n]
      /\ Places(Heights, notifications, {id}, hidden, timeouts, elementShift)
      /\ Heights' = Heights
  BY <1>1 DEF PlacesInv, Waiting, Ready, Progress, Heights
<1>5. n >= 1 /\ \A m \in On(notifications) : hidden[m] = 0
  BY <1>1, <1>2, <1>3, <1>4 DEF ActionsAreSerialized, HiddenOK
<1>6. message[id].height = Heights[id]
  <2>1. id \in 1..added
    BY <1>3, <1>4, <1>5 DEF Inv, BatchOK, Held
  <2> QED BY <2>1, HeightsAre DEF Inv
<1>7. ASSUME current'.waits # "ready",
             Places(Heights, notifications, {}, hidden', timeouts', elementShift')
      PROVE  PlacesInv'
  <2>1. ~Waiting' /\ Ready' = {}
    BY <1>7 DEF Waiting, Ready
  <2> QED BY <1>1, <1>4, <1>7, <2>1 DEF PlacesInv
<1>8. ASSUME NEW m \in On(notifications), m # id PROVE m \in Older(notifications, n)
  <2>1. PICK i \in 1..n : m = notifications[i]
    BY <1>3 DEF On
  <2>2. i \in 1..n - 1
    BY <1>3, <1>4, <1>8, <2>1
  <2> QED BY <2>1, <2>2 DEF Older
<1>9. Older(notifications, n) \subseteq On(notifications) \ {id}
  <2> SUFFICES ASSUME NEW i \in 1..n - 1
               PROVE  notifications[i] \in On(notifications) /\ notifications[i] # id
    BY DEF Older
  <2> QED BY <1>3, <1>4, <1>5
<1> HIDE DEF n, id, oldest
<1>10. CASE ReadyAlone
  <2>1. n = 1 /\ current'.waits = "show" /\ UNCHANGED <<elementShift, timeouts, hidden>>
    BY <1>1, <1>10 DEF ReadyAlone, Progress, n
  <2> DEFINE none == {}
  <2>2. Arrives(notifications, hidden, id, none)
    BY <1>3, <1>4, <1>5, <2>1 DEF Arrives, n
  <2>4. elementShift = [m \in Note |-> IF m \in none THEN elementShift[m] + Heights[id] ELSE elementShift[m]]
    BY <1>4 DEF Places
  <2> HIDE DEF none
  <2>3. ASSUME NEW shift2,
               shift2 = [m \in Note |-> IF m \in none THEN elementShift[m] + Heights[id] ELSE elementShift[m]]
        PROVE  Places(Heights, notifications, {}, hidden, timeouts, shift2)
    BY <1>4, <2>2, <2>3, PlacesArrive
  <2>5. Places(Heights, notifications, {}, hidden, timeouts, elementShift)
    BY <2>3, <2>4
  <2> QED BY <1>7, <2>1, <2>5
<1>11. CASE ReadyStacked
  <2>1. /\ current'.waits = "shift" /\ UNCHANGED hidden
        /\ elementShift' = Shifted(Older(notifications, n), Heights[id])
        /\ timeouts' = timeouts \union {Show(id)}
    BY <1>1, <1>6, <1>11 DEF ReadyStacked, Progress, n, id
  <2>2. Arrives(notifications, hidden, id, Older(notifications, n))
    BY <1>3, <1>4, <1>5, <1>8, <1>9 DEF Arrives, n
  <2>3. Places(Heights, notifications, {}, hidden, timeouts, elementShift')
    <3> DEFINE who == Older(notifications, n)
               shift2 == [m \in Note |-> IF m \in who THEN elementShift[m] + Heights[id] ELSE elementShift[m]]
    <3>1. elementShift' = shift2
      BY <2>1 DEF Shifted
    <3>2. Arrives(notifications, hidden, id, who)
      BY <2>2
    <3> HIDE DEF who
    <3> QED BY <1>4, <3>1, <3>2, PlacesArrive
  <2>4. Places(Heights, notifications, {}, hidden, timeouts', elementShift')
    BY <1>4, <2>1, <2>3, PlacesShowDue
  <2> QED BY <1>7, <2>1, <2>4
<1>12. CASE ReadyFull
  <2> DEFINE who == Older(notifications, n) \ {oldest}
             hid2 == [hidden EXCEPT ![oldest] = 1]
             ts2 == timeouts \union {Shift(who, Heights[id], id)}
  <2>1. /\ n > 1 /\ current'.waits = "hide" /\ UNCHANGED elementShift
        /\ Hide(oldest, animations, autoHide)
        /\ timeouts' = timeouts \union {Shift(who, Heights[id], id), Show(id)}
    BY <1>1, <1>6, <1>12 DEF ReadyFull, Progress, n, id, oldest
  <2>2. 1 \in DOMAIN notifications /\ oldest = notifications[1] /\ hidden[oldest] = 0 /\ oldest # id
        /\ oldest \in Note
    BY <1>3, <1>4, <1>5, <2>1 DEF oldest
  <2>3. hidden' = hid2
    BY <1>2, <2>1, <2>2 DEF Hide, HiddenOK
  <2>4. Places(Heights, notifications, {id}, hid2, timeouts, elementShift)
    <3>1. Places(Heights, notifications, {id}, [hidden EXCEPT ![notifications[1]] = 1],
                 timeouts \union IF 1 = 1 THEN {}
                                 ELSE {Shift(Older(notifications, 1), -Heights[notifications[1]],
                                             notifications[1])},
                 elementShift)
      BY <1>4, <2>2, PlacesHide
    <3> QED BY <2>2, <3>1
  <2>5. Arrives(notifications, hid2, id, who)
    <3>1. \A m \in On(notifications) : hid2[m] = 0 /\ m # id => m \in who
      BY <1>2, <1>3, <1>8, <2>2 DEF HiddenOK
    <3>2. hid2[id] = 0 /\ who \subseteq On(notifications) \ {id}
      BY <1>2, <1>3, <1>4, <1>5, <1>9, <2>2 DEF HiddenOK
    <3> QED BY <1>3, <1>4, <3>1, <3>2 DEF Arrives, n
  <2>6. Places(Heights, notifications, {}, hid2, ts2, elementShift)
    BY <2>4, <2>5, PlacesArriveLater
  <2>7. timeouts' = ts2 \union {Show(id)}
    BY <2>1
  <2> HIDE DEF ts2, hid2
  <2>8. Places(Heights, notifications, {}, hidden', timeouts', elementShift)
    BY <1>4, <2>3, <2>6, <2>7, PlacesShowDue
  <2> QED BY <1>7, <2>1, <2>8
<1> QED BY <1>10, <1>11, <1>12 DEF NotificationReady

LEMMA TimeoutPlaces == Inv /\ PlacesInv /\ TimeoutFires => PlacesInv'
<1> SUFFICES ASSUME Inv, PlacesInv, TimeoutFires PROVE PlacesInv'
  OBVIOUS
<1>1. UNCHANGED <<message, current, notifications, hidden>>
  BY DEF TimeoutFires
<1>2. PICK t \in timeouts :
        /\ timeouts' = timeouts \ {t}
        /\ IF t.do = "shift" THEN elementShift' = Shifted(t.who, t.by) ELSE UNCHANGED elementShift
  BY DEF TimeoutFires
<1>3. Heights' = Heights /\ Ready' = Ready /\ Waiting' = Waiting
  BY <1>1 DEF Heights, Ready, Waiting
<1>4. Places(Heights, notifications, Ready, hidden, timeouts \ {t}, Shifted(t.who, t.by))
  BY PlacesFire DEF PlacesInv, Shifted
<1>5. t.do # "shift" => Shifted(t.who, t.by) = elementShift
  <2> SUFFICES ASSUME t.do # "shift" PROVE Shifted(t.who, t.by) = elementShift
    OBVIOUS
  <2>1. t.by = 0 /\ elementShift \in [Note -> Int]
    BY DEF PlacesInv, Places, DueOK
  <2>2. \A m \in Note : elementShift[m] + t.by = elementShift[m]
    BY <2>1
  <2> QED BY <2>1, <2>2 DEF Shifted
<1> QED BY <1>1, <1>2, <1>3, <1>4, <1>5 DEF PlacesInv

LEMMA AnimationPlaces == Inv /\ PlacesInv /\ AnimationEnds => PlacesInv'
<1> SUFFICES ASSUME Inv, PlacesInv, AnimationEnds PROVE PlacesInv'
  OBVIOUS
<1>1. UNCHANGED <<message, elementShift>>
  BY DEF AnimationEnds
<1>2. PICK a \in animations :
        \/ a.do = "show" /\ ShowEnds(a.id, animations \ {a})
        \/ a.do = "hide" /\ HideEnds(a.id, animations \ {a})
        \/ a.do = "shift" /\ ShiftEnds(animations \ {a})
  BY DEF AnimationEnds
<1> DEFINE running == animations \ {a}
<1>3. /\ ListOK(notifications) /\ HiddenOK /\ AnimationsOK /\ QueueOK(queue, notifications)
      /\ ActionsAreSerialized /\ BatchOK
  BY DEF Inv, HandlerOK
<1>4. \A m \in On(notifications) : m \in Note
  BY <1>3, ListForms
<1>5. On(notifications) \union ToShow(queue) \subseteq 1..added
  BY <1>3 DEF BatchOK, Held
<1>6. ASSUME current # None, current.waits \in {"show", "shift"}, NEW timers,
             Handle(queue, notifications, running, timers)
      PROVE  PlacesInv'
  <2>1. \A m \in On(notifications) : hidden[m] = 0
    BY <1>3, <1>4, <1>6 DEF ActionsAreSerialized, HiddenOK
  <2>2. Places(Heights, notifications, {}, hidden, timeouts, elementShift)
    BY <1>6 DEF PlacesInv, Ready, Waiting
  <2> HIDE DEF running
  <2> QED BY <1>1, <1>3, <1>5, <1>6, <2>1, <2>2, HandlePlaces
<1>7. CASE a.do = "show" /\ ShowEnds(a.id, running)
  <2>1. CASE current # None /\ current.waits = "show" /\ current.id = a.id
    BY <1>6, <1>7, <2>1 DEF ShowEnds
  <2>2. CASE ~(current # None /\ current.waits = "show" /\ current.id = a.id)
    <3>1. UNCHANGED <<current, notifications, timeouts, hidden>>
      BY <1>7, <2>2 DEF ShowEnds
    <3> QED BY <1>1, <3>1, PlacesStay
  <2> QED BY <2>1, <2>2
<1>8. CASE a.do = "shift" /\ ShiftEnds(running)
  BY <1>3, <1>6, <1>8 DEF ShiftEnds, AnimationsOK
<1>9. CASE a.do = "hide" /\ HideEnds(a.id, running)
  <2> DEFINE list == Without(notifications, a.id)
  <2>1. /\ current # None /\ current.waits = "hide" /\ current.on = a.id
        /\ a.id \in On(notifications) /\ hidden[a.id] = 1
        /\ Handle(queue, list, running, autoHide)
    BY <1>3, <1>9 DEF AnimationsOK, HideEnds
  <2>2. On(list) \subseteq On(notifications) \ {a.id}
    BY <1>3, <2>1, WithoutProperties DEF ListOK
  <2>3. \A m \in On(list) : hidden[m] = 0
    BY <1>3, <1>4, <2>1, <2>2 DEF ActionsAreSerialized, HiddenOK
  <2>4. QueueOK(queue, list)
    BY <1>3, <2>2 DEF QueueOK
  <2>5. Places(Heights, notifications, {}, hidden, timeouts, elementShift)
    BY <2>1 DEF PlacesInv, Ready, Waiting
  <2>6. Places(Heights, list, {}, hidden, timeouts, elementShift)
    BY <2>1, <2>5, PlacesRemove
  <2>7. On(list) \union ToShow(queue) \subseteq 1..added
    BY <1>5, <2>2
  <2> HIDE DEF list, running
  <2> QED BY <1>1, <1>3, <2>1, <2>3, <2>4, <2>6, <2>7, HandlePlaces
<1> QED BY <1>2, <1>7, <1>8, <1>9

LEMMA OthersPlaces ==
  Inv /\ PlacesInv /\ (AddMessage \/ AutoHideEnds \/ MouseMoves \/ ClickDismiss \/ ActionClick
                       \/ UNCHANGED vars) => PlacesInv'
<1> SUFFICES ASSUME Inv, PlacesInv PROVE
      AddMessage \/ AutoHideEnds \/ MouseMoves \/ ClickDismiss \/ ActionClick \/ UNCHANGED vars
        => PlacesInv'
  OBVIOUS
<1>1. CASE AddMessage \/ MouseMoves \/ UNCHANGED vars
  BY <1>1, PlacesStay DEF AddMessage, MouseMoves, vars, show
<1>2. CASE AutoHideEnds
  <2>1. UNCHANGED <<message, elementShift>>
    BY <1>2 DEF AutoHideEnds
  <2>2. ASSUME NEW n \in Note, NEW timers, Push(HideAction(n), timers) PROVE PlacesInv'
    BY <2>1, <2>2, DismissPlaces
  <2>3. ASSUME UNCHANGED <<current, notifications, timeouts, hidden>> PROVE PlacesInv'
    BY <2>1, <2>3, PlacesStay
  <2> QED BY <1>2, <2>2, <2>3 DEF AutoHideEnds
<1>3. CASE ClickDismiss \/ ActionClick
  <2>1. UNCHANGED <<message, elementShift>>
    BY <1>3 DEF ClickDismiss, ActionClick
  <2>2. PICK n \in Visible : Push(HideAction(n), autoHide)
    BY <1>3 DEF ClickDismiss, ActionClick
  <2>3. n \in Note
    BY <2>2, ElementOfSeq, LenProperties DEF Visible, On, Inv, HandlerOK, ListOK
  <2> QED BY <2>1, <2>2, <2>3, DismissPlaces
<1> QED BY <1>1, <1>2, <1>3

LEMMA PlacesInductive == Spec => []PlacesInv
<1>1. Init => PlacesInv
  <2> SUFFICES ASSUME Init PROVE PlacesInv
    OBVIOUS
  <2>1. /\ message \in Seq(Kind) /\ current = None /\ notifications = <<>> /\ timeouts = {}
        /\ elementShift = [n \in Note |-> 0] /\ hidden = [n \in Note |-> 0]
    BY NotifierAssumption DEF Init
  <2>2. Heights \in [Note -> Nat]
    <3>1. \A m \in DOMAIN message : message[m] \in Kind
      BY <2>1, LenProperties, ElementOfSeq
    <3>2. \A m \in DOMAIN message : message[m].height \in Nat
      BY <3>1 DEF Kind
    <3> QED BY <3>2 DEF Heights
  <2>3. ListOK(<<>>) /\ On(<<>>) = {} /\ DOMAIN <<>> = {}
    BY DEF ListOK, Distinct, On
  <2> QED BY <2>1, <2>2, <2>3 DEF PlacesInv, Places, DueOK, Untouched, Balanced, Ready, Waiting
<1>2. Inv /\ PlacesInv /\ [Next]_vars => PlacesInv'
  BY ShowMessagesPlaces, ReadyPlaces, TimeoutPlaces, AnimationPlaces, OthersPlaces DEF Next
<1> QED BY <1>1, <1>2, InvInductive, PTL DEF Spec

(* When everything has come to rest, each notification is below exactly the *)
(* newer ones: for any messages, of any heights, in any number, whatever    *)
(* was hidden or added while shifts were postponed (shiftNotifications).    *)
THEOREM NoGaps == Spec => []StackHasNoGaps
<1>1. Inv /\ PlacesInv => StackHasNoGaps
  <2> SUFFICES ASSUME Inv, PlacesInv, current = None, timeouts = {}, NEW i \in DOMAIN notifications
               PROVE  elementShift[notifications[i]] = Below(i)
    BY DEF StackHasNoGaps
  <2>1. /\ DOMAIN notifications = 1..Len(notifications)
        /\ \A k \in 1..Len(notifications) : notifications[k] \in Note /\ notifications[k] \in On(notifications)
    BY ListForms DEF Inv, HandlerOK
  <2>2. \A k \in 1..Len(notifications) : hidden[notifications[k]] = 0
    BY <2>1 DEF Inv, HandlerOK, ActionsAreSerialized, HiddenOK
  <2>3. Places(Heights, notifications, {}, hidden, {}, elementShift)
    BY DEF PlacesInv, Ready, Waiting
  <2>4. Up({}, notifications[i]) = {} /\ Down({}, notifications[i]) = {} /\ Total({}, Heights) = 0
    BY <2>3, TotalOfNone DEF Up, Down, Places
  <2>5. elementShift[notifications[i]] + 0 - 0 = Total(After(notifications, {}, hidden, i), Heights)
    BY <2>1, <2>2, <2>3, <2>4 DEF Places, Balanced, Balance
  <2>6. After(notifications, {}, hidden, i) = {notifications[j] : j \in i + 1..Len(notifications)}
    BY <2>1, <2>2 DEF After
  <2>7. Below(i) = Total({notifications[j] : j \in i + 1..Len(notifications)}, Heights)
    <3>1. \A k \in DOMAIN notifications : notifications[k] \in 1..added
      BY <2>1 DEF Inv, BatchOK, Held
    <3>2. \A k \in DOMAIN notifications : message[notifications[k]].height = Heights[notifications[k]]
      BY <3>1, HeightsAre DEF Inv
    <3>3. Heights \in [Note -> Int] /\ ListOK(notifications)
      BY HeightsAre DEF Inv, HandlerOK
    <3> QED BY <3>2, <3>3, BelowIs
  <2>8. elementShift[notifications[i]] \in Int
    BY <2>1, <2>3 DEF Places
  <2>9. elementShift[notifications[i]] = Total(After(notifications, {}, hidden, i), Heights)
    BY <2>5, <2>8
  <2> QED BY <2>6, <2>7, <2>9
<1> QED BY <1>1, InvInductive, PlacesInductive, PTL

-----------------------------------------------------------------------------
(* The types of what the invariants above do not speak of. *)
HandledTypes ==
  /\ \A a \in animations : a.id \in Note
  /\ autoHide \in [Note -> Timer] /\ dispatched \in [Note -> Nat]

OtherTypes ==
  /\ pointer \in Note \union {None} /\ actionsClicked \in [Note -> Nat]
  /\ shown \subseteq Note /\ dropped \subseteq Note /\ early \subseteq Note /\ tooLate \subseteq Note

LEMMA TimerTypes ==
  ASSUME NEW t \in Timer
  PROVE  Pause(t) \in Timer /\ Continue(t) \in Timer /\ Start(t) \in Timer
<1>1. Pause(t) \in Timer
  BY DEF Timer, Pause
<1>2. Continue(t) \in Timer
  <2>1. t = [promise |-> t.promise, running |-> t.running, stray |-> t.stray] /\ t.stray \in Nat
    BY DEF Timer
  <2> DEFINE k == IF t.running THEN t.stray + 1 ELSE t.stray
  <2>2. Continue(t) = [t EXCEPT !.running = TRUE, !.stray = k]
    BY DEF Continue
  <2>3. k \in Nat
    BY <2>1
  <2> HIDE DEF k
  <2>4. [t EXCEPT !.running = TRUE, !.stray = k] \in Timer
    BY <2>3 DEF Timer
  <2> QED BY <2>2, <2>4
<1>3. Start(t) \in Timer
  BY <1>2 DEF Timer, Start
<1> QED BY <1>1, <1>2, <1>3

LEMMA HideTypes ==
  ASSUME NEW id \in Note, NEW running, NEW timers \in [Note -> Timer],
         \A a \in running : a.id \in Note, dispatched \in [Note -> Nat],
         actionsClicked' \in [Note -> Nat], Hide(id, running, timers)
  PROVE  HandledTypes'
<1>1. Pause(timers[id]) \in Timer
  BY TimerTypes
<1>2. animations' = running \union {[do |-> "hide", id |-> id]}
  BY DEF Hide
<1>3. autoHide' \in [Note -> Timer]
  BY <1>1 DEF Hide
<1>4. dispatched' \in [Note -> Nat]
  BY DEF Hide
<1> QED BY <1>2, <1>3, <1>4 DEF HandledTypes

LEMMA HandleTypes ==
  ASSUME NEW q \in Seq(Action), NEW list \in Seq(Note), NEW running, NEW timers \in [Note -> Timer],
         \A a \in running : a.id \in Note, dispatched \in [Note -> Nat],
         actionsClicked' \in [Note -> Nat], Handle(q, list, running, timers)
  PROVE  HandledTypes'
<1> DEFINE pending == Pending(q, list)
           a == Head(pending)
<1>1. CASE pending = <<>>
  BY <1>1 DEF Handle, HandledTypes
<1>2. CASE pending # <<>>
  <2>1. PICK k \in 1..Len(q) : a = q[k]
    BY <1>2, PendingIsTail
  <2>2. a.id \in Note
    <3>1. q[k] \in Action
      BY ElementOfSeq
    <3> QED BY <2>1, <3>1 DEF Action
  <2>3. CASE a.type = "SHOW"
    BY <1>2, <2>3 DEF Handle, HandledTypes
  <2>4. CASE a.type # "SHOW"
    <3>1. Hide(a.id, running, timers)
      BY <1>2, <2>4 DEF Handle
    <3> HIDE DEF a
    <3> QED BY <2>2, <3>1, HideTypes
  <2> QED BY <2>3, <2>4
<1> QED BY <1>1, <1>2

LEMMA PushTypes ==
  ASSUME Inv, HandledTypes, NEW timers \in [Note -> Timer],
         NEW actions, QueueOK(actions, notifications),
         actionsClicked' \in [Note -> Nat], Push(actions, timers)
  PROVE  HandledTypes'
<1>1. actions \in Seq(Action)
  BY DEF QueueOK
<1>2. queue \o actions \in Seq(Action) /\ notifications \in Seq(Note)
  BY <1>1, ConcatProperties DEF Inv, HandlerOK, QueueOK, ListOK
<1>3. CASE current = None
  BY <1>2, <1>3, HandleTypes DEF Push, HandledTypes
<1>4. CASE current # None
  BY <1>4 DEF Push, HandledTypes
<1> QED BY <1>3, <1>4

TypesInv == HandledTypes /\ OtherTypes

LEMMA TypesStep ==
  ASSUME Inv, PlacesInv, TypesInv, [Next]_vars
  PROVE  TypesInv'
<1>1. /\ ListOK(notifications) /\ queue \in Seq(Action) /\ current \in Progress \union {None}
      /\ \A m \in On(notifications) : m \in Note
      /\ autoHide \in [Note -> Timer] /\ dispatched \in [Note -> Nat]
      /\ \A a \in animations : a.id \in Note
  BY ListForms DEF Inv, HandlerOK, QueueOK, TypesInv, HandledTypes
<1>2. \A n \in Note : autoHide[n] \in Timer
  BY <1>1
<1>3. Visible \subseteq Note
  BY <1>1 DEF Visible
<1>4. ASSUME UNCHANGED <<animations, autoHide, dispatched>> PROVE HandledTypes'
  BY <1>4 DEF TypesInv, HandledTypes
<1>5. ASSUME UNCHANGED <<mouse, shown, dropped>> PROVE OtherTypes' /\ actionsClicked' \in [Note -> Nat]
  BY <1>5 DEF TypesInv, OtherTypes, mouse
<1>6. CASE AddMessage \/ UNCHANGED vars
  BY <1>4, <1>5, <1>6 DEF AddMessage, vars, show, TypesInv
<1>7. CASE ShowMessages
  <2>1. Push(ShowActions, autoHide) /\ UNCHANGED <<mouse, shown>>
        /\ dropped' = dropped \union (On(buffer) \ On(Batch))
    BY <1>7 DEF ShowMessages, ShowActions
  <2>2. On(buffer) \subseteq Note
    <3>1. buffer \in Seq(1..added) /\ 1..added \subseteq Note
      BY HeightsAre DEF Inv, BatchOK
    <3> QED BY <3>1, ElementOfSeq, LenProperties DEF On
  <2>3. OtherTypes' /\ actionsClicked' \in [Note -> Nat]
    BY <2>1, <2>2 DEF TypesInv, OtherTypes, mouse
  <2> QED BY <1>1, <2>1, <2>3, BatchShows, PushTypes DEF TypesInv
<1>8. CASE NotificationReady
  <2>1. /\ UNCHANGED <<mouse, dropped>> /\ current.id \in Note
        /\ notifications # <<>> /\ notifications[1] \in Note
    <3>1. current \in Progress /\ Waiting
      BY <1>1, <1>8 DEF NotificationReady, Waiting
    <3>2. notifications # <<>>
      BY <3>1 DEF PlacesInv
    <3>3. notifications[1] \in Note
      BY <1>1, <3>2, ListForms DEF ListOK
    <3> QED BY <1>8, <3>1, <3>2, <3>3 DEF NotificationReady, Progress
  <2>2. \A d : [do |-> d, id |-> current.id].id \in Note
    BY <2>1
  <2>3. CASE ReadyAlone
    BY <1>1, <2>1, <2>2, <2>3 DEF ReadyAlone, TypesInv, HandledTypes, OtherTypes, mouse
  <2>4. CASE ReadyStacked
    BY <1>1, <2>1, <2>2, <2>4 DEF ReadyStacked, TypesInv, HandledTypes, OtherTypes, mouse
  <2>5. CASE ReadyFull
    <3>1. Hide(notifications[1], animations, autoHide) /\ UNCHANGED shown
      BY <2>5 DEF ReadyFull
    <3>2. OtherTypes' /\ actionsClicked' \in [Note -> Nat]
      BY <1>5, <2>1, <3>1
    <3> QED BY <1>1, <2>1, <3>1, <3>2, HideTypes DEF TypesInv
  <2> QED BY <1>8, <2>3, <2>4, <2>5 DEF NotificationReady
<1>9. CASE TimeoutFires
  <2>1. PICK t \in timeouts :
          \/ UNCHANGED <<animations, shown>>
          \/ /\ animations' = animations \union {[do |-> "show", id |-> t.for]}
             /\ shown' = shown \union ({t.for} \intersect On(notifications))
    BY <1>9 DEF TimeoutFires
  <2>2. t.for \in Note /\ [do |-> "show", id |-> t.for].id = t.for
    BY DEF PlacesInv, Places, DueOK
  <2>3. UNCHANGED <<autoHide, mouse, dispatched, dropped>>
    BY <1>9 DEF TimeoutFires
  <2> QED BY <2>1, <2>2, <2>3 DEF TypesInv, HandledTypes, OtherTypes, mouse
<1>10. CASE AnimationEnds
  <2>1. UNCHANGED <<actionsClicked, early, tooLate, shown, dropped>>
    BY <1>10 DEF AnimationEnds
  <2>2. PICK a \in animations :
          \/ a.do = "show" /\ ShowEnds(a.id, animations \ {a})
          \/ a.do = "hide" /\ HideEnds(a.id, animations \ {a})
          \/ a.do = "shift" /\ ShiftEnds(animations \ {a})
    BY <1>10 DEF AnimationEnds
  <2> DEFINE running == animations \ {a}
  <2>3. \A b \in running : b.id \in Note
    BY <1>1
  <2>4. actionsClicked' \in [Note -> Nat]
    BY <2>1 DEF TypesInv, OtherTypes
  <2>5. ASSUME pointer' \in Note \union {None} PROVE OtherTypes'
    BY <2>1, <2>5 DEF TypesInv, OtherTypes
  <2>6. notifications \in Seq(Note) /\ pointer \in Note \union {None}
    BY <1>1 DEF ListOK, TypesInv, OtherTypes
  <2>7. CASE a.do = "show" /\ ShowEnds(a.id, running)
    <3> DEFINE timers == [autoHide EXCEPT ![a.id] = IF message[a.id].auto THEN Start(@) ELSE @]
    <3>1. timers \in [Note -> Timer]
      <4>1. Start(autoHide[a.id]) \in Timer
        BY <1>1, <1>2, TimerTypes
      <4> QED BY <1>1, <4>1
    <3>2. /\ UNCHANGED pointer
          /\ \/ Handle(queue, notifications, running, timers)
             \/ animations' = running /\ autoHide' = timers /\ UNCHANGED dispatched
      BY <2>7 DEF ShowEnds
    <3> HIDE DEF running, timers
    <3>3. HandledTypes'
      BY <1>1, <2>3, <2>4, <2>6, <3>1, <3>2, HandleTypes DEF HandledTypes
    <3> QED BY <2>5, <2>6, <3>2, <3>3 DEF TypesInv
  <2>8. CASE a.do = "shift" /\ ShiftEnds(running)
    <3> HIDE DEF running
    <3> QED BY <1>1, <2>3, <2>4, <2>5, <2>6, <2>8, HandleTypes DEF ShiftEnds, TypesInv
  <2>9. CASE a.do = "hide" /\ HideEnds(a.id, running)
    <3>1. Without(notifications, a.id) \in Seq(Note)
      <4>1. a.id \in On(notifications)
        BY <2>9 DEF Inv, HandlerOK, AnimationsOK
      <4> QED BY <1>1, <4>1, WithoutProperties DEF ListOK
    <3>2. pointer' \in Note \union {None}
      BY <2>6, <2>9 DEF HideEnds
    <3> HIDE DEF running
    <3> QED BY <1>1, <2>3, <2>4, <2>5, <2>9, <3>1, <3>2, HandleTypes DEF HideEnds, TypesInv
  <2> QED BY <2>2, <2>7, <2>8, <2>9
<1>11. CASE AutoHideEnds
  <2>1. OtherTypes' /\ actionsClicked' \in [Note -> Nat]
    BY <1>5, <1>11 DEF AutoHideEnds
  <2>2. PICK n \in Note :
          \E t \in {[autoHide[n] EXCEPT !.running = FALSE], [autoHide[n] EXCEPT !.stray = @ - 1]} :
            /\ t.stray >= 0
            /\ \/ Push(HideAction(n), [autoHide EXCEPT ![n] = [t EXCEPT !.promise = "resolved"]])
               \/ autoHide' = [autoHide EXCEPT ![n] = t] /\ UNCHANGED <<animations, dispatched>>
    BY <1>11 DEF AutoHideEnds
  <2>3. PICK t \in {[autoHide[n] EXCEPT !.running = FALSE], [autoHide[n] EXCEPT !.stray = @ - 1]} :
            /\ t.stray >= 0
            /\ \/ Push(HideAction(n), [autoHide EXCEPT ![n] = [t EXCEPT !.promise = "resolved"]])
               \/ autoHide' = [autoHide EXCEPT ![n] = t] /\ UNCHANGED <<animations, dispatched>>
    BY <2>2
  <2>4. t \in Timer /\ [t EXCEPT !.promise = "resolved"] \in Timer
    <3>1. autoHide[n] \in Timer
      BY <1>2
    <3>2. t \in Timer
      <4> DEFINE u == autoHide[n]
      <4> HIDE DEF u
      <4>1. /\ u = [promise |-> u.promise, running |-> u.running, stray |-> u.stray]
            /\ u \in Timer /\ u.stray \in Nat
        BY <3>1 DEF Timer, u
      <4>2. CASE t = [u EXCEPT !.running = FALSE]
        BY <4>1, <4>2 DEF Timer
      <4>3. CASE t = [u EXCEPT !.stray = @ - 1]
        <5>1. u.stray - 1 \in Nat /\ t = [promise |-> u.promise, running |-> u.running, stray |-> u.stray - 1]
          BY <2>3, <4>1, <4>3
        <5> DEFINE k == u.stray - 1
        <5> HIDE DEF k
        <5>2. k \in Nat /\ t = [promise |-> u.promise, running |-> u.running, stray |-> k]
          BY <5>1 DEF k
        <5> QED BY <4>1, <5>2 DEF Timer
      <4> QED BY <2>3, <4>2, <4>3 DEF u
    <3> QED BY <3>2 DEF Timer
  <2>5. CASE Push(HideAction(n), [autoHide EXCEPT ![n] = [t EXCEPT !.promise = "resolved"]])
    <3> DEFINE timers == [autoHide EXCEPT ![n] = [t EXCEPT !.promise = "resolved"]]
    <3>1. timers \in [Note -> Timer]
      BY <1>1, <2>4
    <3>2. Push(HideAction(n), timers)
      BY <2>5
    <3> HIDE DEF timers
    <3> QED BY <2>1, <3>1, <3>2, DismissShowsNone, PushTypes DEF TypesInv
  <2>6. CASE autoHide' = [autoHide EXCEPT ![n] = t] /\ UNCHANGED <<animations, dispatched>>
    BY <1>1, <2>1, <2>4, <2>6 DEF TypesInv, HandledTypes
  <2> QED BY <2>3, <2>5, <2>6
<1>12. CASE MouseMoves
  <2>1. PICK n \in (Visible \union {None}) \ {pointer} :
          /\ pointer' = n
          /\ autoHide' = [m \in Note |->
               IF m = pointer /\ message[m].auto THEN Continue(autoHide[m])
               ELSE IF m = n /\ message[m].auto THEN Pause(autoHide[m])
               ELSE autoHide[m]]
          /\ early' = IF n # None /\ autoHide[n].promise = "none" THEN early \union {n} ELSE early
    BY <1>12 DEF MouseMoves
  <2>2. UNCHANGED <<animations, actionsClicked, tooLate, dispatched, shown, dropped>>
    BY <1>12 DEF MouseMoves, show
  <2>3. autoHide' \in [Note -> Timer]
    <3>1. \A m \in Note : autoHide[m] \in Timer /\ Continue(autoHide[m]) \in Timer /\ Pause(autoHide[m]) \in Timer
      BY <1>2, TimerTypes
    <3> QED BY <2>1, <3>1
  <2>4. pointer' \in Note \union {None} /\ early' \subseteq Note
    BY <1>3, <2>1 DEF TypesInv, OtherTypes
  <2> QED BY <2>2, <2>3, <2>4 DEF TypesInv, HandledTypes, OtherTypes
<1>13. CASE ClickDismiss
  <2>1. UNCHANGED <<mouse, shown, dropped>>
    BY <1>13 DEF ClickDismiss
  <2>2. PICK n \in Visible : Push(HideAction(n), autoHide)
    BY <1>13 DEF ClickDismiss
  <2> QED BY <1>1, <1>3, <1>5, <2>1, <2>2, DismissShowsNone, PushTypes DEF TypesInv
<1>14. CASE ActionClick
  <2>1. PICK n \in Visible :
          /\ actionsClicked' = [actionsClicked EXCEPT ![n] = @ + 1]
          /\ tooLate' = IF hidden[n] > 0 THEN tooLate \union {n} ELSE tooLate
          /\ Push(HideAction(n), autoHide)
    BY <1>14 DEF ActionClick
  <2>2. UNCHANGED <<pointer, early, shown, dropped>> /\ n \in Note
    BY <1>3, <1>14 DEF ActionClick
  <2>3. actionsClicked' \in [Note -> Nat] /\ tooLate' \subseteq Note
    BY <2>1, <2>2 DEF TypesInv, OtherTypes
  <2>4. OtherTypes'
    BY <2>2, <2>3 DEF TypesInv, OtherTypes
  <2> QED BY <1>1, <2>1, <2>2, <2>3, <2>4, DismissShowsNone, PushTypes DEF TypesInv
<1> QED BY <1>6, <1>7, <1>8, <1>9, <1>10, <1>11, <1>12, <1>13, <1>14 DEF Next

LEMMA TypesInductive == Spec => []TypesInv
<1>1. Init => TypesInv
  <2> SUFFICES ASSUME Init PROVE TypesInv
    OBVIOUS
  <2>1. [promise |-> "none", running |-> FALSE, stray |-> 0] \in Timer
    BY DEF Timer
  <2> QED BY <2>1 DEF Init, TypesInv, HandledTypes, OtherTypes
<1>2. Inv /\ PlacesInv /\ TypesInv /\ [Next]_vars => TypesInv'
  BY TypesStep
<1> QED BY <1>1, <1>2, InvInductive, PlacesInductive, PTL DEF Spec

(* The state has its type in every session.                                 *)
THEOREM TypeCorrect == Spec => []TypeOK
<1>1. Inv /\ PlacesInv /\ TypesInv => TypeOK
  <2> SUFFICES ASSUME Inv, PlacesInv, TypesInv PROVE TypeOK
    OBVIOUS
  <2>1. /\ message \in Seq(Kind) /\ Len(message) <= MaxMessages
        /\ added \in 0..Len(message) /\ buffer \in Seq(1..added)
    BY DEF Inv, BatchOK
  <2>2. queue \in Seq(Action) /\ current \in Progress \union {None} /\ notifications \in Seq(Note)
    BY DEF Inv, HandlerOK, QueueOK, ListOK
  <2>3. /\ elementShift \in [Note -> Int] /\ hidden \in [Note -> Nat]
        /\ \A t \in timeouts : t.do \in {"shift", "show"} /\ t.for \in Note
    BY DEF PlacesInv, Places, DueOK
  <2>4. animations \subseteq [do : {"show", "hide", "shift"}, id : Note]
    BY DEF Inv, HandlerOK, AnimationsOK, TypesInv, HandledTypes
  <2>5. /\ autoHide \in [Note -> Timer] /\ pointer \in Note \union {None}
        /\ actionsClicked \in [Note -> Nat] /\ dispatched \in [Note -> Nat]
        /\ {shown, dropped, early, tooLate} \subseteq SUBSET Note
    BY DEF TypesInv, HandledTypes, OtherTypes
  <2> QED BY <2>1, <2>2, <2>3, <2>4, <2>5 DEF TypeOK
<1> QED BY <1>1, InvInductive, PlacesInductive, TypesInductive, PTL

-----------------------------------------------------------------------------
(* A notification is shown once, and its timer starts when it has been: a   *)
(* mouse that comes later finds the timer started, and stops it.            *)
Appear(n) == [do |-> "show", id |-> n]

Unshown(list, ready, hid, n) == (n \notin On(list) /\ hid[n] = 0) \/ n \in ready

Once(list, ready, hid, ts, anims, timers) ==
  /\ \A t \in ts : t.do = "show" => t = Show(t.for)
  /\ \A n \in Note :
       /\ Unshown(list, ready, hid, n) =>
            Show(n) \notin ts /\ Appear(n) \notin anims /\ timers[n].promise = "none"
       /\ Show(n) \in ts => Appear(n) \notin anims /\ timers[n].promise = "none"
       /\ Appear(n) \in anims => timers[n].promise = "none"

UnderMouse(timers, over, soon) ==
  /\ timers \in [Note -> Timer]
  /\ \A n \in Note \ soon :
       /\ timers[n].promise = "none" => ~timers[n].running
       /\ timers[n].stray = 0
       /\ over = n => ~timers[n].running /\ timers[n].promise # "none"

(* A notification that stays has no timer. *)
SilentInv == \A n \in Note : autoHide[n].promise # "none" => message[n].auto

OnceInv == Once(notifications, Ready, hidden, timeouts, animations, autoHide)
MouseInv == UnderMouse(autoHide, pointer, early)

(* hide *)
LEMMA HideOnce ==
  ASSUME NEW list, NEW ready, HiddenOK, NEW timers \in [Note -> Timer], NEW running,
         Once(list, ready, hidden, timeouts, running, timers),
         NEW id \in On(list), id \in Note, hidden[id] = 0, Hide(id, running, timers)
  PROVE  Once(list, ready, hidden', timeouts, animations', autoHide')
<1>1. /\ animations' = running \union {[do |-> "hide", id |-> id]}
      /\ autoHide' = [timers EXCEPT ![id] = Pause(@)] /\ hidden' = [hidden EXCEPT ![id] = 1]
  BY DEF Hide
<1>2. \A n \in Note : Appear(n) \in animations' <=> Appear(n) \in running
  BY <1>1 DEF Appear
<1>3. \A n \in Note : autoHide'[n].promise = timers[n].promise
  <2>1. \A t \in Timer : Pause(t).promise = t.promise
    BY DEF Pause, Timer
  <2> QED BY <1>1, <2>1
<1>4. \A n \in Note : Unshown(list, ready, hidden', n) => Unshown(list, ready, hidden, n)
  BY <1>1 DEF Unshown, HiddenOK
<1> QED BY <1>2, <1>3, <1>4 DEF Once

LEMMA HideMouse ==
  ASSUME NEW id \in Note, NEW running, NEW timers, NEW over, NEW soon,
         UnderMouse(timers, over, soon), Hide(id, running, timers)
  PROVE  UnderMouse(autoHide', over, soon)
<1>1. autoHide' = [timers EXCEPT ![id] = Pause(@)]
  BY DEF Hide
<1>2. Pause(timers[id]) \in Timer
  BY TimerTypes DEF UnderMouse
<1>3. \A t \in Timer : Pause(t).promise = t.promise /\ Pause(t).stray = t.stray /\ ~Pause(t).running
  BY DEF Pause, Timer
<1>4. \A n \in Note : timers[n] \in Timer /\ autoHide'[n] = IF n = id THEN Pause(timers[n]) ELSE timers[n]
  BY <1>1 DEF UnderMouse
<1>5. autoHide' \in [Note -> Timer]
  BY <1>1, <1>2 DEF UnderMouse
<1> QED BY <1>3, <1>4, <1>5 DEF UnderMouse

LEMMA HandleOnce ==
  ASSUME NEW q, NEW list, NEW running, NEW timers, NEW over, NEW soon,
         QueueOK(q, list), ListOK(list), HiddenOK, \A n \in On(list) : hidden[n] = 0,
         Once(list, {}, hidden, timeouts, running, timers), UnderMouse(timers, over, soon),
         Handle(q, list, running, timers)
  PROVE  OnceInv' /\ UnderMouse(autoHide', over, soon)
<1> DEFINE pending == Pending(q, list)
           a == Head(pending)
<1>1. q \in Seq(Action) /\ list \in Seq(Note) /\ None \notin Progress /\ timers \in [Note -> Timer]
  BY NotifierAssumption DEF QueueOK, ListOK, UnderMouse
<1>2. CASE pending = <<>>
  <2>1. /\ current' = None /\ notifications' = list /\ animations' = running /\ autoHide' = timers
        /\ UNCHANGED <<timeouts, hidden>>
    BY <1>2 DEF Handle
  <2>2. Ready' = {}
    BY <2>1 DEF Ready, Waiting
  <2> QED BY <2>1, <2>2 DEF OnceInv
<1>3. CASE pending # <<>>
  <2>1. PICK k \in 1..Len(q) : (q[k].type = "SHOW" \/ q[k].id \in On(list)) /\ a = q[k]
    BY <1>1, <1>3, PendingIsTail
  <2>2. a.id \in Note /\ a.type \in {"SHOW", "HIDE"} /\ (a.type = "SHOW" \/ a.id \in On(list))
    <3>1. q[k] \in Action
      BY <1>1, ElementOfSeq
    <3> QED BY <2>1, <3>1 DEF Action
  <2>3. current' = [type |-> a.type, id |-> a.id, on |-> a.id,
                    waits |-> IF a.type = "SHOW" THEN "ready" ELSE "hide"]
    BY <1>3 DEF Handle
  <2>4. CASE a.type = "SHOW"
    <3>1. /\ notifications' = Append(list, a.id) /\ animations' = running /\ autoHide' = timers
          /\ UNCHANGED <<timeouts, hidden>>
      BY <1>3, <2>4 DEF Handle
    <3>2. a.id \notin On(list) /\ hidden[a.id] = 0
      <4>1. k \in Shows(q)
        BY <1>1, <2>1, <2>4, LenProperties DEF Shows
      <4>2. q[k].id \in ToShow(q)
        BY <4>1 DEF ToShow
      <4> QED BY <2>1, <2>2, <4>2 DEF QueueOK, WasHidden, HiddenOK
    <3> HIDE DEF a
    <3>3. Ready' \subseteq {a.id}
      BY <2>3 DEF Ready, Waiting
    <3>4. On(list) \subseteq On(Append(list, a.id))
      <4>1. /\ DOMAIN list = 1..Len(list) /\ Len(list) \in Nat
            /\ DOMAIN Append(list, a.id) = 1..Len(list) + 1
            /\ \A i \in 1..Len(list) : Append(list, a.id)[i] = list[i]
        BY <1>1, <2>2, AppendProperties, LenProperties
      <4> QED BY <4>1 DEF On
    <3>5. \A n \in Note : Unshown(Append(list, a.id), Ready', hidden, n) => Unshown(list, {}, hidden, n)
      BY <3>2, <3>3, <3>4 DEF Unshown
    <3>6. Once(Append(list, a.id), Ready', hidden, timeouts, running, timers)
      BY <3>5 DEF Once
    <3> QED BY <3>1, <3>6 DEF OnceInv
  <2>5. CASE a.type # "SHOW"
    <3>1. notifications' = list /\ Hide(a.id, running, timers)
      BY <1>3, <2>5 DEF Handle
    <3> DEFINE at == CHOOSE i \in DOMAIN list : list[i] = a.id
               more == IF at = 1 THEN {} ELSE {Shift(Older(list, at), -message[a.id].height, a.id)}
    <3>3. timeouts' = timeouts \union more
      BY <1>3, <2>5 DEF Handle
    <3>10. \A t \in more : t.do = "shift"
      BY DEF Shift
    <3> HIDE DEF more
    <3>2. \A t \in timeouts' \ timeouts : t.do = "shift"
      BY <3>3, <3>10
    <3>4. a.id \in On(list) /\ hidden[a.id] = 0
      BY <2>2, <2>5
    <3>5. Ready' = {}
      BY <2>3, <2>5 DEF Ready, Waiting
    <3> HIDE DEF a
    <3>6. Once(list, {}, hidden', timeouts, animations', autoHide')
      BY <1>1, <2>2, <3>1, <3>4, HideOnce
    <3>7. \A n : Show(n) \in timeouts' => Show(n) \in timeouts
      BY <3>2 DEF Show
    <3>8. Once(list, {}, hidden', timeouts', animations', autoHide')
      BY <3>2, <3>6, <3>7 DEF Once
    <3>9. UnderMouse(autoHide', over, soon)
      BY <2>2, <3>1, HideMouse
    <3> QED BY <3>1, <3>5, <3>8, <3>9 DEF OnceInv
  <2> QED BY <2>4, <2>5
<1> QED BY <1>2, <1>3

LEMMA PushOnce ==
  ASSUME Inv, OnceInv, NEW actions, NEW timers, QueueOK(actions, notifications),
         ToShow(queue) \intersect ToShow(actions) = {}, Push(actions, timers),
         NEW over, NEW soon, UnderMouse(timers, over, soon),
         \A n \in Note : autoHide[n].promise = "none" => timers[n].promise = "none"
  PROVE  OnceInv' /\ UnderMouse(autoHide', over, soon)
<1> DEFINE q == queue \o actions
<1>1. QueueOK(q, notifications)
  BY JoinedQueue DEF Inv, HandlerOK
<1>2. Once(notifications, Ready, hidden, timeouts, animations, timers)
  BY DEF OnceInv, Once
<1>3. CASE current = None
  <2>1. Handle(q, notifications, animations, timers) /\ Ready = {}
    BY <1>3 DEF Push, Ready, Waiting
  <2>2. \A n \in On(notifications) : hidden[n] = 0
    <3>1. \A n \in On(notifications) : n \in Note
      BY ListForms DEF Inv, HandlerOK
    <3> QED BY <1>3, <3>1 DEF Inv, HandlerOK, ActionsAreSerialized, HiddenOK
  <2> HIDE DEF q
  <2> QED BY <1>1, <1>2, <2>1, <2>2, HandleOnce DEF Inv, HandlerOK
<1>4. CASE current # None
  <2>1. autoHide' = timers /\ UNCHANGED <<current, notifications, animations, timeouts, hidden>>
    BY <1>4 DEF Push
  <2>2. Ready' = Ready
    BY <2>1 DEF Ready, Waiting
  <2> QED BY <1>2, <2>1, <2>2 DEF OnceInv
<1> QED BY <1>3, <1>4

LEMMA OnceStays ==
  ASSUME OnceInv, MouseInv, UNCHANGED <<current, notifications, hidden, timeouts, animations, autoHide>>
  PROVE  OnceInv' /\ UnderMouse(autoHide', pointer, early)
<1>1. Ready' = Ready
  BY DEF Ready, Waiting
<1> QED BY <1>1 DEF OnceInv, MouseInv

LEMMA ReadyOnce ==
  ASSUME Inv, PlacesInv, OnceInv, MouseInv, NotificationReady
  PROVE  OnceInv' /\ MouseInv'
<1> DEFINE id == current.id
           oldest == notifications[1]
<1>1. /\ current \in Progress /\ current # None /\ current.waits = "ready" /\ None \notin Progress
      /\ UNCHANGED <<notifications, mouse>>
  BY NotifierAssumption DEF NotificationReady, Inv, HandlerOK
<1>2. Waiting /\ Ready = {id} /\ id \in Note /\ notifications # <<>> /\ id = notifications[Len(notifications)]
  BY <1>1 DEF PlacesInv, Waiting, Ready, Progress
<1>3. /\ ListOK(notifications) /\ HiddenOK /\ DOMAIN notifications = 1..Len(notifications) /\ Len(notifications) \in Nat
      /\ \A i \in 1..Len(notifications) : notifications[i] \in Note /\ notifications[i] \in On(notifications)
      /\ \A i, j \in 1..Len(notifications) : notifications[i] = notifications[j] => i = j
  BY ListForms DEF Inv, HandlerOK
<1>4. Len(notifications) >= 1 /\ id \in On(notifications) /\ oldest \in On(notifications) /\ oldest \in Note
  BY <1>2, <1>3
<1>5. hidden[oldest] = 0 /\ \A n \in Note : n \in On(notifications) => hidden[n] = 0
  BY <1>1, <1>3, <1>4 DEF Inv, HandlerOK, ActionsAreSerialized, HiddenOK
<1>6. Show(id) \notin timeouts /\ Appear(id) \notin animations /\ autoHide[id].promise = "none"
  BY <1>2 DEF OnceInv, Once, Unshown
<1>7. ASSUME NEW ts, NEW anims, current'.waits # "ready",
             Once(notifications, {}, hidden', ts, anims, autoHide'),
             timeouts' = ts, animations' = anims
      PROVE  OnceInv'
  <2>1. Ready' = {}
    BY <1>7 DEF Ready, Waiting
  <2> QED BY <1>1, <1>7, <2>1 DEF OnceInv
<1>8. Once(notifications, {}, hidden, timeouts, animations, autoHide)
  BY <1>2 DEF OnceInv, Once, Unshown
<1>9. \A n \in Note : Unshown(notifications, {}, hidden, n) => n # id
  BY <1>4 DEF Unshown
<1>10. \A n : (Appear(n) = Appear(id) <=> n = id) /\ (Show(n) = Show(id) <=> n = id)
  BY DEF Appear, Show
<1> HIDE DEF id, oldest
<1>11. CASE ReadyAlone
  <2>1. /\ current'.waits = "show" /\ animations' = animations \union {Appear(id)}
        /\ UNCHANGED <<timeouts, autoHide, hidden>>
    BY <1>1, <1>11 DEF ReadyAlone, Appear, Progress, id
  <2>2. Once(notifications, {}, hidden, timeouts, animations \union {Appear(id)}, autoHide)
    BY <1>6, <1>8, <1>9, <1>10 DEF Once
  <2> QED BY <1>1, <1>7, <2>1, <2>2 DEF MouseInv, mouse
<1>12. CASE ReadyStacked
  <2>1. /\ current'.waits = "shift" /\ animations' = animations \union {[do |-> "shift", id |-> id]}
        /\ timeouts' = timeouts \union {Show(id)} /\ UNCHANGED <<autoHide, hidden>>
    BY <1>1, <1>12 DEF ReadyStacked, Progress, id
  <2>2. \A n : Appear(n) \in animations' <=> Appear(n) \in animations
    BY <2>1 DEF Appear
  <2>3. Show(id) = Show(Show(id).for)
    BY DEF Show
  <2>4. Once(notifications, {}, hidden, timeouts \union {Show(id)}, animations', autoHide)
    BY <1>6, <1>8, <1>9, <1>10, <2>2, <2>3 DEF Once
  <2> QED BY <1>1, <1>7, <2>1, <2>4 DEF MouseInv, mouse
<1>13. CASE ReadyFull
  <2> DEFINE due == Shift(Older(notifications, Len(notifications)) \ {oldest}, message[id].height, id)
  <2>1. /\ current'.waits = "hide" /\ Hide(oldest, animations, autoHide)
        /\ timeouts' = timeouts \union {due, Show(id)}
    BY <1>1, <1>13 DEF ReadyFull, Progress, id, oldest
  <2>2. due.do = "shift" /\ Show(id) = Show(Show(id).for) /\ \A n : due # Show(n)
    BY DEF Show, Shift
  <2> HIDE DEF due
  <2>3. autoHide \in [Note -> Timer]
    BY DEF MouseInv, UnderMouse
  <2>4. Once(notifications, {}, hidden', timeouts, animations', autoHide')
    BY <1>3, <1>4, <1>5, <1>8, <2>1, <2>3, HideOnce
  <2>5. Appear(id) \notin animations' /\ autoHide'[id].promise = "none"
    <3>1. animations' = animations \union {[do |-> "hide", id |-> oldest]}
          /\ autoHide' = [autoHide EXCEPT ![oldest] = Pause(@)]
      BY <2>1 DEF Hide
    <3>2. \A t \in Timer : Pause(t).promise = t.promise
      BY DEF Pause, Timer
    <3>3. autoHide[id] \in Timer
      BY <1>2, <2>3 DEF id
    <3> QED BY <1>2, <1>4, <1>6, <2>3, <3>1, <3>2, <3>3 DEF Appear
  <2>6. Show(id) \notin timeouts
    BY <1>6
  <2>7. \A n \in Note : Unshown(notifications, {}, hidden', n) => n # id
    BY <1>4 DEF Unshown
  <2>8. \A n \in Note : Show(n) \in timeouts' <=> n = id \/ Show(n) \in timeouts
    BY <1>10, <2>1, <2>2
  <2>9. \A t \in timeouts' : t.do = "show" => t = Show(t.for)
    <3>1. \A t \in timeouts : t.do = "show" => t = Show(t.for)
      BY <1>8 DEF Once
    <3> QED BY <2>1, <2>2, <3>1
  <2>10. Once(notifications, {}, hidden', timeouts', animations', autoHide')
    BY <2>4, <2>5, <2>7, <2>8, <2>9 DEF Once
  <2>11. UnderMouse(autoHide', pointer, early)
    BY <1>4, <2>1, HideMouse DEF MouseInv
  <2> QED BY <1>1, <1>7, <2>1, <2>10, <2>11 DEF MouseInv, mouse
<1> QED BY <1>11, <1>12, <1>13 DEF NotificationReady

LEMMA TimeoutOnce ==
  ASSUME Inv, PlacesInv, OnceInv, MouseInv, TimeoutFires
  PROVE  OnceInv' /\ MouseInv'
<1>1. UNCHANGED <<current, notifications, autoHide, mouse, hidden>>
  BY DEF TimeoutFires
<1>2. PICK t \in timeouts :
        /\ timeouts' = timeouts \ {t}
        /\ IF t.do = "shift" THEN UNCHANGED animations
           ELSE animations' = animations \union {[do |-> "show", id |-> t.for]}
  BY DEF TimeoutFires
<1>3. t.for \in Note /\ t.do \in {"shift", "show"}
  BY DEF PlacesInv, Places, DueOK
<1>4. Ready' = Ready
  BY <1>1 DEF Ready, Waiting
<1>5. Once(notifications, Ready, hidden, timeouts', animations', autoHide)
  <2>1. CASE t.do = "shift"
    BY <1>2, <2>1 DEF OnceInv, Once
  <2>2. CASE t.do = "show"
    <3>1. t = Show(t.for) /\ animations' = animations \union {Appear(t.for)}
      BY <1>2, <2>2 DEF OnceInv, Once, Appear
    <3>2. \A n : Appear(n) = Appear(t.for) <=> n = t.for
      BY DEF Appear
    <3>3. /\ ~Unshown(notifications, Ready, hidden, t.for) /\ autoHide[t.for].promise = "none"
          /\ Show(t.for) \notin timeouts'
      BY <1>2, <1>3, <3>1 DEF OnceInv, Once
    <3> QED BY <1>2, <3>1, <3>2, <3>3 DEF OnceInv, Once
  <2> QED BY <1>3, <2>1, <2>2
<1> QED BY <1>1, <1>4, <1>5 DEF OnceInv, MouseInv, mouse

LEMMA AnimationOnce ==
  ASSUME Inv, OnceInv, MouseInv, AnimationEnds
  PROVE  OnceInv' /\ MouseInv'
<1>1. PICK a \in animations :
        \/ a.do = "show" /\ ShowEnds(a.id, animations \ {a})
        \/ a.do = "hide" /\ HideEnds(a.id, animations \ {a})
        \/ a.do = "shift" /\ ShiftEnds(animations \ {a})
  BY DEF AnimationEnds
<1> DEFINE running == animations \ {a}
<1>2. /\ ListOK(notifications) /\ HiddenOK /\ AnimationsOK /\ QueueOK(queue, notifications)
      /\ ActionsAreSerialized
  BY DEF Inv, HandlerOK
<1>3. \A m \in On(notifications) : m \in Note
  BY <1>2, ListForms
<1>4. early' = early
  BY DEF AnimationEnds
<1>5. Once(notifications, Ready, hidden, timeouts, running, autoHide)
  BY DEF OnceInv, Once
<1>6. ASSUME current # None, current.waits \in {"show", "shift"}, UNCHANGED pointer,
             NEW timers, UnderMouse(timers, pointer, early),
             Once(notifications, Ready, hidden, timeouts, running, timers),
             Handle(queue, notifications, running, timers)
      PROVE  OnceInv' /\ MouseInv'
  <2>1. \A m \in On(notifications) : hidden[m] = 0
    BY <1>2, <1>3, <1>6 DEF ActionsAreSerialized, HiddenOK
  <2>2. Ready = {}
    BY <1>6 DEF Ready, Waiting
  <2> HIDE DEF running
  <2>3. OnceInv' /\ UnderMouse(autoHide', pointer, early)
    BY <1>2, <1>6, <2>1, <2>2, HandleOnce
  <2> QED BY <1>4, <1>6, <2>3 DEF MouseInv
<1>7. CASE a.do = "show" /\ ShowEnds(a.id, running)
  <2> DEFINE timers == [autoHide EXCEPT ![a.id] = IF message[a.id].auto THEN Start(@) ELSE @]
  <2>1. a = Appear(a.id)
    BY <1>2, <1>7 DEF AnimationsOK, Appear
  <2>2. Once(notifications, Ready, hidden, timeouts, running, timers)
    <3>1. \A n \in Note : n # a.id => timers[n] = autoHide[n]
      BY DEF MouseInv, UnderMouse
    <3>2. Appear(a.id) \notin running
      BY <2>1
    <3>3. a.id \in Note => ~Unshown(notifications, Ready, hidden, a.id) /\ Show(a.id) \notin timeouts
      BY <2>1 DEF OnceInv, Once
    <3> HIDE DEF timers, running
    <3> QED BY <1>5, <3>1, <3>2, <3>3 DEF Once
  <2>3. UnderMouse(timers, pointer, early)
    <3>1. CASE a.id \in Note
      <4>1. autoHide[a.id] \in Timer /\ autoHide \in [Note -> Timer] /\ autoHide[a.id].promise = "none"
        BY <2>1, <3>1 DEF MouseInv, UnderMouse, OnceInv, Once
      <4>2. Start(autoHide[a.id]) \in Timer
        BY <4>1, TimerTypes
      <4>3. timers \in [Note -> Timer]
        BY <4>1, <4>2
      <4>4. ASSUME a.id \notin early
            PROVE  /\ Start(autoHide[a.id]).stray = 0 /\ Start(autoHide[a.id]).promise = "waiting"
                   /\ pointer # a.id
        <5>1. ~autoHide[a.id].running /\ autoHide[a.id].stray = 0 /\ pointer # a.id
          BY <3>1, <4>1, <4>4 DEF MouseInv, UnderMouse
        <5> DEFINE t == autoHide[a.id]
        <5> HIDE DEF t
        <5>2. t \in Timer /\ ~t.running /\ t.stray = 0
          BY <4>1, <5>1 DEF t
        <5>3. Continue(t) = [t EXCEPT !.running = TRUE, !.stray = t.stray]
          BY <5>2 DEF Continue
        <5>4. Start(t).stray = 0 /\ Start(t).promise = "waiting"
          BY <5>2, <5>3 DEF Start, Timer
        <5> QED BY <5>1, <5>4 DEF t
      <4>5. \A n \in Note : timers[n] = autoHide[n] \/ (n = a.id /\ timers[n] = Start(autoHide[n]))
        BY <4>1
      <4> HIDE DEF timers
      <4> QED BY <4>3, <4>4, <4>5 DEF UnderMouse, MouseInv
    <3>2. CASE a.id \notin Note
      <4>1. timers = autoHide
        BY <3>2 DEF MouseInv, UnderMouse
      <4> QED BY <4>1 DEF MouseInv
    <3> QED BY <3>1, <3>2
  <2>4. CASE current # None /\ current.waits = "show" /\ current.id = a.id
    <3>1. Handle(queue, notifications, running, timers) /\ UNCHANGED pointer
      BY <1>7, <2>4 DEF ShowEnds
    <3> HIDE DEF timers
    <3> QED BY <1>6, <2>2, <2>3, <2>4, <3>1
  <2>5. CASE ~(current # None /\ current.waits = "show" /\ current.id = a.id)
    <3>1. /\ animations' = running /\ autoHide' = timers
          /\ UNCHANGED <<pointer, current, notifications, timeouts, hidden>>
      BY <1>7, <2>5 DEF ShowEnds
    <3>2. Ready' = Ready
      BY <3>1 DEF Ready, Waiting
    <3> HIDE DEF timers, running
    <3> QED BY <1>4, <2>2, <2>3, <3>1, <3>2 DEF OnceInv, MouseInv
  <2> QED BY <2>4, <2>5
<1>8. CASE a.do = "shift" /\ ShiftEnds(running)
  <2>1. Handle(queue, notifications, running, autoHide) /\ UNCHANGED pointer
    BY <1>8 DEF ShiftEnds
  <2>2. current # None /\ current.waits = "shift"
    BY <1>2, <1>8 DEF AnimationsOK
  <2> HIDE DEF running
  <2> QED BY <1>5, <1>6, <2>1, <2>2 DEF MouseInv
<1>9. CASE a.do = "hide" /\ HideEnds(a.id, running)
  <2> DEFINE list == Without(notifications, a.id)
  <2>1. /\ current # None /\ current.waits = "hide" /\ current.on = a.id
        /\ a.id \in On(notifications) /\ hidden[a.id] = 1
        /\ Handle(queue, list, running, autoHide)
        /\ pointer' = IF pointer = a.id THEN None ELSE pointer
    BY <1>2, <1>9 DEF AnimationsOK, HideEnds
  <2>2. ListOK(list) /\ On(list) = On(notifications) \ {a.id}
    BY <1>2, <2>1, WithoutProperties, RemovesOne DEF ListOK
  <2>3. \A m \in On(list) : hidden[m] = 0
    BY <1>2, <1>3, <2>1, <2>2 DEF ActionsAreSerialized, HiddenOK
  <2>4. QueueOK(queue, list)
    BY <1>2, <2>2 DEF QueueOK
  <2>5. Ready = {}
    BY <2>1 DEF Ready, Waiting
  <2>6. Once(list, {}, hidden, timeouts, running, autoHide)
    <3>1. \A n \in Note : Unshown(list, {}, hidden, n) => Unshown(notifications, {}, hidden, n)
      BY <2>1, <2>2 DEF Unshown
    <3> HIDE DEF list, running
    <3> QED BY <1>5, <2>5, <3>1 DEF Once
  <2>7. UnderMouse(autoHide, pointer', early)
    <3>1. \A n \in Note : pointer' = n => pointer = n
      BY <2>1, NotifierAssumption
    <3> QED BY <3>1 DEF MouseInv, UnderMouse
  <2> HIDE DEF list, running
  <2>8. OnceInv' /\ UnderMouse(autoHide', pointer', early)
    BY <1>2, <2>1, <2>2, <2>3, <2>4, <2>6, <2>7, HandleOnce
  <2> QED BY <1>4, <2>8 DEF MouseInv
<1> QED BY <1>1, <1>7, <1>8, <1>9

(* Whatever hides or pauses a timer leaves its promise as it is. *)
LEMMA HandleKeepsPromises ==
  ASSUME NEW q \in Seq(Action), NEW list \in Seq(Note), NEW running, NEW timers \in [Note -> Timer],
         Handle(q, list, running, timers)
  PROVE  \A n \in Note : autoHide'[n].promise = timers[n].promise
<1> DEFINE pending == Pending(q, list)
           a == Head(pending)
<1>1. CASE pending = <<>> \/ a.type = "SHOW"
  <2>1. autoHide' = timers
    BY <1>1 DEF Handle
  <2> QED BY <2>1
<1>2. CASE pending # <<>> /\ a.type # "SHOW"
  <2>1. Hide(a.id, running, timers)
    BY <1>2 DEF Handle
  <2> HIDE DEF a
  <2>2. autoHide' = [timers EXCEPT ![a.id] = Pause(@)]
    BY <2>1 DEF Hide
  <2>3. \A t \in Timer : Pause(t).promise = t.promise
    BY DEF Pause, Timer
  <2> QED BY <2>2, <2>3
<1> QED BY <1>1, <1>2

LEMMA PushKeepsPromises ==
  ASSUME HandlerOK, NEW actions, QueueOK(actions, notifications), NEW timers \in [Note -> Timer],
         Push(actions, timers)
  PROVE  \A n \in Note : autoHide'[n].promise = timers[n].promise
<1>1. queue \o actions \in Seq(Action) /\ notifications \in Seq(Note)
  BY ConcatProperties DEF HandlerOK, QueueOK, ListOK
<1>2. CASE current = None
  BY <1>1, <1>2, HandleKeepsPromises DEF Push
<1>3. CASE current # None
  BY <1>3 DEF Push
<1> QED BY <1>2, <1>3

LEMMA AutoHideOnce ==
  ASSUME Inv, OnceInv, MouseInv, AutoHideEnds
  PROVE  /\ OnceInv' /\ MouseInv'
         /\ \A n \in Note : autoHide[n].promise = "waiting" /\ autoHide'[n].promise = "resolved" =>
              pointer # n \/ n \in early
         /\ \A n \in Note : autoHide'[n].promise # "none" => autoHide[n].promise # "none"
<1>1. UNCHANGED <<pointer, early>>
  BY DEF AutoHideEnds, mouse
<1>2. PICK n \in Note :
        /\ autoHide[n].running \/ autoHide[n].stray > 0
        /\ \E t \in {[autoHide[n] EXCEPT !.running = FALSE], [autoHide[n] EXCEPT !.stray = @ - 1]} :
             /\ t.stray >= 0
             /\ IF t.promise = "waiting"
                THEN Push(HideAction(n), [autoHide EXCEPT ![n] = [t EXCEPT !.promise = "resolved"]])
                ELSE /\ autoHide' = [autoHide EXCEPT ![n] = t]
                     /\ UNCHANGED <<current, notifications, timeouts, animations, hidden>>
  BY DEF AutoHideEnds
<1>3. PICK t \in {[autoHide[n] EXCEPT !.running = FALSE], [autoHide[n] EXCEPT !.stray = @ - 1]} :
        /\ t.stray >= 0
        /\ IF t.promise = "waiting"
           THEN Push(HideAction(n), [autoHide EXCEPT ![n] = [t EXCEPT !.promise = "resolved"]])
           ELSE /\ autoHide' = [autoHide EXCEPT ![n] = t]
                /\ UNCHANGED <<current, notifications, timeouts, animations, hidden>>
  BY <1>2
<1> DEFINE u == autoHide[n]
<1>4. autoHide \in [Note -> Timer] /\ u \in Timer
  BY DEF MouseInv, UnderMouse
<1>5. n \notin early => u.running /\ u.stray = 0 /\ u.promise # "none" /\ pointer # n
  BY <1>2 DEF MouseInv, UnderMouse
<1> HIDE DEF u
<1>6. /\ t \in Timer /\ t.promise = u.promise
      /\ n \notin early => t.stray = 0 /\ ~t.running
  <2>1. u = [promise |-> u.promise, running |-> u.running, stray |-> u.stray] /\ u.stray \in Nat
    BY <1>4 DEF Timer
  <2>2. CASE t = [u EXCEPT !.running = FALSE]
    BY <1>4, <1>5, <2>2 DEF Timer
  <2>3. CASE t = [u EXCEPT !.stray = @ - 1]
    <3> DEFINE k == u.stray - 1
    <3>1. k \in Nat /\ t = [u EXCEPT !.stray = k] /\ u.stray # 0
      BY <1>3, <1>4, <2>1, <2>3 DEF Timer
    <3> HIDE DEF k
    <3> QED BY <1>4, <1>5, <3>1 DEF Timer
  <2> QED BY <1>3, <2>2, <2>3 DEF u
<1>7. CASE t.promise = "waiting"
  <2> DEFINE v == [t EXCEPT !.promise = "resolved"]
             timers == [autoHide EXCEPT ![n] = v]
  <2>1. v \in Timer /\ v.promise = "resolved" /\ v.stray = t.stray /\ v.running = t.running
    BY <1>6 DEF Timer
  <2>2. Push(HideAction(n), timers)
    BY <1>3, <1>7
  <2> HIDE DEF v
  <2>3. /\ timers \in [Note -> Timer] /\ timers[n] = v
        /\ \A m \in Note : m # n => timers[m] = autoHide[m]
    BY <1>4, <2>1
  <2> HIDE DEF timers
  <2>4. UnderMouse(timers, pointer, early)
    BY <1>5, <1>6, <2>1, <2>3 DEF MouseInv, UnderMouse
  <2>5. \A m \in Note : autoHide[m].promise = "none" => timers[m].promise = "none"
    BY <1>6, <1>7, <2>3 DEF u
  <2>6. OnceInv' /\ UnderMouse(autoHide', pointer, early)
    BY <2>2, <2>4, <2>5, DismissShowsNone, PushOnce
  <2>8. \A k \in Note : autoHide'[k].promise = timers[k].promise
    BY <2>2, <2>3, DismissShowsNone, PushKeepsPromises DEF Inv, HandlerOK
  <2>7. ASSUME NEW m \in Note, autoHide[m].promise = "waiting", autoHide'[m].promise = "resolved",
               pointer = m, m \notin early
        PROVE  FALSE
    <3>1. m # n
      BY <1>5, <2>7
    <3>2. timers[m].promise # "resolved"
      BY <2>3, <2>7, <3>1
    <3> QED BY <2>7, <2>8, <3>2
  <2>9. \A m \in Note : timers[m].promise # "none" => autoHide[m].promise # "none"
    BY <1>6, <1>7, <2>3 DEF u
  <2> QED BY <1>1, <2>6, <2>7, <2>8, <2>9 DEF MouseInv
<1>8. CASE t.promise # "waiting"
  <2>1. autoHide' = [autoHide EXCEPT ![n] = t] /\ UNCHANGED <<current, notifications, timeouts, animations, hidden>>
    BY <1>3, <1>8
  <2>2. Ready' = Ready
    BY <2>1 DEF Ready, Waiting
  <2>3. /\ autoHide' \in [Note -> Timer] /\ autoHide'[n] = t
        /\ \A m \in Note : m # n => autoHide'[m] = autoHide[m]
    BY <1>4, <1>6, <2>1
  <2>4. \A m \in Note : autoHide'[m].promise = autoHide[m].promise
    BY <1>6, <2>3 DEF u
  <2>5. OnceInv'
    BY <2>1, <2>2, <2>4 DEF OnceInv, Once
  <2>6. UnderMouse(autoHide', pointer, early)
    BY <1>5, <1>6, <2>3 DEF MouseInv, UnderMouse
  <2> QED BY <1>1, <2>4, <2>5, <2>6 DEF MouseInv
<1> QED BY <1>7, <1>8

LEMMA MoveOnce ==
  ASSUME Inv, OnceInv, MouseInv, SilentInv, MouseMoves
  PROVE  /\ OnceInv' /\ MouseInv'
         /\ \A n \in Note : autoHide'[n].promise = autoHide[n].promise
<1>1. PICK n \in (Visible \union {None}) \ {pointer} :
        /\ pointer' = n
        /\ autoHide' = [m \in Note |->
             IF m = pointer /\ message[m].auto THEN Continue(autoHide[m])
             ELSE IF m = n /\ message[m].auto THEN Pause(autoHide[m])
             ELSE autoHide[m]]
        /\ early' = IF n # None /\ autoHide[n].promise = "none" THEN early \union {n} ELSE early
  BY DEF MouseMoves
<1>2. UNCHANGED <<current, notifications, timeouts, animations, hidden>>
  BY DEF MouseMoves, show
<1>3. \A t \in Timer : /\ Pause(t) \in Timer /\ Continue(t) \in Timer
                       /\ Pause(t).promise = t.promise /\ Pause(t).stray = t.stray /\ ~Pause(t).running
                       /\ Continue(t).promise = t.promise
  <2> SUFFICES ASSUME NEW t \in Timer
               PROVE  /\ Pause(t).promise = t.promise /\ Pause(t).stray = t.stray /\ ~Pause(t).running
                      /\ Continue(t).promise = t.promise
    BY TimerTypes
  <2>1. Pause(t).promise = t.promise /\ Pause(t).stray = t.stray /\ ~Pause(t).running
    BY DEF Pause, Timer
  <2> DEFINE k == IF t.running THEN t.stray + 1 ELSE t.stray
  <2>2. Continue(t) = [t EXCEPT !.running = TRUE, !.stray = k]
    BY DEF Continue
  <2> HIDE DEF k
  <2> QED BY <2>1, <2>2 DEF Timer
<1>4. \A t \in Timer : ~t.running /\ t.stray = 0 => Continue(t).stray = 0
  <2> SUFFICES ASSUME NEW t \in Timer, ~t.running, t.stray = 0 PROVE Continue(t).stray = 0
    OBVIOUS
  <2>1. Continue(t) = [t EXCEPT !.running = TRUE, !.stray = t.stray]
    BY DEF Continue
  <2> QED BY <2>1 DEF Timer
<1>5. autoHide \in [Note -> Timer] /\ \A m \in Note : autoHide[m] \in Timer
  BY DEF MouseInv, UnderMouse
<1>6. \A m \in Note :
        /\ m = pointer /\ message[m].auto => autoHide'[m] = Continue(autoHide[m])
        /\ m # pointer /\ m = n /\ message[m].auto => autoHide'[m] = Pause(autoHide[m])
        /\ (m # pointer /\ m # n) \/ ~message[m].auto => autoHide'[m] = autoHide[m]
  BY <1>1
<1>7. autoHide' \in [Note -> Timer] /\ \A m \in Note : autoHide'[m].promise = autoHide[m].promise
  <2>1. \A m \in Note : autoHide'[m] \in Timer
    BY <1>3, <1>5, <1>6
  <2>2. autoHide' = [m \in Note |-> autoHide'[m]]
    BY <1>1
  <2>3. \A m \in Note : autoHide'[m].promise = autoHide[m].promise
    BY <1>3, <1>5, <1>6
  <2> QED BY <2>1, <2>2, <2>3
<1>8. OnceInv'
  <2>1. Ready' = Ready
    BY <1>2 DEF Ready, Waiting
  <2> QED BY <1>2, <1>7, <2>1 DEF OnceInv, Once
<1>9. ASSUME NEW m \in Note, m \notin early'
      PROVE  /\ autoHide'[m].promise = "none" => ~autoHide'[m].running
             /\ autoHide'[m].stray = 0
             /\ pointer' = m => ~autoHide'[m].running /\ autoHide'[m].promise # "none"
  <2>1. /\ m \notin early /\ autoHide[m] \in Timer
        /\ autoHide[m].promise = "none" => ~autoHide[m].running
        /\ autoHide[m].stray = 0
        /\ pointer = m => ~autoHide[m].running /\ autoHide[m].promise # "none"
    BY <1>1, <1>5, <1>9 DEF MouseInv, UnderMouse
  <2>2. pointer' = m => pointer # m /\ autoHide[m].promise # "none"
    BY <1>1, <1>9, NotifierAssumption
  <2>3. CASE m = pointer /\ message[m].auto
    BY <1>3, <1>4, <1>6, <2>1, <2>2, <2>3
  <2>4. CASE m # pointer /\ m = n /\ message[m].auto
    BY <1>3, <1>6, <2>1, <2>2, <2>4
  <2>5. CASE m # pointer /\ m # n
    BY <1>1, <1>6, <2>1, <2>5
  <2>6. CASE ~message[m].auto
    BY <1>6, <2>1, <2>2, <2>6 DEF SilentInv
  <2> QED BY <2>3, <2>4, <2>5, <2>6
<1>10. MouseInv'
  BY <1>7, <1>9 DEF MouseInv, UnderMouse
<1> QED BY <1>7, <1>8, <1>10

LEMMA PromisesMove ==
  ASSUME Inv, OnceInv, MouseInv, SilentInv, [Next]_vars, ~AutoHideEnds
  PROVE  \A n \in Note : \/ autoHide'[n].promise = autoHide[n].promise
                         \/ autoHide'[n].promise = "waiting" /\ message[n].auto
<1>1. /\ autoHide \in [Note -> Timer] /\ queue \in Seq(Action) /\ notifications \in Seq(Note)
      /\ \A t \in Timer : Pause(t).promise = t.promise
  BY DEF MouseInv, UnderMouse, Inv, HandlerOK, QueueOK, ListOK, Pause, Timer
<1>2. CASE AddMessage \/ TimeoutFires \/ UNCHANGED vars
  BY <1>2 DEF AddMessage, TimeoutFires, vars
<1>3. CASE MouseMoves
  BY <1>3, MoveOnce
<1>4. CASE ShowMessages
  <2>1. Push(ShowActions, autoHide)
    BY <1>4 DEF ShowMessages, ShowActions
  <2> QED BY <1>1, <2>1, BatchShows, PushKeepsPromises DEF Inv
<1>5. CASE ClickDismiss \/ ActionClick
  <2>1. PICK n \in Visible : Push(HideAction(n), autoHide)
    BY <1>5 DEF ClickDismiss, ActionClick
  <2>2. n \in Note
    BY <2>1, ListForms DEF Visible, Inv, HandlerOK
  <2> QED BY <1>1, <2>1, <2>2, DismissShowsNone, PushKeepsPromises DEF Inv
<1>6. CASE NotificationReady
  <2>1. UNCHANGED autoHide \/ Hide(notifications[1], animations, autoHide)
    BY <1>6 DEF NotificationReady, ReadyAlone, ReadyStacked, ReadyFull
  <2>2. CASE Hide(notifications[1], animations, autoHide)
    <3>1. autoHide' = [autoHide EXCEPT ![notifications[1]] = Pause(@)]
      BY <2>2 DEF Hide
    <3> QED BY <1>1, <3>1
  <2> QED BY <2>1, <2>2
<1>7. CASE AnimationEnds
  <2>1. PICK a \in animations :
          \/ a.do = "show" /\ ShowEnds(a.id, animations \ {a})
          \/ a.do = "hide" /\ HideEnds(a.id, animations \ {a})
          \/ a.do = "shift" /\ ShiftEnds(animations \ {a})
    BY <1>7 DEF AnimationEnds
  <2> DEFINE timers == [autoHide EXCEPT ![a.id] = IF message[a.id].auto THEN Start(@) ELSE @]
  <2>2. CASE a.do = "show" /\ ShowEnds(a.id, animations \ {a})
    <3>1. \A n \in Note : timers[n] = autoHide[n] \/ (n = a.id /\ message[n].auto /\ timers[n] = Start(autoHide[n]))
      <4>1. CASE message[a.id].auto
        <5>1. timers = [autoHide EXCEPT ![a.id] = Start(@)]
          BY <4>1
        <5> HIDE DEF timers
        <5> QED BY <1>1, <4>1, <5>1
      <4>2. CASE ~message[a.id].auto
        <5>1. timers = [autoHide EXCEPT ![a.id] = @]
          BY <4>2
        <5> HIDE DEF timers
        <5> QED BY <1>1, <5>1
      <4> QED BY <4>1, <4>2
    <3>2. \A n \in Note : timers[n] \in Timer
      BY <1>1, <3>1, TimerTypes
    <3>3. timers \in [Note -> Timer]
      BY <1>1, <3>2
    <3>4. \A t \in Timer : Start(t).promise = "waiting"
      BY TimerTypes DEF Start, Timer
    <3>5. autoHide' = timers \/ Handle(queue, notifications, animations \ {a}, timers)
      BY <2>2 DEF ShowEnds
    <3> HIDE DEF timers
    <3>6. \A n \in Note : autoHide'[n].promise = timers[n].promise
      BY <1>1, <3>3, <3>5, HandleKeepsPromises
    <3> QED BY <1>1, <3>1, <3>4, <3>6
  <2>3. CASE a.do = "hide" /\ HideEnds(a.id, animations \ {a})
    <3>1. Without(notifications, a.id) \in Seq(Note)
      BY <2>3, WithoutProperties DEF Inv, HandlerOK, AnimationsOK, ListOK
    <3> QED BY <1>1, <2>3, <3>1, HandleKeepsPromises DEF HideEnds
  <2>4. CASE a.do = "shift" /\ ShiftEnds(animations \ {a})
    BY <1>1, <2>4, HandleKeepsPromises DEF ShiftEnds
  <2> QED BY <2>1, <2>2, <2>3, <2>4
<1> QED BY <1>2, <1>3, <1>4, <1>5, <1>6, <1>7 DEF Next

LEMMA HoverStep ==
  ASSUME Inv, PlacesInv, OnceInv, MouseInv, SilentInv, [Next]_vars
  PROVE  OnceInv' /\ MouseInv' /\ SilentInv'
<1>1. SilentInv'
  <2>1. message' = message
    BY DEF Next, AddMessage, ShowMessages, NotificationReady, TimeoutFires, AnimationEnds,
           AutoHideEnds, MouseMoves, ClickDismiss, ActionClick, vars
  <2>2. CASE AutoHideEnds
    BY <2>1, <2>2, AutoHideOnce DEF SilentInv
  <2>3. CASE ~AutoHideEnds
    BY <2>1, <2>3, PromisesMove DEF SilentInv
  <2> QED BY <2>2, <2>3
<1>2. ASSUME NEW actions, QueueOK(actions, notifications), ToShow(queue) \intersect ToShow(actions) = {},
             Push(actions, autoHide), UNCHANGED <<pointer, early>>
      PROVE  OnceInv' /\ MouseInv'
  <2>1. OnceInv' /\ UnderMouse(autoHide', pointer, early)
    BY <1>2, PushOnce DEF MouseInv
  <2> QED BY <1>2, <2>1 DEF MouseInv
<1>3. CASE AddMessage \/ UNCHANGED vars
  <2>1. UNCHANGED <<current, notifications, hidden, timeouts, animations, autoHide, pointer, early>>
    BY <1>3 DEF AddMessage, vars, show, mouse
  <2> QED BY <1>1, <2>1, OnceStays DEF MouseInv
<1>4. CASE ShowMessages
  <2>1. Push(ShowActions, autoHide) /\ UNCHANGED <<pointer, early>>
    BY <1>4 DEF ShowMessages, ShowActions, mouse
  <2> QED BY <1>1, <1>2, <2>1, BatchShows
<1>5. CASE ClickDismiss \/ ActionClick
  <2>1. PICK n \in Visible : Push(HideAction(n), autoHide)
    BY <1>5 DEF ClickDismiss, ActionClick
  <2>2. n \in Note /\ UNCHANGED <<pointer, early>>
    BY <1>5, <2>1, ListForms DEF Visible, Inv, HandlerOK, ClickDismiss, ActionClick, mouse
  <2> QED BY <1>1, <1>2, <2>1, <2>2, DismissShowsNone
<1> QED BY <1>1, <1>3, <1>4, <1>5, ReadyOnce, TimeoutOnce, AnimationOnce, AutoHideOnce, MoveOnce DEF Next

LEMMA HoverInductive == Spec => [](OnceInv /\ MouseInv /\ SilentInv)
<1>1. Init => OnceInv /\ MouseInv /\ SilentInv
  <2> SUFFICES ASSUME Init PROVE OnceInv /\ MouseInv /\ SilentInv
    OBVIOUS
  <2>1. [promise |-> "none", running |-> FALSE, stray |-> 0] \in Timer
    BY DEF Timer
  <2>2. /\ autoHide = [n \in Note |-> [promise |-> "none", running |-> FALSE, stray |-> 0]]
        /\ pointer = None /\ timeouts = {} /\ animations = {} /\ current = None
    BY DEF Init
  <2>3. \A n \in Note : None # n
    BY NotifierAssumption
  <2> QED BY <2>1, <2>2, <2>3 DEF OnceInv, Once, MouseInv, UnderMouse, SilentInv
<1>2. Inv /\ PlacesInv /\ (OnceInv /\ MouseInv /\ SilentInv) /\ [Next]_vars
        => (OnceInv /\ MouseInv /\ SilentInv)'
  BY HoverStep
<1> QED BY <1>1, <1>2, InvInductive, PlacesInductive, PTL DEF Spec

(* A notification does not time out under the mouse, unless the mouse was   *)
(* on it before its timer started: whatever else is shown, hidden, shifted  *)
(* or clicked meanwhile (onNotificationMouseover, start, continue).         *)
THEOREM HoveredDoNotTimeOut == Spec => HoveredStays
<1>1. Inv /\ OnceInv /\ MouseInv /\ SilentInv /\ [Next]_vars =>
        [\A n \in Note :
           autoHide[n].promise = "waiting" /\ autoHide'[n].promise = "resolved" =>
             pointer # n \/ n \in early]_vars
  <2> SUFFICES ASSUME Inv, OnceInv, MouseInv, SilentInv, [Next]_vars, NEW n \in Note,
                      autoHide[n].promise = "waiting", autoHide'[n].promise = "resolved"
               PROVE  pointer # n \/ n \in early
    OBVIOUS
  <2>1. CASE AutoHideEnds
    BY <2>1, AutoHideOnce
  <2>2. CASE ~AutoHideEnds
    BY <2>2, PromisesMove
  <2> QED BY <2>1, <2>2
<1> QED BY <1>1, InvInductive, HoverInductive, PTL DEF Spec, HoveredStays

-----------------------------------------------------------------------------
(* Whoever can ask for a notification to be hidden has seen it, or saw it   *)
(* hidden before: the HIDE of a click or of a timer is for one that was     *)
(* shown, and a timer starts when show() has ended.                         *)
Seen(n) == n \in shown \/ hidden[n] = 1
HidesSeen(q) == \A i \in DOMAIN q : q[i].type = "HIDE" => Seen(q[i].id)
AppearsSeen(anims) == \A n \in Note : Appear(n) \in anims => Seen(n)
TimersSeen(timers) == \A n \in Note : timers[n].promise # "none" => Seen(n)

SeenInv == HidesSeen(queue) /\ AppearsSeen(animations) /\ TimersSeen(autoHide)

NoneUnseen == \A n \in Note : hidden'[n] > hidden[n] => n \in shown

(* What is hidden stays so. *)
LEMMA SeenStays ==
  ASSUME HiddenOK, hidden' = hidden \/ (\E id \in Note : hidden' = [hidden EXCEPT ![id] = 1]),
         shown \subseteq shown'
  PROVE  \A n \in Note : Seen(n) => Seen(n)'
BY DEF HiddenOK, Seen

LEMMA HandleSeen ==
  ASSUME NEW q, NEW list, NEW running, NEW timers \in [Note -> Timer],
         QueueOK(q, list), ListOK(list), HiddenOK, \A n \in On(list) : hidden[n] = 0,
         HidesSeen(q), AppearsSeen(running), TimersSeen(timers),
         Handle(q, list, running, timers), shown' = shown
  PROVE  SeenInv' /\ NoneUnseen
<1> DEFINE pending == Pending(q, list)
           a == Head(pending)
<1>1. q \in Seq(Action) /\ list \in Seq(Note) /\ DOMAIN q = 1..Len(q) /\ Len(q) \in Nat
  BY LenProperties DEF QueueOK, ListOK
<1>2. \A n \in Note : autoHide'[n].promise = timers[n].promise
  BY <1>1, HandleKeepsPromises
<1>3. ASSUME \A n \in Note : Seen(n) => Seen(n)', HidesSeen(queue)',
             \A n \in Note : Appear(n) \in animations' => Appear(n) \in running
      PROVE  SeenInv'
  BY <1>2, <1>3 DEF SeenInv, AppearsSeen, TimersSeen
<1>4. CASE pending = <<>>
  <2>1. queue' = <<>> /\ animations' = running /\ hidden' = hidden
    BY <1>4 DEF Handle
  <2>2. HidesSeen(queue)'
    BY <2>1 DEF HidesSeen
  <2>3. NoneUnseen
    BY <2>1 DEF NoneUnseen, HiddenOK
  <2> QED BY <1>3, <2>1, <2>2, <2>3, SeenStays
<1>5. CASE pending # <<>>
  <2>1. PICK k \in 1..Len(q) :
          /\ q[k].type = "SHOW" \/ q[k].id \in On(list)
          /\ a = q[k] /\ Tail(pending) \in Seq(Action) /\ Len(Tail(pending)) = Len(q) - k
          /\ \A i \in 1..Len(q) - k : Tail(pending)[i] = q[k + i]
    BY <1>1, <1>5, PendingIsTail
  <2>2. a \in Action /\ a.id \in Note /\ a.type \in {"SHOW", "HIDE"}
    <3>1. q[k] \in Action
      BY <1>1, ElementOfSeq
    <3> QED BY <2>1, <3>1 DEF Action
  <2>3. queue' = Tail(pending)
    BY <1>5 DEF Handle
  <2>4. \A i \in DOMAIN queue' : /\ k + i \in DOMAIN q /\ queue'[i] = q[k + i]
                                 /\ q[k + i].id \in Note
    <3> HIDE DEF pending
    <3>1. DOMAIN queue' = 1..Len(q) - k /\ k \in 1..Len(q)
      BY <2>1, <2>3, LenProperties
    <3>2. \A i \in 1..Len(q) - k : k + i \in 1..Len(q)
      BY <1>1, <3>1
    <3>3. \A i \in 1..Len(q) - k : queue'[i] = q[k + i]
      BY <2>1, <2>3
    <3>4. \A i \in 1..Len(q) : q[i] \in Action
      BY <1>1, ElementOfSeq
    <3>5. \A i \in 1..Len(q) : q[i].id \in Note
      BY <3>4 DEF Action
    <3> QED BY <1>1, <3>1, <3>2, <3>3, <3>5
  <2>5. ASSUME \A n \in Note : Seen(n) => Seen(n)' PROVE HidesSeen(queue)'
    BY <2>4, <2>5 DEF HidesSeen
  <2>6. CASE a.type = "SHOW"
    <3>1. animations' = running /\ hidden' = hidden
      BY <1>5, <2>6 DEF Handle
    <3>2. NoneUnseen
      BY <3>1 DEF NoneUnseen, HiddenOK
    <3> QED BY <1>3, <2>5, <3>1, <3>2, SeenStays
  <2>7. CASE a.type # "SHOW"
    <3>1. Hide(a.id, running, timers)
      BY <1>5, <2>7 DEF Handle
    <3>2. a.id \in On(list) /\ hidden[a.id] = 0 /\ a.id \in shown
      BY <1>1, <2>1, <2>2, <2>7 DEF HidesSeen, Seen
    <3> HIDE DEF a
    <3>3. /\ animations' = running \union {[do |-> "hide", id |-> a.id]}
          /\ hidden' = [hidden EXCEPT ![a.id] = 1]
      BY <3>1, <3>2 DEF Hide
    <3>4. \A n \in Note : Appear(n) \in animations' => Appear(n) \in running
      BY <3>3 DEF Appear
    <3>5. NoneUnseen
      BY <3>2, <3>3 DEF NoneUnseen, HiddenOK
    <3> QED BY <1>3, <2>2, <2>5, <3>3, <3>4, <3>5, SeenStays
  <2> QED BY <2>6, <2>7
<1> QED BY <1>4, <1>5

LEMMA PushSeen ==
  ASSUME Inv, SeenInv, NEW actions, NEW timers \in [Note -> Timer],
         QueueOK(actions, notifications), ToShow(queue) \intersect ToShow(actions) = {},
         HidesSeen(actions), TimersSeen(timers), Push(actions, timers), shown' = shown
  PROVE  SeenInv' /\ NoneUnseen
<1> DEFINE q == queue \o actions
<1>1. QueueOK(q, notifications) /\ HiddenOK /\ ListOK(notifications)
  BY JoinedQueue DEF Inv, HandlerOK
<1>2. HidesSeen(q)
  <2>1. /\ queue \in Seq(Action) /\ actions \in Seq(Action)
        /\ DOMAIN queue = 1..Len(queue) /\ DOMAIN actions = 1..Len(actions)
        /\ Len(queue) \in Nat /\ Len(actions) \in Nat
    BY LenProperties DEF Inv, HandlerOK, QueueOK
  <2>2. /\ DOMAIN q = 1..Len(queue) + Len(actions)
        /\ \A i \in 1..Len(queue) + Len(actions) :
             q[i] = IF i <= Len(queue) THEN queue[i] ELSE actions[i - Len(queue)]
    BY <2>1, ConcatProperties, LenProperties
  <2>3. \A i \in DOMAIN q : \/ i \in DOMAIN queue /\ q[i] = queue[i]
                            \/ i - Len(queue) \in DOMAIN actions /\ q[i] = actions[i - Len(queue)]
    BY <2>1, <2>2
  <2> HIDE DEF q
  <2> QED BY <2>3 DEF HidesSeen, SeenInv
<1> HIDE DEF q
<1>3. CASE current = None
  <2>1. Handle(q, notifications, animations, timers)
    BY <1>3 DEF Push, q
  <2>2. \A n \in On(notifications) : hidden[n] = 0
    <3>1. \A n \in On(notifications) : n \in Note
      BY <1>1, ListForms
    <3> QED BY <1>3, <3>1 DEF Inv, HandlerOK, ActionsAreSerialized, HiddenOK
  <2> QED BY <1>1, <1>2, <2>1, <2>2, HandleSeen DEF SeenInv
<1>4. CASE current # None
  <2>1. queue' = q /\ autoHide' = timers /\ animations' = animations /\ hidden' = hidden
    BY <1>4 DEF Push, q
  <2>2. \A n : Seen(n)' <=> Seen(n)
    BY <2>1 DEF Seen
  <2>3. NoneUnseen
    BY <1>1, <2>1 DEF NoneUnseen, HiddenOK
  <2> QED BY <1>2, <2>1, <2>2, <2>3 DEF SeenInv, HidesSeen, AppearsSeen, TimersSeen
<1> QED BY <1>3, <1>4

LEMMA ReadySeen ==
  ASSUME Inv, PlacesInv, OnceInv, MouseInv, SeenInv, NotificationReady
  PROVE  /\ SeenInv'
         /\ \A n \in Note : hidden'[n] > hidden[n] /\ n \notin shown =>
              n = notifications[1] /\ Len(notifications) > Stacking
<1> DEFINE oldest == notifications[1]
<1>1. current # None /\ current.waits = "ready" /\ UNCHANGED <<queue, notifications>>
  BY DEF NotificationReady
<1>2. /\ HiddenOK /\ queue \in Seq(Action) /\ autoHide \in [Note -> Timer]
      /\ \A i \in DOMAIN queue : queue[i].id \in Note
  <2>1. HiddenOK /\ queue \in Seq(Action) /\ autoHide \in [Note -> Timer]
    BY DEF Inv, HandlerOK, QueueOK, MouseInv, UnderMouse
  <2>2. \A i \in DOMAIN queue : queue[i] \in Action
    BY <2>1, LenProperties, ElementOfSeq
  <2> QED BY <2>1, <2>2 DEF Action
<1>3. PICK id \in Note : id = current.id
  BY <1>1 DEF Inv, HandlerOK, Progress
<1>4. ASSUME \A n \in Note : Seen(n) => Seen(n)',
             \A n \in Note : Appear(n) \in animations' => Appear(n) \in animations \/ Seen(n)',
             \A n \in Note : autoHide'[n].promise = autoHide[n].promise
      PROVE  SeenInv'
  BY <1>1, <1>2, <1>4 DEF SeenInv, HidesSeen, AppearsSeen, TimersSeen
<1>5. CASE ReadyAlone
  <2>1. /\ animations' = animations \union {Appear(id)} /\ shown' = shown \union {id}
        /\ UNCHANGED <<autoHide, hidden>>
    BY <1>5, <1>3 DEF ReadyAlone, Appear
  <2>2. Seen(id)' /\ \A n : Appear(n) = Appear(id) => n = id
    BY <2>1 DEF Seen, Appear
  <2> QED BY <1>2, <1>4, <2>1, <2>2, SeenStays DEF HiddenOK
<1>6. CASE ReadyStacked
  <2>1. /\ animations' = animations \union {[do |-> "shift", id |-> id]}
        /\ UNCHANGED <<shown, autoHide, hidden>>
    BY <1>6, <1>3 DEF ReadyStacked
  <2>2. \A n : Appear(n) \in animations' => Appear(n) \in animations
    BY <2>1 DEF Appear
  <2> QED BY <1>2, <1>4, <2>1, <2>2, SeenStays DEF HiddenOK
<1>7. CASE ReadyFull
  <2>1. Hide(oldest, animations, autoHide) /\ Len(notifications) > Stacking /\ shown' = shown
    BY <1>7 DEF ReadyFull, TooMany
  <2>2. oldest \in Note /\ hidden[oldest] = 0
    <3>1. notifications # <<>>
      BY <1>1 DEF PlacesInv, Waiting
    <3>2. Len(notifications) \in Nat /\ Len(notifications) >= 1 /\ oldest \in Note /\ oldest \in On(notifications)
      BY <2>1, NotifierAssumption, ListForms DEF Inv, HandlerOK
    <3> QED BY <1>1, <3>2 DEF Inv, HandlerOK, ActionsAreSerialized, HiddenOK
  <2> HIDE DEF oldest
  <2>3. /\ animations' = animations \union {[do |-> "hide", id |-> oldest]}
        /\ autoHide' = [autoHide EXCEPT ![oldest] = Pause(@)]
        /\ hidden' = [hidden EXCEPT ![oldest] = 1]
    BY <2>1, <2>2 DEF Hide
  <2>4. \A n : Appear(n) \in animations' => Appear(n) \in animations
    BY <2>3 DEF Appear
  <2>5. \A n \in Note : autoHide'[n].promise = autoHide[n].promise
    <3>1. \A t \in Timer : Pause(t).promise = t.promise
      BY DEF Pause, Timer
    <3> QED BY <1>2, <2>3, <3>1
  <2>6. SeenInv'
    BY <1>2, <1>4, <2>1, <2>2, <2>3, <2>4, <2>5, SeenStays
  <2>7. \A n \in Note : hidden'[n] > hidden[n] => n = oldest
    BY <1>2, <2>3 DEF HiddenOK
  <2> QED BY <2>1, <2>6, <2>7 DEF oldest
<1> QED BY <1>5, <1>6, <1>7 DEF NotificationReady

(* A postponed show() is for a notification of the list, or for one that    *)
(* has been hidden there.                                                   *)
LEMMA TimeoutSeen ==
  ASSUME Inv, PlacesInv, OnceInv, SeenInv, TimeoutFires
  PROVE  SeenInv' /\ NoneUnseen
<1>1. UNCHANGED <<queue, notifications, autoHide, hidden>>
  BY DEF TimeoutFires
<1>2. PICK t \in timeouts :
        IF t.do = "shift" THEN UNCHANGED <<animations, shown>>
        ELSE /\ animations' = animations \union {Appear(t.for)}
             /\ shown' = shown \union ({t.for} \intersect On(notifications))
  BY DEF TimeoutFires, Appear
<1>3. HiddenOK /\ t.for \in Note /\ t.do \in {"shift", "show"}
  BY DEF PlacesInv, Places, DueOK, Inv, HandlerOK
<1>4. NoneUnseen
  BY <1>1, <1>3 DEF NoneUnseen, HiddenOK
<1>5. \A n : Seen(n) => Seen(n)'
  BY <1>1, <1>2, <1>3 DEF Seen
<1>6. AppearsSeen(animations)'
  <2>1. CASE t.do = "shift"
    BY <1>2, <1>5, <2>1 DEF SeenInv, AppearsSeen
  <2>2. CASE t.do = "show"
    <3>1. Show(t.for) \in timeouts
      BY <2>2 DEF OnceInv, Once
    <3>2. t.for \in On(notifications) \/ hidden[t.for] = 1
      BY <1>3, <3>1 DEF OnceInv, Once, Unshown, HiddenOK
    <3>3. Seen(t.for)'
      BY <1>1, <1>2, <2>2, <3>2 DEF Seen
    <3>4. \A n : Appear(n) = Appear(t.for) => n = t.for
      BY DEF Appear
    <3> QED BY <1>2, <1>5, <2>2, <3>3, <3>4 DEF SeenInv, AppearsSeen
  <2> QED BY <1>3, <2>1, <2>2
<1> QED BY <1>1, <1>4, <1>5, <1>6 DEF SeenInv, HidesSeen, TimersSeen

LEMMA AnimationSeen ==
  ASSUME Inv, MouseInv, SeenInv, AnimationEnds
  PROVE  SeenInv' /\ NoneUnseen
<1>1. PICK a \in animations :
        \/ a.do = "show" /\ ShowEnds(a.id, animations \ {a})
        \/ a.do = "hide" /\ HideEnds(a.id, animations \ {a})
        \/ a.do = "shift" /\ ShiftEnds(animations \ {a})
  BY DEF AnimationEnds
<1> DEFINE running == animations \ {a}
<1>2. /\ ListOK(notifications) /\ HiddenOK /\ AnimationsOK /\ QueueOK(queue, notifications)
      /\ ActionsAreSerialized /\ autoHide \in [Note -> Timer]
  BY DEF Inv, HandlerOK, MouseInv, UnderMouse
<1>3. \A m \in On(notifications) : m \in Note
  BY <1>2, ListForms
<1>4. shown' = shown /\ HidesSeen(queue) /\ TimersSeen(autoHide) /\ AppearsSeen(running)
  BY DEF AnimationEnds, SeenInv, AppearsSeen
<1>5. ASSUME current # None, current.waits \in {"show", "shift"}
      PROVE  \A m \in On(notifications) : hidden[m] = 0
  BY <1>2, <1>3, <1>5 DEF ActionsAreSerialized, HiddenOK
<1>6. CASE a.do = "show" /\ ShowEnds(a.id, running)
  <2> DEFINE timers == [autoHide EXCEPT ![a.id] = IF message[a.id].auto THEN Start(@) ELSE @]
  <2>1. a = Appear(a.id)
    BY <1>2, <1>6 DEF AnimationsOK, Appear
  <2>2. timers \in [Note -> Timer] /\ \A n \in Note : timers[n] = autoHide[n] \/ n = a.id
    <3>1. \A t \in Timer : Start(t) \in Timer
      BY TimerTypes
    <3> QED BY <1>2, <3>1
  <2>3. TimersSeen(timers)
    <3> HIDE DEF timers
    <3> QED BY <2>1, <2>2 DEF SeenInv, AppearsSeen, TimersSeen
  <2>4. CASE current # None /\ current.waits = "show" /\ current.id = a.id
    <3>1. Handle(queue, notifications, running, timers)
      BY <1>6, <2>4 DEF ShowEnds
    <3> HIDE DEF timers, running
    <3> QED BY <1>2, <1>4, <1>5, <2>2, <2>3, <2>4, <3>1, HandleSeen
  <2>5. CASE ~(current # None /\ current.waits = "show" /\ current.id = a.id)
    <3>1. animations' = running /\ autoHide' = timers /\ UNCHANGED <<queue, hidden>>
      BY <1>6, <2>5 DEF ShowEnds
    <3>2. \A n : Seen(n)' <=> Seen(n)
      BY <1>4, <3>1 DEF Seen
    <3>3. NoneUnseen
      BY <1>2, <3>1 DEF NoneUnseen, HiddenOK
    <3> HIDE DEF timers, running
    <3> QED BY <1>4, <2>3, <3>1, <3>2, <3>3 DEF SeenInv, HidesSeen, AppearsSeen, TimersSeen
  <2> QED BY <2>4, <2>5
<1>7. CASE a.do = "shift" /\ ShiftEnds(running)
  <2>1. Handle(queue, notifications, running, autoHide)
    BY <1>7 DEF ShiftEnds
  <2>2. current # None /\ current.waits = "shift"
    BY <1>2, <1>7 DEF AnimationsOK
  <2> HIDE DEF running
  <2> QED BY <1>2, <1>4, <1>5, <2>1, <2>2, HandleSeen
<1>8. CASE a.do = "hide" /\ HideEnds(a.id, running)
  <2> DEFINE list == Without(notifications, a.id)
  <2>1. /\ current # None /\ current.waits = "hide" /\ current.on = a.id
        /\ a.id \in On(notifications) /\ hidden[a.id] = 1
        /\ Handle(queue, list, running, autoHide)
    BY <1>2, <1>8 DEF AnimationsOK, HideEnds
  <2>2. ListOK(list) /\ On(list) = On(notifications) \ {a.id}
    BY <1>2, <2>1, WithoutProperties, RemovesOne DEF ListOK
  <2>3. \A m \in On(list) : hidden[m] = 0
    BY <1>2, <1>3, <2>1, <2>2 DEF ActionsAreSerialized, HiddenOK
  <2>4. QueueOK(queue, list)
    BY <1>2, <2>2 DEF QueueOK
  <2> HIDE DEF list, running
  <2> QED BY <1>2, <1>4, <2>1, <2>2, <2>3, <2>4, HandleSeen
<1> QED BY <1>1, <1>6, <1>7, <1>8

LEMMA AutoHideSeen ==
  ASSUME Inv, MouseInv, SeenInv, AutoHideEnds
  PROVE  SeenInv' /\ NoneUnseen
<1>1. shown' = shown /\ autoHide \in [Note -> Timer] /\ HiddenOK
  BY DEF AutoHideEnds, MouseInv, UnderMouse, Inv, HandlerOK
<1>2. PICK n \in Note :
        \E t \in {[autoHide[n] EXCEPT !.running = FALSE], [autoHide[n] EXCEPT !.stray = @ - 1]} :
          /\ t.stray >= 0
          /\ IF t.promise = "waiting"
             THEN Push(HideAction(n), [autoHide EXCEPT ![n] = [t EXCEPT !.promise = "resolved"]])
             ELSE /\ autoHide' = [autoHide EXCEPT ![n] = t]
                  /\ UNCHANGED <<queue, animations, hidden>>
  BY DEF AutoHideEnds
<1>3. PICK t \in {[autoHide[n] EXCEPT !.running = FALSE], [autoHide[n] EXCEPT !.stray = @ - 1]} :
        /\ t.stray >= 0
        /\ IF t.promise = "waiting"
           THEN Push(HideAction(n), [autoHide EXCEPT ![n] = [t EXCEPT !.promise = "resolved"]])
           ELSE /\ autoHide' = [autoHide EXCEPT ![n] = t]
                /\ UNCHANGED <<queue, animations, hidden>>
  BY <1>2
<1> DEFINE u == autoHide[n]
<1>4. u \in Timer
  BY <1>1
<1> HIDE DEF u
<1>5. t \in Timer /\ t.promise = u.promise
  <2>1. u = [promise |-> u.promise, running |-> u.running, stray |-> u.stray] /\ u.stray \in Nat
    BY <1>4 DEF Timer
  <2>2. CASE t = [u EXCEPT !.running = FALSE]
    BY <1>4, <2>2 DEF Timer
  <2>3. CASE t = [u EXCEPT !.stray = @ - 1]
    <3> DEFINE k == u.stray - 1
    <3>1. k \in Nat /\ t = [u EXCEPT !.stray = k]
      BY <1>3, <1>4, <2>1, <2>3 DEF Timer
    <3> HIDE DEF k
    <3> QED BY <1>4, <3>1 DEF Timer
  <2> QED BY <1>3, <2>2, <2>3 DEF u
<1>6. CASE t.promise = "waiting"
  <2> DEFINE v == [t EXCEPT !.promise = "resolved"]
             timers == [autoHide EXCEPT ![n] = v]
  <2>1. v \in Timer
    BY <1>5 DEF Timer
  <2>2. Push(HideAction(n), timers)
    BY <1>3, <1>6
  <2> HIDE DEF v
  <2>3. timers \in [Note -> Timer] /\ \A m \in Note : m # n => timers[m] = autoHide[m]
    BY <1>1, <2>1
  <2> HIDE DEF timers
  <2>4. Seen(n)
    BY <1>5, <1>6 DEF u, SeenInv, TimersSeen
  <2>5. TimersSeen(timers) /\ HidesSeen(HideAction(n))
    BY <2>3, <2>4 DEF SeenInv, TimersSeen, HidesSeen, HideAction
  <2> QED BY <1>1, <2>2, <2>3, <2>5, DismissShowsNone, PushSeen
<1>7. CASE t.promise # "waiting"
  <2>1. autoHide' = [autoHide EXCEPT ![n] = t] /\ UNCHANGED <<queue, animations, hidden>>
    BY <1>3, <1>7
  <2>2. \A m \in Note : autoHide'[m].promise = autoHide[m].promise
    BY <1>1, <1>5, <2>1 DEF u
  <2>3. \A m : Seen(m)' <=> Seen(m)
    BY <1>1, <2>1 DEF Seen
  <2>4. NoneUnseen
    BY <1>1, <2>1 DEF NoneUnseen, HiddenOK
  <2> QED BY <2>1, <2>2, <2>3, <2>4 DEF SeenInv, HidesSeen, AppearsSeen, TimersSeen
<1> QED BY <1>6, <1>7

LEMMA SeenStep ==
  ASSUME Inv, PlacesInv, OnceInv, MouseInv, SilentInv, SeenInv, [Next]_vars
  PROVE  /\ SeenInv'
         /\ \A n \in Note : hidden'[n] > hidden[n] /\ n \notin shown =>
              n = notifications[1] /\ Len(notifications) > Stacking
<1>1. HiddenOK /\ autoHide \in [Note -> Timer]
  BY DEF Inv, HandlerOK, MouseInv, UnderMouse
<1>2. CASE AddMessage \/ MouseMoves \/ UNCHANGED vars
  <2>1. UNCHANGED <<queue, animations, hidden, shown>>
    BY <1>2 DEF AddMessage, MouseMoves, vars, show
  <2>2. \A n \in Note : autoHide'[n].promise = autoHide[n].promise
    <3>1. CASE AddMessage \/ UNCHANGED vars
      BY <3>1 DEF AddMessage, vars
    <3> QED BY <1>2, <3>1, MoveOnce
  <2>3. \A n : Seen(n)' <=> Seen(n)
    BY <2>1 DEF Seen
  <2>4. NoneUnseen
    BY <1>1, <2>1 DEF NoneUnseen, HiddenOK
  <2> QED BY <2>1, <2>2, <2>3, <2>4 DEF SeenInv, HidesSeen, AppearsSeen, TimersSeen, NoneUnseen
<1>3. CASE ShowMessages
  <2>1. Push(ShowActions, autoHide) /\ shown' = shown
    BY <1>3 DEF ShowMessages, ShowActions
  <2>2. HidesSeen(ShowActions)
    BY DEF HidesSeen, ShowActions
  <2>3. SeenInv' /\ NoneUnseen
    BY <1>1, <2>1, <2>2, BatchShows, PushSeen DEF SeenInv
  <2> QED BY <2>3 DEF NoneUnseen
<1>4. CASE ClickDismiss \/ ActionClick
  <2>1. PICK n \in Visible : Push(HideAction(n), autoHide)
    BY <1>4 DEF ClickDismiss, ActionClick
  <2>2. n \in Note /\ n \in shown /\ shown' = shown
    BY <1>4, <2>1, ListForms DEF Visible, Inv, HandlerOK, ClickDismiss, ActionClick
  <2>3. HidesSeen(HideAction(n))
    BY <2>2 DEF HidesSeen, HideAction, Seen
  <2>4. SeenInv' /\ NoneUnseen
    BY <1>1, <2>1, <2>2, <2>3, DismissShowsNone, PushSeen DEF SeenInv
  <2> QED BY <2>4 DEF NoneUnseen
<1> QED BY <1>2, <1>3, <1>4, ReadySeen, TimeoutSeen, AnimationSeen, AutoHideSeen DEF Next, NoneUnseen

LEMMA SeenInductive == Spec => []SeenInv
<1>1. Init => SeenInv
  <2> SUFFICES ASSUME Init PROVE SeenInv
    OBVIOUS
  <2>1. queue = <<>> /\ animations = {} /\ \A n \in Note : autoHide[n].promise = "none"
    BY DEF Init
  <2> QED BY <2>1 DEF SeenInv, HidesSeen, AppearsSeen, TimersSeen
<1>2. Inv /\ PlacesInv /\ OnceInv /\ MouseInv /\ SilentInv /\ SeenInv /\ [Next]_vars => SeenInv'
  BY SeenStep
<1> QED BY <1>1, <1>2, InvInductive, PlacesInductive, HoverInductive, PTL DEF Spec

(* A notification that nobody could see is hidden only as the oldest of a   *)
(* stack that is too full: not by a click, not by its timer, not by what    *)
(* is left in the queue (continueHandleShowAction, startAutoHideTimer,      *)
(* onClickDismiss).                                                         *)
THEOREM UnseenMadePlace == Spec => HiddenUnseenForPlace
<1>1. Inv /\ PlacesInv /\ OnceInv /\ MouseInv /\ SilentInv /\ SeenInv /\ [Next]_vars =>
        [\A n \in Note : hidden'[n] > hidden[n] /\ n \notin shown =>
           n = notifications[1] /\ Len(notifications) > Stacking]_vars
  BY SeenStep
<1> QED BY <1>1, InvInductive, PlacesInductive, HoverInductive, SeenInductive, PTL
        DEF Spec, HiddenUnseenForPlace
=============================================================================
