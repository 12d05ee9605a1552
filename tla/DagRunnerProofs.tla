------------------------------ MODULE DagRunnerProofs -------------------------
(***************************************************************************)
(* DagRunner, for every graph, any retries, timeouts and number of lives,  *)
(* with crashes, failing calls and users at any point.  Its types.  The    *)
(* controller launches no node too early and none too often, in any number *)
(* of lives.  In its only life it implements Workflow, and what it leaves  *)
(* in the Pipeline record is how the nodes ended.                          *)
(***************************************************************************)
EXTENDS DagRunner, SequenceTheorems, TLAPS

(* What each label says of the nodes that are yet to be visited and of cur. *)
PlacesInv ==
  /\ pc \in {"poll", "cancelling", "timedout"} => todo \subseteq Active
  /\ pc = "timedout" => cur \in Active
  /\ pc \in {"launch", "enqueue", "record"} =>
       \A n \in todo : state[n] = "pending"
  /\ pc \in {"enqueue", "record"} =>
       /\ cur \in Nodes /\ cur \notin todo
       /\ state[cur] = "pending" /\ Len(child[cur]) > 0

TypeInv == TypeOK /\ PlacesInv

-----------------------------------------------------------------------------
(* Writes to one child.                                                     *)
LEMMA Written ==
  ASSUME NEW ch \in [Nodes -> Seq(Child)], NEW n \in Nodes,
         NEW k \in DOMAIN ch[n], NEW c \in Child,
         NEW new, new = [ch EXCEPT ![n][k] = c]
  PROVE  /\ new \in [Nodes -> Seq(Child)]
         /\ \A m \in Nodes : /\ Len(new[m]) = Len(ch[m])
                             /\ DOMAIN new[m] = DOMAIN ch[m]
         /\ \A m \in Nodes : \A j \in DOMAIN ch[m] :
              new[m][j] = IF m = n /\ j = k THEN c ELSE ch[m][j]
<1>1. ch[n] \in Seq(Child) /\ k \in 1..Len(ch[n])
  BY LenProperties
<1> DEFINE s == [ch[n] EXCEPT ![k] = c]
<1>2. /\ s \in Seq(Child) /\ Len(s) = Len(ch[n])
      /\ \A j \in 1..Len(s) : s[j] = IF j = k THEN c ELSE ch[n][j]
  BY <1>1, ExceptSeq
<1>3. DOMAIN s = DOMAIN ch[n]
  OBVIOUS
<1>4. \A m \in Nodes : new[m] = IF m = n THEN s ELSE ch[m]
  OBVIOUS
<1>5. new \in [Nodes -> Seq(Child)]
  <2>1. new = [ch EXCEPT ![n] = s]
    OBVIOUS
  <2> HIDE DEF s
  <2> QED  BY <1>2, <2>1
<1>6. DOMAIN ch[n] = 1..Len(ch[n])
  BY <1>1, LenProperties
<1> HIDE DEF s
<1> QED  BY <1>2, <1>3, <1>4, <1>5, <1>6

(* A child is added.                                                        *)
LEMMA Grown ==
  ASSUME NEW ch \in [Nodes -> Seq(Child)], NEW n \in Nodes, NEW c \in Child,
         NEW new, new = [ch EXCEPT ![n] = Append(@, c)]
  PROVE  /\ new \in [Nodes -> Seq(Child)]
         /\ Len(new[n]) = Len(ch[n]) + 1
         /\ new[n][Len(ch[n]) + 1] = c
         /\ \A m \in Nodes \ {n} : new[m] = ch[m]
         /\ \A m \in Nodes : \A j \in 1..Len(ch[m]) : new[m][j] = ch[m][j]
<1> DEFINE s == Append(ch[n], c)
<1>1. ch[n] \in Seq(Child)
  OBVIOUS
<1>2. /\ s \in Seq(Child) /\ Len(s) = Len(ch[n]) + 1 /\ s[Len(ch[n]) + 1] = c
      /\ \A j \in 1..Len(ch[n]) : s[j] = ch[n][j]
  BY <1>1, AppendProperties
<1>3. new = [ch EXCEPT ![n] = s]
  OBVIOUS
<1> HIDE DEF s
<1> QED  BY <1>2, <1>3

(* Every child stays what it was, but for one that c replaces.              *)
OneChild(n, k, c) ==
  /\ child' \in [Nodes -> Seq(Child)]
  /\ \A m \in Nodes : Len(child'[m]) = Len(child[m])
  /\ \A m \in Nodes : \A j \in 1..Len(child[m]) :
       child'[m][j] = IF m = n /\ j = k THEN c ELSE child[m][j]

LEMMA SetChild ==
  ASSUME TypeOK, NEW n \in Nodes, NEW k \in 1..Len(child[n]), NEW c \in Child,
         child' = [child EXCEPT ![n][k] = c]
  PROVE  OneChild(n, k, c)
<1>1. child \in [Nodes -> Seq(Child)]
  BY DEF TypeOK
<1>2. \A m \in Nodes : DOMAIN child[m] = 1..Len(child[m])
  BY <1>1, LenProperties
<1> QED  BY <1>1, <1>2, Written DEF OneChild

(* How the sets of statuses lie to each other.                              *)
LEMMA StatusFacts ==
  /\ SUCCESS \subseteq TERMINAL /\ TERMINAL \subseteq Status
  /\ "failed" \in TERMINAL \ SUCCESS /\ "stopped" \in TERMINAL \ SUCCESS
  /\ {"queued", "in_progress", "created"} \cap TERMINAL = {}
  /\ {"queued", "in_progress", "created"} \subseteq Status
  /\ "pending" \notin Status
  BY DEF SUCCESS, TERMINAL, Status

(* The writes of the controller, of users and of agents, each to one child. *)
LEMMA StopWrites ==
  ASSUME TypeOK, NEW n \in Nodes, handle[n] # 0, child' = Stopped(n)
  PROVE  /\ handle[n] \in 1..Len(child[n])
         /\ OneChild(n, handle[n],
                     [status |-> "stopped", place |-> child[n][handle[n]].place])
<1> DEFINE k == handle[n]
           c == [status |-> "stopped", place |-> child[n][k].place]
<1>1. child \in [Nodes -> Seq(Child)] /\ k \in 1..Len(child[n])
  BY LenProperties DEF TypeOK
<1>2. child[n][k] \in Child
  BY <1>1, ElementOfSeq
<1>3. c \in Child /\ [child[n][k] EXCEPT !.status = "stopped"] = c
  BY <1>2, StatusFacts DEF Child
<1>4. child' = [child EXCEPT ![n][k] = c]
  BY <1>3 DEF Stopped
<1> HIDE DEF c, k
<1>5. OneChild(n, k, c)
  BY <1>1, <1>3, <1>4, SetChild
<1> QED  BY <1>1, <1>5 DEF c, k

LEMMA MoveWrites ==
  ASSUME TypeOK, NEW n \in Nodes, NEW k \in DOMAIN child[n],
         NEW s \in Status, NEW p \in Place, Move(n, k, s, p)
  PROVE  OneChild(n, k, [status |-> s, place |-> p])
<1> DEFINE c == [status |-> s, place |-> p]
<1>1. child \in [Nodes -> Seq(Child)] /\ k \in 1..Len(child[n])
  BY LenProperties DEF TypeOK
<1>2. c \in Child /\ child' = [child EXCEPT ![n][k] = c]
  BY DEF Child, Move
<1> HIDE DEF c
<1> QED  BY <1>1, <1>2, SetChild DEF c

LEMMA EnqueueWrites ==
  ASSUME TypeInv, EnqueueChild
  PROVE  /\ cur \in Nodes /\ Len(child[cur]) \in 1..Len(child[cur])
         /\ OneChild(cur, Len(child[cur]), [status |-> "queued", place |-> "queue"])
<1> DEFINE c == [status |-> "queued", place |-> "queue"]
           k == Len(child[cur])
<1>1. cur \in Nodes /\ k > 0 /\ TypeOK
  BY DEF TypeInv, PlacesInv, EnqueueChild
<1>2. k \in 1..Len(child[cur])
  BY <1>1, LenProperties DEF TypeOK
<1>3. c \in Child /\ child' = [child EXCEPT ![cur][k] = c]
  BY StatusFacts DEF Child, Place, EnqueueChild
<1>4. OneChild(cur, k, c)
  <2> HIDE DEF c, k
  <2> QED  BY <1>1, <1>2, <1>3, SetChild
<1> QED  BY <1>1, <1>2, <1>4

(* What agents and users do to a child: a child that has succeeded is not   *)
(* theirs any more, and one that they make succeed is off.                  *)
LEMMA OutsideWrites ==
  ASSUME TypeOK, NEW n \in Nodes, NEW k \in DOMAIN child[n],
         StopChild(n, k) \/ PopChild(n, k) \/ StartChild(n, k) \/ EndChild(n, k)
  PROVE  \E s \in Status, p \in Place :
           /\ OneChild(n, k, [status |-> s, place |-> p])
           /\ child[n][k].place = "off" => child[n][k].status \notin SUCCESS
           /\ s \in SUCCESS => p = "off" \/ s = child[n][k].status
           /\ UNCHANGED <<pipeline, cancelled, memory, control>>
<1> DEFINE c == child[n][k]
<1>1. c \in Child
  BY ElementOfSeq, LenProperties DEF TypeOK
<1>2. PICK s \in Status, p \in Place :
        /\ Move(n, k, s, p)
        /\ c.place = "off" => c.status \notin SUCCESS
        /\ s \in SUCCESS => p = "off" \/ s = c.status
  <2>1. CASE StopChild(n, k)
    <3>1. /\ Move(n, k, "stopped", IF c.place = "queue" THEN "off" ELSE c.place)
          /\ c.status \notin SUCCESS
      BY <2>1, StatusFacts DEF StopChild
    <3>2. (IF c.place = "queue" THEN "off" ELSE c.place) \in Place
      BY <1>1 DEF Child, Place
    <3> QED  BY <3>1, <3>2, StatusFacts
  <2>2. CASE PopChild(n, k)
    <3>1. /\ Move(n, k, IF c.status = "stopped" THEN "queued" ELSE c.status, "agent")
          /\ c.place = "queue"
      BY <2>2 DEF PopChild
    <3>2. (IF c.status = "stopped" THEN "queued" ELSE c.status) \in Status
      BY <1>1, StatusFacts DEF Child
    <3> QED  BY <3>1, <3>2, StatusFacts DEF Place
  <2>3. CASE StartChild(n, k)
    <3>1. /\ \/ Move(n, k, "in_progress", "running")
             \/ Move(n, k, c.status, "off")
          /\ c.place = "agent"
      BY <2>3 DEF StartChild
    <3>2. c.status \in Status
      BY <1>1 DEF Child
    <3> QED  BY <3>1, <3>2, StatusFacts DEF Place
  <2>4. CASE EndChild(n, k)
    <3>1. PICK end \in {"completed", "failed", "stopped"} : Move(n, k, end, "off")
      BY <2>4 DEF EndChild
    <3>2. c.place = "running"
      BY <2>4 DEF EndChild
    <3> QED  BY <3>1, <3>2 DEF Place, Status
  <2> QED  BY <2>1, <2>2, <2>3, <2>4
<1>3. OneChild(n, k, [status |-> s, place |-> p])
  BY <1>2, MoveWrites
<1> QED  BY <1>2, <1>3 DEF Move

-----------------------------------------------------------------------------
(* Types.                                                                   *)

LEMMA TypeInit == Init => TypeInv
<1> SUFFICES ASSUME Init  PROVE TypeInv
  OBVIOUS
<1>1. child \in [Nodes -> Seq(Child)] /\ \A n \in Nodes : Len(child[n]) = 0
  BY DEF Init
<1>2. pipeline \in [Nodes -> Step] /\ \A n \in Nodes : pipeline[n].job = 0
  BY DEF Init, Step
<1>3. /\ state \in [Nodes -> Status \union {"pending"}]
      /\ attempts \in [Nodes -> Nat] /\ handle \in [Nodes -> Nat]
      /\ errors \in [Nodes -> Nat] /\ \A n \in Nodes : handle[n] = 0
  BY DEF Init, AllPending, AllZero
<1>4. /\ cancelled \in BOOLEAN /\ pc \in Label
      /\ todo \subseteq Nodes /\ cur \in Nodes \union {None}
  BY DEF Init, Label
<1>5. life \in 0..MaxLives
  <2>1. MaxLives \in Nat /\ life = 0
    BY GraphAssumption DEF Init
  <2> QED  BY <2>1
<1>6. TypeOK
  BY <1>1, <1>2, <1>3, <1>4, <1>5 DEF TypeOK
<1> QED  BY <1>6 DEF Init, TypeInv, PlacesInv

(* A write to a child disturbs no type.                                     *)
LEMMA OneChildTyped ==
  ASSUME TypeOK, NEW n \in Nodes, NEW k, NEW c, OneChild(n, k, c),
         UNCHANGED <<pipeline, cancelled, memory, life>>,
         pc' \in Label, todo' \subseteq Nodes, cur' \in Nodes \union {None}
  PROVE  TypeOK'
  BY DEF TypeOK, OneChild, memory

LEMMA SettleTyped ==
  ASSUME TypeInv, pc \in {"poll", "timedout"}, NEW n \in Active,
         NEW final \in TERMINAL, Settle(n, final),
         UNCHANGED <<child, cancelled, attempts, life>>,
         errors' \in [Nodes -> Nat], cur' \in Nodes \union {None}
  PROVE  TypeInv'
<1>1. /\ pipeline' = [pipeline EXCEPT ![n] = [job |-> handle[n], status |-> final]]
      /\ \/ /\ state' = [state EXCEPT ![n] = "pending"]
            /\ handle' = [handle EXCEPT ![n] = 0]
         \/ state' = [state EXCEPT ![n] = final] /\ handle' = handle
      /\ pc' = "poll" /\ todo' = todo \ {n}
  BY DEF Settle, Goto
<1>2. n \in Nodes /\ TypeOK /\ todo \subseteq Active
  BY DEF Active, TypeInv, PlacesInv
<1>3. [job |-> handle[n], status |-> final] \in Step
  BY <1>2, StatusFacts DEF TypeOK, Step
<1> DEFINE r == [job |-> handle[n], status |-> final]
<1>4. TypeOK'
  <2>1. pipeline' = [pipeline EXCEPT ![n] = r] /\ r \in Step /\ r.job = handle[n]
    BY <1>1, <1>3
  <2> HIDE DEF r
  <2>2. /\ pipeline' \in [Nodes -> Step]
        /\ \A m \in Nodes : pipeline'[m].job \in {pipeline[m].job, handle[m]}
    BY <1>2, <2>1 DEF TypeOK
  <2>3. /\ handle' \in [Nodes -> Nat]
        /\ state' \in [Nodes -> Status \union {"pending"}]
        /\ \A m \in Nodes : handle'[m] \in {0, handle[m]}
    <3>1. final \in Status
      BY StatusFacts
    <3>2. /\ handle \in [Nodes -> Nat]
          /\ state \in [Nodes -> Status \union {"pending"}]
      BY <1>2 DEF TypeOK
    <3> QED  BY <1>1, <3>1, <3>2
  <2>4. \A m \in Nodes : /\ pipeline[m].job \in 0..Len(child[m])
                         /\ handle[m] \in 0..Len(child[m])
    BY <1>2 DEF TypeOK
  <2>5. \A m \in Nodes : /\ pipeline'[m].job \in 0..Len(child[m])
                         /\ handle'[m] \in 0..Len(child[m])
    <3>1. \A m \in Nodes : 0 \in 0..Len(child[m])
      BY <1>2, LenProperties DEF TypeOK
    <3> QED  BY <2>2, <2>3, <2>4, <3>1
  <2> QED  BY <1>1, <1>2, <2>2, <2>3, <2>5 DEF TypeOK, Label
<1>5. todo' \subseteq Active'
  BY <1>1, <1>2 DEF TypeOK, Active
<1> QED  BY <1>1, <1>4, <1>5 DEF TypeInv, PlacesInv

LEMMA JudgeTyped ==
  ASSUME TypeInv, NEW n \in Nodes, At("poll", n), NEW seen \in Status,
         Judge(n, seen), UNCHANGED <<cancelled, attempts, life>>,
         errors' \in [Nodes -> Nat]
  PROVE  TypeInv'
<1>1. TypeOK /\ n \in Active /\ todo \subseteq Active /\ handle[n] # 0
  BY DEF TypeInv, PlacesInv, At, Active
<1>2. CASE /\ child' = Stopped(n)
           /\ pc' = "timedout" /\ cur' = n
           /\ UNCHANGED <<pipeline, state, handle, todo>>
  <2>1. PICK c : OneChild(n, handle[n], c)
    BY <1>1, <1>2, StopWrites
  <2>2. TypeOK'
    BY <1>1, <1>2, <2>1 DEF TypeOK, OneChild, Label
  <2> QED  BY <1>1, <1>2, <2>2 DEF TypeInv, PlacesInv, Active
<1>3. CASE seen \in TERMINAL /\ Settle(n, seen) /\ UNCHANGED <<child, cur>>
  BY <1>1, <1>3, SettleTyped DEF At, TypeOK
<1>4. CASE Visited(n) /\ UNCHANGED <<child, pipeline, state, handle, cur>>
  <2>1. TypeOK'
    BY <1>1, <1>4 DEF Visited, TypeOK
  <2> QED  BY <1>1, <1>4, <2>1 DEF Visited, At, TypeInv, PlacesInv, Active
<1> QED  BY <1>2, <1>3, <1>4 DEF Judge

LEMMA VisitTyped ==
  ASSUME TypeInv, NEW n \in Nodes, Visit(n)
  PROVE  TypeInv'
<1>0. TypeOK /\ PlacesInv
  BY DEF TypeInv
<1>1. CASE RestoreNode(n)
  <2>1. child[n] \in Seq(Child)
    BY <1>0 DEF TypeOK
  <2>2. pipeline[n].job # 0 => child[n][pipeline[n].job].status \in Status
    <3> SUFFICES ASSUME pipeline[n].job # 0
                 PROVE  child[n][pipeline[n].job] \in Child
      BY DEF Child
    <3>1. pipeline[n].job \in 1..Len(child[n])
      BY <1>0 DEF TypeOK, Step
    <3> QED  BY <2>1, <3>1, ElementOfSeq
  <2>3. PICK seen \in Status :
          \/ UNCHANGED <<state, handle>>
          \/ /\ handle' = [handle EXCEPT ![n] = pipeline[n].job]
             /\ state' = [state EXCEPT ![n] = seen]
    BY <1>1, <2>2, StatusFacts DEF RestoreNode
  <2>4. pipeline[n].job \in Nat
    BY <1>0 DEF TypeOK, Step
  <2>5. /\ handle' \in [Nodes -> Nat]
        /\ state' \in [Nodes -> Status \union {"pending"}]
        /\ \A m \in Nodes : handle'[m] \in {pipeline[m].job, handle[m]}
    BY <1>0, <2>3, <2>4 DEF TypeOK
  <2>6. UNCHANGED <<child, pipeline, cancelled, attempts, errors, life, cur, pc>>
        /\ todo' \subseteq Nodes
    BY <1>0, <1>1 DEF RestoreNode, Visited, remote, TypeOK
  <2>7. TypeOK'
    BY <1>0, <2>5, <2>6 DEF TypeOK
  <2> QED  BY <1>1, <2>7 DEF RestoreNode, At, Visited, TypeInv, PlacesInv
<1>2. CASE CancelChild(n)
  <2>1. handle[n] # 0
    BY <1>0, <1>2 DEF CancelChild, At, PlacesInv, Active
  <2>2. PICK c : OneChild(n, handle[n], c)
    BY <1>0, <1>2, <2>1, StopWrites DEF CancelChild
  <2>3. TypeOK'
    BY <1>0, <1>2, <2>2, OneChildTyped DEF CancelChild, Visited, TypeOK
  <2> QED  BY <1>0, <1>2, <2>3
           DEF CancelChild, At, Visited, memory, TypeInv, PlacesInv, Active
<1>3. CASE PollChild(n)
  <2>1. handle[n] \in 1..Len(child[n]) /\ child[n] \in Seq(Child)
    BY <1>0, <1>3 DEF PollChild, At, PlacesInv, Active, TypeOK
  <2>2. child[n][handle[n]].status \in Status
    <3>1. child[n][handle[n]] \in Child
      BY <2>1, ElementOfSeq
    <3> QED  BY <3>1 DEF Child
  <2>3. errors' \in [Nodes -> Nat]
    BY <1>0, <1>3 DEF PollChild, TypeOK
  <2> QED  BY <1>3, <2>2, <2>3, JudgeTyped DEF PollChild
<1>4. CASE PollError(n)
  <2>1. errors' \in [Nodes -> Nat]
    BY <1>0, <1>4 DEF PollError, TypeOK
  <2>2. CASE Judge(n, "failed")
    BY <1>4, <2>1, <2>2, StatusFacts, JudgeTyped DEF PollError
  <2>3. CASE Visited(n) /\ UNCHANGED <<child, pipeline, state, handle, cur>>
    <3>1. TypeOK'
      BY <1>0, <1>4, <2>1, <2>3 DEF PollError, Visited, TypeOK
    <3> QED  BY <1>0, <1>4, <2>3, <3>1
             DEF PollError, At, Visited, TypeInv, PlacesInv, Active
  <2> QED  BY <1>4, <2>2, <2>3 DEF PollError
<1>5. CASE Block(n)
  <2>1. [job |-> 0, status |-> "aborted"] \in Step
    BY DEF Step
  <2>2. TypeOK'
    BY <1>0, <1>5, <2>1, StatusFacts DEF Block, Visited, TypeOK
  <2>3. \A m \in todo' : state'[m] = "pending"
    BY <1>0, <1>5 DEF Block, At, Visited, PlacesInv, TypeOK
  <2> QED  BY <1>5, <2>2, <2>3 DEF Block, At, Visited, TypeInv, PlacesInv
<1>6. CASE Wait(n)
  <2>1. TypeOK'
    BY <1>0, <1>6 DEF Wait, Visited, remote, memory, TypeOK
  <2> QED  BY <1>0, <1>6, <2>1
           DEF Wait, At, Visited, memory, TypeInv, PlacesInv
<1>7. CASE CreateChild(n)
  <2> DEFINE c == [status |-> "created", place |-> "new"]
  <2>1. c \in Child /\ child' = [child EXCEPT ![n] = Append(@, c)]
    BY <1>7, StatusFacts DEF CreateChild, Child, Place
  <2> HIDE DEF c
  <2>2. /\ child' \in [Nodes -> Seq(Child)]
        /\ \A m \in Nodes : Len(child'[m]) \in {Len(child[m]), Len(child[m]) + 1}
        /\ Len(child'[n]) = Len(child[n]) + 1
    BY <1>0, <2>1, Grown DEF TypeOK
  <2>3. \A m \in Nodes : Len(child[m]) \in Nat
    BY <1>0, LenProperties DEF TypeOK
  <2>4. TypeOK'
    <3>1. attempts' \in [Nodes -> Nat]
      BY <1>0, <1>7 DEF CreateChild, TypeOK
    <3>2. \A m \in Nodes : /\ pipeline[m].job \in 0..Len(child'[m])
                           /\ handle[m] \in 0..Len(child'[m])
      BY <1>0, <2>2, <2>3 DEF TypeOK
    <3>3. /\ UNCHANGED <<pipeline, cancelled, state, handle, errors, life>>
          /\ pc' \in Label /\ todo' \subseteq Nodes /\ cur' \in Nodes
      BY <1>0, <1>7 DEF CreateChild, Goto, TypeOK, Label
    <3> QED  BY <1>0, <2>2, <3>1, <3>2, <3>3 DEF TypeOK
  <2>5. /\ pc' = "enqueue" /\ cur' = n /\ todo' = todo \ {n} /\ state' = state
        /\ \A m \in todo : state[m] = "pending"
        /\ n \in todo
    BY <1>0, <1>7 DEF CreateChild, Goto, At, PlacesInv
  <2> QED  BY <2>2, <2>3, <2>4, <2>5 DEF TypeInv, PlacesInv
<1> QED  BY <1>1, <1>2, <1>3, <1>4, <1>5, <1>6, <1>7 DEF Visit

LEMMA TypeStep ==
  ASSUME TypeInv, Next
  PROVE  TypeInv'
<1>0. TypeOK /\ PlacesInv
  BY DEF TypeInv
<1>1. CASE StartController
  <2>1. /\ state' = AllPending /\ attempts' = AllZero /\ handle' = AllZero
        /\ errors' = AllZero /\ pc' = "restore" /\ todo' = Nodes /\ cur' = None
        /\ UNCHANGED <<child, pipeline>> /\ cancelled' = FALSE
        /\ life < MaxLives /\ life' = life + 1
    BY <1>1 DEF StartController, Forget, Goto
  <2>2. \A n \in Nodes : Len(child[n]) \in Nat
    BY <1>0, LenProperties DEF TypeOK
  <2>3. /\ state' \in [Nodes -> Status \union {"pending"}]
        /\ attempts' \in [Nodes -> Nat] /\ handle' \in [Nodes -> Nat]
        /\ errors' \in [Nodes -> Nat] /\ \A n \in Nodes : handle'[n] = 0
    BY <2>1 DEF AllPending, AllZero
  <2>4. life' \in 0..MaxLives
    BY <1>0, <2>1, GraphAssumption DEF TypeOK
  <2>5. /\ cancelled' \in BOOLEAN
        /\ pc' \in Label /\ todo' \subseteq Nodes /\ cur' \in Nodes \union {None}
    BY <2>1 DEF Label
  <2>6. \A n \in Nodes : /\ pipeline'[n].job \in 0..Len(child'[n])
                         /\ handle'[n] \in 0..Len(child'[n])
    BY <1>0, <2>1, <2>2, <2>3 DEF TypeOK
  <2>7. child' \in [Nodes -> Seq(Child)] /\ pipeline' \in [Nodes -> Step]
    BY <1>0, <2>1 DEF TypeOK
  <2>8. TypeOK'
    BY <2>3, <2>4, <2>5, <2>6, <2>7 DEF TypeOK
  <2> QED  BY <2>1, <2>8 DEF TypeInv, PlacesInv
<1>2. CASE \E n \in Nodes : Visit(n)
  BY <1>2, VisitTyped
<1>3. CASE RestoreDone \/ CheckCancelled \/ CancelDone \/ PollDone \/ PassDone
  <2>1. /\ UNCHANGED <<remote, memory, cur, life>>
        /\ \/ pc' \in {"poll", "cancelling"} /\ todo' = Active
           \/ pc' = "launch" /\ todo' = { n \in Nodes : state[n] = "pending" }
           \/ pc' \in {"check", "cancelled", "done", "failed"} /\ todo' = {}
    BY <1>3 DEF RestoreDone, CheckCancelled, CancelDone, PollDone, PassDone, Goto
  <2>2. Active' = Active
    BY <2>1 DEF memory, Active
  <2>3. TypeOK'
    BY <1>0, <2>1 DEF remote, memory, TypeOK, Label, Outcome, Active
  <2> QED  BY <2>1, <2>2, <2>3 DEF TypeInv, PlacesInv, memory
<1>4. CASE SettleTimedOut
  <2>1. cur \in Active
    BY <1>0, <1>4 DEF SettleTimedOut, PlacesInv
  <2>2. errors' \in [Nodes -> Nat]
    BY <1>0, <1>4 DEF SettleTimedOut, TypeOK
  <2> QED  BY <1>4, <2>1, <2>2, SettleTyped, StatusFacts DEF SettleTimedOut
<1>5. CASE EnqueueChild
  <2>1. PICK k, c : OneChild(cur, k, c)
    BY <1>5, EnqueueWrites
  <2>2. cur \in Nodes /\ cur \notin todo /\ state[cur] = "pending"
        /\ Len(child[cur]) > 0
    BY <1>0, <1>5 DEF EnqueueChild, PlacesInv
  <2>3. TypeOK'
    BY <1>0, <1>5, <2>1, <2>2, OneChildTyped DEF EnqueueChild, Goto, TypeOK, Label
  <2> QED  BY <1>0, <1>5, <2>1, <2>2, <2>3
           DEF EnqueueChild, Goto, memory, OneChild, TypeInv, PlacesInv
<1>6. CASE RecordChild
  <2> DEFINE k == Len(child[cur])
             r == [job |-> k, status |-> "queued"]
  <2>1. cur \in Nodes /\ cur \notin todo /\ \A n \in todo : state[n] = "pending"
    BY <1>0, <1>6 DEF RecordChild, PlacesInv
  <2>2. /\ handle' = [handle EXCEPT ![cur] = k]
        /\ state' = [state EXCEPT ![cur] = "queued"]
        /\ pipeline' = [pipeline EXCEPT ![cur] = r]
        /\ pc' = "launch" /\ todo' = todo /\ cur' = None
        /\ UNCHANGED <<child, cancelled, attempts, errors, life>>
    BY <1>6 DEF RecordChild, Goto
  <2>3. \A n \in Nodes : Len(child[n]) \in Nat
    BY <1>0, LenProperties DEF TypeOK
  <2>4. r \in Step /\ r.job = k
    BY <2>1, <2>3, StatusFacts DEF Step
  <2> HIDE DEF r
  <2>5. /\ pipeline' \in [Nodes -> Step] /\ handle' \in [Nodes -> Nat]
        /\ state' \in [Nodes -> Status \union {"pending"}]
        /\ \A n \in Nodes :
             /\ pipeline'[n].job \in {pipeline[n].job, Len(child[n])}
             /\ handle'[n] \in {handle[n], Len(child[n])}
    BY <1>0, <2>1, <2>2, <2>3, <2>4, StatusFacts DEF TypeOK
  <2>6. \A n \in Nodes : /\ pipeline'[n].job \in 0..Len(child[n])
                         /\ handle'[n] \in 0..Len(child[n])
    <3>1. \A n \in Nodes : Len(child[n]) \in 0..Len(child[n])
      BY <2>3
    <3>2. \A n \in Nodes : /\ pipeline[n].job \in 0..Len(child[n])
                           /\ handle[n] \in 0..Len(child[n])
      BY <1>0 DEF TypeOK
    <3> HIDE DEF k
    <3> QED  BY <2>5, <3>1, <3>2
  <2>7. TypeOK'
    BY <1>0, <2>2, <2>5, <2>6 DEF TypeOK, Label
  <2>8. \A n \in todo' : state'[n] = "pending"
    BY <1>0, <2>1, <2>2 DEF TypeOK
  <2> QED  BY <2>2, <2>7, <2>8 DEF TypeInv, PlacesInv
<1>7. CASE Raise
  <2>1. TypeOK'
    BY <1>0, <1>7 DEF Raise, Goto, remote, memory, TypeOK, Label, Outcome
  <2> QED  BY <1>7, <2>1 DEF Raise, Goto, TypeInv, PlacesInv
<1>8. CASE Crash
  <2>1. /\ state' = AllPending /\ attempts' = AllZero /\ handle' = AllZero
        /\ errors' = AllZero /\ pc' = "down" /\ todo' = {} /\ cur' = None
        /\ UNCHANGED <<child, pipeline, cancelled, life>>
    BY <1>8 DEF Crash, Forget, Goto, remote
  <2>2. \A n \in Nodes : Len(child[n]) \in Nat
    BY <1>0, LenProperties DEF TypeOK
  <2>3. /\ state' \in [Nodes -> Status \union {"pending"}]
        /\ attempts' \in [Nodes -> Nat] /\ handle' \in [Nodes -> Nat]
        /\ errors' \in [Nodes -> Nat] /\ \A n \in Nodes : handle'[n] = 0
    BY <2>1 DEF AllPending, AllZero
  <2>4. TypeOK'
    BY <1>0, <2>1, <2>2, <2>3 DEF TypeOK, Label
  <2> QED  BY <2>1, <2>4 DEF TypeInv, PlacesInv
<1>9. CASE StopController
  <2>1. TypeOK'
    BY <1>0, <1>9 DEF StopController, memory, control, TypeOK
  <2> QED  BY <1>0, <1>9, <2>1
           DEF StopController, memory, control, TypeInv, PlacesInv, Active
<1>10. ASSUME NEW n \in Nodes, NEW k \in DOMAIN child[n],
              StopChild(n, k) \/ PopChild(n, k) \/ StartChild(n, k) \/ EndChild(n, k)
       PROVE  TypeInv'
  <2>1. PICK s, p : /\ OneChild(n, k, [status |-> s, place |-> p])
                    /\ UNCHANGED <<pipeline, cancelled, memory, control>>
    BY <1>0, <1>10, OutsideWrites
  <2>2. TypeOK'
    BY <1>0, <2>1, OneChildTyped DEF control, TypeOK
  <2>3. Active' = Active
    BY <2>1 DEF memory, Active
  <2> QED  BY <1>0, <2>1, <2>2, <2>3
           DEF memory, control, OneChild, TypeInv, PlacesInv
<1> QED  BY <1>1, <1>2, <1>3, <1>4, <1>5, <1>6, <1>7, <1>8, <1>9, <1>10
         DEF Next, Controller, AgentStep

LEMMA TypeInductive == Spec => []TypeInv
<1>1. TypeInv /\ UNCHANGED vars => TypeInv'
  BY DEF TypeInv, TypeOK, PlacesInv, Active, vars, remote, memory, control
<1> QED  BY <1>1, TypeInit, TypeStep, PTL DEF Spec

(* Every variable keeps to its type, and every index of a child that the    *)
(* record or the controller holds names a child.                            *)
THEOREM RunnerTypes == Spec => []TypeOK
<1>1. TypeInv => TypeOK
  BY DEF TypeInv
<1> QED  BY <1>1, TypeInductive, PTL

-----------------------------------------------------------------------------
(* A child that succeeded is with no agent and in no queue, hence stays so. *)
SuccessIsOff ==
  \A n \in Nodes : \A k \in 1..Len(child[n]) :
    child[n][k].status \in SUCCESS => child[n][k].place = "off"

(* The controller holds a node for a success only when the child on record  *)
(* is one.                                                                  *)
SuccessIsReal ==
  \A n \in Nodes : state[n] \in SUCCESS =>
    /\ pipeline[n].job # 0
    /\ child[n][pipeline[n].job].status \in SUCCESS

(* What l lives of the controller may create for n. *)
Quota(n, l) == (Retries[n] + 1) * l

(* Each child was created in an earlier life or counted in this one, and a  *)
(* node that waits to be launched has a retry left.                         *)
CountInv ==
  /\ pc # "down" => life > 0
  /\ \A n \in Nodes :
       /\ attempts[n] <= Retries[n] + 1
       /\ pc = "down" => Len(child[n]) <= Quota(n, life)
       /\ pc # "down" => Len(child[n]) <= Quota(n, life - 1) + attempts[n]
       /\ Running /\ state[n] = "pending" =>
            attempts[n] <= Retries[n] \/ (pc \in {"enqueue", "record"} /\ n = cur)

(* The parents of a node that was launched in this life have ended. *)
OrderInv ==
  /\ pc = "restore" => attempts = AllZero
  /\ \A n \in Nodes : \A p \in Parents[n] :
       attempts[n] > 0 => state[p] \in TERMINAL

Inv == TypeInv /\ SuccessIsOff /\ SuccessIsReal /\ CountInv /\ OrderInv

-----------------------------------------------------------------------------
(* The kinds of steps: what they do to the children, the record and the     *)
(* controller's view of the nodes.                                          *)

(* The control goes on within a life, or the controller ends.               *)
Flow ==
  /\ pc = "down" <=> pc' = "down"
  /\ pc' = "restore" => pc = "restore"
  /\ Running' => Running
  /\ Running' /\ pc \in {"enqueue", "record"} =>
       pc' \in {"enqueue", "record"} /\ cur' = cur
  /\ pc' \in {"enqueue", "record"} => pc \in {"enqueue", "record"}
  /\ pc' \in Outcome =>
       \/ pc' = pc
       \/ Running /\ pc' \in {"cancelled", "raised"}
       \/ Running /\ pc' = "done" /\ \A n \in Nodes : state[n] \in SUCCESS
       \/ /\ Running /\ pc' = "failed"
          /\ \A n \in Nodes : state[n] \in TERMINAL
          /\ \E n \in Nodes : state[n] \notin SUCCESS

(* Nothing but control changes.                                             *)
ControlStep == Flow /\ UNCHANGED <<child, pipeline, state, attempts, handle, life>>

(* A child gets a new status or place.                                      *)
WriteStep(n, k, c) ==
  /\ Flow /\ UNCHANGED <<pipeline, state, attempts, handle, life>>
  /\ n \in Nodes /\ k \in 1..Len(child[n]) /\ OneChild(n, k, c)
  /\ c.status \in SUCCESS =>
       \/ c.place = "off"
       \/ c.status = child[n][k].status /\ child[n][k].place # "off"
  /\ child[n][k].place = "off" /\ child[n][k].status \in SUCCESS =>
       state[n] \notin SUCCESS

(* The child of an active node is settled; as a success only if it is one. *)
SettleStep(n, final) ==
  /\ Flow /\ UNCHANGED <<child, attempts, life>>
  /\ n \in Active /\ final \in TERMINAL /\ Settle(n, final)
  /\ final \in SUCCESS => child[n][handle[n]].status \in SUCCESS

LEMMA StopIsWrite ==
  ASSUME TypeInv, NEW n \in Active, child' = Stopped(n),
         Flow, UNCHANGED <<pipeline, state, attempts, handle, life>>
  PROVE  \E k, c : WriteStep(n, k, c)
<1> DEFINE k == handle[n]
           c == [status |-> "stopped", place |-> child[n][k].place]
<1>1. n \in Nodes /\ handle[n] # 0 /\ state[n] \notin SUCCESS /\ TypeOK
  BY StatusFacts DEF TypeInv, Active
<1>2. k \in 1..Len(child[n]) /\ OneChild(n, k, c)
  BY <1>1, StopWrites
<1>3. c.status \notin SUCCESS
  BY StatusFacts
<1> HIDE DEF c, k
<1>4. WriteStep(n, k, c)
  BY <1>1, <1>2, <1>3 DEF WriteStep
<1> QED  BY <1>4

LEMMA JudgeKinds ==
  ASSUME TypeInv, NEW n \in Nodes, At("poll", n), NEW seen \in Status,
         seen \in SUCCESS => child[n][handle[n]].status \in SUCCESS,
         Judge(n, seen), UNCHANGED <<attempts, life>>
  PROVE  \/ ControlStep
         \/ \E m, k, c : WriteStep(m, k, c)
         \/ \E m, final : SettleStep(m, final)
<1>1. pc = "poll" /\ n \in Active
  BY DEF At, TypeInv, PlacesInv
<1>2. CASE /\ child' = Stopped(n)
           /\ pc' = "timedout" /\ cur' = n
           /\ UNCHANGED <<pipeline, state, handle, todo>>
  <2>1. Flow
    BY <1>1, <1>2 DEF Flow, Running, Outcome
  <2> QED  BY <1>1, <1>2, <2>1, StopIsWrite
<1>3. CASE seen \in TERMINAL /\ Settle(n, seen) /\ UNCHANGED <<child, cur>>
  <2>1. Flow
    BY <1>1, <1>3 DEF Settle, Goto, Flow, Running, Outcome
  <2>2. SettleStep(n, seen)
    BY <1>1, <1>3, <2>1 DEF SettleStep
  <2> QED  BY <2>2
<1>4. CASE Visited(n) /\ UNCHANGED <<child, pipeline, state, handle, cur>>
  BY <1>1, <1>4 DEF Visited, ControlStep, Flow, Running, Outcome
<1> QED  BY <1>2, <1>3, <1>4 DEF Judge

(* Every step is of one of these kinds, or an action that is kept whole.    *)
LEMMA Kinds ==
  ASSUME TypeInv, Next
  PROVE  \/ StartController \/ Crash \/ RecordChild \/ ControlStep
         \/ \E n \in Nodes : RestoreNode(n) \/ Block(n) \/ CreateChild(n)
         \/ \E n, k, c : WriteStep(n, k, c)
         \/ \E n, final : SettleStep(n, final)
<1>0. TypeOK /\ PlacesInv
  BY DEF TypeInv
<1>1. ASSUME NEW n \in Nodes, CancelChild(n)
      PROVE  \E m, k, c : WriteStep(m, k, c)
  <2>1. n \in Active
    BY <1>0, <1>1 DEF CancelChild, At, PlacesInv
  <2>2. Flow
    BY <1>1 DEF CancelChild, At, Visited, Flow, Running, Outcome
  <2> QED  BY <1>1, <2>1, <2>2, StopIsWrite DEF CancelChild, memory
<1>2. ASSUME NEW n \in Nodes, PollChild(n)
      PROVE  \/ ControlStep
             \/ \E m, k, c : WriteStep(m, k, c)
             \/ \E m, final : SettleStep(m, final)
  <2>1. handle[n] \in 1..Len(child[n]) /\ child[n] \in Seq(Child)
    BY <1>0, <1>2 DEF PollChild, At, PlacesInv, Active, TypeOK
  <2>2. child[n][handle[n]] \in Child
    BY <2>1, ElementOfSeq
  <2>3. child[n][handle[n]].status \in Status
    BY <2>2 DEF Child
  <2> QED  BY <1>2, <2>3, JudgeKinds DEF PollChild
<1>3. ASSUME NEW n \in Nodes, PollError(n)
      PROVE  \/ ControlStep
             \/ \E m, k, c : WriteStep(m, k, c)
             \/ \E m, final : SettleStep(m, final)
  <2>1. CASE Judge(n, "failed")
    BY <1>3, <2>1, JudgeKinds, StatusFacts DEF PollError
  <2>2. CASE Visited(n) /\ UNCHANGED <<child, pipeline, state, handle, cur>>
    BY <1>3, <2>2 DEF PollError, At, Visited, ControlStep, Flow, Running, Outcome
  <2> QED  BY <1>3, <2>1, <2>2 DEF PollError
<1>4. ASSUME NEW n \in Nodes, Wait(n)
      PROVE  ControlStep
  BY <1>4 DEF Wait, At, Visited, remote, memory, ControlStep, Flow, Running,
              Outcome
<1>5. CASE RestoreDone \/ CheckCancelled \/ CancelDone \/ PollDone \/ PassDone
  BY <1>5 DEF RestoreDone, CheckCancelled, CancelDone, PollDone, PassDone, Goto,
              remote, memory, ControlStep, Flow, Running, Outcome
<1>6. CASE SettleTimedOut
  <2>1. cur \in Active
    BY <1>0, <1>6 DEF SettleTimedOut, PlacesInv
  <2>2. Flow
    BY <1>6 DEF SettleTimedOut, Settle, Goto, Flow, Running, Outcome
  <2>3. SettleStep(cur, "failed")
    BY <1>6, <2>1, <2>2, StatusFacts DEF SettleTimedOut, SettleStep
  <2> QED  BY <2>3
<1>7. CASE EnqueueChild
  <2> DEFINE c == [status |-> "queued", place |-> "queue"]
             k == Len(child[cur])
  <2>1. cur \in Nodes /\ k \in 1..Len(child[cur]) /\ OneChild(cur, k, c)
    BY <1>7, EnqueueWrites
  <2>2. Flow
    BY <1>7 DEF EnqueueChild, Goto, Flow, Running, Outcome
  <2>3. c.status \notin SUCCESS /\ state[cur] \notin SUCCESS
    BY <1>0, <1>7, StatusFacts DEF EnqueueChild, PlacesInv
  <2> HIDE DEF c, k
  <2>4. WriteStep(cur, k, c)
    BY <1>7, <2>1, <2>2, <2>3 DEF EnqueueChild, memory, WriteStep
  <2> QED  BY <2>4
<1>8. CASE Raise
  BY <1>8 DEF Raise, Goto, remote, memory, ControlStep, Flow, Running, Outcome
<1>9. CASE StopController
  BY <1>9 DEF StopController, memory, control, ControlStep, Flow, Running
<1>10. ASSUME NEW n \in Nodes, NEW k \in DOMAIN child[n],
              StopChild(n, k) \/ PopChild(n, k) \/ StartChild(n, k) \/ EndChild(n, k)
       PROVE  \E m, j, c : WriteStep(m, j, c)
  <2>1. PICK s \in Status, p \in Place :
          /\ OneChild(n, k, [status |-> s, place |-> p])
          /\ child[n][k].place = "off" => child[n][k].status \notin SUCCESS
          /\ s \in SUCCESS => p = "off" \/ s = child[n][k].status
          /\ UNCHANGED <<pipeline, cancelled, memory, control>>
    BY <1>0, <1>10, OutsideWrites
  <2>2. k \in 1..Len(child[n])
    BY <1>0, LenProperties DEF TypeOK
  <2> DEFINE c == [status |-> s, place |-> p]
  <2>3. c.status = s /\ c.place = p /\ OneChild(n, k, c)
    BY <2>1
  <2>4. Flow
    BY <2>1 DEF control, Flow, Running
  <2> HIDE DEF c
  <2>5. WriteStep(n, k, c)
    BY <2>1, <2>2, <2>3, <2>4 DEF memory, control, WriteStep
  <2> QED  BY <2>5
<1> QED  BY <1>1, <1>2, <1>3, <1>4, <1>5, <1>6, <1>7, <1>8, <1>9, <1>10
         DEF Next, Controller, Visit, AgentStep

-----------------------------------------------------------------------------
(* What the controller takes for a success is one.                          *)
LEMMA SuccessStep ==
  ASSUME TypeInv, SuccessIsOff, SuccessIsReal, Next
  PROVE  SuccessIsOff' /\ SuccessIsReal'
<1>0. /\ TypeOK /\ PlacesInv
      /\ \A n \in Nodes : pipeline[n].job # 0 => pipeline[n].job \in 1..Len(child[n])
  BY DEF TypeInv, TypeOK, Step
<1>1. CASE StartController \/ Crash
  <2>1. UNCHANGED <<child, pipeline>> /\ state' = AllPending
    BY <1>1 DEF StartController, Crash, Forget, remote
  <2>2. \A n \in Nodes : state'[n] \notin SUCCESS
    BY <2>1, StatusFacts DEF AllPending
  <2> QED  BY <2>1, <2>2 DEF SuccessIsOff, SuccessIsReal
<1>2. CASE ControlStep
  BY <1>2 DEF ControlStep, SuccessIsOff, SuccessIsReal
<1>3. ASSUME NEW n \in Nodes, RestoreNode(n)
      PROVE  SuccessIsOff' /\ SuccessIsReal'
  <2>1. /\ UNCHANGED <<child, pipeline>>
        /\ \/ state' = state
           \/ /\ pipeline[n].job # 0
              /\ \E seen \in {child[n][pipeline[n].job].status, "failed"} :
                   state' = [state EXCEPT ![n] = seen]
    BY <1>3 DEF RestoreNode, remote
  <2>2. \A m \in Nodes : state'[m] \in SUCCESS =>
          \/ state'[m] = state[m]
          \/ pipeline[m].job # 0 /\ child[m][pipeline[m].job].status \in SUCCESS
    BY <1>0, <2>1, StatusFacts DEF TypeOK
  <2> QED  BY <2>1, <2>2 DEF SuccessIsOff, SuccessIsReal
<1>4. ASSUME NEW n \in Nodes, Block(n)
      PROVE  SuccessIsOff' /\ SuccessIsReal'
  <2>1. /\ child' = child
        /\ state' = [state EXCEPT ![n] = "stopped"]
        /\ pipeline' = [pipeline EXCEPT ![n] = [job |-> 0, status |-> "aborted"]]
    BY <1>4 DEF Block
  <2>2. \A m \in Nodes : state'[m] \in SUCCESS =>
          m # n /\ state'[m] = state[m] /\ pipeline'[m] = pipeline[m]
    BY <1>0, <2>1, StatusFacts DEF TypeOK
  <2> QED  BY <2>1, <2>2 DEF SuccessIsOff, SuccessIsReal
<1>5. ASSUME NEW n \in Nodes, CreateChild(n)
      PROVE  SuccessIsOff' /\ SuccessIsReal'
  <2> DEFINE c == [status |-> "created", place |-> "new"]
  <2>1. /\ c \in Child /\ child' = [child EXCEPT ![n] = Append(@, c)]
        /\ UNCHANGED <<state, pipeline>> /\ c.status \notin SUCCESS
    BY <1>5, StatusFacts DEF CreateChild, Child, Place
  <2> HIDE DEF c
  <2>2. /\ Len(child'[n]) = Len(child[n]) + 1
        /\ child'[n][Len(child[n]) + 1] = c
        /\ \A m \in Nodes \ {n} : child'[m] = child[m]
        /\ \A m \in Nodes : \A j \in 1..Len(child[m]) : child'[m][j] = child[m][j]
    BY <1>0, <2>1, Grown DEF TypeOK
  <2>3. \A m \in Nodes : Len(child[m]) \in Nat
    BY <1>0, LenProperties DEF TypeOK
  <2>4. \A m \in Nodes : \A j \in 1..Len(child'[m]) :
          j \in 1..Len(child[m]) \/ child'[m][j] = c
    BY <2>2, <2>3
  <2>5. SuccessIsOff'
    BY <2>1, <2>2, <2>4 DEF SuccessIsOff
  <2> QED  BY <1>0, <2>1, <2>2, <2>5 DEF SuccessIsReal
<1>6. CASE RecordChild
  <2>1. cur \in Nodes
    BY <1>0, <1>6 DEF RecordChild, PlacesInv
  <2>2. /\ child' = child
        /\ state' = [state EXCEPT ![cur] = "queued"]
        /\ pipeline' = [pipeline EXCEPT ![cur] =
                          [job |-> Len(child[cur]), status |-> "queued"]]
    BY <1>6 DEF RecordChild
  <2>3. \A m \in Nodes : state'[m] \in SUCCESS =>
          state'[m] = state[m] /\ pipeline'[m] = pipeline[m]
    BY <1>0, <2>1, <2>2, StatusFacts DEF TypeOK
  <2> QED  BY <2>2, <2>3 DEF SuccessIsOff, SuccessIsReal
<1>7. ASSUME NEW n, NEW k, NEW c, WriteStep(n, k, c)
      PROVE  SuccessIsOff' /\ SuccessIsReal'
  <2>1. /\ n \in Nodes /\ k \in 1..Len(child[n]) /\ OneChild(n, k, c)
        /\ UNCHANGED <<pipeline, state>>
    BY <1>7 DEF WriteStep
  <2>2. SuccessIsOff'
    <3>1. c.status \in SUCCESS => c.place = "off"
      BY <1>7, <2>1 DEF WriteStep, SuccessIsOff
    <3> QED  BY <2>1, <3>1 DEF OneChild, SuccessIsOff
  <2>3. ASSUME NEW m \in Nodes, state[m] \in SUCCESS
        PROVE  /\ pipeline[m].job # 0
               /\ child'[m][pipeline[m].job].status \in SUCCESS
    <3>1. /\ pipeline[m].job \in 1..Len(child[m])
          /\ child[m][pipeline[m].job].status \in SUCCESS
          /\ child[m][pipeline[m].job].place = "off"
      BY <1>0, <2>3 DEF SuccessIsReal, SuccessIsOff
    <3>2. ~(m = n /\ pipeline[m].job = k)
      BY <1>7, <2>3, <3>1 DEF WriteStep
    <3> QED  BY <2>1, <3>1, <3>2 DEF OneChild
  <2> QED  BY <2>1, <2>2, <2>3 DEF SuccessIsReal
<1>8. ASSUME NEW n, NEW final, SettleStep(n, final)
      PROVE  SuccessIsOff' /\ SuccessIsReal'
  <2>1. /\ n \in Nodes /\ handle[n] # 0 /\ child' = child
        /\ final \in SUCCESS => child[n][handle[n]].status \in SUCCESS
        /\ pipeline' = [pipeline EXCEPT ![n] = [job |-> handle[n], status |-> final]]
        /\ \/ state' = [state EXCEPT ![n] = "pending"]
           \/ state' = [state EXCEPT ![n] = final]
    BY <1>8 DEF SettleStep, Settle, Active
  <2>2. pipeline'[n].job = handle[n] /\ \A m \in Nodes \ {n} : pipeline'[m] = pipeline[m]
    BY <1>0, <2>1 DEF TypeOK
  <2>3. /\ state'[n] \in {"pending", final}
        /\ \A m \in Nodes \ {n} : state'[m] = state[m]
    BY <1>0, <2>1 DEF TypeOK
  <2> QED  BY <2>1, <2>2, <2>3, StatusFacts DEF SuccessIsOff, SuccessIsReal
<1> QED  BY <1>1, <1>2, <1>3, <1>4, <1>5, <1>6, <1>7, <1>8, Kinds

-----------------------------------------------------------------------------
(* A node is launched once its parents have ended, and they stay ended.     *)
LEMMA OrderStep ==
  ASSUME TypeInv, OrderInv, Next
  PROVE  OrderInv'
<1>0. /\ TypeOK /\ PlacesInv /\ Parents \in [Nodes -> SUBSET Nodes]
      /\ AllZero \in [Nodes -> Nat] /\ \A n \in Nodes : AllZero[n] = 0
  BY GraphAssumption DEF TypeInv, AllZero
<1>1. CASE StartController \/ Crash
  BY <1>0, <1>1 DEF StartController, Crash, Forget, OrderInv
<1>2. CASE ControlStep
  BY <1>2 DEF ControlStep, Flow, OrderInv
<1>3. ASSUME NEW n \in Nodes, RestoreNode(n)
      PROVE  OrderInv'
  <2>1. attempts = AllZero /\ attempts' = attempts
    BY <1>3 DEF RestoreNode, At, OrderInv
  <2> QED  BY <1>0, <2>1 DEF OrderInv
<1>4. ASSUME NEW n \in Nodes, Block(n)
      PROVE  OrderInv'
  <2>1. /\ pc' = "launch" /\ attempts' = attempts
        /\ state' = [state EXCEPT ![n] = "stopped"]
    BY <1>4 DEF Block, At, Visited
  <2>2. \A p \in Nodes : state[p] \in TERMINAL => state'[p] \in TERMINAL
    BY <1>0, <2>1, StatusFacts DEF TypeOK
  <2> QED  BY <1>0, <2>1, <2>2 DEF OrderInv
<1>5. ASSUME NEW n \in Nodes, CreateChild(n)
      PROVE  OrderInv'
  <2>1. /\ pc' = "enqueue" /\ state' = state
        /\ attempts' = [attempts EXCEPT ![n] = @ + 1]
        /\ \A p \in Parents[n] : state[p] \in TERMINAL
    BY <1>5, StatusFacts DEF CreateChild, Goto, Ready
  <2>2. \A m \in Nodes \ {n} : attempts'[m] = attempts[m]
    BY <1>0, <2>1 DEF TypeOK
  <2> QED  BY <2>1, <2>2 DEF OrderInv
<1>6. CASE RecordChild
  <2>1. /\ cur \in Nodes /\ state[cur] = "pending"
        /\ pc' = "launch" /\ attempts' = attempts
        /\ state' = [state EXCEPT ![cur] = "queued"]
    BY <1>0, <1>6 DEF RecordChild, Goto, PlacesInv
  <2>2. \A p \in Nodes : state[p] \in TERMINAL => state'[p] = state[p]
    BY <1>0, <2>1, StatusFacts DEF TypeOK
  <2> QED  BY <1>0, <2>1, <2>2 DEF OrderInv
<1>7. ASSUME NEW n, NEW k, NEW c, WriteStep(n, k, c)
      PROVE  OrderInv'
  BY <1>7 DEF WriteStep, Flow, OrderInv
<1>8. ASSUME NEW n, NEW final, SettleStep(n, final)
      PROVE  OrderInv'
  <2>1. /\ n \in Nodes /\ state[n] \notin TERMINAL
        /\ pc' = "poll" /\ attempts' = attempts
        /\ \/ state' = [state EXCEPT ![n] = "pending"]
           \/ state' = [state EXCEPT ![n] = final]
    BY <1>8 DEF SettleStep, Settle, Goto, Active
  <2>2. \A p \in Nodes : state[p] \in TERMINAL => state'[p] = state[p]
    BY <1>0, <2>1 DEF TypeOK
  <2> QED  BY <1>0, <2>1, <2>2 DEF OrderInv
<1> QED  BY <1>1, <1>2, <1>3, <1>4, <1>5, <1>6, <1>7, <1>8, Kinds

-----------------------------------------------------------------------------
(* No node is launched more often than its retries allow.                   *)
LEMMA QuotaGrows ==
  ASSUME NEW n \in Nodes, NEW l \in Int
  PROVE  /\ Quota(n, l) \in Int
         /\ Quota(n, l + 1) = Quota(n, l) + Retries[n] + 1
<1> DEFINE r == Retries[n] + 1
<1>1. r \in Int
  BY GraphAssumption
<1>2. r * l \in Int /\ r * (l + 1) = r * l + r
  <2> HIDE DEF r
  <2> QED  BY <1>1
<1>3. Quota(n, l) = r * l /\ Quota(n, l + 1) = r * (l + 1)
  BY DEF Quota
<1>4. Retries[n] \in Int
  BY GraphAssumption
<1> DEFINE x == r * l
           y == r * (l + 1)
<1>5. x \in Int /\ y = x + Retries[n] + 1
  <2>1. x \in Int /\ y = x + r
    BY <1>2
  <2> HIDE DEF x, y
  <2> QED  BY <1>4, <2>1
<1> QED  BY <1>3, <1>5

LEMMA CountStep ==
  ASSUME TypeInv, CountInv, OrderInv, Next
  PROVE  CountInv'
<1>0. /\ TypeOK /\ PlacesInv /\ life \in Nat
      /\ \A n \in Nodes : /\ Len(child[n]) \in Nat /\ Retries[n] \in Nat
                          /\ attempts[n] \in Nat
  BY GraphAssumption, LenProperties DEF TypeInv, TypeOK
<1>1. \A n \in Nodes : Len(child[n]) <= Quota(n, life)
  <2> SUFFICES ASSUME NEW n \in Nodes  PROVE Len(child[n]) <= Quota(n, life)
    OBVIOUS
  <2>1. CASE pc = "down"
    BY <2>1 DEF CountInv
  <2>2. CASE pc # "down"
    <3>1. /\ Len(child[n]) <= Quota(n, life - 1) + attempts[n]
          /\ attempts[n] <= Retries[n] + 1
      BY <2>2 DEF CountInv
    <3>2. /\ Quota(n, life - 1) \in Int
          /\ Quota(n, life) = Quota(n, life - 1) + Retries[n] + 1
      <4>1. life - 1 \in Int /\ (life - 1) + 1 = life
        BY <1>0
      <4> QED  BY <4>1, QuotaGrows
    <3> QED  BY <1>0, <3>1, <3>2
  <2> QED  BY <2>1, <2>2
<1>2. CASE StartController
  <2>1. /\ child' = child /\ life' = life + 1 /\ pc' = "restore"
        /\ \A n \in Nodes : attempts'[n] = 0
    BY <1>2 DEF StartController, Forget, AllZero, Goto
  <2>2. life' > 0 /\ life' - 1 = life
    BY <1>0, <2>1
  <2>3. \A n \in Nodes : Quota(n, life) \in Int
    BY <1>0, QuotaGrows
  <2>4. \A n \in Nodes :
          /\ attempts'[n] <= Retries[n] /\ attempts'[n] <= Retries[n] + 1
          /\ Len(child'[n]) <= Quota(n, life' - 1) + attempts'[n]
    BY <1>0, <1>1, <2>1, <2>2, <2>3
  <2> QED  BY <2>1, <2>2, <2>4 DEF CountInv
<1>3. CASE Crash
  <2>1. /\ child' = child /\ life' = life /\ pc' = "down"
        /\ \A n \in Nodes : attempts'[n] = 0
    BY <1>3 DEF Crash, Forget, AllZero, Goto, remote
  <2>2. \A n \in Nodes : attempts'[n] <= Retries[n] + 1
    BY <1>0, <2>1
  <2> QED  BY <1>1, <2>1, <2>2 DEF CountInv, Running
<1>4. ASSUME Flow, UNCHANGED <<attempts, life>>,
             \A n \in Nodes : Len(child'[n]) = Len(child[n]),
             \A n \in Nodes : state'[n] = "pending" =>
               state[n] = "pending" \/ attempts[n] <= Retries[n]
      PROVE  CountInv'
  BY <1>4 DEF Flow, CountInv
<1>5. CASE ControlStep
  BY <1>4, <1>5 DEF ControlStep
<1>6. ASSUME NEW n \in Nodes, RestoreNode(n)
      PROVE  CountInv'
  <2>1. Flow /\ UNCHANGED <<child, attempts, life>>
    BY <1>6 DEF RestoreNode, At, Visited, remote, Flow, Running, Outcome
  <2>2. attempts = AllZero
    BY <1>6 DEF RestoreNode, At, OrderInv
  <2>3. \A m \in Nodes : attempts[m] <= Retries[m]
    BY <1>0, <2>2 DEF AllZero
  <2> QED  BY <1>4, <2>1, <2>3
<1>7. ASSUME NEW n \in Nodes, Block(n)
      PROVE  CountInv'
  <2>1. Flow /\ UNCHANGED <<child, attempts, life>>
        /\ state' = [state EXCEPT ![n] = "stopped"]
    BY <1>7 DEF Block, At, Visited, Flow, Running, Outcome
  <2>2. \A m \in Nodes : state'[m] = "pending" => state[m] = "pending"
    BY <1>0, <2>1 DEF TypeOK
  <2> QED  BY <1>4, <2>1, <2>2
<1>8. ASSUME NEW n \in Nodes, CreateChild(n)
      PROVE  CountInv'
  <2> DEFINE c == [status |-> "created", place |-> "new"]
  <2>1. /\ c \in Child /\ child' = [child EXCEPT ![n] = Append(@, c)]
        /\ UNCHANGED <<state, life>> /\ pc = "launch" /\ pc' = "enqueue" /\ cur' = n
        /\ attempts' = [attempts EXCEPT ![n] = @ + 1]
        /\ n \in todo
    BY <1>8, StatusFacts DEF CreateChild, At, Goto, Child, Place
  <2> HIDE DEF c
  <2>2. /\ Len(child'[n]) = Len(child[n]) + 1
        /\ \A m \in Nodes \ {n} : child'[m] = child[m]
    BY <1>0, <2>1, Grown DEF TypeOK
  <2>3. /\ attempts'[n] = attempts[n] + 1
        /\ \A m \in Nodes \ {n} : attempts'[m] = attempts[m]
    BY <1>0, <2>1 DEF TypeOK
  <2>4. state[n] = "pending"
    BY <1>0, <2>1 DEF PlacesInv
  <2>5. /\ attempts[n] <= Retries[n]
        /\ life > 0
        /\ \A m \in Nodes : /\ attempts[m] <= Retries[m] + 1
                            /\ Len(child[m]) <= Quota(m, life - 1) + attempts[m]
                            /\ state[m] = "pending" => attempts[m] <= Retries[m]
    BY <2>1, <2>4 DEF CountInv, Running, Outcome
  <2>6. Quota(n, life - 1) \in Int
    BY <1>0, QuotaGrows
  <2>7. /\ attempts'[n] <= Retries[n] + 1
        /\ Len(child'[n]) <= Quota(n, life - 1) + attempts'[n]
    BY <1>0, <2>2, <2>3, <2>5, <2>6
  <2> QED  BY <2>1, <2>2, <2>3, <2>5, <2>7 DEF CountInv
<1>9. CASE RecordChild
  <2>1. /\ child' = child /\ pc = "record" /\ pc' = "launch"
        /\ state' = [state EXCEPT ![cur] = "queued"]
        /\ UNCHANGED <<attempts, life>>
    BY <1>9 DEF RecordChild, Goto
  <2>2. \A m \in Nodes : state'[m] = "pending" => state[m] = "pending" /\ m # cur
    BY <1>0, <2>1 DEF TypeOK
  <2>3. Running
    BY <2>1 DEF Running, Outcome
  <2> QED  BY <2>1, <2>2, <2>3 DEF CountInv
<1>10. ASSUME NEW n, NEW k, NEW c, WriteStep(n, k, c)
       PROVE  CountInv'
  BY <1>4, <1>10 DEF WriteStep, OneChild
<1>11. ASSUME NEW n, NEW final, SettleStep(n, final)
       PROVE  CountInv'
  <2>1. Flow /\ UNCHANGED <<child, attempts, life>> /\ n \in Nodes
        /\ final # "pending"
        /\ \/ attempts[n] <= Retries[n] /\ state' = [state EXCEPT ![n] = "pending"]
           \/ state' = [state EXCEPT ![n] = final]
    BY <1>11, StatusFacts DEF SettleStep, Settle, Active
  <2>2. \A m \in Nodes : state'[m] = "pending" =>
          state[m] = "pending" \/ attempts[m] <= Retries[m]
    BY <1>0, <2>1 DEF TypeOK
  <2> QED  BY <1>4, <2>1, <2>2
<1> QED  BY <1>2, <1>3, <1>5, <1>6, <1>7, <1>8, <1>9, <1>10, <1>11, Kinds

-----------------------------------------------------------------------------
LEMMA InvInit == Init => Inv
<1> SUFFICES ASSUME Init  PROVE Inv
  OBVIOUS
<1>1. /\ \A n \in Nodes : Len(child[n]) = 0 /\ attempts[n] = 0
      /\ \A n \in Nodes : state[n] = "pending"
      /\ pc = "down" /\ life = 0 /\ attempts = AllZero
  BY DEF Init, AllZero, AllPending
<1>2. SuccessIsOff /\ SuccessIsReal /\ OrderInv
  BY <1>1, StatusFacts, GraphAssumption
     DEF SuccessIsOff, SuccessIsReal, OrderInv
<1>3. \A n \in Nodes : Retries[n] \in Nat /\ Quota(n, 0) = 0
  BY GraphAssumption DEF Quota
<1>4. CountInv
  BY <1>1, <1>3 DEF CountInv, Running, Outcome
<1> QED  BY <1>2, <1>4, TypeInit DEF Inv

LEMMA InvStep == Inv /\ [Next]_vars => Inv'
<1>1. CASE Inv /\ Next
  BY <1>1, TypeStep, SuccessStep, CountStep, OrderStep DEF Inv
<1>2. CASE Inv /\ UNCHANGED vars
  BY <1>2 DEF vars, remote, memory, control, Inv, TypeInv, TypeOK, PlacesInv,
              Active, SuccessIsOff, SuccessIsReal, CountInv, OrderInv, Running
<1> QED  BY <1>1, <1>2

LEMMA Inductive == Spec => []Inv
  BY InvInit, InvStep, PTL DEF Spec

(* In each life of the controller a node gets at most config.retries + 1    *)
(* children, whatever is timed out, lost, stopped or restored.              *)
THEOREM LaunchesBounded == Spec => []AttemptsBounded
<1>1. Inv => AttemptsBounded
  <2> SUFFICES ASSUME Inv, NEW n \in Nodes
               PROVE  Len(child[n]) <= Quota(n, life)
    BY DEF AttemptsBounded, Quota
  <2>1. /\ life \in Nat /\ Len(child[n]) \in Nat /\ Retries[n] \in Nat
        /\ attempts[n] \in Nat
    BY GraphAssumption, LenProperties DEF Inv, TypeInv, TypeOK
  <2>2. CASE pc = "down"
    BY <2>2 DEF Inv, CountInv
  <2>3. CASE pc # "down"
    <3>1. /\ Len(child[n]) <= Quota(n, life - 1) + attempts[n]
          /\ attempts[n] <= Retries[n] + 1
      BY <2>3 DEF Inv, CountInv
    <3>2. life - 1 \in Int /\ (life - 1) + 1 = life
      BY <2>1
    <3>3. /\ Quota(n, life - 1) \in Int
          /\ Quota(n, life) = Quota(n, life - 1) + Retries[n] + 1
      BY <3>2, QuotaGrows
    <3> QED  BY <2>1, <3>1, <3>3
  <2> QED  BY <2>2, <2>3
<1> QED  BY <1>1, Inductive, PTL

(* A child is only ever created by CreateChild.                             *)
LEMMA LaunchIsCreate ==
  ASSUME Inv, [Next]_vars, NEW n \in Nodes, Launches(n)
  PROVE  CreateChild(n)
<1>1. TypeInv /\ TypeOK /\ Len(child[n]) \in Nat
  BY LenProperties DEF Inv, TypeInv, TypeOK
<1>2. Len(child'[n]) # Len(child[n])
  BY <1>1, LenProperties DEF Launches
<1>3. Next
  BY <1>2 DEF vars, remote
<1>4. child'[n] # child[n] /\ \A m, k, c : ~WriteStep(m, k, c)
  BY <1>2 DEF WriteStep, OneChild
<1>5. PICK m \in Nodes : CreateChild(m)
  BY <1>1, <1>3, <1>4, Kinds
     DEF StartController, Crash, RecordChild, ControlStep, RestoreNode, Block,
         SettleStep, remote
<1>6. m = n
  BY <1>1, <1>4, <1>5 DEF CreateChild, TypeOK
<1> QED  BY <1>5, <1>6

(* When a node is launched each of its parents' recorded child has really   *)
(* succeeded, unless the node continues on failure.                         *)
THEOREM DependenciesRespected == Spec => LaunchedAfterParents
<1> DEFINE A == \A n \in Nodes \ ContinueOnFail : Launches(n) =>
                  \A p \in Parents[n] :
                    /\ pipeline[p].job # 0
                    /\ child[p][pipeline[p].job].status \in SUCCESS
<1>1. ASSUME Inv, [Next]_vars, NEW n \in Nodes \ ContinueOnFail, Launches(n),
             NEW p \in Parents[n]
      PROVE  /\ pipeline[p].job # 0
             /\ child[p][pipeline[p].job].status \in SUCCESS
  <2>1. p \in Nodes
    BY GraphAssumption
  <2>2. state[p] \in SUCCESS
    BY <1>1, LaunchIsCreate DEF CreateChild, Ready
  <2> QED  BY <1>1, <2>1, <2>2 DEF Inv, SuccessIsReal
<1>2. Inv /\ [Next]_vars => A
  BY <1>1
<1>3. Inv /\ [Next]_vars => [A]_vars
  BY <1>2
<1> QED  BY <1>3, Inductive, PTL DEF Spec, LaunchedAfterParents

(* A parent is not launched again once a node that depends on it was: the   *)
(* dependent waits for the parent's last retry.                             *)
THEOREM ParentsFirst == Spec => ParentsSettleFirst
<1> DEFINE A == \A n \in Nodes, p \in Nodes :
                  p \in Parents[n] /\ attempts[n] > 0 => ~Launches(p)
<1>1. ASSUME Inv, [Next]_vars, NEW n \in Nodes, NEW p \in Nodes,
             p \in Parents[n], attempts[n] > 0, Launches(p)
      PROVE  FALSE
  <2>1. pc = "launch" /\ p \in todo
    BY <1>1, LaunchIsCreate DEF CreateChild, At
  <2>2. state[p] = "pending"
    BY <1>1, <2>1 DEF Inv, TypeInv, PlacesInv
  <2>3. state[p] \in TERMINAL
    BY <1>1 DEF Inv, OrderInv
  <2> QED  BY <2>2, <2>3, StatusFacts
<1>2. Inv /\ [Next]_vars => A
  BY <1>1
<1>3. Inv /\ [Next]_vars => [A]_vars
  BY <1>2
<1> QED  BY <1>3, Inductive, PTL DEF Spec, ParentsSettleFirst
-----------------------------------------------------------------------------
(* One life of the controller: what its record says of the nodes. *)

(* A node that has ended is recorded as it ended.  A node that never ran    *)
(* has a parent that ended without success.                                 *)
EndRecorded(n) ==
  LET s == pipeline[n].status IN
  \/ s = state[n]
  \/ /\ s = "aborted" /\ state[n] = "stopped"
     /\ \E p \in Parents[n] : state[p] \in TERMINAL \ SUCCESS

RecordInv ==
  /\ pc = "down" => state = AllPending /\ attempts = AllZero
  /\ life = 0 \/ pc = "restore" => \A n \in Nodes : pipeline[n].job = 0
  /\ \A n \in Nodes : state[n] \in TERMINAL => EndRecorded(n)
  /\ pc \in {"done", "failed"} => \A n \in Nodes : state[n] \in TERMINAL

(* A node that has, or is about to have, a child was launched, and its      *)
(* parents had settled in its favour.                                       *)
LaunchInv ==
  /\ \A n \in Nodes : handle[n] # 0 => attempts[n] > 0
  /\ pc \in {"enqueue", "record"} => attempts[cur] > 0
  /\ \A n \in Nodes \ ContinueOnFail : attempts[n] > 0 =>
       \A p \in Parents[n] : state[p] \in SUCCESS

OneLifeInv == Inv /\ RecordInv /\ LaunchInv

LEMMA OneLifeInit == Init => OneLifeInv
<1> SUFFICES ASSUME Init  PROVE OneLifeInv
  OBVIOUS
<1>1. /\ pc = "down" /\ state = AllPending /\ attempts = AllZero
      /\ \A n \in Nodes : pipeline[n].job = 0
      /\ \A n \in Nodes : state[n] = "pending" /\ attempts[n] = 0 /\ handle[n] = 0
  BY DEF Init, AllPending, AllZero
<1> QED  BY <1>1, InvInit, StatusFacts DEF OneLifeInv, RecordInv, LaunchInv

(* In its only life the controller finds no child to restore.               *)
LEMMA OneLifeKinds ==
  ASSUME MaxLives <= 1, OneLifeInv, Next
  PROVE  \/ StartController /\ pc = "down" /\ life = 0
         \/ Crash \/ RecordChild \/ ControlStep
         \/ \E n \in Nodes : Block(n) \/ CreateChild(n)
         \/ \E n, k, c : WriteStep(n, k, c)
         \/ \E n, final : SettleStep(n, final)
<1>1. ASSUME NEW n \in Nodes, RestoreNode(n)  PROVE ControlStep
  <2>1. pipeline[n].job = 0
    BY <1>1 DEF RestoreNode, At, OneLifeInv, RecordInv
  <2>2. UNCHANGED <<child, pipeline, state, attempts, handle, life>>
    BY <1>1, <2>1 DEF RestoreNode, remote
  <2> QED  BY <1>1, <2>2
           DEF RestoreNode, At, Visited, ControlStep, Flow, Running, Outcome
<1>2. StartController => pc = "down" /\ life = 0
  <2>1. MaxLives \in Nat /\ life \in Nat /\ (pc # "down" => life > 0)
    BY GraphAssumption DEF OneLifeInv, Inv, TypeInv, TypeOK, CountInv
  <2> QED  BY <2>1 DEF StartController
<1> QED  BY <1>1, <1>2, Kinds DEF OneLifeInv, Inv

(* A node that has ended stays as it is, and so does its record.            *)
LEMMA EndsKept ==
  ASSUME TypeInv,
         \/ RecordChild \/ ControlStep
         \/ \E n \in Nodes : Block(n) \/ CreateChild(n)
         \/ \E n, k, c : WriteStep(n, k, c)
         \/ \E n, final : SettleStep(n, final),
         NEW m \in Nodes, state[m] \in TERMINAL
  PROVE  state'[m] = state[m] /\ pipeline'[m] = pipeline[m]
<1>0. TypeOK /\ PlacesInv /\ state[m] # "pending"
  BY StatusFacts DEF TypeInv
<1>1. CASE RecordChild
  <2>1. cur # m
    BY <1>0, <1>1 DEF RecordChild, PlacesInv
  <2> QED  BY <1>0, <1>1, <2>1 DEF RecordChild, TypeOK
<1>2. CASE ControlStep
  BY <1>2 DEF ControlStep
<1>3. ASSUME NEW n \in Nodes, Block(n) \/ CreateChild(n)
      PROVE  state'[m] = state[m] /\ pipeline'[m] = pipeline[m]
  <2>1. n # m
    BY <1>0, <1>3 DEF Block, CreateChild, At, PlacesInv
  <2> QED  BY <1>0, <1>3, <2>1 DEF Block, CreateChild, TypeOK
<1>4. ASSUME NEW n, NEW k, NEW c, WriteStep(n, k, c)
      PROVE  state'[m] = state[m] /\ pipeline'[m] = pipeline[m]
  BY <1>4 DEF WriteStep
<1>5. ASSUME NEW n, NEW final, SettleStep(n, final)
      PROVE  state'[m] = state[m] /\ pipeline'[m] = pipeline[m]
  <2>1. n # m
    BY <1>5 DEF SettleStep, Active
  <2> QED  BY <1>0, <1>5, <2>1 DEF SettleStep, Settle, TypeOK
<1> QED  BY <1>1, <1>2, <1>3, <1>4, <1>5

LEMMA RecordStep ==
  ASSUME MaxLives <= 1, OneLifeInv, Next
  PROVE  RecordInv'
<1>0. /\ TypeInv /\ TypeOK /\ PlacesInv /\ RecordInv
      /\ life \in Nat /\ (pc # "down" => life > 0)
      /\ Parents \in [Nodes -> SUBSET Nodes]
  BY GraphAssumption DEF OneLifeInv, Inv, TypeInv, TypeOK, CountInv
<1>1. CASE StartController /\ pc = "down" /\ life = 0
  <2>1. /\ pc' = "restore" /\ pipeline' = pipeline
        /\ \A n \in Nodes : state'[n] = "pending"
    BY <1>1 DEF StartController, Goto, Forget, AllPending
  <2> QED  BY <1>0, <1>1, <2>1, StatusFacts DEF RecordInv
<1>2. CASE Crash
  <2>1. /\ pc' = "down" /\ state' = AllPending /\ attempts' = AllZero
        /\ life' = life /\ life > 0
        /\ \A n \in Nodes : state'[n] = "pending"
    BY <1>0, <1>2 DEF Crash, Running, Goto, Forget, AllPending
  <2> QED  BY <1>0, <2>1, StatusFacts DEF RecordInv
(* The other steps need only say what they do to the nodes they change.     *)
<1>3. ASSUME \/ RecordChild \/ ControlStep
             \/ \E n \in Nodes : Block(n) \/ CreateChild(n)
             \/ \E n, k, c : WriteStep(n, k, c)
             \/ \E n, final : SettleStep(n, final),
             life' = life,
             pc' = "down" => pc = "down" /\ UNCHANGED <<state, attempts>>,
             pc' = "restore" => pc = "restore",
             pc = "down" \/ pc = "restore" => pipeline' = pipeline,
             \A n \in Nodes : state'[n] \in TERMINAL =>
               state[n] \in TERMINAL \/ EndRecorded(n)',
             pc' \in {"done", "failed"} => \A n \in Nodes : state[n] \in TERMINAL
      PROVE  RecordInv'
  <2>1. \A n \in Nodes : state[n] \in TERMINAL =>
          state'[n] = state[n] /\ pipeline'[n] = pipeline[n]
    BY <1>0, <1>3, EndsKept
  <2>2. ASSUME NEW n \in Nodes, state'[n] \in TERMINAL  PROVE EndRecorded(n)'
    <3>1. CASE state[n] \in TERMINAL
      <4>1. EndRecorded(n)
        BY <1>0, <3>1 DEF RecordInv
      <4> QED  BY <1>0, <2>1, <3>1, <4>1 DEF EndRecorded
    <3> QED  BY <1>3, <2>2, <3>1
  <2>3. life = 0 \/ pc' = "restore" => \A n \in Nodes : pipeline'[n].job = 0
    BY <1>0, <1>3 DEF RecordInv
  <2> QED  BY <1>0, <1>3, <2>1, <2>2, <2>3 DEF RecordInv
<1>4. CASE RecordChild
  <2>1. /\ pc = "record" /\ pc' = "launch" /\ life' = life
        /\ state' = [state EXCEPT ![cur] = "queued"]
    BY <1>4 DEF RecordChild, Goto
  <2>2. \A n \in Nodes : state'[n] \in TERMINAL => state[n] \in TERMINAL
    BY <1>0, <2>1, StatusFacts DEF TypeOK
  <2> QED  BY <1>3, <1>4, <2>1, <2>2
<1>5. CASE ControlStep
  <2>1. pc' \in {"done", "failed"} => \A n \in Nodes : state[n] \in TERMINAL
    BY <1>0, <1>5, StatusFacts DEF ControlStep, Flow, RecordInv, Outcome
  <2>2. /\ UNCHANGED <<life, state, attempts, pipeline>>
        /\ pc' = "down" => pc = "down"
        /\ pc' = "restore" => pc = "restore"
    BY <1>5 DEF ControlStep, Flow
  <2> QED  BY <1>3, <1>5, <2>1, <2>2
<1>6. ASSUME NEW n \in Nodes, Block(n)  PROVE RecordInv'
  <2>1. /\ pc = "launch" /\ pc' = "launch" /\ life' = life
        /\ state' = [state EXCEPT ![n] = "stopped"]
        /\ pipeline' = [pipeline EXCEPT ![n] = [job |-> 0, status |-> "aborted"]]
        /\ state[n] = "pending"
    BY <1>0, <1>6 DEF Block, At, Visited, PlacesInv
  <2>2. PICK p \in Parents[n] : state[p] \in TERMINAL \ SUCCESS
    BY <1>6 DEF Block, Blocked
  <2>3. p \in Nodes /\ p # n
    BY <1>0, <2>1, <2>2, StatusFacts
  <2>4. EndRecorded(n)'
    BY <1>0, <2>1, <2>2, <2>3 DEF EndRecorded, TypeOK
  <2>5. \A m \in Nodes : m # n => state'[m] = state[m]
    BY <1>0, <2>1 DEF TypeOK
  <2> QED  BY <1>3, <1>6, <2>1, <2>4, <2>5
<1>7. ASSUME NEW n \in Nodes, CreateChild(n)  PROVE RecordInv'
  <2>1. pc = "launch" /\ pc' = "enqueue" /\ UNCHANGED <<life, state, pipeline>>
    BY <1>7 DEF CreateChild, At, Goto
  <2> QED  BY <1>3, <1>7, <2>1
<1>8. ASSUME NEW n, NEW k, NEW c, WriteStep(n, k, c)  PROVE RecordInv'
  <2>1. pc' \in {"done", "failed"} => \A m \in Nodes : state[m] \in TERMINAL
    BY <1>0, <1>8, StatusFacts DEF WriteStep, Flow, RecordInv, Outcome
  <2>2. /\ UNCHANGED <<life, state, attempts, pipeline>>
        /\ pc' = "down" => pc = "down"
        /\ pc' = "restore" => pc = "restore"
    BY <1>8 DEF WriteStep, Flow
  <2> QED  BY <1>3, <1>8, <2>1, <2>2
<1>9. ASSUME NEW n, NEW final, SettleStep(n, final)  PROVE RecordInv'
  <2>1. /\ n \in Nodes /\ pc' = "poll" /\ life' = life
        /\ pc \notin {"down", "restore"}
        /\ pipeline' = [pipeline EXCEPT ![n] = [job |-> handle[n], status |-> final]]
        /\ \/ state' = [state EXCEPT ![n] = "pending"]
           \/ state' = [state EXCEPT ![n] = final]
    <3>1. Settle(n, final) /\ n \in Active /\ life' = life /\ Flow
      BY <1>9 DEF SettleStep
    <3>2. handle[n] # 0 /\ n \in Nodes
      BY <3>1 DEF Active
    <3>3. pc # "down"
      BY <3>1 DEF Settle, Goto, Flow
    <3>4. attempts[n] > 0
      BY <3>2 DEF OneLifeInv, LaunchInv
    <3>5. pc # "restore"
      BY <3>2, <3>4 DEF OneLifeInv, Inv, OrderInv, AllZero
    <3> QED  BY <3>1, <3>2, <3>3, <3>5 DEF Settle, Goto
  <2>2. pipeline'[n].status = final
    BY <1>0, <2>1 DEF TypeOK
  <2>3. state'[n] \in TERMINAL => EndRecorded(n)'
    BY <1>0, <2>1, <2>2, StatusFacts DEF EndRecorded, TypeOK
  <2>4. \A m \in Nodes : m # n => state'[m] = state[m]
    BY <1>0, <2>1 DEF TypeOK
  <2> QED  BY <1>3, <1>9, <2>1, <2>3, <2>4
<1> QED  BY <1>1, <1>2, <1>4, <1>5, <1>6, <1>7, <1>8, <1>9, OneLifeKinds

LEMMA LaunchStep ==
  ASSUME MaxLives <= 1, OneLifeInv, Next
  PROVE  LaunchInv'
<1>0. /\ TypeInv /\ TypeOK /\ PlacesInv /\ LaunchInv
      /\ Parents \in [Nodes -> SUBSET Nodes]
      /\ \A n \in Nodes : attempts[n] \in Nat
  BY GraphAssumption DEF OneLifeInv, Inv, TypeInv, TypeOK
<1>1. CASE StartController \/ Crash
  <2>1. /\ pc' \in {"down", "restore"}
        /\ \A n \in Nodes : attempts'[n] = 0 /\ handle'[n] = 0
    BY <1>1 DEF StartController, Crash, Goto, Forget, AllZero
  <2> QED  BY <2>1 DEF LaunchInv
(* A step that changes neither attempts nor, but to the child just created  *)
(* or to none, a handle.                                                    *)
<1>2. ASSUME \/ RecordChild \/ ControlStep
             \/ \E n \in Nodes : Block(n)
             \/ \E n, k, c : WriteStep(n, k, c)
             \/ \E n, final : SettleStep(n, final),
             attempts' = attempts,
             \A n \in Nodes : handle'[n] # 0 => attempts[n] > 0,
             pc' \in {"enqueue", "record"} =>
               pc \in {"enqueue", "record"} /\ cur' = cur
      PROVE  LaunchInv'
  <2>1. \A n \in Nodes : state[n] \in TERMINAL => state'[n] = state[n]
    BY <1>0, <1>2, EndsKept
  <2> QED  BY <1>0, <1>2, <2>1, StatusFacts DEF LaunchInv
<1>3. CASE RecordChild
  <2>1. /\ cur \in Nodes /\ attempts[cur] > 0 /\ attempts' = attempts
        /\ handle' = [handle EXCEPT ![cur] = Len(child[cur])]
        /\ pc' = "launch"
    BY <1>0, <1>3 DEF RecordChild, Goto, PlacesInv, LaunchInv
  <2>2. \A n \in Nodes : handle'[n] # 0 => attempts[n] > 0
    BY <1>0, <2>1 DEF LaunchInv, TypeOK
  <2> QED  BY <1>2, <1>3, <2>1, <2>2
<1>4. CASE ControlStep
  <2>1. /\ UNCHANGED <<attempts, handle>>
        /\ pc' \in {"enqueue", "record"} =>
             pc \in {"enqueue", "record"} /\ cur' = cur
    BY <1>4 DEF ControlStep, Flow, Running, Outcome
  <2> QED  BY <1>0, <1>2, <1>4, <2>1 DEF LaunchInv
<1>5. ASSUME NEW n \in Nodes, Block(n)  PROVE LaunchInv'
  <2>1. UNCHANGED <<attempts, handle>> /\ pc' = "launch"
    BY <1>5 DEF Block, At, Visited
  <2> QED  BY <1>0, <1>2, <1>5, <2>1 DEF LaunchInv
<1>6. ASSUME NEW n \in Nodes, CreateChild(n)  PROVE LaunchInv'
  <2>1. /\ UNCHANGED <<state, handle>> /\ cur' = n /\ pc' = "enqueue"
        /\ attempts' = [attempts EXCEPT ![n] = @ + 1]
        /\ n \notin ContinueOnFail => \A p \in Parents[n] : state[p] \in SUCCESS
    BY <1>6 DEF CreateChild, Goto, Ready
  <2>2. /\ attempts'[n] = attempts[n] + 1 /\ attempts'[n] > 0
        /\ \A m \in Nodes \ {n} : attempts'[m] = attempts[m]
    BY <1>0, <2>1 DEF TypeOK
  <2> QED  BY <1>0, <2>1, <2>2 DEF LaunchInv
<1>7. ASSUME NEW n, NEW k, NEW c, WriteStep(n, k, c)  PROVE LaunchInv'
  <2>1. /\ UNCHANGED <<attempts, handle>>
        /\ pc' \in {"enqueue", "record"} =>
             pc \in {"enqueue", "record"} /\ cur' = cur
    BY <1>7 DEF WriteStep, Flow, Running, Outcome
  <2> QED  BY <1>0, <1>2, <1>7, <2>1 DEF LaunchInv
<1>8. ASSUME NEW n, NEW final, SettleStep(n, final)  PROVE LaunchInv'
  <2>1. /\ n \in Nodes /\ pc' = "poll" /\ attempts' = attempts
        /\ handle' = [handle EXCEPT ![n] = 0] \/ handle' = handle
    BY <1>8 DEF SettleStep, Settle, Goto, Active
  <2>2. \A m \in Nodes : handle'[m] # 0 => attempts[m] > 0
    BY <1>0, <2>1 DEF LaunchInv, TypeOK
  <2> QED  BY <1>2, <1>8, <2>1, <2>2
<1> QED  BY <1>1, <1>3, <1>4, <1>5, <1>6, <1>7, <1>8, OneLifeKinds

LEMMA OneLifeInductive == MaxLives <= 1 /\ Spec => []OneLifeInv
<1> SUFFICES ASSUME MaxLives <= 1  PROVE Spec => []OneLifeInv
  OBVIOUS
<1>1. OneLifeInv /\ [Next]_vars => OneLifeInv'
  <2>1. CASE OneLifeInv /\ Next
    BY <2>1, InvStep, RecordStep, LaunchStep DEF OneLifeInv
  <2>2. CASE OneLifeInv /\ UNCHANGED vars
    <3>1. Inv'
      BY <2>2, InvStep DEF OneLifeInv
    <3> QED  BY <2>2, <3>1 DEF vars, remote, memory, control, OneLifeInv, RecordInv,
                               LaunchInv, EndRecorded
  <2> QED  BY <2>1, <2>2
<1> QED  BY <1>1, OneLifeInit, PTL DEF Spec

(* When the only life of the controller returns or fails, its Pipeline      *)
(* record tells how each node ended.  A second life does not record a child *)
(* that ended between the lives.                                            *)
THEOREM RecordTellsTheRun == MaxLives <= 1 /\ Spec => []RecordIsTrue
<1> SUFFICES ASSUME MaxLives <= 1  PROVE Spec => []RecordIsTrue
  OBVIOUS
<1>1. OneLifeInv => RecordIsTrue
  <2> SUFFICES ASSUME OneLifeInv, pc \in {"done", "failed"}, NEW n \in Nodes
               PROVE  LET s == pipeline[n] IN
                      /\ s.status \in TERMINAL \union {"aborted"}
                      /\ s.status \in SUCCESS => child[n][s.job].status \in SUCCESS
                      /\ s.status = "aborted" =>
                           \E p \in Parents[n] : pipeline[p].status \notin SUCCESS
    BY DEF RecordIsTrue
  <2>1. \A m \in Nodes : state[m] \in TERMINAL /\ EndRecorded(m)
    BY DEF OneLifeInv, RecordInv
  <2>2. "aborted" \notin TERMINAL
    BY DEF TERMINAL
  <2>3. \A m \in Nodes : pipeline[m].status \in SUCCESS => state[m] \in SUCCESS
    BY <2>1, <2>2, StatusFacts DEF EndRecorded
  <2>4. pipeline[n].status \in SUCCESS => child[n][pipeline[n].job].status \in SUCCESS
    BY <2>3 DEF OneLifeInv, Inv, SuccessIsReal
  <2>5. ASSUME pipeline[n].status = "aborted"
        PROVE  \E p \in Parents[n] : pipeline[p].status \notin SUCCESS
    <3>1. PICK p \in Parents[n] : state[p] \in TERMINAL \ SUCCESS
      BY <2>1, <2>2, <2>5 DEF EndRecorded
    <3>2. p \in Nodes
      BY GraphAssumption
    <3> QED  BY <2>3, <3>1, <3>2
  <2> QED  BY <2>1, <2>4, <2>5 DEF EndRecorded
<1> QED  BY <1>1, OneLifeInductive, PTL

-----------------------------------------------------------------------------
(* One life of the controller implements Workflow. *)

Phases == [n \in Nodes |-> Phase(n)]

Abstract == [Promise!Next]_<<Phases, Result>>

(* The result is open as long as the controller runs. *)
LEMMA OpenWhileRunning ==
  /\ Running => Result = "open"
  /\ pc \notin Outcome <=> Result = "open"
BY DEF Running, Outcome, Result

(* A step that changes the phase of one node at most. *)
LEMMA OnePhase ==
  ASSUME NEW n \in Nodes, NEW new, Phase(n)' = new,
         \A m \in Nodes \ {n} : state'[m] = state[m] /\ attempts'[m] = attempts[m]
  PROVE  Phases' = [Phases EXCEPT ![n] = new]
<1>1. \A m \in Nodes \ {n} : Phase(m)' = Phase(m)
  BY DEF Phase
<1> QED  BY <1>1 DEF Phases

(* What the phases say of the controller's view of the nodes. *)
LEMMA PhaseFacts ==
  ASSUME TypeOK, NEW n \in Nodes
  PROVE  /\ Phases[n] = Phase(n)
         /\ Phase(n) = "succeeded" <=> state[n] \in SUCCESS
         /\ Phase(n) \in {"succeeded", "failed", "skipped"} <=> state[n] \in TERMINAL
         /\ Phase(n) \in {"failed", "skipped"} <=> state[n] \in TERMINAL \ SUCCESS
         /\ Phase(n) = "waiting" <=> state[n] \notin TERMINAL /\ attempts[n] = 0
         /\ Phase(n) = "running" <=> state[n] \notin TERMINAL /\ attempts[n] # 0
BY StatusFacts DEF Phases, Phase

LEMMA FlowIsAbstract ==
  ASSUME OneLifeInv, Flow, UNCHANGED <<state, attempts>>
  PROVE  Abstract
<1>0. TypeOK
  BY DEF OneLifeInv, Inv, TypeInv
<1>1. Phases' = Phases
  BY DEF Phases, Phase
<1>2. CASE pc' \notin Outcome
  <2>1. pc \notin Outcome
    BY <1>2 DEF Flow, Running, Outcome
  <2>2. Result' = Result
    BY <1>2, <2>1, OpenWhileRunning DEF Outcome, Result
  <2> QED  BY <1>1, <2>2 DEF Abstract
<1>3. CASE pc' = pc
  <2>1. Result' = Result
    BY <1>3 DEF Result
  <2> QED  BY <1>1, <2>1 DEF Abstract
<1>4. CASE /\ Running
           /\ \/ pc' \in {"cancelled", "raised"}
              \/ pc' = "done" /\ \A n \in Nodes : state[n] \in SUCCESS
              \/ /\ pc' = "failed"
                 /\ \A n \in Nodes : state[n] \in TERMINAL
                 /\ \E n \in Nodes : state[n] \notin SUCCESS
  <2>1. Result = "open"
    BY <1>4, OpenWhileRunning
  <2>2. \A n \in Nodes :
          /\ state[n] \in SUCCESS <=> Phases[n] = "succeeded"
          /\ state[n] \in TERMINAL <=> Phases[n] \in Promise!Settled
    BY <1>0, PhaseFacts DEF Promise!Settled
  <2>3. \/ pc' \in {"cancelled", "raised"} /\ Result' = "interrupted"
        \/ pc' \in {"done", "failed"} /\ Result' = pc'
    BY <1>4 DEF Result
  <2>4. Promise!Finish
    BY <1>1, <1>4, <2>1, <2>2, <2>3 DEF Promise!Finish, Phases
  <2> QED  BY <2>4 DEF Abstract, Promise!Next, Phases
<1> QED  BY <1>2, <1>3, <1>4 DEF Flow

(* A step on one node that enters the phase new. *)
LEMMA EnterIsAbstract ==
  ASSUME NEW n \in Nodes, NEW new, Phase(n)' = new,
         \A m \in Nodes \ {n} : state'[m] = state[m] /\ attempts'[m] = attempts[m],
         pc \notin Outcome, pc' \notin Outcome
  PROVE  Promise!Enter(n, new)
<1>1. Result = "open" /\ Result' = "open"
  BY DEF Outcome, Result
<1>2. Phases' = [Phases EXCEPT ![n] = new]
  BY OnePhase
<1> QED  BY <1>1, <1>2 DEF Promise!Enter, Phases

LEMMA StepIsAbstract ==
  ASSUME MaxLives <= 1, MayCrash = FALSE, OneLifeInv, [Next]_vars
  PROVE  Abstract
<1>0. /\ TypeInv /\ TypeOK /\ PlacesInv /\ RecordInv /\ LaunchInv
      /\ Parents \in [Nodes -> SUBSET Nodes]
      /\ \A n \in Nodes : attempts[n] \in Nat
  BY GraphAssumption DEF OneLifeInv, Inv, TypeInv, TypeOK
<1>1. CASE StartController /\ pc = "down"
  <2>1. /\ state' = AllPending /\ attempts' = AllZero /\ pc' = "restore"
        /\ state = AllPending /\ attempts = AllZero
    BY <1>0, <1>1 DEF StartController, Forget, Goto, RecordInv
  <2>2. Result' = Result
    BY <1>1, <2>1 DEF Result
  <2>3. Phases' = Phases
    BY <2>1 DEF Phases, Phase
  <2> QED  BY <2>2, <2>3 DEF Abstract
<1>2. CASE RecordChild
  <2>1. /\ cur \in Nodes /\ state[cur] = "pending" /\ attempts[cur] > 0
        /\ state' = [state EXCEPT ![cur] = "queued"] /\ attempts' = attempts
        /\ pc = "record" /\ pc' = "launch"
    BY <1>0, <1>2 DEF RecordChild, Goto, PlacesInv, LaunchInv
  <2>2. Result' = Result
    BY <2>1 DEF Result
  <2>3. /\ state'[cur] = "queued"
        /\ \A m \in Nodes \ {cur} : state'[m] = state[m]
    BY <1>0, <2>1 DEF TypeOK
  <2>4. \A m \in Nodes : Phase(m)' = Phase(m)
    BY <2>1, <2>3, StatusFacts DEF Phase
  <2>5. Phases' = Phases
    BY <2>4 DEF Phases
  <2> QED  BY <2>2, <2>5 DEF Abstract
<1>3. CASE ControlStep
  BY <1>3, FlowIsAbstract DEF ControlStep
<1>4. ASSUME NEW n \in Nodes, Block(n)  PROVE Abstract
  <2>1. /\ state[n] = "pending" /\ pc = "launch" /\ pc' = "launch"
        /\ state' = [state EXCEPT ![n] = "stopped"] /\ attempts' = attempts
    BY <1>0, <1>4 DEF Block, At, Visited, PlacesInv
  <2>2. n \notin ContinueOnFail
    BY <1>4 DEF Block, Blocked
  <2>3. PICK p \in Parents[n] : state[p] \in TERMINAL \ SUCCESS
    BY <1>4 DEF Block, Blocked
  <2>4. attempts[n] = 0
    BY <1>0, <2>2, <2>3 DEF LaunchInv
  <2>5. Phases[n] = "waiting" /\ Phases[p] \in {"failed", "skipped"}
    BY <1>0, <2>1, <2>3, <2>4, PhaseFacts, StatusFacts
  <2>6. /\ state'[n] = "stopped"
        /\ \A m \in Nodes \ {n} : state'[m] = state[m]
    BY <1>0, <2>1 DEF TypeOK
  <2>7. Phase(n)' = "skipped"
    BY <2>1, <2>4, <2>6, StatusFacts DEF Phase
  <2>8. Promise!Enter(n, "skipped")
    BY <2>1, <2>6, <2>7, EnterIsAbstract DEF Outcome
  <2>9. Promise!Skip(n)
    BY <2>2, <2>5, <2>8 DEF Promise!Skip, Phases
  <2> QED  BY <2>9 DEF Abstract, Promise!Next, Phases
<1>5. ASSUME NEW n \in Nodes, CreateChild(n)  PROVE Abstract
  <2>1. /\ state[n] = "pending" /\ pc = "launch" /\ pc' = "enqueue"
        /\ state' = state /\ attempts' = [attempts EXCEPT ![n] = @ + 1] /\ Ready(n)
    BY <1>0, <1>5 DEF CreateChild, At, Goto, PlacesInv
  <2>2. /\ attempts'[n] = attempts[n] + 1 /\ attempts'[n] # 0
        /\ \A m \in Nodes \ {n} : attempts'[m] = attempts[m]
    BY <1>0, <2>1 DEF TypeOK
  <2>3. Phase(n)' = "running"
    BY <2>1, <2>2, StatusFacts DEF Phase
  <2>4. Promise!Enter(n, "running")
    BY <2>1, <2>2, <2>3, EnterIsAbstract DEF Outcome
  <2>5. CASE attempts[n] = 0
    <3>1. Phases[n] = "waiting"
      BY <1>0, <2>1, <2>5, PhaseFacts, StatusFacts
    <3>2. \A p \in Parents[n] :
            Phases[p] \in IF n \in ContinueOnFail THEN Promise!Settled ELSE {"succeeded"}
      <4> SUFFICES ASSUME NEW p \in Parents[n]
                   PROVE  Phases[p] \in IF n \in ContinueOnFail
                                        THEN Promise!Settled ELSE {"succeeded"}
        OBVIOUS
      <4>1. p \in Nodes /\ state[p] \in IF n \in ContinueOnFail THEN TERMINAL ELSE SUCCESS
        BY <1>0, <2>1 DEF Ready
      <4> QED  BY <1>0, <4>1, PhaseFacts DEF Promise!Settled
    <3>3. Promise!Begin(n)
      BY <2>4, <3>1, <3>2 DEF Promise!Begin, Phases
    <3> QED  BY <3>3 DEF Abstract, Promise!Next, Phases
  <2>6. CASE attempts[n] # 0
    <3>1. Phases[n] = "running"
      BY <1>0, <2>1, <2>6, PhaseFacts, StatusFacts
    <3>2. Phases' = [Phases EXCEPT ![n] = "running"]
      BY <2>1, <2>2, <2>3, OnePhase
    <3>3. Phases' = Phases
      BY <3>1, <3>2 DEF Phases
    <3>4. Result' = Result
      BY <2>1 DEF Result
    <3> QED  BY <3>3, <3>4 DEF Abstract
  <2> QED  BY <2>5, <2>6
<1>6. ASSUME NEW n, NEW k, NEW c, WriteStep(n, k, c)  PROVE Abstract
  BY <1>6, FlowIsAbstract DEF WriteStep
<1>7. ASSUME NEW n, NEW final, SettleStep(n, final)  PROVE Abstract
  <2>1. /\ n \in Nodes /\ handle[n] # 0 /\ state[n] \notin TERMINAL
        /\ final \in TERMINAL /\ pc' = "poll" /\ attempts' = attempts
        /\ \/ state' = [state EXCEPT ![n] = "pending"]
           \/ state' = [state EXCEPT ![n] = final]
    BY <1>7 DEF SettleStep, Settle, Goto, Active
  <2>2. attempts[n] > 0
    BY <1>0, <2>1 DEF LaunchInv
  <2>3. pc \notin Outcome
    BY <1>7, <2>1 DEF SettleStep, Flow, Running, Outcome
  <2>4. Phases[n] = "running"
    BY <1>0, <2>1, <2>2, PhaseFacts
  <2>5. \A m \in Nodes \ {n} : state'[m] = state[m]
    BY <1>0, <2>1 DEF TypeOK
  <2>6. CASE state' = [state EXCEPT ![n] = "pending"]
    <3>1. Phase(n)' = "running"
      BY <1>0, <2>1, <2>2, <2>6, StatusFacts DEF Phase, TypeOK
    <3>2. Phases' = [Phases EXCEPT ![n] = "running"]
      BY <2>1, <2>5, <3>1, OnePhase
    <3>3. Phases' = Phases
      BY <2>4, <3>2 DEF Phases
    <3>4. Result' = Result
      BY <2>1, <2>3, OpenWhileRunning DEF Result
    <3> QED  BY <3>3, <3>4 DEF Abstract
  <2>7. CASE state' = [state EXCEPT ![n] = final]
    <3>1. state'[n] = final
      BY <1>0, <2>1, <2>7 DEF TypeOK
    <3>2. PICK new \in {"succeeded", "failed"} : Phase(n)' = new
      BY <2>1, <2>2, <3>1 DEF Phase
    <3>3. Promise!Enter(n, new)
      BY <2>1, <2>3, <2>5, <3>2, EnterIsAbstract DEF Outcome
    <3>4. Promise!End(n)
      BY <2>4, <3>3 DEF Promise!End, Phases
    <3> QED  BY <2>1, <3>4 DEF Abstract, Promise!Next, Phases
  <2> QED  BY <2>1, <2>6, <2>7
<1>8. CASE UNCHANGED vars
  BY <1>8 DEF vars, memory, control, Abstract, Phases, Phase, Result
<1>9. ~Crash
  BY DEF Crash
<1> QED  BY <1>1, <1>2, <1>3, <1>4, <1>5, <1>6, <1>7, <1>8, <1>9, OneLifeKinds

(* In its only life, unless it is killed, the controller begins each node   *)
(* once, after its parents settled in its favour, and its result follows    *)
(* from how the nodes ended: for every graph, with retries, timeouts,       *)
(* failing calls and users.                                                 *)
THEOREM RunImplementsWorkflow ==
  MaxLives <= 1 /\ MayCrash = FALSE /\ Spec => ImplementsWorkflow
<1> SUFFICES ASSUME MaxLives <= 1, MayCrash = FALSE  PROVE Spec => ImplementsWorkflow
  OBVIOUS
<1>1. Init => Promise!Init
  <2>1. Init => \A n \in Nodes : Phase(n) = "waiting"
    BY StatusFacts DEF Init, AllPending, AllZero, Phase
  <2> QED  BY <2>1 DEF Init, Result, Promise!Init
<1>2. OneLifeInv /\ [Next]_vars => [Promise!Next]_<<Phases, Result>>
  BY StepIsAbstract DEF Abstract
<1>3. Spec => []OneLifeInv
  BY OneLifeInductive
<1> QED  BY <1>1, <1>2, <1>3, PTL DEF Spec, Promise!Spec, Phases, ImplementsWorkflow
=============================================================================
