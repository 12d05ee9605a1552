------------------------ MODULE ExperimentsTableProofs ------------------------
(***************************************************************************)
(* The table of tasks, for any tasks, filters, sessions and size of a      *)
(* page: the types of its state, the lock of the manual refresh, the       *)
(* spinners, the rows that match the query, and where the next page starts.*)
(***************************************************************************)
EXTENDS ExperimentsTable, Induction, SequenceTheorems, FiniteSetTheorems

(* What is known of a request by its phase and by the effect that sent it.  *)
IsRequest(r) == r \in Requests /\ (r.sid = None <=> r.phase = "sent")

RefetchOK(r) == r.type \in Refetching /\ r.scroll = None /\ r.whole /\ r.start = 0
RefreshOK(r) == r.type \in {"auto", "manual"} /\ r.whole /\ r.start = 0
NextOK(r) == r.type = "next" /\ ~r.whole /\ r.shown # None /\ r.shown # <<>>

RequestsOK ==
  /\ \A k \in Kinds : request[k] # None => IsRequest(request[k])
  /\ request["refetch"] # None => RefetchOK(request["refetch"])
  /\ request["refresh"] # None => RefreshOK(request["refresh"])
  /\ request["next"] # None => NextOK(request["next"])
  /\ cancelled # None => IsRequest(cancelled) /\ cancelled.scroll # None

Typed == TypeOK /\ RequestsOK

-----------------------------------------------------------------------------
(* The rows that a request was answered with match its query, and a fetch   *)
(* that was sent after the last change of the query asks for it.            *)
OfQuery(rows, q) == Rows(rows) \subseteq Matches[q[1]] \intersect Matches[q[2]]

-----------------------------------------------------------------------------
(* The scroll of a refetch is nobody else's, and holds what it has read.    *)
Written(r) == r.sid \in DOMAIN position => position[r.sid] = r.start + Len(r.data)

Apart(r) ==
  /\ r.sid # scrollId
  /\ \A k \in Kinds \ {"refetch"} :
       request[k] # None => r.sid \notin {request[k].scroll, request[k].sid}
  /\ cancelled # None => r.sid \notin {cancelled.scroll, cancelled.sid}

RefetchInv ==
  LET r == request["refetch"]
  IN r # None /\ r.phase # "sent" => Apart(r) /\ (r.phase = "answered" => Written(r))

(* Undisturbed, there is one request at most, and it knows the table as it  *)
(* is: what it has asked of the server goes with the rows.                  *)
OnlyOne ==
  /\ cancelled = None
  /\ \A k, l \in Kinds : request[k] # None /\ request[l] # None => k = l

Knows(r) ==
  /\ r.scroll = scrollId /\ r.pending = refreshList
  /\ experiments # None => r.shown = experiments
  /\ r.phase = "answered" => Written(r)

Continued == scrollId \in DOMAIN position => position[scrollId] = Len(experiments)

NextInv ==
  LET r == request["next"]
  IN IF r = None \/ r.phase = "sent" THEN Continued
     ELSE r.sid = scrollId => r.start = Len(experiments)

-----------------------------------------------------------------------------
(* The helpers.  What filter keeps of a sequence. *)
KeptSteps(s, S, f) ==
  f = [i \in 0..Len(s) |->
         IF i = 0 THEN <<>>
         ELSE IF s[i] \in S THEN Append(f[i - 1], s[i]) ELSE f[i - 1]]

LEMMA KeptNext ==
  ASSUME NEW s, NEW S, NEW f, Len(s) \in Nat, KeptSteps(s, S, f)
  PROVE  /\ f[0] = <<>>
         /\ \A k \in 0..Len(s) : k # 0 =>
              f[k] = IF s[k] \in S THEN Append(f[k - 1], s[k]) ELSE f[k - 1]
<1>1. 0 \in 0..Len(s)
  OBVIOUS
<1> QED BY <1>1 DEF KeptSteps

LEMMA KeptExists ==
  ASSUME NEW T, NEW s \in Seq(T), NEW S
  PROVE  \E f : KeptSteps(s, S, f) /\ Only(s, S) = f[Len(s)]
<1> DEFINE step(i, t) == IF i \in 1..Len(s) /\ s[i] \in S THEN Append(t, s[i]) ELSE t
           F == [p \in Nat \X Seq(T) |-> step(p[1], p[2])]
<1>1. Len(s) \in Nat /\ DOMAIN s = 1..Len(s) /\ \A i \in 1..Len(s) : s[i] \in T
  BY LenProperties, ElementOfSeq
<1>2. F \in [Nat \X Seq(T) -> Seq(T)]
  <2> SUFFICES ASSUME NEW i \in Nat, NEW t \in Seq(T) PROVE step(i, t) \in Seq(T)
    OBVIOUS
  <2> QED BY <1>1, AppendProperties
<1>3. <<>> \in Seq(T)
  BY EmptySeq
<1> HIDE DEF F
<1>4. PICK f \in [0..Len(s) -> Seq(T)] : Recursion(f, Len(s), <<>>, F)
  BY <1>1, <1>2, <1>3, RecursionExists
<1>5. \A i \in 0..Len(s) : i # 0 =>
        /\ i \in Nat /\ i \in 1..Len(s) /\ f[i - 1] \in Seq(T)
        /\ F[<<i, f[i - 1]>>] = step(i, f[i - 1])
  BY <1>1 DEF F
<1> DEFINE Is(g) == g = [i \in 0..Len(s) |->
                           IF i = 0 THEN <<>>
                           ELSE IF s[i] \in S THEN Append(g[i - 1], s[i]) ELSE g[i - 1]]
<1>6. \A g : Is(g) <=> KeptSteps(s, S, g)
  BY DEF KeptSteps
<1>7. KeptSteps(s, S, f)
  BY <1>1, <1>4, <1>5 DEF Recursion, KeptSteps
<1>8. Is(CHOOSE g : Is(g))
  <2>1. Is(f)
    BY <1>6, <1>7
  <2> HIDE DEF Is
  <2> QED BY <2>1
<1>9. Only(s, S) = (CHOOSE g : Is(g))[Len(s)]
  BY DEF Only
<1> HIDE DEF Is
<1> QED BY <1>6, <1>8, <1>9

LEMMA OnlyForms ==
  ASSUME NEW T, NEW s \in Seq(T), NEW S
  PROVE  /\ Only(s, S) \in Seq(T)
         /\ Rows(Only(s, S)) \subseteq Rows(s) \intersect S
         /\ Rows(s) \subseteq S => Only(s, S) = s
<1>1. PICK f : KeptSteps(s, S, f) /\ Only(s, S) = f[Len(s)]
  BY KeptExists
<1>2. Len(s) \in Nat /\ DOMAIN s = 1..Len(s) /\ \A i \in 1..Len(s) : s[i] \in T
  BY LenProperties, ElementOfSeq
<1> DEFINE Kept(t, n) ==
             /\ t \in Seq(T) /\ Rows(t) \subseteq Rows(s) \intersect S
             /\ Rows(s) \subseteq S => Len(t) = n /\ \A i \in 1..n : t[i] = s[i]
           U == { n \in Nat : n <= Len(s) => Kept(f[n], n) }
<1>3. 0 \in U
  <2>1. f[0] = <<>>
    BY <1>1, <1>2, KeptNext
  <2>2. <<>> \in Seq(T) /\ Len(<<>>) = 0 /\ Rows(<<>>) = {}
    BY EmptySeq, LenProperties DEF Rows
  <2>3. Kept(f[0], 0)
    BY <2>1, <2>2
  <2> HIDE DEF Kept
  <2> QED BY <2>3
<1>4. ASSUME NEW n \in Nat, n \in U PROVE n + 1 \in U
  <2> SUFFICES ASSUME n + 1 <= Len(s) PROVE Kept(f[n + 1], n + 1)
    OBVIOUS
  <2>1. Kept(f[n], n)
    BY <1>2, <1>4
  <2>2. n + 1 \in 1..Len(s) /\ n + 1 \in 0..Len(s) /\ n + 1 # 0 /\ n + 1 - 1 = n
    BY <1>2
  <2>3. f[n + 1] = IF s[n + 1] \in S THEN Append(f[n], s[n + 1]) ELSE f[n]
    BY <1>1, <1>2, <2>2, KeptNext
  <2>4. s[n + 1] \in Rows(s) /\ s[n + 1] \in T
    BY <1>2, <2>2 DEF Rows
  <2>5. CASE s[n + 1] \notin S
    BY <2>1, <2>3, <2>4, <2>5
  <2>6. CASE s[n + 1] \in S
    <3>1. /\ Append(f[n], s[n + 1]) \in Seq(T) /\ Len(Append(f[n], s[n + 1])) = Len(f[n]) + 1
          /\ \A i \in 1..Len(f[n]) : Append(f[n], s[n + 1])[i] = f[n][i]
          /\ Append(f[n], s[n + 1])[Len(f[n]) + 1] = s[n + 1]
      BY <2>1, <2>4, AppendProperties
    <3>2. Rows(Append(f[n], s[n + 1])) \subseteq Rows(f[n]) \union {s[n + 1]}
      BY <2>1, <3>1, LenProperties DEF Rows
    <3> QED BY <2>1, <2>3, <2>4, <2>6, <3>1, <3>2
  <2> QED BY <2>5, <2>6
<1> HIDE DEF U
<1>5. Nat \subseteq U
  BY <1>3, <1>4, NatSetInduction
<1>6. Kept(f[Len(s)], Len(s))
  BY <1>2, <1>5 DEF U
<1>7. Rows(s) \subseteq S => f[Len(s)] = s
  BY <1>6, SeqEqual
<1> QED BY <1>1, <1>6, <1>7

(* A page of the tasks a query selects. *)
LEMMA PageForms ==
  ASSUME tasks \in Seq(Task), NEW q, NEW start \in Nat, NEW size \in Nat
  PROVE  PageOf(q, start, size) \in Seq(Task) /\ OfQuery(PageOf(q, start, size), q)
<1> DEFINE all == Selected(q)
           m == IF start + size < Len(all) THEN start + size ELSE Len(all)
<1>1. all \in Seq(Task) /\ Rows(all) \subseteq Matches[q[1]] \intersect Matches[q[2]]
  BY OnlyForms DEF Selected
<1>2. PageOf(q, start, size) = SubSeq(all, start + 1, m)
  BY DEF PageOf
<1> HIDE DEF all
<1>3. Len(all) \in Nat /\ DOMAIN all = 1..Len(all)
  BY <1>1, LenProperties
<1>4. m \in Int /\ start + 1 \in Int /\ m <= Len(all)
  BY <1>3
<1> HIDE DEF m
<1>5. \A i \in start + 1..m : all[i] \in Task /\ all[i] \in Rows(all)
  BY <1>1, <1>3, <1>4, ElementOfSeq DEF Rows
<1> DEFINE page == SubSeq(all, start + 1, m)
<1>6. /\ page \in Seq(Task)
      /\ Len(page) = IF start + 1 <= m THEN m - (start + 1) + 1 ELSE 0
      /\ \A i \in 1..m - (start + 1) + 1 : page[i] = all[start + 1 + i - 1]
  BY <1>4, <1>5, SubSeqProperties
<1> HIDE DEF page
<1>7. Rows(page) \subseteq Rows(all)
  <2> SUFFICES ASSUME NEW i \in DOMAIN page PROVE page[i] \in Rows(all)
    BY DEF Rows
  <2>1. i \in 1..Len(page)
    BY <1>6, LenProperties
  <2>2. i \in 1..m - (start + 1) + 1 /\ start + 1 + i - 1 \in start + 1..m
    BY <1>4, <1>6, <2>1
  <2> QED BY <1>5, <1>6, <2>2
<1> QED BY <1>1, <1>2, <1>6, <1>7 DEF OfQuery, page

-----------------------------------------------------------------------------
(* Scroll ids.  Eight names leave one to be drawn. *)
Nine(a, b, c, d, e, f, g, h, i) == {a, b, c, d, e, f, g, h, i}

AtMost(R, m) == IsFiniteSet(R) /\ Cardinality(R) <= m

LEMMA OneMore ==
  ASSUME NEW R, NEW m \in Nat, AtMost(R, m), NEW x
  PROVE  AtMost(R \union {x}, m + 1)
<1>1. Cardinality(R) \in Nat
  BY FS_CardinalityType DEF AtMost
<1> QED BY <1>1, FS_AddElement DEF AtMost

LEMMA NotAllNamed ==
  ASSUME NEW a, NEW b, NEW c, NEW d, NEW e, NEW f, NEW g, NEW h, NEW i,
         None \in Nine(a, b, c, d, e, f, g, h, i)
  PROVE  \E s \in Scrolls : s \notin Nine(a, b, c, d, e, f, g, h, i)
<1> DEFINE R1 == {a}
           R2 == R1 \union {b}
           R3 == R2 \union {c}
           R4 == R3 \union {d}
           R5 == R4 \union {e}
           R6 == R5 \union {f}
           R7 == R6 \union {g}
           R8 == R7 \union {h}
           R9 == R8 \union {i}
           S == Nine(a, b, c, d, e, f, g, h, i)
<1>1. S = R9
  BY DEF Nine
<1>2. AtMost(R1, 1)
  <2>1. IsFiniteSet(R1) /\ Cardinality(R1) = 1
    BY FS_Singleton
  <2> QED BY <2>1 DEF AtMost
<1> HIDE DEF R1
<1>3. AtMost(R2, 2)
  <2>1. AtMost(R2, 1 + 1)
    BY <1>2, OneMore
  <2> QED BY <2>1
<1> HIDE DEF R2
<1>4. AtMost(R3, 3)
  <2>1. AtMost(R3, 2 + 1)
    BY <1>3, OneMore
  <2> QED BY <2>1
<1> HIDE DEF R3
<1>5. AtMost(R4, 4)
  <2>1. AtMost(R4, 3 + 1)
    BY <1>4, OneMore
  <2> QED BY <2>1
<1> HIDE DEF R4
<1>6. AtMost(R5, 5)
  <2>1. AtMost(R5, 4 + 1)
    BY <1>5, OneMore
  <2> QED BY <2>1
<1> HIDE DEF R5
<1>7. AtMost(R6, 6)
  <2>1. AtMost(R6, 5 + 1)
    BY <1>6, OneMore
  <2> QED BY <2>1
<1> HIDE DEF R6
<1>8. AtMost(R7, 7)
  <2>1. AtMost(R7, 6 + 1)
    BY <1>7, OneMore
  <2> QED BY <2>1
<1> HIDE DEF R7
<1>9. AtMost(R8, 8)
  <2>1. AtMost(R8, 7 + 1)
    BY <1>8, OneMore
  <2> QED BY <2>1
<1> HIDE DEF R8
<1>10. AtMost(R9, 9)
  <2>1. AtMost(R9, 8 + 1)
    BY <1>9, OneMore
  <2> QED BY <2>1
<1> HIDE DEF R9
<1> HIDE DEF S
<1>11. IsFiniteSet(S \ {None}) /\ Cardinality(S \ {None}) <= 8
  <2>1. None \in S
    BY DEF S, Nine
  <2>2. IsFiniteSet(S \ {None}) /\ Cardinality(S \ {None}) = Cardinality(S) - 1
    BY <1>1, <1>10, <2>1, FS_RemoveElement DEF AtMost
  <2> QED BY <1>1, <1>10, <2>2, FS_CardinalityType DEF AtMost
<1>12. None \notin Scrolls
  BY NoneAssumption
<1>13. ASSUME Scrolls \subseteq S PROVE FALSE
  <2>1. Scrolls \subseteq S \ {None}
    BY <1>12, <1>13
  <2>2. IsFiniteSet(Scrolls) /\ Cardinality(Scrolls) <= Cardinality(S \ {None})
    BY <1>11, <2>1, FS_Subset
  <2> QED BY <1>11, <2>2, ScrollsAssumption, FS_CardinalityType
<1> QED BY <1>13 DEF S, Nine

(* So there is one for a request that has none yet. *)
RequestsTyped ==
  /\ request \in [Kinds -> Requests \union {None}] /\ cancelled \in Requests \union {None}
  /\ RequestsOK

Unnamed(r) == r # None /\ r.sid = None

LEMMA FreshExists ==
  ASSUME RequestsTyped, Unnamed(cancelled) \/ \E k \in Kinds : Unnamed(request[k])
  PROVE  \E s \in Scrolls : s \notin Named
<1> DEFINE scroll(r) == IF r = None THEN None ELSE r.scroll
           sid(r) == IF r = None THEN None ELSE r.sid
           r1 == request["refetch"]
           r2 == request["refresh"]
           r3 == request["next"]
           S == Nine(scrollId, scroll(cancelled), scroll(r1), scroll(r2), scroll(r3),
                     sid(cancelled), sid(r1), sid(r2), sid(r3))
<1>1. None \in S
  BY DEF Kinds, Unnamed, Nine
<1>2. \E s \in Scrolls : s \notin S
  <2> HIDE DEF scroll, sid, r1, r2, r3
  <2> QED BY <1>1, NotAllNamed
<1>3. Named \subseteq S
  BY DEF Named, Kinds, Nine
<1> QED BY <1>2, <1>3

(* What a read makes of a request, *)
LEMMA ReadForms ==
  ASSUME TypeOK, NEW r \in Requests, \E s \in Scrolls : s \notin Named
  PROVE  /\ Read(r) \in Requests /\ IsRequest(Read(r))
         /\ Read(r) = [r EXCEPT !.phase = "read", !.sid = Read(r).sid,
                                !.start = Read(r).start, !.data = Read(r).data]
         /\ Read(r).sid \notin Named \/ (Read(r).sid = r.scroll /\ r.scroll # None)
         /\ r.whole => Read(r).start = 0
         /\ ~r.whole /\ Read(r).sid = r.scroll /\ r.scroll \in Named =>
              r.scroll \in DOMAIN position /\ Read(r).start = position[r.scroll]
         /\ OfQuery(Read(r).data, r.query)
<1> DEFINE known == r.scroll # None /\ r.scroll \in DOMAIN position
           at == IF known THEN position[r.scroll] ELSE 0
           start == IF r.whole THEN 0 ELSE at
           size == IF r.whole /\ at > r.size THEN at ELSE r.size
           Fresh == CHOOSE s \in Scrolls : s \notin Named
           sid == IF known THEN r.scroll ELSE Fresh
           data == PageOf(r.query, start, size)
<1>1. at \in Nat /\ r.size \in Nat /\ r.whole \in BOOLEAN
  BY DEF TypeOK, Requests
<1>2. start \in Nat /\ size \in Nat
  BY <1>1
<1>3. Fresh \in Scrolls /\ Fresh \notin Named
  OBVIOUS
<1>4. sid \in Scrolls
  BY <1>3 DEF TypeOK
<1>5. data \in Seq(Task) /\ OfQuery(data, r.query)
  BY <1>2, PageForms DEF TypeOK
<1>6. Read(r) = [r EXCEPT !.phase = "read", !.sid = sid, !.start = start, !.data = data]
  BY DEF Read
<1>7. sid \notin Named \/ (sid = r.scroll /\ r.scroll # None)
  BY <1>3
<1>8. ~r.whole /\ sid = r.scroll /\ r.scroll \in Named =>
         r.scroll \in DOMAIN position /\ start = position[r.scroll]
  BY <1>3
<1>9. None \notin Scrolls
  BY NoneAssumption
<1>10. r.whole => start = 0
  OBVIOUS
<1> HIDE DEF start, size, sid, data
<1>11. Read(r) \in Requests
  BY <1>2, <1>4, <1>5, <1>6 DEF Requests
<1>12. Read(r).sid = sid /\ Read(r).start = start /\ Read(r).data = data /\ Read(r).phase = "read"
  BY <1>6 DEF Requests
<1>13. IsRequest(Read(r))
  BY <1>4, <1>9, <1>11, <1>12 DEF IsRequest
<1> QED BY <1>5, <1>6, <1>7, <1>8, <1>10, <1>11, <1>12, <1>13

(* and its write of the positions. *)
LEMMA WriteForms ==
  ASSUME TypeOK, NEW r \in Requests, r.sid \in Scrolls, Scrolled(r)
  PROVE  /\ DOMAIN position' \subseteq Scrolls /\ \A s \in DOMAIN position' : position'[s] \in Nat
         /\ position'[r.sid] = r.start + Len(r.data)
         /\ \A s \in DOMAIN position' : s # r.sid =>
              s \in DOMAIN position /\ position'[s] = position[s]
<1>1. r.start \in Nat /\ Len(r.data) \in Nat
  BY LenProperties DEF Requests
<1>2. DOMAIN position' = (DOMAIN position \intersect Named) \union {r.sid}
  BY DEF Scrolled
<1>3. /\ position'[r.sid] = r.start + Len(r.data)
      /\ \A s \in DOMAIN position' : s # r.sid => position'[s] = position[s]
  BY DEF Scrolled
<1> QED BY <1>1, <1>2, <1>3 DEF TypeOK

-----------------------------------------------------------------------------
(* Types. *)
RequestOf(kind, r) ==
  /\ IsRequest(r)
  /\ kind = "refetch" => RefetchOK(r)
  /\ kind = "refresh" => RefreshOK(r)
  /\ kind = "next" => NextOK(r)

LEMMA RequestsAre ==
  RequestsTyped <=>
    /\ request = [k \in Kinds |-> request[k]]
    /\ \A k \in Kinds : request[k] # None => RequestOf(k, request[k])
    /\ cancelled # None => IsRequest(cancelled) /\ cancelled.scroll # None
BY DEF RequestsTyped, RequestsOK, RequestOf, IsRequest, Kinds

LEMMA SwitchTyped ==
  ASSUME RequestsTyped, NEW kind \in Kinds, NEW r, RequestOf(kind, r), Switch(kind, r)
  PROVE  RequestsTyped'
<1>1. request' = [request EXCEPT ![kind] = r]
  BY DEF Switch
<1>2. request' = [k \in Kinds |-> request'[k]]
      /\ \A k \in Kinds : request'[k] = IF k = kind THEN r ELSE request[k]
  BY <1>1, RequestsAre
<1>3. cancelled' # None => IsRequest(cancelled') /\ cancelled'.scroll # None
  <2>1. CASE cancelled' = cancelled
    BY <2>1, RequestsAre
  <2>2. CASE /\ request[kind] # None /\ request[kind].scroll # None
             /\ cancelled' = [request[kind] EXCEPT !.shown = None, !.selected = FALSE]
    BY <2>2, RequestsAre DEF RequestOf, IsRequest, Requests
  <2> QED BY <2>1, <2>2 DEF Switch
<1>4. \A k \in Kinds : request'[k] # None => RequestOf(k, request'[k])
  BY <1>2, RequestsAre
<1> HIDE DEF RequestsTyped
<1>5. RequestsTyped' <=>
    /\ request' = [k \in Kinds |-> request'[k]]
    /\ \A k \in Kinds : request'[k] # None => RequestOf(k, request'[k])
    /\ cancelled' # None => IsRequest(cancelled') /\ cancelled'.scroll # None
  BY DEF RequestsTyped, RequestsOK, RequestOf, IsRequest, Kinds, NextOK, RefreshOK, RefetchOK
<1> QED BY <1>2, <1>3, <1>4, <1>5

LEMMA DoneTyped ==
  ASSUME RequestsTyped, NEW kind \in Kinds, Done(kind), cancelled' = cancelled
  PROVE  RequestsTyped'
BY DEF RequestsTyped, RequestsOK, RequestOf, IsRequest, Kinds, NextOK, RefreshOK, RefetchOK, Done

LEMMA FetchForms ==
  ASSUME TypeOK, NEW whole \in BOOLEAN, NEW scroll \in Scrolls \union {None}, NEW size \in Nat,
         NEW type \in Refetching \union {"auto", "manual", "next"}
  PROVE  /\ Fetch(type, scroll, whole, size) \in Requests
         /\ FetchOn(type, whole) \in Requests
<1>1. Query \in Filter \X Filter
  BY DEF TypeOK, Query
<1>2. /\ experiments \in Seq(Task) \union {None} /\ scrollId \in Scrolls \union {None}
      /\ refreshList \in BOOLEAN /\ selectedExperiment \in BOOLEAN
  BY DEF TypeOK
<1>3. PageSize \in Nat /\ <<>> \in Seq(Task)
  BY TableAssumption, EmptySeq
<1> HIDE DEF Query
<1>4. Fetch(type, scroll, whole, size) \in Requests
  BY <1>1, <1>3 DEF Fetch, Requests
<1>5. Fetch(type, scrollId, whole, PageSize) \in Requests
  BY <1>1, <1>2, <1>3 DEF Fetch, Requests
<1>6. FetchOn(type, whole) \in Requests
  BY <1>2, <1>5 DEF FetchOn, Requests
<1> QED BY <1>4, <1>6

LEMMA FetchIs ==
  ASSUME TypeOK
  PROVE  /\ \A a \in Audits : RequestOf("refetch", Fetch(a.type, None, TRUE, a.size))
         /\ \A type \in {"auto", "manual"} : RequestOf("refresh", FetchOn(type, TRUE))
         /\ experiments # None /\ experiments # <<>> => RequestOf("next", FetchOn("next", FALSE))
<1> USE DEF RequestOf, IsRequest, RefetchOK, RefreshOK, NextOK
<1>1. ASSUME NEW a \in Audits PROVE RequestOf("refetch", Fetch(a.type, None, TRUE, a.size))
  <2>1. a.type \in Refetching /\ a.size \in Nat
    BY DEF Audits
  <2>2. Fetch(a.type, None, TRUE, a.size) \in Requests
    BY <2>1, FetchForms
  <2> QED BY <2>1, <2>2 DEF Fetch
<1>2. ASSUME NEW type \in {"auto", "manual", "next"}, NEW whole \in BOOLEAN
      PROVE  /\ FetchOn(type, whole) \in Requests
             /\ FetchOn(type, whole).sid = None /\ FetchOn(type, whole).phase = "sent"
             /\ FetchOn(type, whole).type = type /\ FetchOn(type, whole).whole = whole
             /\ FetchOn(type, whole).start = 0 /\ FetchOn(type, whole).shown = experiments
  <2>1. FetchOn(type, whole) \in Requests
    BY FetchForms, TableAssumption
  <2> QED BY <2>1 DEF FetchOn, Fetch
<1>3. \A type \in {"auto", "manual"} : RequestOf("refresh", FetchOn(type, TRUE))
  BY <1>2
<1>4. experiments # None /\ experiments # <<>> => RequestOf("next", FetchOn("next", FALSE))
  BY <1>2
<1> QED BY <1>1, <1>3, <1>4

(* The server's steps for the request of an effect. *)
SameRequest(r, q) ==
  /\ r.type = q.type /\ r.scroll = q.scroll /\ r.whole = q.whole /\ r.size = q.size
  /\ r.query = q.query /\ r.pending = q.pending /\ r.shown = q.shown /\ r.selected = q.selected

LEMMA ReadServed ==
  ASSUME TypeOK, RequestsTyped, NEW k \in Kinds, ServeRead(k)
  PROVE  LET r == request'[k]
         IN  /\ request' = [request EXCEPT ![k] = r] /\ request[k] # None
             /\ r = Read(request[k]) /\ r # None
             /\ RequestOf(k, r) /\ SameRequest(r, request[k]) /\ r.phase = "read"
             /\ r.sid \notin Named \/ (r.sid = r.scroll /\ r.scroll # None)
             /\ ~r.whole /\ r.sid = r.scroll /\ r.scroll \in Named =>
                  r.scroll \in DOMAIN position /\ r.start = position[r.scroll]
             /\ OfQuery(r.data, r.query)
<1> DEFINE q == request[k]
           r == Read(q)
<1>1. /\ q # None /\ q.phase = "sent" /\ request' = [request EXCEPT ![k] = r]
  BY DEF ServeRead
<1>2. RequestOf(k, q) /\ q.sid = None /\ q \in Requests
  BY <1>1, RequestsAre DEF RequestOf, IsRequest
<1>3. \E s \in Scrolls : s \notin Named
  BY <1>1, <1>2, FreshExists DEF Unnamed
<1>4. /\ r \in Requests /\ IsRequest(r)
      /\ r = [q EXCEPT !.phase = "read", !.sid = r.sid, !.start = r.start, !.data = r.data]
      /\ r.sid \notin Named \/ (r.sid = q.scroll /\ q.scroll # None)
      /\ q.whole => r.start = 0
      /\ ~q.whole /\ r.sid = q.scroll /\ q.scroll \in Named =>
           q.scroll \in DOMAIN position /\ r.start = position[q.scroll]
      /\ OfQuery(r.data, q.query)
  BY <1>2, <1>3, ReadForms
<1> HIDE DEF r
<1>5. SameRequest(r, q) /\ r.phase = "read"
  BY <1>2, <1>4 DEF Requests, SameRequest
<1>6. request'[k] = r /\ r # None
  <2>1. request'[k] = r
    BY <1>1 DEF RequestsTyped
  <2> QED BY <1>4, <2>1, NoneAssumption
<1>7. RequestOf(k, r)
  BY <1>2, <1>4, <1>5 DEF RequestOf, RefetchOK, RefreshOK, NextOK, SameRequest
<1> QED BY <1>1, <1>4, <1>5, <1>6, <1>7 DEF SameRequest, r

LEMMA WriteServed ==
  ASSUME TypeOK, RequestsTyped, NEW k \in Kinds, ServeWrite(k)
  PROVE  LET r == request'[k]
         IN  /\ request' = [request EXCEPT ![k] = r] /\ r # None
             /\ request[k] # None /\ request[k] \in Requests /\ request[k].phase = "read"
             /\ request[k].sid \in Scrolls
             /\ RequestOf(k, r) /\ SameRequest(r, request[k]) /\ r.phase = "answered"
             /\ r.sid = request[k].sid /\ r.start = request[k].start /\ r.data = request[k].data
<1> DEFINE q == request[k]
           r == [q EXCEPT !.phase = "answered"]
<1>1. q # None /\ q.phase = "read" /\ request' = [request EXCEPT ![k] = r]
  BY DEF ServeWrite
<1>2. RequestOf(k, q) /\ q \in Requests /\ q.sid \in Scrolls
  <2>1. RequestOf(k, q)
    BY <1>1, RequestsAre
  <2> QED BY <1>1, <2>1 DEF RequestOf, IsRequest, Requests
<1>3. /\ SameRequest(r, q) /\ r.phase = "answered" /\ r \in Requests
      /\ r.sid = q.sid /\ r.start = q.start /\ r.data = q.data
  BY <1>2 DEF Requests, SameRequest
<1> HIDE DEF r
<1>4. request'[k] = r /\ r # None
  <2>1. request'[k] = r
    BY <1>1 DEF RequestsTyped
  <2> QED BY <1>3, <2>1, NoneAssumption
<1>5. RequestOf(k, r)
  <2>1. r.sid # None
    BY <1>2, <1>3, NoneAssumption
  <2> QED BY <1>2, <1>3, <2>1 DEF RequestOf, IsRequest, RefetchOK, RefreshOK, NextOK, SameRequest
<1> QED BY <1>1, <1>2, <1>3, <1>4, <1>5

(* Setting one request. *)
LEMMA OneTyped ==
  ASSUME RequestsTyped, NEW k \in Kinds, NEW r, RequestOf(k, r),
         request' = [request EXCEPT ![k] = r], cancelled' = cancelled
  PROVE  RequestsTyped'
<1>1. request' = [l \in Kinds |-> request'[l]]
      /\ \A l \in Kinds : request'[l] = IF l = k THEN r ELSE request[l]
  BY RequestsAre
<1>2. \A l \in Kinds : request'[l] # None => RequestOf(l, request'[l])
  BY <1>1, RequestsAre
<1>3. cancelled' # None => IsRequest(cancelled') /\ cancelled'.scroll # None
  BY RequestsAre
<1> QED BY <1>1, <1>2, <1>3 DEF RequestsTyped, RequestsOK, RequestOf, IsRequest, Kinds, NextOK,
           RefreshOK, RefetchOK

LEMMA RefreshTyped ==
  ASSUME TypeOK, RequestsTyped, NEW auto \in BOOLEAN, RefreshExperiments(auto)
  PROVE  RequestsTyped' /\ lockRefresh' \in BOOLEAN /\ disturbed' \in BOOLEAN
<1>1. CASE lockRefresh
  BY <1>1 DEF RefreshExperiments, TypeOK, RequestsTyped, RequestsOK
<1>2. CASE ~lockRefresh
  <2> DEFINE r == FetchOn(IF auto THEN "auto" ELSE "manual", TRUE)
  <2>1. lockRefresh' = ~auto /\ Switch("refresh", r)
    BY <1>2 DEF RefreshExperiments
  <2>2. RequestOf("refresh", r)
    BY FetchIs
  <2> HIDE DEF r
  <2>3. RequestsTyped'
    BY <2>1, <2>2, SwitchTyped DEF Kinds
  <2> QED BY <2>1, <2>3 DEF Switch, TypeOK
<1> QED BY <1>1, <1>2

LEMMA ReFetchTyped ==
  ASSUME TypeOK, NEW types \in SUBSET Refetching, NEW last \in Refetching, NEW size \in Nat,
         ReFetch(types, last, size)
  PROVE  refreshActions' \subseteq Refetching /\ audit' \in Audits
BY DEF ReFetch, Audits, TypeOK

LEMMA FetchAgainTyped ==
  ASSUME TypeOK, NEW r \in Requests, r.shown # None, FetchAgain(r)
  PROVE  /\ refreshActions' \subseteq Refetching /\ audit' \in Audits
         /\ refreshList' = FALSE
BY LenProperties DEF FetchAgain, ReFetch, Audits, Refetching, Requests, TypeOK

LEMMA RefreshedTyped ==
  ASSUME TypeOK, NEW r \in Requests
  PROVE  RefreshedRows(r) \in Seq(Task) \union {None}
BY OnlyForms DEF RefreshedRows, Requests, TypeOK

LEMMA TypedStep == Typed /\ [Next]_vars => Typed'
<1> SUFFICES ASSUME Typed, [Next]_vars PROVE Typed'
  OBVIOUS
<1> DEFINE ViewTyped == /\ experiments \in Seq(Task) \union {None}
                        /\ scrollId \in Scrolls \union {None}
                        /\ refreshList \in BOOLEAN /\ noMoreExperiment \in BOOLEAN
           RestTyped ==
             /\ selectedExperiment \in BOOLEAN /\ lockRefresh \in BOOLEAN /\ late \in BOOLEAN
             /\ disturbed \in BOOLEAN /\ unanswered \in BOOLEAN /\ autoRefresh \in BOOLEAN
             /\ loading \subseteq Refetching \union {"getNextExperiments", "selectAllExperiments"}
             /\ url \in Filter \union {None} /\ filter \in Filter /\ search \in Filter
             /\ refreshActions \subseteq Refetching /\ audit \in Audits \union {None}
             /\ creating \in {"no", "sent", "created"} /\ archiving \in Task \union {None}
             /\ selecting \in BOOLEAN /\ ended \subseteq {"createExperiment", "selectAll"}
           PositionTyped == /\ DOMAIN position \subseteq Scrolls
                            /\ \A s \in DOMAIN position : position[s] \in Nat
<1>1. TypeOK /\ RequestsTyped
  BY DEF Typed, TypeOK, RequestsTyped
<1>2. /\ tasks \in Seq(Task) /\ PositionTyped /\ ViewTyped /\ RestTyped
  BY <1>1 DEF TypeOK
<1>3. ASSUME tasks' \in Seq(Task), PositionTyped', ViewTyped', RestTyped', RequestsTyped'
      PROVE  Typed'
  BY <1>3 DEF Typed, TypeOK, RequestsTyped
<1>4. \A r \in Requests : r.data \in Seq(Task) /\ Len(r.data) \in Nat /\ r.sid \in Scrolls \union {None}
  BY LenProperties DEF Requests
<1>5. request \in [Kinds -> Requests \union {None}] /\ cancelled \in Requests \union {None}
  BY <1>1 DEF RequestsTyped
<1>6. PageSize \in Nat
  BY TableAssumption
<1>30. request' = request /\ cancelled' = cancelled => RequestsTyped'
  BY <1>1 DEF RequestsTyped, RequestsOK
<1> HIDE DEF ViewTyped, RestTyped, PositionTyped
<1> USE <1>1, <1>2, <1>3, <1>30
<1> USE DEF server, view, query, others, history
<1>7. CASE FollowUrl \/ TableFilterChanged \/ GlobalFilterChanged
  <2>1. UNCHANGED <<tasks, position, view, request, cancelled>>
    BY <1>7 DEF FollowUrl, TableFilterChanged, GlobalFilterChanged
  <2>2. /\ filter' \in Filter /\ search' \in Filter /\ url' \in Filter \union {None}
        /\ loading' \subseteq Refetching \union {"getNextExperiments", "selectAllExperiments"}
        /\ refreshActions' \subseteq Refetching /\ audit' \in Audits
    <3>1. \E types \in SUBSET Refetching, last \in Refetching : ReFetch(types, last, PageSize)
      BY <1>7 DEF FollowUrl, TableFilterChanged, GlobalFilterChanged, Refetching
    <3>2. refreshActions' \subseteq Refetching /\ audit' \in Audits
      BY <1>6, <3>1, ReFetchTyped
    <3> QED BY <1>7, <3>2 DEF FollowUrl, TableFilterChanged, GlobalFilterChanged, Refetching, RestTyped
  <2>3. UNCHANGED <<selectedExperiment, lockRefresh, others, history, autoRefresh>>
    BY <1>7 DEF FollowUrl, TableFilterChanged, GlobalFilterChanged
  <2> QED BY <2>1, <2>2, <2>3 DEF RestTyped, ViewTyped, PositionTyped
<1>8. CASE OpenProject \/ SelectExperiment
  <2>1. UNCHANGED <<tasks, position, request, cancelled>> /\ ViewTyped'
    BY <1>8 DEF OpenProject, SelectExperiment, ViewTyped
  <2>2. RestTyped'
    BY <1>8 DEF OpenProject, SelectExperiment, RestTyped
  <2> QED BY <2>1, <2>2 DEF PositionTyped
<1>9. CASE SendRefetch
  <2>1. /\ audit \in Audits /\ Switch("refetch", Fetch(audit.type, None, TRUE, audit.size))
        /\ audit' = None
        /\ UNCHANGED <<server, view, selectedExperiment, loading, query, refreshActions,
                 lockRefresh, others, late, unanswered, autoRefresh, budget>>
    BY <1>9 DEF SendRefetch, RestTyped
  <2>2. RequestsTyped'
    BY <2>1, FetchIs, SwitchTyped DEF Kinds
  <2> QED BY <2>1, <2>2 DEF Switch, ViewTyped, PositionTyped, RestTyped
<1>10. CASE AutoRefresh \/ RefreshButton
  <2>1. \E auto \in BOOLEAN : RefreshExperiments(auto)
    BY <1>10 DEF AutoRefresh, RefreshButton
  <2>2. RequestsTyped' /\ lockRefresh' \in BOOLEAN /\ disturbed' \in BOOLEAN
    BY <2>1, RefreshTyped
  <2> QED BY <1>10, <2>2 DEF AutoRefresh, RefreshButton, ViewTyped, PositionTyped, RestTyped
<1>11. CASE GetNextExperiments
  <2>1. experiments # None /\ experiments # <<>> /\ Switch("next", FetchOn("next", FALSE))
    BY <1>11 DEF GetNextExperiments
  <2>2. RequestsTyped'
    BY <2>1, FetchIs, SwitchTyped DEF Kinds
  <2> QED BY <1>11, <2>1, <2>2 DEF GetNextExperiments, Switch, ViewTyped, PositionTyped, RestTyped
<1>12. ASSUME NEW k \in Kinds, ServeRead(k) PROVE Typed'
  <2>1. RequestsTyped'
    BY <1>12, ReadServed, OneTyped DEF ServeRead
  <2> QED BY <1>12, <2>1 DEF ServeRead, ViewTyped, PositionTyped, RestTyped
<1>13. ASSUME NEW k \in Kinds, ServeWrite(k) PROVE Typed'
  <2>1. RequestsTyped'
    BY <1>13, WriteServed, OneTyped DEF ServeWrite
  <2>2. PositionTyped'
    BY <1>13, WriteServed, WriteForms DEF ServeWrite, PositionTyped
  <2> QED BY <1>13, <2>1, <2>2 DEF ServeWrite, ViewTyped, RestTyped
<1>14. CASE ServeCancelled
  <2>1. PositionTyped'
    <3>1. CASE position' = position
      BY <3>1 DEF PositionTyped
    <3>2. CASE LET r == IF cancelled.phase = "sent" THEN Read(cancelled) ELSE cancelled
               IN r.sid = cancelled.scroll /\ Scrolled(r)
      <4> DEFINE r == IF cancelled.phase = "sent" THEN Read(cancelled) ELSE cancelled
      <4>1. cancelled # None /\ cancelled \in Requests
        BY <1>5, <1>14 DEF ServeCancelled
      <4>2. cancelled.scroll \in Scrolls /\ (cancelled.phase = "sent" => cancelled.sid = None)
        BY <4>1, RequestsAre DEF IsRequest, Requests
      <4>3. CASE cancelled.phase = "sent"
        <5>1. Read(cancelled) \in Requests
          BY <4>1, <4>2, <4>3, FreshExists, ReadForms DEF Unnamed
        <5>2. Scrolled(Read(cancelled)) /\ Read(cancelled).sid \in Scrolls
          BY <3>2, <4>2, <4>3
        <5> QED BY <5>1, <5>2, WriteForms DEF PositionTyped
      <4>4. CASE cancelled.phase # "sent"
        <5>2. Scrolled(cancelled) /\ cancelled.sid \in Scrolls
          BY <3>2, <4>2, <4>4
        <5> QED BY <4>1, <5>2, WriteForms DEF PositionTyped
      <4> QED BY <4>3, <4>4
    <3> QED BY <1>14, <3>1, <3>2 DEF ServeCancelled
  <2>2. RequestsTyped'
    BY <1>14 DEF ServeCancelled, RequestsTyped, RequestsOK
  <2> QED BY <1>14, <2>1, <2>2 DEF ServeCancelled, ViewTyped, RestTyped
<1>15. CASE Expire
  BY <1>15 DEF Expire, ViewTyped, PositionTyped, RestTyped
<1>16. CASE ChangedElsewhere \/ ServeCreate \/ Archive
  <2>1. tasks' \in Seq(Task)
    <3>1. \A t \in Task : <<t>> \o tasks \in Seq(Task)
      BY ConcatProperties
    <3>2. \A S : Only(tasks, S) \in Seq(Task)
      BY OnlyForms
    <3> QED BY <1>16, <3>1, <3>2 DEF ChangedElsewhere, ServeCreate, Archive
  <2>2. archiving' \in Task \union {None} /\ creating' \in {"no", "sent", "created"}
    <3>1. \A t \in Rows(tasks) : t \in Task
      BY ElementOfSeq, LenProperties DEF Rows
    <3> QED BY <1>16, <3>1 DEF ChangedElsewhere, ServeCreate, Archive, RestTyped
  <2>3. /\ UNCHANGED <<position, view, selectedExperiment, loading, query, refreshActions,
                        lockRefresh, audit, request, cancelled, selecting, ended, history,
                        autoRefresh>>
    BY <1>16 DEF ChangedElsewhere, ServeCreate, Archive
  <2> QED BY <2>1, <2>2, <2>3 DEF ViewTyped, PositionTyped, RestTyped
<1>17. CASE RefetchAnswered
  <2>1. request["refetch"] \in Requests /\ RequestsTyped'
    BY <1>5, <1>17, DoneTyped DEF RefetchAnswered, Kinds
  <2>2. ViewTyped'
    BY <1>4, <1>6, <1>17, <2>1 DEF RefetchAnswered, ViewTyped
  <2>3. RestTyped'
    BY <1>17 DEF RefetchAnswered, RestTyped, Alone
  <2> QED BY <1>17, <2>1, <2>2, <2>3 DEF RefetchAnswered, PositionTyped
<1>18. CASE RefetchFailed
  <2>1. RequestsTyped'
    BY <1>18, DoneTyped DEF RefetchFailed, Kinds
  <2> QED BY <1>18, <2>1 DEF RefetchFailed, ViewTyped, PositionTyped, RestTyped
<1>19. CASE RefreshAnswered
  <2> DEFINE r == request["refresh"]
  <2>1. r \in Requests /\ RequestsTyped'
    BY <1>5, <1>19, DoneTyped DEF RefreshAnswered, Kinds
  <2>2. lockRefresh' = FALSE /\ ~(r.pending /\ r.shown = None)
    BY <1>19 DEF RefreshAnswered, Unlock
  <2>3. CASE r.pending
    <3>1. FetchAgain(r) /\ UNCHANGED <<experiments, scrollId, noMoreExperiment, late>>
      BY <1>19, <2>3 DEF RefreshAnswered
    <3>2. /\ refreshActions' \subseteq Refetching /\ audit' \in Audits
          /\ refreshList' = FALSE
      BY <2>1, <2>2, <2>3, <3>1, FetchAgainTyped
    <3>3. ViewTyped'
      BY <3>1, <3>2 DEF ViewTyped
    <3>4. UNCHANGED <<server, selectedExperiment, loading, query, others, disturbed, unanswered,
                      autoRefresh>>
      BY <1>19 DEF RefreshAnswered
    <3> QED BY <2>1, <2>2, <3>1, <3>2, <3>3, <3>4 DEF PositionTyped, RestTyped
  <2>4. CASE ~r.pending
    <3>1. RefreshedRows(r) \in Seq(Task) \union {None}
      BY <2>1, RefreshedTyped
    <3>2. ViewTyped'
      <4>1. scrollId' \in {scrollId, r.sid} /\ experiments' \in {experiments, RefreshedRows(r)}
        BY <1>19, <2>4 DEF RefreshAnswered
      <4>2. noMoreExperiment' \in BOOLEAN
        <5>1. CASE r.scroll # None /\ r.sid # r.scroll
          <6>1. noMoreExperiment' = (Len(r.data) < PageSize)
            BY <1>19, <2>4, <5>1 DEF RefreshAnswered
          <6> QED BY <6>1
        <5>2. CASE ~(r.scroll # None /\ r.sid # r.scroll)
          <6>1. noMoreExperiment' = noMoreExperiment
            BY <1>19, <2>4, <5>2 DEF RefreshAnswered
          <6> QED BY <6>1 DEF ViewTyped
        <5> QED BY <5>1, <5>2
      <4>3. refreshList' \in BOOLEAN
        BY <1>19, <2>4 DEF RefreshAnswered
      <4> QED BY <1>4, <2>1, <3>1, <4>1, <4>2, <4>3 DEF ViewTyped
    <3>3. RestTyped'
      BY <1>19, <2>2, <2>4 DEF RefreshAnswered, RestTyped
    <3> QED BY <1>19, <2>1, <3>2, <3>3 DEF RefreshAnswered, PositionTyped
  <2> QED BY <2>3, <2>4
<1>20. CASE RefreshFailed
  <2>1. RequestsTyped'
    BY <1>20, DoneTyped DEF RefreshFailed, Kinds
  <2>2. UNCHANGED <<server, view, selectedExperiment, loading, query, refreshActions, audit,
                    others, late, unanswered, autoRefresh>> /\ lockRefresh' = FALSE
        /\ disturbed' \in BOOLEAN
    BY <1>20 DEF RefreshFailed, Unlock, RestTyped
  <2>3. ViewTyped' /\ PositionTyped' /\ tasks' \in Seq(Task)
    BY <2>2 DEF ViewTyped, PositionTyped
  <2>4. RestTyped'
    BY <2>2 DEF RestTyped
  <2> QED BY <2>1, <2>3, <2>4
<1>21. CASE NextAnswered
  <2> DEFINE r == request["next"]
  <2>1. r \in Requests /\ RequestsTyped' /\ r.shown # None
    BY <1>5, <1>21, DoneTyped DEF NextAnswered, Kinds, RequestsTyped, RequestsOK, NextOK
  <2>2. CASE r.pending
    <3>1. FetchAgain(r) /\ UNCHANGED <<experiments, scrollId, noMoreExperiment, late>>
      BY <1>21, <2>2 DEF NextAnswered
    <3>2. /\ refreshActions' \subseteq Refetching /\ audit' \in Audits
          /\ refreshList' = FALSE
      BY <2>1, <3>1, FetchAgainTyped
    <3>3. ViewTyped'
      BY <3>1, <3>2 DEF ViewTyped
    <3>4. UNCHANGED <<server, selectedExperiment, query, lockRefresh, others, late, unanswered,
                      autoRefresh>>
          /\ loading' \subseteq loading /\ disturbed' \in BOOLEAN
      BY <1>21, <3>1 DEF NextAnswered
    <3> QED BY <2>1, <3>2, <3>3, <3>4 DEF PositionTyped, RestTyped
  <2>3. CASE ~r.pending
    <3>1. experiments # None => experiments \o r.data \in Seq(Task)
      BY <1>4, <2>1, ConcatProperties DEF ViewTyped
    <3>2. ViewTyped'
      <4>1. /\ scrollId' = r.sid
            /\ noMoreExperiment' \in BOOLEAN /\ refreshList' \in BOOLEAN
            /\ experiments' = experiments \/ (experiments # None /\ experiments' = experiments \o r.data)
        BY <1>21, <2>3 DEF NextAnswered, ViewTyped
      <4> QED BY <1>4, <1>6, <2>1, <3>1, <4>1 DEF ViewTyped
    <3>3. RestTyped'
      BY <1>21, <2>3 DEF NextAnswered, RestTyped
    <3> QED BY <1>21, <2>1, <3>2, <3>3 DEF NextAnswered, PositionTyped
  <2> QED BY <2>2, <2>3
<1>22. CASE NextFailed
  <2>1. RequestsTyped'
    BY <1>22, DoneTyped DEF NextFailed, Kinds
  <2> QED BY <1>22, <2>1 DEF NextFailed, ViewTyped, PositionTyped, RestTyped
<1>23. CASE CreateExperiment \/ CreateFailed \/ SelectAllExperiments \/ SelectAllAnswered
  <2>1. UNCHANGED <<tasks, position, view, request, cancelled>>
    BY <1>23 DEF CreateExperiment, CreateFailed, SelectAllExperiments, SelectAllAnswered
  <2>2. /\ creating' \in {"no", "sent", "created"} /\ selecting' \in BOOLEAN
        /\ ended' \subseteq {"createExperiment", "selectAll"}
        /\ loading' \subseteq Refetching \union {"getNextExperiments", "selectAllExperiments"}
    BY <1>23 DEF CreateExperiment, CreateFailed, SelectAllExperiments, SelectAllAnswered, RestTyped
  <2>3. UNCHANGED <<selectedExperiment, query, refreshActions, lockRefresh, audit, archiving,
                    history, autoRefresh>>
    BY <1>23 DEF CreateExperiment, CreateFailed, SelectAllExperiments, SelectAllAnswered
  <2> QED BY <2>1, <2>2, <2>3 DEF ViewTyped, PositionTyped, RestTyped
<1>24. CASE CreateAnswered
  <2>1. RequestsTyped' /\ lockRefresh' \in BOOLEAN /\ disturbed' \in BOOLEAN
    BY <1>24, RefreshTyped DEF CreateAnswered
  <2> QED BY <1>24, <2>1 DEF CreateAnswered, ViewTyped, PositionTyped, RestTyped
<1>25. CASE ArchiveAnswered
  <2>1. ViewTyped'
    BY <1>25, OnlyForms DEF ArchiveAnswered, ViewTyped
  <2>2. RestTyped'
    BY <1>6, <1>25 DEF ArchiveAnswered, ReFetch, Audits, Refetching, RestTyped
  <2> QED BY <1>25, <2>1, <2>2 DEF ArchiveAnswered, PositionTyped
<1>26. CASE UNCHANGED vars
  BY <1>26 DEF vars, ViewTyped, PositionTyped, RestTyped
<1> QED BY <1>7, <1>8, <1>9, <1>10, <1>11, <1>12, <1>13, <1>14, <1>15, <1>16, <1>17, <1>18,
           <1>19, <1>20, <1>21, <1>22, <1>23, <1>24, <1>25, <1>26 DEF Next

LEMMA TypedInductive == Spec => []Typed
<1>1. Init => Typed
  <2> SUFFICES ASSUME Init PROVE Typed
    OBVIOUS
  <2>1. PICK s \in Sessions :
          /\ tasks = s.tasks /\ autoRefresh = s.autoRefresh
          /\ filter = s.filter /\ search = s.filter /\ url = s.filter
          /\ refreshList = s.refreshList
          /\ scrollId = IF s.refreshList THEN CHOOSE id \in Scrolls : TRUE ELSE None
    BY DEF Init
  <2>2. scrollId \in Scrolls \union {None}
    <3>1. Scrolls # {}
      BY ScrollsAssumption, FS_EmptySet
    <3> QED BY <2>1, <3>1
  <2>3. /\ tasks \in Seq(Task) /\ {autoRefresh, refreshList} \subseteq BOOLEAN
        /\ filter \in Filter /\ search \in Filter /\ url \in Filter
    BY <2>1, TableAssumption
  <2>4. DOMAIN position = {}
    BY DEF Init
  <2>5. TypeOK
    BY <2>2, <2>3, <2>4 DEF Init, TypeOK
  <2>6. RequestsOK
    BY DEF Init, RequestsOK, Kinds
  <2> QED BY <2>5, <2>6 DEF Typed
<1> QED BY <1>1, TypedStep, PTL DEF Spec

(* Every variable of the table keeps its type, and each effect has only its *)
(* own requests on its way: a refetch names no scroll, a page is asked for  *)
(* only while there are rows, and a request names the scroll of its answer  *)
(* exactly when it has been read, as a new id can always be drawn           *)
(* (fetchExperiments$, the reducer, and get_data_with_scroll_support).      *)
THEOREM TypeCorrect == Spec => [](TypeOK /\ RequestsOK)
<1>1. Typed => TypeOK /\ RequestsOK
  BY DEF Typed
<1> QED BY <1>1, TypedInductive, PTL

-----------------------------------------------------------------------------
(* The lock and the spinners. *)
LEMMA LockStep == Typed /\ RefreshLockIsOwned /\ [Next]_vars => RefreshLockIsOwned'
<1> SUFFICES ASSUME Typed, RefreshLockIsOwned, [Next]_vars PROVE RefreshLockIsOwned'
  OBVIOUS
<1>1. request \in [Kinds -> Requests \union {None}] /\ lockRefresh \in BOOLEAN
  BY DEF Typed, TypeOK
<1>2. "refetch" \in Kinds /\ "refresh" \in Kinds /\ "next" \in Kinds
  BY DEF Kinds
<1>3. CASE request'["refresh"] = request["refresh"] /\ lockRefresh' = lockRefresh
  BY <1>3 DEF RefreshLockIsOwned
<1>4. ASSUME NEW auto \in BOOLEAN, RefreshExperiments(auto) PROVE RefreshLockIsOwned'
  <2>1. CASE lockRefresh
    BY <1>3, <1>4, <2>1 DEF RefreshExperiments
  <2>2. CASE ~lockRefresh
    <3> DEFINE type == IF auto THEN "auto" ELSE "manual"
               r == FetchOn(type, TRUE)
    <3>1. lockRefresh' = ~auto /\ request' = [request EXCEPT !["refresh"] = r]
      BY <1>4, <2>2 DEF RefreshExperiments, Switch
    <3>2. r \in Requests /\ r.type = type
      BY FetchForms, TableAssumption DEF Typed, FetchOn, Fetch
    <3>3. r # None
      BY <3>2, NoneAssumption
    <3> HIDE DEF r
    <3>4. request'["refresh"] = r
      BY <1>1, <1>2, <3>1
    <3> QED BY <3>1, <3>2, <3>3, <3>4 DEF RefreshLockIsOwned
  <2> QED BY <1>1, <2>1, <2>2
<1>5. CASE AutoRefresh \/ RefreshButton \/ CreateAnswered
  BY <1>4, <1>5 DEF AutoRefresh, RefreshButton, CreateAnswered
<1>6. CASE SendRefetch
  BY <1>1, <1>2, <1>3, <1>6 DEF SendRefetch, Switch
<1>7. CASE GetNextExperiments
  BY <1>1, <1>2, <1>3, <1>7 DEF GetNextExperiments, Switch
<1>8. ASSUME NEW k \in Kinds, ServeRead(k) \/ ServeWrite(k) PROVE RefreshLockIsOwned'
  <2>1. TypeOK /\ RequestsTyped
    BY DEF Typed, TypeOK, RequestsTyped
  <2>2. /\ request' = [request EXCEPT ![k] = request'[k]] /\ request[k] # None /\ request'[k] # None
        /\ request'[k].type = request[k].type
    BY <1>8, <2>1, ReadServed, WriteServed DEF SameRequest
  <2>3. lockRefresh' = lockRefresh
    BY <1>8 DEF ServeRead, ServeWrite
  <2> QED BY <1>1, <1>2, <2>2, <2>3 DEF RefreshLockIsOwned
<1>9. CASE RefetchAnswered \/ RefetchFailed
  BY <1>1, <1>2, <1>3, <1>9 DEF RefetchAnswered, RefetchFailed, Done
<1>10. CASE NextAnswered \/ NextFailed
  BY <1>1, <1>2, <1>3, <1>10 DEF NextAnswered, NextFailed, Done
<1>11. CASE RefreshAnswered \/ RefreshFailed
  <2>1. lockRefresh' = FALSE /\ request' = [request EXCEPT !["refresh"] = None]
    BY <1>11 DEF RefreshAnswered, RefreshFailed, Unlock, Done
  <2> QED BY <1>1, <1>2, <2>1 DEF RefreshLockIsOwned
<1>12. CASE FollowUrl \/ TableFilterChanged \/ GlobalFilterChanged \/ OpenProject \/ SelectExperiment
  BY <1>3, <1>12 DEF FollowUrl, TableFilterChanged, GlobalFilterChanged, OpenProject, SelectExperiment
<1>13. CASE ServeCancelled \/ Expire \/ ChangedElsewhere \/ UNCHANGED vars
  BY <1>3, <1>13 DEF ServeCancelled, Expire, ChangedElsewhere, vars
<1>14. CASE \/ CreateExperiment \/ ServeCreate \/ CreateFailed \/ SelectAllExperiments
            \/ SelectAllAnswered \/ Archive \/ ArchiveAnswered
  BY <1>3, <1>14 DEF CreateExperiment, ServeCreate, CreateFailed, SelectAllExperiments,
       SelectAllAnswered, Archive, ArchiveAnswered
<1> QED BY <1>5, <1>6, <1>7, <1>8, <1>9, <1>10, <1>11, <1>12, <1>13, <1>14 DEF Next

(* The lock is held exactly by a manual refresh on its way, whatever timer, *)
(* button, creation, failure or cancellation came in between                *)
(* (refreshExperiments).                                                    *)
THEOREM LockIsOwned == Spec => []RefreshLockIsOwned
<1>1. Init => RefreshLockIsOwned
  BY DEF Init, RefreshLockIsOwned, Kinds
<1> QED BY <1>1, LockStep, TypedInductive, PTL DEF Spec

LEMMA SpinnerStep == Typed /\ SpinnersAreOwed /\ [Next]_vars => SpinnersAreOwed'
<1> SUFFICES ASSUME Typed, SpinnersAreOwed, [Next]_vars PROVE SpinnersAreOwed'
  OBVIOUS
<1> USE DEF Refetching
<1>1. request \in [Kinds -> Requests \union {None}] /\ "next" \in Kinds /\ "refresh" \in Kinds
      /\ "refetch" \in Kinds
  BY DEF Typed, TypeOK, Kinds
<1>2. CASE /\ loading' \subseteq loading /\ refreshActions \subseteq refreshActions'
           /\ request'["next"] # None \/ request["next"] = None \/ "getNextExperiments" \notin loading'
           /\ selecting' = selecting /\ ended \subseteq ended'
  BY <1>2 DEF SpinnersAreOwed
<1>3. ASSUME NEW auto \in BOOLEAN, RefreshExperiments(auto)
      PROVE request'["next"] = request["next"]
  BY <1>1, <1>3 DEF RefreshExperiments, Switch
<1>4. CASE AutoRefresh \/ RefreshButton \/ CreateAnswered
  BY <1>2, <1>3, <1>4 DEF AutoRefresh, RefreshButton, CreateAnswered, others
<1>5. CASE SendRefetch
  <2>1. request'["next"] = request["next"]
    BY <1>1, <1>5 DEF SendRefetch, Switch
  <2> QED BY <1>2, <1>5, <2>1 DEF SendRefetch, others
<1>6. CASE GetNextExperiments
  <2>1. request'["next"] # None
    BY <1>1, <1>6, FetchIs, NoneAssumption DEF GetNextExperiments, Switch, RequestOf, IsRequest, Typed
  <2> QED BY <1>6, <2>1 DEF GetNextExperiments, SpinnersAreOwed, others
<1>7. ASSUME NEW k \in Kinds, ServeRead(k) \/ ServeWrite(k) PROVE SpinnersAreOwed'
  <2>1. TypeOK /\ RequestsTyped
    BY DEF Typed, TypeOK, RequestsTyped
  <2>2. /\ request' = [request EXCEPT ![k] = request'[k]] /\ request[k] # None /\ request'[k] # None
    BY <1>7, <2>1, ReadServed, WriteServed
  <2>3. request'["next"] # None \/ request["next"] = None
    BY <1>1, <2>2
  <2> QED BY <1>2, <1>7, <2>3 DEF ServeRead, ServeWrite, others
<1>8. CASE RefetchAnswered
  <2>1. request'["next"] = request["next"]
    BY <1>1, <1>8 DEF RefetchAnswered, Done
  <2> QED BY <1>8, <2>1 DEF RefetchAnswered, SpinnersAreOwed, others
<1>9. CASE RefetchFailed
  <2>1. request'["next"] = request["next"]
    BY <1>1, <1>9 DEF RefetchFailed, Done
  <2> QED BY <1>2, <1>9, <2>1 DEF RefetchFailed, others
<1>10. CASE NextAnswered \/ NextFailed
  <2>1. loading' = loading \ {"getNextExperiments"} /\ UNCHANGED others
    BY <1>10 DEF NextAnswered, NextFailed
  <2>2. refreshActions \subseteq refreshActions'
    BY <1>10 DEF NextAnswered, NextFailed, FetchAgain, ReFetch
  <2> QED BY <1>2, <2>1, <2>2 DEF others
<1>11. CASE RefreshAnswered \/ RefreshFailed
  <2>1. request'["next"] = request["next"]
    BY <1>1, <1>11 DEF RefreshAnswered, RefreshFailed, Done
  <2>2. refreshActions \subseteq refreshActions' /\ loading' = loading /\ UNCHANGED others
    BY <1>11 DEF RefreshAnswered, RefreshFailed, FetchAgain, ReFetch
  <2> QED BY <1>2, <2>1, <2>2 DEF others
<1>12. CASE FollowUrl \/ TableFilterChanged \/ GlobalFilterChanged
  BY <1>12 DEF FollowUrl, TableFilterChanged, GlobalFilterChanged, ReFetch, SpinnersAreOwed, others
<1>13. CASE OpenProject \/ SelectExperiment \/ ServeCancelled \/ Expire \/ ChangedElsewhere
  BY <1>2, <1>13 DEF OpenProject, SelectExperiment, ServeCancelled, Expire, ChangedElsewhere, others
<1>14. CASE CreateExperiment \/ ServeCreate \/ CreateFailed \/ Archive \/ UNCHANGED vars
  BY <1>2, <1>14 DEF CreateExperiment, ServeCreate, CreateFailed, Archive, vars, others
<1>15. CASE SelectAllExperiments \/ SelectAllAnswered
  BY <1>15 DEF SelectAllExperiments, SelectAllAnswered, SpinnersAreOwed
<1>16. CASE ArchiveAnswered
  BY <1>16 DEF ArchiveAnswered, ReFetch, SpinnersAreOwed
<1> QED BY <1>4, <1>5, <1>6, <1>7, <1>8, <1>9, <1>10, <1>11, <1>12, <1>13, <1>14, <1>15, <1>16
        DEF Next

(* Every spinner that is on has somebody to switch it off: the request of a *)
(* page, the selection, or the actions that the next successful fetch       *)
(* clears (activeLoader, deactivateLoader and the effects).                 *)
THEOREM SpinnersHaveOwners == Spec => []SpinnersAreOwed
<1>1. Init => SpinnersAreOwed
  BY DEF Init, SpinnersAreOwed
<1> QED BY <1>1, SpinnerStep, TypedInductive, PTL DEF Spec

-----------------------------------------------------------------------------
(* The rows and the query. *)
LEMMA JoinedRows ==
  ASSUME NEW s \in Seq(Task), NEW t \in Seq(Task)
  PROVE  Rows(s \o t) \subseteq Rows(s) \union Rows(t)
<1>1. s \o t \in Seq(Task) /\ Len(s \o t) = Len(s) + Len(t) /\ Len(s) \in Nat /\ Len(t) \in Nat
      /\ DOMAIN s = 1..Len(s) /\ DOMAIN t = 1..Len(t) /\ DOMAIN (s \o t) = 1..Len(s \o t)
  BY ConcatProperties, LenProperties
<1>2. \A i \in 1..Len(s) + Len(t) : (s \o t)[i] = IF i <= Len(s) THEN s[i] ELSE t[i - Len(s)]
  BY ConcatProperties
<1> SUFFICES ASSUME NEW i \in 1..Len(s) + Len(t) PROVE (s \o t)[i] \in Rows(s) \union Rows(t)
  BY <1>1 DEF Rows
<1>3. CASE i <= Len(s)
  BY <1>1, <1>2, <1>3 DEF Rows
<1>4. CASE i > Len(s)
  <2>1. i - Len(s) \in 1..Len(t)
    BY <1>1, <1>4
  <2> QED BY <1>1, <1>2, <1>4, <2>1 DEF Rows
<1> QED BY <1>1, <1>3, <1>4

(* What is asked of the server holds no rows yet. *)
LEMMA FetchEmpty ==
  /\ \A type, scroll, whole, size : Fetch(type, scroll, whole, size).data = <<>>
  /\ \A type, whole : FetchOn(type, whole).data = <<>>
  /\ \A type, scroll, whole, size : Fetch(type, scroll, whole, size).query = Query
  /\ \A type, whole : FetchOn(type, whole).query = Query
BY DEF Fetch, FetchOn

LEMMA NothingIsOfQuery ==
  ASSUME NEW q PROVE OfQuery(<<>>, q)
BY DEF OfQuery, Rows

DataOfQuery == \A k \in Kinds : request[k] # None => OfQuery(request[k].data, request[k].query)

LEMMA DataStep == Typed /\ DataOfQuery /\ [Next]_vars => DataOfQuery'
<1> SUFFICES ASSUME Typed, DataOfQuery, [Next]_vars PROVE DataOfQuery'
  OBVIOUS
<1>1. TypeOK /\ RequestsTyped /\ request \in [Kinds -> Requests \union {None}]
  BY DEF Typed, TypeOK, RequestsTyped
<1>2. "refetch" \in Kinds /\ "refresh" \in Kinds /\ "next" \in Kinds
  BY DEF Kinds
<1> DEFINE Of(r) == r # None => OfQuery(r.data, r.query)
<1>3. CASE request' = request
  BY <1>3 DEF DataOfQuery
<1>4. ASSUME NEW k \in Kinds, NEW r, request' = [request EXCEPT ![k] = r], Of(r) PROVE DataOfQuery'
  <2>1. \A l \in Kinds : request'[l] = IF l = k THEN r ELSE request[l]
    BY <1>1, <1>4
  <2> HIDE DEF Of
  <2>2. \A l \in Kinds : Of(request[l])
    BY DEF DataOfQuery, Of
  <2>3. \A l \in Kinds : Of(request'[l])
    BY <1>4, <2>1, <2>2
  <2> QED BY <2>3 DEF DataOfQuery, Of
<1>5. ASSUME NEW k \in Kinds, Done(k) PROVE DataOfQuery'
  BY <1>4, <1>5 DEF Done
<1>6. ASSUME NEW k \in Kinds, NEW r, Switch(k, r), r.data = <<>> PROVE DataOfQuery'
  BY <1>4, <1>6, NothingIsOfQuery DEF Switch
<1>7. ASSUME NEW auto \in BOOLEAN, RefreshExperiments(auto) PROVE DataOfQuery'
  BY <1>2, <1>3, <1>6, <1>7, FetchEmpty DEF RefreshExperiments
<1>8. CASE AutoRefresh \/ RefreshButton \/ CreateAnswered
  BY <1>7, <1>8 DEF AutoRefresh, RefreshButton, CreateAnswered
<1>15. CASE SendRefetch
  <2> DEFINE r == Fetch(audit.type, None, TRUE, audit.size)
  <2>1. r.data = <<>> /\ Switch("refetch", r)
    BY <1>15 DEF SendRefetch, Fetch
  <2> HIDE DEF r
  <2> QED BY <1>2, <1>6, <2>1
<1>16. CASE GetNextExperiments
  BY <1>2, <1>6, <1>16, FetchEmpty DEF GetNextExperiments
<1>9. ASSUME NEW k \in Kinds, ServeRead(k) PROVE DataOfQuery'
  BY <1>1, <1>4, <1>9, ReadServed
<1>10. ASSUME NEW k \in Kinds, ServeWrite(k) PROVE DataOfQuery'
  <2>1. LET r == request'[k]
        IN  /\ request' = [request EXCEPT ![k] = r] /\ request[k] # None
            /\ r.data = request[k].data /\ r.query = request[k].query
    BY <1>1, <1>10, WriteServed DEF SameRequest
  <2> QED BY <1>4, <2>1 DEF DataOfQuery
<1>11. CASE RefetchAnswered \/ RefetchFailed \/ RefreshAnswered \/ RefreshFailed
            \/ NextAnswered \/ NextFailed
  BY <1>2, <1>5, <1>11 DEF RefetchAnswered, RefetchFailed, RefreshAnswered, RefreshFailed,
       NextAnswered, NextFailed
<1>12. CASE FollowUrl \/ TableFilterChanged \/ GlobalFilterChanged \/ OpenProject \/ SelectExperiment
  BY <1>3, <1>12 DEF FollowUrl, TableFilterChanged, GlobalFilterChanged, OpenProject, SelectExperiment
<1>13. CASE ServeCancelled \/ Expire \/ ChangedElsewhere \/ UNCHANGED vars
  BY <1>3, <1>13 DEF ServeCancelled, Expire, ChangedElsewhere, vars
<1>14. CASE \/ CreateExperiment \/ ServeCreate \/ CreateFailed \/ SelectAllExperiments
            \/ SelectAllAnswered \/ Archive \/ ArchiveAnswered
  BY <1>3, <1>14 DEF CreateExperiment, ServeCreate, CreateFailed, SelectAllExperiments,
       SelectAllAnswered, Archive, ArchiveAnswered
<1> QED BY <1>8, <1>9, <1>10, <1>11, <1>12, <1>13, <1>14, <1>15, <1>16 DEF Next

RefetchOfQuery ==
  url = None /\ audit = None /\ request["refetch"] # None => request["refetch"].query = Query

LEMMA RefetchStep == Typed /\ RefetchOfQuery /\ [Next]_vars => RefetchOfQuery'
<1> SUFFICES ASSUME Typed, RefetchOfQuery, [Next]_vars, url' = None, audit' = None,
                    request'["refetch"] # None
             PROVE  request'["refetch"].query = Query'
  BY DEF RefetchOfQuery
<1> USE DEF query
<1>1. TypeOK /\ RequestsTyped /\ request \in [Kinds -> Requests \union {None}]
  BY DEF Typed, TypeOK, RequestsTyped
<1>2. "refetch" \in Kinds /\ "refresh" \in Kinds /\ "next" \in Kinds
  BY DEF Kinds
<1>3. CASE request'["refetch"] = request["refetch"] /\ url' = url /\ audit' = audit /\ Query' = Query
  BY <1>3 DEF RefetchOfQuery
<1>4. ASSUME NEW types \in SUBSET Refetching, NEW last \in Refetching, NEW size \in Nat,
             ReFetch(types, last, size)
      PROVE  FALSE
  BY <1>1, <1>4, ReFetchTyped, NoneAssumption
<1>5. CASE FollowUrl \/ TableFilterChanged \/ GlobalFilterChanged \/ ArchiveAnswered
  BY <1>4, <1>5, TableAssumption DEF FollowUrl, TableFilterChanged, GlobalFilterChanged,
       ArchiveAnswered, Refetching
<1>6. CASE OpenProject
  <2>1. url' \in Filter
    BY <1>6 DEF OpenProject
  <2> QED BY <2>1, NoneAssumption
<1>7. CASE SendRefetch
  <2>1. request'["refetch"] = Fetch(audit.type, None, TRUE, audit.size) /\ Query' = Query
    BY <1>1, <1>2, <1>7 DEF SendRefetch, Switch, Query
  <2>2. Fetch(audit.type, None, TRUE, audit.size).query = Query
    BY DEF Fetch
  <2> QED BY <2>1, <2>2
<1>8. ASSUME NEW k \in Kinds \ {"refetch"}, NEW r, request' = [request EXCEPT ![k] = r]
      PROVE  request'["refetch"] = request["refetch"]
  BY <1>1, <1>2, <1>8
<1>9. CASE AutoRefresh \/ RefreshButton \/ CreateAnswered
  <2>1. request'["refetch"] = request["refetch"]
    BY <1>2, <1>8, <1>9 DEF AutoRefresh, RefreshButton, CreateAnswered, RefreshExperiments, Switch
  <2> QED BY <1>3, <1>9, <2>1 DEF AutoRefresh, RefreshButton, CreateAnswered, Query
<1>10. CASE GetNextExperiments
  BY <1>2, <1>3, <1>8, <1>10 DEF GetNextExperiments, Switch, Query
<1>11. ASSUME NEW k \in Kinds, ServeRead(k) \/ ServeWrite(k)
       PROVE  request'["refetch"].query = Query'
  <2>1. /\ request' = [request EXCEPT ![k] = request'[k]] /\ request[k] # None
        /\ request'[k].query = request[k].query
    BY <1>1, <1>11, ReadServed, WriteServed DEF SameRequest
  <2>2. url' = url /\ audit' = audit /\ Query' = Query
    BY <1>11 DEF ServeRead, ServeWrite, Query
  <2> QED BY <1>1, <1>2, <2>1, <2>2 DEF RefetchOfQuery
<1>12. CASE RefetchAnswered \/ RefetchFailed
  BY <1>1, <1>2, <1>12 DEF RefetchAnswered, RefetchFailed, Done
<1>13. CASE RefreshAnswered \/ RefreshFailed \/ NextAnswered \/ NextFailed
  <2>1. request'["refetch"] = request["refetch"] /\ url' = url /\ Query' = Query
    BY <1>2, <1>8, <1>13 DEF RefreshAnswered, RefreshFailed, NextAnswered, NextFailed, Done, Query
  <2>2. audit' = audit
    <3>1. ASSUME NEW r \in Requests, r.shown # None, FetchAgain(r) PROVE FALSE
      BY <1>1, <3>1, FetchAgainTyped, NoneAssumption
    <3>2. CASE RefreshAnswered /\ request["refresh"].pending
      BY <1>1, <1>2, <3>1, <3>2 DEF RefreshAnswered
    <3>3. CASE NextAnswered /\ request["next"].pending
      BY <1>1, <1>2, <3>1, <3>3 DEF NextAnswered, RequestsTyped, RequestsOK, NextOK
    <3> QED BY <1>13, <3>2, <3>3 DEF RefreshAnswered, RefreshFailed, NextAnswered, NextFailed
  <2> QED BY <1>3, <2>1, <2>2
<1>14. CASE SelectExperiment \/ ServeCancelled \/ Expire \/ ChangedElsewhere \/ UNCHANGED vars
  BY <1>3, <1>14 DEF SelectExperiment, ServeCancelled, Expire, ChangedElsewhere, vars, Query
<1>15. CASE \/ CreateExperiment \/ ServeCreate \/ CreateFailed \/ SelectAllExperiments
            \/ SelectAllAnswered \/ Archive
  BY <1>3, <1>15 DEF CreateExperiment, ServeCreate, CreateFailed, SelectAllExperiments,
       SelectAllAnswered, Archive, Query
<1> QED BY <1>5, <1>6, <1>7, <1>9, <1>10, <1>11, <1>12, <1>13, <1>14, <1>15 DEF Next

LEMMA RowsStep ==
  Typed /\ DataOfQuery /\ RefetchOfQuery /\ RowsAreOfTheQuery /\ [Next]_vars
    => RowsAreOfTheQuery'
<1> DEFINE Known == url = None /\ audit = None /\ request["refetch"] = None /\ ~late /\ ~unanswered
                    /\ experiments # None
<1> SUFFICES ASSUME Typed, DataOfQuery, RefetchOfQuery, RowsAreOfTheQuery, [Next]_vars, Known'
             PROVE  OfQuery(experiments', Query')
  BY DEF RowsAreOfTheQuery, OfQuery, Query
<1> USE DEF query, view
<1>1. TypeOK /\ RequestsTyped /\ request \in [Kinds -> Requests \union {None}]
  BY DEF Typed, TypeOK, RequestsTyped
<1>2. "refetch" \in Kinds /\ "refresh" \in Kinds /\ "next" \in Kinds
  BY DEF Kinds
<1>3. Known => OfQuery(experiments, Query)
  BY DEF RowsAreOfTheQuery, OfQuery, Query
<1>4. CASE Known /\ experiments' = experiments /\ Query' = Query
  BY <1>3, <1>4
<1>5. \A q : \A s, t : Rows(s) \subseteq Rows(t) /\ OfQuery(t, q) => OfQuery(s, q)
  BY DEF OfQuery
<1>6. CASE RefetchAnswered
  <2>1. /\ experiments' = request["refetch"].data /\ url = None /\ audit = None
        /\ request["refetch"] # None /\ Query' = Query
    BY <1>6 DEF RefetchAnswered, Query
  <2> QED BY <1>2, <2>1 DEF DataOfQuery, RefetchOfQuery
<1>7. CASE RefetchFailed
  BY <1>7 DEF RefetchFailed
<1>8. CASE RefreshAnswered
  <2> DEFINE r == request["refresh"]
             replaces == r.type = "auto" \/ r.sid = r.scroll
  <2>1. /\ r # None /\ r \in Requests /\ Query' = Query /\ url' = url /\ unanswered' = unanswered
        /\ request'["refetch"] = request["refetch"] /\ OfQuery(r.data, r.query)
    BY <1>1, <1>2, <1>8 DEF RefreshAnswered, Done, Query, DataOfQuery
  <2>2. CASE r.pending
    <3>1. /\ FetchAgain(r) /\ r.shown # None
      BY <1>8, <2>2 DEF RefreshAnswered
    <3> QED BY <1>1, <2>1, <3>1, FetchAgainTyped, NoneAssumption
  <2>3. CASE ~r.pending
    <3>1. audit' = audit /\ (late' <=> late \/ (replaces /\ r.query # Query))
          /\ experiments' = IF replaces THEN RefreshedRows(r) ELSE experiments
      BY <1>8, <2>3 DEF RefreshAnswered
    <3>2. CASE ~replaces
      BY <1>4, <2>1, <3>1, <3>2
    <3>3. CASE replaces
      <4>1. r.query = Query
        BY <3>1, <3>3
      <4>2. experiments' = r.data \/ Rows(experiments') \subseteq Rows(r.data)
        <5>1. experiments \in Seq(Task) \union {None} /\ experiments' # None
          BY <1>1 DEF TypeOK
        <5>2. experiments # None =>
                Rows(Only(experiments, Rows(r.data))) \subseteq Rows(r.data)
          BY <5>1, OnlyForms
        <5>3. experiments' \in {None, r.data, Only(experiments, Rows(r.data))}
              /\ (experiments = None => experiments' \in {None, r.data})
          BY <3>1, <3>3 DEF RefreshedRows
        <5> QED BY <5>1, <5>2, <5>3
      <4> QED BY <1>5, <2>1, <4>1, <4>2
    <3> QED BY <3>2, <3>3
  <2> QED BY <2>2, <2>3
<1>9. CASE NextAnswered
  <2> DEFINE r == request["next"]
  <2>1. /\ r # None /\ r \in Requests /\ Query' = Query /\ url' = url /\ unanswered' = unanswered
        /\ request'["refetch"] = request["refetch"] /\ OfQuery(r.data, r.query) /\ r.shown # None
    BY <1>1, <1>2, <1>9 DEF NextAnswered, Done, Query, DataOfQuery, RequestsTyped, RequestsOK, NextOK
  <2>2. CASE r.pending
    <3>1. FetchAgain(r)
      BY <1>9, <2>2 DEF NextAnswered
    <3> QED BY <1>1, <2>1, <3>1, FetchAgainTyped, NoneAssumption
  <2>3. CASE ~r.pending
    <3>1. /\ audit' = audit /\ (late' <=> late \/ r.query # Query)
          /\ experiments' = experiments \/ (experiments # None /\ experiments' = experiments \o r.data)
      BY <1>9, <2>3 DEF NextAnswered
    <3>2. r.query = Query /\ experiments # None /\ OfQuery(experiments, Query)
      BY <1>3, <2>1, <3>1
    <3>3. experiments \in Seq(Task) /\ r.data \in Seq(Task)
      BY <1>1, <2>1, <3>2 DEF TypeOK, Requests
    <3>4. Rows(experiments \o r.data) \subseteq Rows(experiments) \union Rows(r.data)
      BY <3>3, JoinedRows
    <3> QED BY <2>1, <3>1, <3>2, <3>4 DEF OfQuery
  <2> QED BY <2>2, <2>3
<1>10. CASE RefreshFailed \/ NextFailed
  BY <1>1, <1>2, <1>4, <1>10 DEF RefreshFailed, NextFailed, Done, Query
<1>11. ASSUME NEW types \in SUBSET Refetching, NEW last \in Refetching, NEW size \in Nat,
             ReFetch(types, last, size)
      PROVE  FALSE
  BY <1>1, <1>11, ReFetchTyped, NoneAssumption
<1>12. CASE FollowUrl \/ TableFilterChanged \/ GlobalFilterChanged \/ ArchiveAnswered
  BY <1>11, <1>12, TableAssumption DEF FollowUrl, TableFilterChanged, GlobalFilterChanged,
       ArchiveAnswered, Refetching
<1>13. CASE OpenProject
  BY <1>13 DEF OpenProject
<1>14. CASE SendRefetch
  <2>1. audit \in Audits /\ Switch("refetch", Fetch(audit.type, None, TRUE, audit.size))
    BY <1>1, <1>14 DEF SendRefetch, TypeOK
  <2>2. RequestOf("refetch", Fetch(audit.type, None, TRUE, audit.size))
    BY <1>1, <2>1, FetchIs
  <2>3. request'["refetch"] # None
    BY <1>1, <1>2, <2>1, <2>2, NoneAssumption DEF Switch, RequestOf, IsRequest
  <2> QED BY <2>3
<1>15. CASE AutoRefresh \/ RefreshButton \/ CreateAnswered \/ GetNextExperiments
  <2>1. request'["refetch"] = request["refetch"]
    BY <1>1, <1>2, <1>15 DEF AutoRefresh, RefreshButton, CreateAnswered, RefreshExperiments, Switch,
         GetNextExperiments
  <2> QED BY <1>4, <1>15, <2>1 DEF AutoRefresh, RefreshButton, CreateAnswered, GetNextExperiments,
             Query, others
<1>16. ASSUME NEW k \in Kinds, ServeRead(k) \/ ServeWrite(k)
       PROVE  OfQuery(experiments', Query')
  <2>1. /\ request' = [request EXCEPT ![k] = request'[k]] /\ request[k] # None /\ request'[k] # None
    BY <1>1, <1>16, ReadServed, WriteServed
  <2>2. request["refetch"] = None
    BY <1>1, <1>2, <2>1
  <2>3. UNCHANGED <<url, audit, late, unanswered, experiments, Query>>
    BY <1>16 DEF ServeRead, ServeWrite, Query, history
  <2> QED BY <1>4, <2>2, <2>3
<1>17. CASE SelectExperiment \/ ServeCancelled \/ Expire \/ ChangedElsewhere \/ UNCHANGED vars
  BY <1>4, <1>17 DEF SelectExperiment, ServeCancelled, Expire, ChangedElsewhere, vars, Query, history
<1>18. CASE \/ CreateExperiment \/ ServeCreate \/ CreateFailed \/ SelectAllExperiments
            \/ SelectAllAnswered \/ Archive
  BY <1>4, <1>18 DEF CreateExperiment, ServeCreate, CreateFailed, SelectAllExperiments,
       SelectAllAnswered, Archive, Query, history
<1> QED BY <1>6, <1>7, <1>8, <1>9, <1>10, <1>12, <1>13, <1>14, <1>15, <1>16, <1>17, <1>18 DEF Next

(* Once the last fetch has succeeded the rows are of the query of the       *)
(* moment: the fetch that is cleared was sent for it, and no rows of an     *)
(* older query can come after without being late (reFetchExperiment,        *)
(* fetchExperiments$).                                                      *)
THEOREM RowsMatchTheQuery == Spec => []RowsAreOfTheQuery
<1>1. Init => DataOfQuery /\ RefetchOfQuery /\ RowsAreOfTheQuery
  BY DEF Init, DataOfQuery, RefetchOfQuery, RowsAreOfTheQuery, Kinds
<1>2. Typed /\ DataOfQuery /\ RefetchOfQuery /\ RowsAreOfTheQuery /\ [Next]_vars
        => (DataOfQuery /\ RefetchOfQuery /\ RowsAreOfTheQuery)'
  BY DataStep, RefetchStep, RowsStep
<1> QED BY <1>1, <1>2, TypedInductive, PTL DEF Spec

-----------------------------------------------------------------------------
(* The next page.  What is named belongs to the table or to a request. *)
LEMMA NamedAre ==
  /\ scrollId \in Named
  /\ \A k \in Kinds : request[k] # None => {request[k].scroll, request[k].sid} \subseteq Named
  /\ cancelled # None => {cancelled.scroll, cancelled.sid} \subseteq Named
BY DEF Named

(* What a cancelled request writes is at the scroll it was sent with. *)
LEMMA CancelledForms ==
  ASSUME TypeOK, RequestsTyped, ServeCancelled
  PROVE  /\ cancelled # None /\ cancelled' = None
         /\ \A s \in DOMAIN position' : s # cancelled.scroll =>
              s \in DOMAIN position /\ position'[s] = position[s]
<1>1. cancelled # None /\ cancelled' = None /\ cancelled \in Requests
  BY DEF ServeCancelled, RequestsTyped
<1>2. cancelled.scroll \in Scrolls /\ (cancelled.phase = "sent" => cancelled.sid = None)
  BY <1>1, RequestsAre DEF IsRequest, Requests
<1>3. CASE position' = position
  BY <1>1, <1>3
<1>4. CASE cancelled.phase = "sent" /\ Read(cancelled).sid = cancelled.scroll /\ Scrolled(Read(cancelled))
  <2>1. Read(cancelled) \in Requests
    BY <1>1, <1>2, <1>4, FreshExists, ReadForms DEF Unnamed
  <2> QED BY <1>1, <1>2, <1>4, <2>1, WriteForms
<1>5. CASE cancelled.phase # "sent" /\ cancelled.sid = cancelled.scroll /\ Scrolled(cancelled)
  BY <1>1, <1>2, <1>5, WriteForms
<1> QED BY <1>3, <1>4, <1>5 DEF ServeCancelled

LEMMA RefetchInvStep == Typed /\ RefetchInv /\ [Next]_vars => RefetchInv'
<1> SUFFICES ASSUME Typed, RefetchInv, [Next]_vars PROVE RefetchInv'
  OBVIOUS
<1> DEFINE q == request["refetch"]
<1> USE DEF server, view
<1>1. TypeOK /\ RequestsTyped /\ request \in [Kinds -> Requests \union {None}]
  BY DEF Typed, TypeOK, RequestsTyped
<1>2. "refetch" \in Kinds /\ "refresh" \in Kinds /\ "next" \in Kinds
  BY DEF Kinds
<1>3. q # None /\ q.phase # "sent" => /\ Apart(q) /\ (q.phase = "answered" => Written(q))
                                      /\ q.sid # None
  BY <1>1, <1>2, RequestsAre DEF RefetchInv, RequestOf, IsRequest
<1>4. ASSUME \/ q' = None
             \/ /\ q' = q /\ scrollId' # q.sid
                /\ \A k \in Kinds \ {"refetch"} :
                     request'[k] # None => q.sid \notin {request'[k].scroll, request'[k].sid}
                /\ cancelled' # None => q.sid \notin {cancelled'.scroll, cancelled'.sid}
                /\ q.sid \in DOMAIN position' =>
                     q.sid \in DOMAIN position /\ position'[q.sid] = position[q.sid]
             \/ ~ (q # None /\ q.phase # "sent") /\ q' = q
      PROVE  RefetchInv'
  BY <1>3, <1>4 DEF RefetchInv, Apart, Written
<1>5. CASE UNCHANGED <<request, cancelled, scrollId, position>>
  BY <1>3, <1>4, <1>5 DEF Apart
<1>6. CASE UNCHANGED <<request, cancelled, scrollId>> /\ position' = [s \in {} |-> 0]
  BY <1>3, <1>4, <1>6 DEF Apart
<1>7. ASSUME NEW k \in Kinds \ {"refetch"}, NEW r, Switch(k, r), r.scroll = scrollId, r.sid = None,
             UNCHANGED <<scrollId, position>>
      PROVE  RefetchInv'
  <2>1. /\ q' = q /\ request'[k] = r
        /\ \A l \in Kinds \ {"refetch", k} : request'[l] = request[l]
    BY <1>1, <1>2, <1>7 DEF Switch
  <2>2. \/ cancelled' = cancelled
        \/ /\ request[k] # None /\ cancelled'.scroll = request[k].scroll
           /\ cancelled'.sid = request[k].sid
    BY <1>1, <1>7 DEF Switch, Requests
  <2> QED BY <1>3, <1>4, <1>7, <2>1, <2>2 DEF Apart
<1>8. CASE SendRefetch
  <2>1. request' = [request EXCEPT !["refetch"] = Fetch(audit.type, None, TRUE, audit.size)]
    BY <1>8 DEF SendRefetch, Switch
  <2>2. q'.phase = "sent"
    BY <1>1, <1>2, <2>1 DEF Fetch
  <2> QED BY <2>2 DEF RefetchInv
<1>9. \A type, whole : FetchOn(type, whole).scroll = scrollId /\ FetchOn(type, whole).sid = None
  BY DEF FetchOn, Fetch
<1>10. ASSUME NEW auto \in BOOLEAN, RefreshExperiments(auto), UNCHANGED <<scrollId, position>>
       PROVE  RefetchInv'
  BY <1>2, <1>5, <1>7, <1>9, <1>10 DEF RefreshExperiments
<1>11. CASE AutoRefresh \/ RefreshButton \/ CreateAnswered
  BY <1>10, <1>11 DEF AutoRefresh, RefreshButton, CreateAnswered
<1>12. CASE GetNextExperiments
  BY <1>2, <1>7, <1>9, <1>12 DEF GetNextExperiments
<1>13. ASSUME NEW k \in Kinds, ServeRead(k) PROVE RefetchInv'
  <2> DEFINE r == request'[k]
  <2>1. /\ request' = [request EXCEPT ![k] = r] /\ request[k] # None /\ r.phase = "read"
        /\ r.scroll = request[k].scroll
        /\ r.sid \notin Named \/ (r.sid = r.scroll /\ r.scroll # None)
        /\ RequestOf(k, r)
    BY <1>1, <1>13, ReadServed DEF SameRequest
  <2>2. UNCHANGED <<cancelled, scrollId, position>>
    BY <1>13 DEF ServeRead
  <2>3. \A l \in Kinds \ {k} : request'[l] = request[l]
    BY <1>1, <2>1
  <2>4. CASE k = "refetch"
    <3>1. r.sid \notin Named
      BY <2>1, <2>4 DEF RequestOf, RefetchOK
    <3> QED BY <2>1, <2>2, <2>3, <2>4, <3>1, NamedAre DEF RefetchInv, Apart
  <2>5. CASE k # "refetch"
    <3>1. q' = q /\ (q # None => q.sid \in Named)
      BY <1>2, <2>3, <2>5, NamedAre
    <3>2. q # None /\ q.phase # "sent" => q.sid \notin {r.scroll, r.sid}
      BY <1>3, <2>1, <2>5, <3>1 DEF Apart
    <3> QED BY <1>3, <1>4, <2>2, <2>3, <3>1, <3>2 DEF Apart
  <2> QED BY <2>4, <2>5
<1>14. ASSUME NEW k \in Kinds, ServeWrite(k) PROVE RefetchInv'
  <2> DEFINE r == request'[k]
  <2>1. /\ request' = [request EXCEPT ![k] = r] /\ request[k] # None /\ request[k] \in Requests
        /\ request[k].sid \in Scrolls /\ request[k].phase = "read" /\ r.scroll = request[k].scroll
        /\ r.sid = request[k].sid /\ r.start = request[k].start /\ r.data = request[k].data
    BY <1>1, <1>14, WriteServed DEF SameRequest
  <2>2. UNCHANGED <<cancelled, scrollId>> /\ Scrolled(request[k])
    BY <1>14 DEF ServeWrite
  <2>3. \A l \in Kinds \ {k} : request'[l] = request[l]
    BY <1>1, <2>1
  <2>4. /\ position'[request[k].sid] = request[k].start + Len(request[k].data)
        /\ \A s \in DOMAIN position' : s # request[k].sid =>
             s \in DOMAIN position /\ position'[s] = position[s]
    BY <1>1, <2>1, <2>2, WriteForms
  <2>5. CASE k = "refetch"
    <3>1. Written(q)'
      BY <2>1, <2>4, <2>5 DEF Written
    <3>2. Apart(q)'
      BY <1>3, <2>1, <2>2, <2>3, <2>5 DEF Apart
    <3> QED BY <3>1, <3>2 DEF RefetchInv
  <2>6. CASE k # "refetch"
    <3>1. q' = q
      BY <1>2, <2>3, <2>6
    <3> QED BY <1>3, <1>4, <2>1, <2>2, <2>3, <2>4, <2>6, <3>1 DEF Apart
  <2> QED BY <2>5, <2>6
<1>15. CASE ServeCancelled
  <2>1. UNCHANGED <<request, scrollId>>
    BY <1>15 DEF ServeCancelled
  <2> QED BY <1>1, <1>3, <1>4, <1>15, <2>1, CancelledForms DEF Apart
<1>16. CASE RefetchAnswered \/ RefetchFailed
  <2>1. q' = None
    BY <1>1, <1>2, <1>16 DEF RefetchAnswered, RefetchFailed, Done
  <2> QED BY <1>4, <2>1
<1>17. ASSUME NEW k \in Kinds \ {"refetch"}, Done(k), request[k] # None,
              scrollId' \in {scrollId, request[k].sid}, UNCHANGED <<position, cancelled>>
       PROVE  RefetchInv'
  <2>1. q' = q /\ request'[k] = None /\ \A l \in Kinds \ {k} : request'[l] = request[l]
    BY <1>1, <1>2, <1>17 DEF Done
  <2> QED BY <1>3, <1>4, <1>17, <2>1 DEF Apart
<1>18. CASE RefreshAnswered
  <2>1. /\ Done("refresh") /\ request["refresh"] # None /\ UNCHANGED <<position, cancelled>>
        /\ scrollId' \in {scrollId, request["refresh"].sid}
    BY <1>18 DEF RefreshAnswered
  <2> QED BY <1>2, <1>17, <2>1
<1>19. CASE NextAnswered
  <2>1. /\ Done("next") /\ request["next"] # None /\ UNCHANGED <<position, cancelled>>
        /\ scrollId' \in {scrollId, request["next"].sid}
    BY <1>19 DEF NextAnswered
  <2> QED BY <1>2, <1>17, <2>1
<1>20. CASE RefreshFailed \/ NextFailed
  <2>1. \E k \in {"refresh", "next"} : Done(k) /\ request[k] # None
    BY <1>20 DEF RefreshFailed, NextFailed
  <2>2. UNCHANGED <<position, cancelled, scrollId>>
    BY <1>20 DEF RefreshFailed, NextFailed
  <2> QED BY <1>2, <1>17, <2>1, <2>2
<1>21. CASE Expire
  BY <1>6, <1>21 DEF Expire
<1>22. CASE FollowUrl \/ TableFilterChanged \/ GlobalFilterChanged \/ OpenProject \/ SelectExperiment
  BY <1>5, <1>22 DEF FollowUrl, TableFilterChanged, GlobalFilterChanged, OpenProject, SelectExperiment
<1>23. CASE ChangedElsewhere \/ CreateExperiment \/ ServeCreate \/ CreateFailed \/ UNCHANGED vars
  BY <1>5, <1>23 DEF ChangedElsewhere, CreateExperiment, ServeCreate, CreateFailed, vars
<1>24. CASE SelectAllExperiments \/ SelectAllAnswered \/ Archive \/ ArchiveAnswered
  BY <1>5, <1>24 DEF SelectAllExperiments, SelectAllAnswered, Archive, ArchiveAnswered
<1> QED BY <1>8, <1>11, <1>12, <1>13, <1>14, <1>15, <1>16, <1>18, <1>19, <1>20, <1>21, <1>22,
           <1>23, <1>24 DEF Next

AloneInv == ~disturbed => OnlyOne

LEMMA AloneStep == Typed /\ AloneInv /\ [Next]_vars => AloneInv'
<1> SUFFICES ASSUME Typed, AloneInv, [Next]_vars, ~disturbed' PROVE OnlyOne'
  BY DEF AloneInv
<1> USE DEF history
<1>1. request \in [Kinds -> Requests \union {None}]
  BY DEF Typed, TypeOK
<1>2. "refetch" \in Kinds /\ "refresh" \in Kinds /\ "next" \in Kinds
  BY DEF Kinds
<1>3. CASE /\ ~disturbed /\ cancelled' \in {cancelled, None}
           /\ \A k \in Kinds : request[k] = None => request'[k] = None
  BY <1>3 DEF AloneInv, OnlyOne
<1>4. ASSUME NEW k \in Kinds, NEW r, Switch(k, r) PROVE OnlyOne'
  <2>1. ~disturbed /\ \A l \in Kinds : request[l] = None
    BY <1>4 DEF Switch
  <2>2. cancelled' = None /\ \A l \in Kinds : l # k => request'[l] = None
    BY <1>1, <1>4, <2>1 DEF Switch, AloneInv, OnlyOne
  <2> QED BY <2>2 DEF OnlyOne
<1>5. ASSUME NEW auto \in BOOLEAN, RefreshExperiments(auto) PROVE OnlyOne'
  BY <1>2, <1>3, <1>4, <1>5 DEF RefreshExperiments
<1>6. CASE AutoRefresh \/ RefreshButton \/ CreateAnswered
  BY <1>5, <1>6 DEF AutoRefresh, RefreshButton, CreateAnswered
<1>7. CASE SendRefetch
  <2> DEFINE r == Fetch(audit.type, None, TRUE, audit.size)
  <2>1. Switch("refetch", r)
    BY <1>7 DEF SendRefetch
  <2> HIDE DEF r
  <2> QED BY <1>2, <1>4, <2>1
<1>8. CASE GetNextExperiments
  BY <1>2, <1>4, <1>8 DEF GetNextExperiments
<1>9. ASSUME NEW k \in Kinds, ServeRead(k) \/ ServeWrite(k) PROVE OnlyOne'
  <2>1. /\ request[k] # None /\ UNCHANGED <<cancelled, disturbed>>
        /\ \A l \in Kinds \ {k} : request'[l] = request[l]
    BY <1>1, <1>9 DEF ServeRead, ServeWrite
  <2> QED BY <1>3, <2>1
<1>10. ASSUME NEW k \in Kinds, Done(k) PROVE \A l \in Kinds : request[l] = None => request'[l] = None
  BY <1>1, <1>10 DEF Done
<1>11. CASE RefetchAnswered
  <2>1. Done("refetch") /\ cancelled' = cancelled
        /\ (~disturbed \/ Alone("refetch"))
    BY <1>11 DEF RefetchAnswered
  <2>2. CASE ~disturbed
    BY <1>2, <1>3, <1>10, <2>1, <2>2
  <2>3. CASE Alone("refetch")
    BY <1>1, <2>1, <2>3 DEF Alone, OnlyOne, Done
  <2> QED BY <2>1, <2>2, <2>3
<1>12. CASE RefetchFailed \/ RefreshFailed \/ NextFailed
  BY <1>2, <1>3, <1>10, <1>12 DEF RefetchFailed, RefreshFailed, NextFailed
<1>13. CASE RefreshAnswered \/ NextAnswered
  BY <1>2, <1>3, <1>10, <1>13 DEF RefreshAnswered, NextAnswered
<1>14. CASE ServeCancelled \/ Expire \/ ChangedElsewhere \/ UNCHANGED vars
  BY <1>3, <1>14 DEF ServeCancelled, Expire, ChangedElsewhere, vars
<1>15. CASE FollowUrl \/ TableFilterChanged \/ GlobalFilterChanged \/ OpenProject \/ SelectExperiment
  BY <1>3, <1>15 DEF FollowUrl, TableFilterChanged, GlobalFilterChanged, OpenProject, SelectExperiment
<1>16. CASE CreateExperiment \/ ServeCreate \/ CreateFailed \/ SelectAllExperiments
  BY <1>3, <1>16 DEF CreateExperiment, ServeCreate, CreateFailed, SelectAllExperiments
<1>17. CASE SelectAllAnswered \/ Archive \/ ArchiveAnswered
  BY <1>3, <1>17 DEF SelectAllAnswered, Archive, ArchiveAnswered
<1> QED BY <1>6, <1>7, <1>8, <1>9, <1>11, <1>12, <1>13, <1>14, <1>15, <1>16, <1>17 DEF Next

KnowsInv == ~disturbed => \A k \in {"refresh", "next"} : request[k] # None => Knows(request[k])

LEMMA KnowsStep == Typed /\ AloneInv /\ KnowsInv /\ [Next]_vars => KnowsInv'
<1> SUFFICES ASSUME Typed, AloneInv, KnowsInv, [Next]_vars, ~disturbed',
                    NEW k \in {"refresh", "next"}, request'[k] # None
             PROVE  Knows(request[k])'
  BY DEF KnowsInv
<1> USE DEF history, view, server
<1>1. TypeOK /\ RequestsTyped /\ request \in [Kinds -> Requests \union {None}]
  BY DEF Typed, TypeOK, RequestsTyped
<1>2. "refetch" \in Kinds /\ "refresh" \in Kinds /\ "next" \in Kinds /\ k \in Kinds
  BY DEF Kinds
<1>3. ~disturbed /\ request[k] # None =>
        /\ Knows(request[k]) /\ cancelled = None
        /\ \A l \in Kinds \ {k} : request[l] = None
  BY <1>2 DEF KnowsInv, AloneInv, OnlyOne
<1>4. CASE /\ ~disturbed /\ UNCHANGED <<request, scrollId, refreshList>>
           /\ experiments' \in {experiments, None}
           /\ position' = position \/ position' = [s \in {} |-> 0]
  BY <1>3, <1>4 DEF Knows, Written
<1>5. ASSUME NEW l \in Kinds, NEW r, Switch(l, r), UNCHANGED <<scrollId, refreshList, experiments>>,
             l = k => /\ r.scroll = scrollId /\ r.pending = refreshList /\ r.shown = experiments
                      /\ r.phase = "sent"
      PROVE  Knows(request[k])'
  <2>1. ~disturbed /\ request[k] = None
    BY <1>2, <1>5 DEF Switch
  <2>2. l = k /\ request'[k] = r
    BY <1>1, <1>2, <1>5, <2>1 DEF Switch
  <2> QED BY <1>5, <2>2 DEF Knows
<1>6. ASSUME NEW type \in {"auto", "manual", "next"}, NEW whole \in BOOLEAN
      PROVE  /\ FetchOn(type, whole).scroll = scrollId /\ FetchOn(type, whole).pending = refreshList
             /\ FetchOn(type, whole).shown = experiments /\ FetchOn(type, whole).phase = "sent"
  BY DEF FetchOn, Fetch
<1>7. ASSUME NEW auto \in BOOLEAN, RefreshExperiments(auto),
             UNCHANGED <<scrollId, refreshList, experiments, position>>
      PROVE  Knows(request[k])'
  <2>1. CASE lockRefresh
    BY <1>4, <1>7, <2>1 DEF RefreshExperiments
  <2>2. CASE ~lockRefresh
    <3> DEFINE r == FetchOn(IF auto THEN "auto" ELSE "manual", TRUE)
    <3>1. /\ r.scroll = scrollId /\ r.pending = refreshList /\ r.shown = experiments
          /\ r.phase = "sent" /\ Switch("refresh", r)
      BY <1>6, <1>7, <2>2 DEF RefreshExperiments
    <3> HIDE DEF r
    <3> QED BY <1>2, <1>5, <1>7, <3>1
  <2> QED BY <2>1, <2>2
<1>8. CASE AutoRefresh \/ RefreshButton \/ CreateAnswered
  BY <1>7, <1>8 DEF AutoRefresh, RefreshButton, CreateAnswered
<1>9. CASE SendRefetch
  <2> DEFINE r == Fetch(audit.type, None, TRUE, audit.size)
  <2>1. Switch("refetch", r) /\ UNCHANGED <<scrollId, refreshList, experiments>>
    BY <1>9 DEF SendRefetch
  <2> HIDE DEF r
  <2> QED BY <1>2, <1>5, <2>1
<1>10. CASE GetNextExperiments
  <2>1. Switch("next", FetchOn("next", FALSE)) /\ UNCHANGED <<scrollId, refreshList, experiments>>
    BY <1>10 DEF GetNextExperiments
  <2> QED BY <1>2, <1>5, <1>6, <2>1
<1>11. ASSUME NEW l \in Kinds, ServeRead(l) PROVE Knows(request[k])'
  <2>1. /\ request' = [request EXCEPT ![l] = request'[l]] /\ request[l] # None
        /\ request'[l].phase = "read" /\ SameRequest(request'[l], request[l])
    BY <1>1, <1>11, ReadServed
  <2>2. UNCHANGED <<scrollId, refreshList, experiments, disturbed>>
    BY <1>11 DEF ServeRead
  <2>3. l = k
    BY <1>1, <1>2, <1>3, <2>1, <2>2
  <2> QED BY <1>3, <2>1, <2>2, <2>3 DEF Knows, SameRequest
<1>12. ASSUME NEW l \in Kinds, ServeWrite(l) PROVE Knows(request[k])'
  <2>1. /\ request' = [request EXCEPT ![l] = request'[l]] /\ request[l] # None
        /\ request[l] \in Requests /\ request[l].sid \in Scrolls /\ SameRequest(request'[l], request[l])
        /\ request'[l].sid = request[l].sid /\ request'[l].start = request[l].start
        /\ request'[l].data = request[l].data
    BY <1>1, <1>12, WriteServed
  <2>2. UNCHANGED <<scrollId, refreshList, experiments, disturbed>> /\ Scrolled(request[l])
    BY <1>12 DEF ServeWrite
  <2>3. l = k
    BY <1>1, <1>2, <1>3, <2>1, <2>2
  <2>4. position'[request[l].sid] = request[l].start + Len(request[l].data)
    BY <1>1, <2>1, <2>2, WriteForms
  <2>5. Written(request[k])'
    BY <2>1, <2>3, <2>4 DEF Written
  <2> QED BY <1>3, <2>1, <2>2, <2>3, <2>5 DEF Knows, SameRequest
<1>13. CASE ServeCancelled
  BY <1>1, <1>3, <1>13 DEF ServeCancelled
<1>14. CASE RefetchAnswered
  <2>1. ~disturbed \/ Alone("refetch")
    BY <1>14 DEF RefetchAnswered
  <2>2. request[k] # None /\ request["refetch"] # None
    BY <1>1, <1>2, <1>14 DEF RefetchAnswered, Done
  <2> QED BY <1>2, <1>3, <2>1, <2>2 DEF Alone
<1>15. CASE RefreshAnswered \/ RefreshFailed
  <2>1. request["refresh"] # None /\ request' = [request EXCEPT !["refresh"] = None]
        /\ (disturbed => disturbed')
    BY <1>15 DEF RefreshAnswered, RefreshFailed, Done
  <2>2. k # "refresh" /\ request[k] # None
    BY <1>1, <1>2, <2>1
  <2> QED BY <1>2, <1>3, <2>1, <2>2
<1>16. CASE NextAnswered
  <2>1. request["next"] # None /\ request' = [request EXCEPT !["next"] = None]
        /\ (disturbed => disturbed')
    BY <1>16 DEF NextAnswered, Done
  <2>2. k # "next" /\ request[k] # None
    BY <1>1, <1>2, <2>1
  <2> QED BY <1>2, <1>3, <2>1, <2>2
<1>17. CASE RefetchFailed \/ NextFailed \/ ArchiveAnswered
  BY <1>17 DEF RefetchFailed, NextFailed, ArchiveAnswered
<1>18. CASE Expire \/ OpenProject
  BY <1>4, <1>18 DEF Expire, OpenProject
<1>19. CASE FollowUrl \/ TableFilterChanged \/ GlobalFilterChanged \/ SelectExperiment
  BY <1>4, <1>19 DEF FollowUrl, TableFilterChanged, GlobalFilterChanged, SelectExperiment
<1>20. CASE ChangedElsewhere \/ CreateExperiment \/ ServeCreate \/ CreateFailed \/ UNCHANGED vars
  BY <1>4, <1>20 DEF ChangedElsewhere, CreateExperiment, ServeCreate, CreateFailed, vars
<1>21. CASE SelectAllExperiments \/ SelectAllAnswered \/ Archive
  BY <1>4, <1>21 DEF SelectAllExperiments, SelectAllAnswered, Archive
<1> QED BY <1>8, <1>9, <1>10, <1>11, <1>12, <1>13, <1>14, <1>15, <1>16, <1>17, <1>18, <1>19,
           <1>20, <1>21 DEF Next

(* What the page that is asked for next will be of: the rows end where the  *)
(* server stands, or the page that was read started where they end.         *)
Quiet ==
  /\ audit = None /\ request["refetch"] = None /\ request["refresh"] = None
  /\ ~refreshList /\ experiments # None

PageInv == ~disturbed /\ Quiet => NextInv

ScrollInv == RefetchInv /\ AloneInv /\ KnowsInv /\ PageInv

(* A refresh leaves as many rows as it has read. *)
LEMMA RefreshedLength ==
  ASSUME TypeOK, NEW r \in Requests, Knows(r), RefreshedRows(r) # None
  PROVE  Len(RefreshedRows(r)) = Len(r.data)
<1>1. CASE /\ r.selected /\ r.shown # None /\ Len(r.shown) = Len(r.data)
           /\ Rows(r.shown) = Rows(r.data)
  <2>1. experiments # None /\ RefreshedRows(r) = Only(experiments, Rows(r.data))
    BY <1>1 DEF RefreshedRows
  <2>2. r.shown = experiments /\ experiments \in Seq(Task)
    BY <2>1 DEF Knows, TypeOK
  <2>3. Rows(experiments) \subseteq Rows(r.data)
    BY <1>1, <2>2
  <2>4. Only(experiments, Rows(r.data)) = experiments
    BY <2>2, <2>3, OnlyForms
  <2> QED BY <1>1, <2>1, <2>2, <2>4
<1>2. CASE ~ (/\ r.selected /\ r.shown # None /\ Len(r.shown) = Len(r.data)
              /\ Rows(r.shown) = Rows(r.data))
  BY <1>2 DEF RefreshedRows
<1> QED BY <1>1, <1>2

LEMMA PageStep == Typed /\ ScrollInv /\ [Next]_vars => PageInv'
<1> SUFFICES ASSUME Typed, ScrollInv, [Next]_vars, ~disturbed', Quiet'
             PROVE  NextInv'
  BY DEF PageInv
<1> USE DEF history, view, server
<1> DEFINE n == request["next"]
<1>1. TypeOK /\ RequestsTyped /\ request \in [Kinds -> Requests \union {None}]
  BY DEF Typed, TypeOK, RequestsTyped
<1>2. "refetch" \in Kinds /\ "refresh" \in Kinds /\ "next" \in Kinds
  BY DEF Kinds
<1>3. /\ audit' = None /\ request'["refetch"] = None /\ request'["refresh"] = None
      /\ ~refreshList' /\ experiments' # None
  BY DEF Quiet
<1>4. /\ ~disturbed /\ Quiet => NextInv
      /\ ~disturbed => OnlyOne
  BY DEF ScrollInv, PageInv, AloneInv
<1>5. ASSUME NEW k \in {"refresh", "next"}, ~disturbed, request[k] # None
      PROVE  Knows(request[k]) /\ \A l \in Kinds \ {k} : request[l] = None
  BY <1>2, <1>4, <1>5 DEF ScrollInv, KnowsInv, OnlyOne
<1>6. CASE UNCHANGED <<disturbed, request, audit, scrollId, refreshList, experiments, position>>
  BY <1>3, <1>4, <1>6 DEF Quiet, NextInv, Continued
<1>7. ASSUME NEW types \in SUBSET Refetching, NEW last \in Refetching, NEW size \in Nat,
             ReFetch(types, last, size)
      PROVE  FALSE
  BY <1>1, <1>3, <1>7, ReFetchTyped, NoneAssumption
<1>8. CASE FollowUrl \/ TableFilterChanged \/ GlobalFilterChanged \/ ArchiveAnswered
  BY <1>7, <1>8, TableAssumption DEF FollowUrl, TableFilterChanged, GlobalFilterChanged,
       ArchiveAnswered, Refetching
<1>9. CASE OpenProject
  BY <1>3, <1>9 DEF OpenProject
<1>10. CASE SendRefetch
  <2>1. audit \in Audits /\ Switch("refetch", Fetch(audit.type, None, TRUE, audit.size))
    BY <1>1, <1>10 DEF SendRefetch, TypeOK
  <2>2. RequestOf("refetch", Fetch(audit.type, None, TRUE, audit.size))
    BY <1>1, <2>1, FetchIs
  <2>3. request'["refetch"] # None
    BY <1>1, <1>2, <2>1, <2>2, NoneAssumption DEF Switch, RequestOf, IsRequest
  <2> QED BY <1>3, <2>3
<1>11. ASSUME NEW auto \in BOOLEAN, RefreshExperiments(auto) PROVE lockRefresh /\ UNCHANGED <<request, disturbed>>
  <2>1. CASE ~lockRefresh
    <3>1. PICK type \in {"auto", "manual"} : Switch("refresh", FetchOn(type, TRUE))
      BY <1>11, <2>1 DEF RefreshExperiments
    <3>2. RequestOf("refresh", FetchOn(type, TRUE))
      BY <1>1, FetchIs
    <3>3. request'["refresh"] # None
      BY <1>1, <1>2, <3>1, <3>2, NoneAssumption DEF Switch, RequestOf, IsRequest
    <3> QED BY <1>3, <3>3
  <2> QED BY <1>11, <2>1 DEF RefreshExperiments
<1>12. CASE AutoRefresh \/ RefreshButton \/ CreateAnswered
  BY <1>6, <1>11, <1>12 DEF AutoRefresh, RefreshButton, CreateAnswered
<1>13. CASE GetNextExperiments
  <2>1. /\ Switch("next", FetchOn("next", FALSE))
        /\ UNCHANGED <<audit, scrollId, refreshList, experiments, position>>
    BY <1>13 DEF GetNextExperiments
  <2>2. ~disturbed /\ \A k \in Kinds : request[k] = None
    BY <2>1 DEF Switch
  <2>3. Continued
    BY <1>2, <1>3, <1>4, <2>1, <2>2 DEF Quiet, NextInv
  <2>4. n' = FetchOn("next", FALSE)
    BY <1>1, <1>2, <2>1 DEF Switch
  <2>5. FetchOn("next", FALSE).phase = "sent"
    BY DEF FetchOn, Fetch
  <2> QED BY <2>1, <2>3, <2>4, <2>5 DEF NextInv, Continued
<1>14. ASSUME NEW k \in Kinds, ServeRead(k) PROVE NextInv'
  <2> DEFINE r == request'[k]
  <2>1. /\ request' = [request EXCEPT ![k] = r] /\ r # None /\ request[k] # None
        /\ RequestOf(k, r) /\ SameRequest(r, request[k]) /\ r.phase = "read"
        /\ r.sid \notin Named \/ (r.sid = r.scroll /\ r.scroll # None)
        /\ ~r.whole /\ r.sid = r.scroll /\ r.scroll \in Named =>
             r.scroll \in DOMAIN position /\ r.start = position[r.scroll]
    BY <1>1, <1>14, ReadServed
  <2>2. k = "next"
    BY <1>3, <2>1 DEF Kinds
  <2>3. UNCHANGED <<disturbed, audit, scrollId, refreshList, experiments, position>>
        /\ request[k].phase = "sent"
    BY <1>14 DEF ServeRead
  <2>4. request["refetch"] = None /\ request["refresh"] = None
    BY <1>1, <1>2, <1>3, <2>1, <2>2
  <2>5. Continued
    BY <1>3, <1>4, <2>2, <2>3, <2>4 DEF Quiet, NextInv
  <2>6. r.scroll = scrollId /\ ~r.whole
    BY <1>5, <2>1, <2>2, <2>3 DEF SameRequest, RequestOf, NextOK, Knows
  <2>7. r.sid = scrollId => r.start = Len(experiments)
    BY <2>1, <2>5, <2>6, NamedAre DEF Continued
  <2> QED BY <2>1, <2>2, <2>3, <2>7 DEF NextInv
<1>15. ASSUME NEW k \in Kinds, ServeWrite(k) PROVE NextInv'
  <2> DEFINE r == request'[k]
  <2>1. /\ request' = [request EXCEPT ![k] = r] /\ request[k] # None /\ r # None
        /\ request[k].phase = "read"
        /\ r.sid = request[k].sid /\ r.start = request[k].start /\ r.phase = "answered"
    BY <1>1, <1>15, WriteServed
  <2>2. k = "next"
    BY <1>3, <2>1 DEF Kinds
  <2>3. UNCHANGED <<disturbed, audit, scrollId, refreshList, experiments>>
    BY <1>15 DEF ServeWrite
  <2>4. request["refetch"] = None /\ request["refresh"] = None
    BY <1>1, <1>2, <1>3, <2>1, <2>2
  <2>5. NextInv
    BY <1>3, <1>4, <2>3, <2>4 DEF Quiet
  <2> QED BY <2>1, <2>2, <2>3, <2>5 DEF NextInv
<1>16. CASE ServeCancelled
  <2>1. cancelled # None /\ ~disturbed
    BY <1>16 DEF ServeCancelled
  <2> QED BY <1>4, <2>1 DEF OnlyOne
<1>17. CASE Expire
  <2>1. UNCHANGED <<disturbed, request, audit, scrollId, refreshList, experiments>>
        /\ DOMAIN position' = {}
    BY <1>17 DEF Expire
  <2> QED BY <1>3, <1>4, <2>1 DEF Quiet, NextInv, Continued
<1>18. CASE RefetchAnswered
  <2> DEFINE q == request["refetch"]
  <2>1. /\ q # None /\ q.phase = "answered" /\ experiments' = q.data /\ scrollId' = q.sid
        /\ position' = position /\ (~disturbed \/ Alone("refetch")) /\ Done("refetch")
    BY <1>18 DEF RefetchAnswered
  <2>2. n' = None
    BY <1>1, <1>2, <1>4, <2>1 DEF Alone, OnlyOne, Done
  <2>3. Written(q)
    BY <2>1 DEF ScrollInv, RefetchInv
  <2>4. q.start = 0 /\ q \in Requests
    BY <1>1, <1>2, <2>1, RequestsAre DEF RequestOf, RefetchOK, IsRequest
  <2>5. Len(q.data) \in Nat
    BY <2>4, LenProperties DEF Requests
  <2> QED BY <2>1, <2>2, <2>3, <2>4, <2>5 DEF NextInv, Continued, Written
<1>19. CASE RefreshAnswered
  <2> DEFINE r == request["refresh"]
  <2>1. /\ r # None /\ r.phase = "answered" /\ Done("refresh")
        /\ UNCHANGED <<position, disturbed>>
    BY <1>19 DEF RefreshAnswered
  <2>2. Knows(r) /\ n = None /\ n' = None
    BY <1>1, <1>2, <1>5, <2>1 DEF Done
  <2>3. r \in Requests /\ r.start = 0 /\ r.type \in {"auto", "manual"}
    BY <1>1, <1>2, <2>1, RequestsAre DEF RequestOf, RefreshOK, IsRequest
  <2>4. ~r.pending
    <3>1. CASE r.pending
      <4>1. FetchAgain(r) /\ r.shown # None
        BY <1>19, <3>1 DEF RefreshAnswered
      <4> QED BY <1>1, <1>3, <2>3, <4>1, FetchAgainTyped, NoneAssumption
    <3> QED BY <3>1
  <2> DEFINE expired == r.scroll # None /\ r.sid # r.scroll
             replaces == r.type = "auto" \/ r.sid = r.scroll
  <2>5. /\ scrollId' = IF expired THEN r.sid ELSE scrollId
        /\ experiments' = IF replaces THEN RefreshedRows(r) ELSE experiments
        /\ expired => r.type # "manual"
    BY <1>3, <1>19, <2>4 DEF RefreshAnswered
  <2>6. CASE scrollId' = r.sid /\ replaces
    <3>1. Len(experiments') = Len(r.data)
      BY <1>1, <1>3, <2>2, <2>3, <2>5, <2>6, RefreshedLength
    <3>2. Len(r.data) \in Nat
      BY <2>3, LenProperties DEF Requests
    <3>3. Written(r)
      BY <2>1, <2>2 DEF Knows
    <3> QED BY <2>1, <2>2, <2>3, <2>6, <3>1, <3>2, <3>3 DEF NextInv, Continued, Written
  <2>7. CASE scrollId' = None
    <3>1. None \notin DOMAIN position'
      BY <1>1, <2>1, NoneAssumption DEF TypeOK
    <3> QED BY <2>2, <2>7, <3>1 DEF NextInv, Continued
  <2>8. r.scroll = scrollId
    BY <2>2 DEF Knows
  <2> QED BY <2>3, <2>5, <2>6, <2>7, <2>8
<1>20. CASE RefreshFailed
  <2> DEFINE r == request["refresh"]
  <2>1. /\ r # None /\ r.pending /\ UNCHANGED <<disturbed, refreshList>>
    BY <1>20 DEF RefreshFailed
  <2> QED BY <1>3, <1>5, <2>1 DEF Knows
<1>21. CASE NextAnswered
  <2>1. /\ n # None /\ n.phase = "answered" /\ Done("next") /\ n.scroll # None /\ ~disturbed
        /\ position' = position
    BY <1>21 DEF NextAnswered
  <2>2. n \in Requests /\ n.shown # None /\ Knows(n)
    BY <1>1, <1>2, <1>5, <2>1, RequestsAre DEF RequestOf, NextOK, IsRequest
  <2>3. ~n.pending
    <3>1. CASE n.pending
      <4>1. FetchAgain(n)
        BY <1>21, <3>1 DEF NextAnswered
      <4> QED BY <1>1, <1>3, <2>2, <4>1, FetchAgainTyped, NoneAssumption
    <3> QED BY <3>1
  <2>4. /\ audit' = audit /\ ~refreshList /\ n.scroll = n.sid /\ scrollId' = n.sid
        /\ experiments # None /\ experiments' = experiments \o n.data
    BY <1>3, <1>21, <2>1, <2>3 DEF NextAnswered
  <2>5. request["refetch"] = None /\ request["refresh"] = None /\ n' = None
    BY <1>1, <1>2, <1>3, <2>1 DEF Done
  <2>6. NextInv
    BY <1>3, <1>4, <2>1, <2>4, <2>5 DEF Quiet
  <2>7. n.start = Len(experiments) /\ Written(n)
    BY <2>1, <2>2, <2>4, <2>6 DEF NextInv, Knows
  <2>8. Len(experiments') = Len(experiments) + Len(n.data)
    <3>1. experiments \in Seq(Task) /\ n.data \in Seq(Task)
      BY <1>1, <2>2, <2>4 DEF TypeOK, Requests
    <3> QED BY <2>4, <3>1, ConcatProperties
  <2> QED BY <2>1, <2>4, <2>5, <2>7, <2>8 DEF NextInv, Continued, Written
<1>22. CASE RefetchFailed \/ NextFailed
  BY <1>22 DEF RefetchFailed, NextFailed
<1>23. CASE SelectExperiment \/ CreateExperiment \/ ServeCreate \/ CreateFailed \/ UNCHANGED vars
  BY <1>6, <1>23 DEF SelectExperiment, CreateExperiment, ServeCreate, CreateFailed, vars
<1>24. CASE ChangedElsewhere \/ SelectAllExperiments \/ SelectAllAnswered \/ Archive
  BY <1>6, <1>24 DEF ChangedElsewhere, SelectAllExperiments, SelectAllAnswered, Archive
<1> QED BY <1>8, <1>9, <1>10, <1>12, <1>13, <1>14, <1>15, <1>16, <1>17, <1>18, <1>19, <1>20,
           <1>21, <1>22, <1>23, <1>24 DEF Next

(* While nothing is on its way, nothing disturbed the table and it is not   *)
(* marked to be refreshed, the position that the server keeps for its       *)
(* scroll is the number of its rows (get_data_with_scroll_support and the   *)
(* three effects).  Nothing is said of the tasks at that position: one that *)
(* was added elsewhere pushes a row that is shown into the next page.       *)
THEOREM NextPageIsRight == Spec => []NextPageContinues
<1>1. Init => ScrollInv
  <2> SUFFICES ASSUME Init PROVE ScrollInv
    OBVIOUS
  <2>1. /\ cancelled = None /\ \A k \in Kinds : request[k] = None
        /\ experiments = None
    BY DEF Init
  <2>2. "refetch" \in Kinds /\ "refresh" \in Kinds /\ "next" \in Kinds
    BY DEF Kinds
  <2> QED BY <2>1, <2>2 DEF ScrollInv, RefetchInv, AloneInv, OnlyOne, KnowsInv, PageInv, Quiet
<1>2. Typed /\ ScrollInv /\ [Next]_vars => ScrollInv'
  BY RefetchInvStep, AloneStep, KnowsStep, PageStep DEF ScrollInv
<1>3. ScrollInv => NextPageContinues
  BY DEF ScrollInv, PageInv, Quiet, NextInv, Continued, NextPageContinues, Kinds
<1> QED BY <1>1, <1>2, <1>3, TypedInductive, PTL DEF Spec
=============================================================================
