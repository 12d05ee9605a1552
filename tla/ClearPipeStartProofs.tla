------------------------ MODULE ClearPipeStartProofs ------------------------
(***************************************************************************)
(* Theorems about ClearPipeStart, for any requests: its variables keep     *)
(* their types, it implements IdempotentStart, and what it answers with    *)
(* was enqueued.  The first two follow from one fact about the code:       *)
(* nothing that a request knows of the reservation but its state can be    *)
(* stale, since no operation changes a run id or a fingerprint once they   *)
(* are reserved.                                                           *)
(***************************************************************************)
EXTENDS ClearPipeStart, TLAPS

(* k is what a may know when res is the reservation. *)
Fits(a, k, res) ==
  /\ k.res = None =>
       k.pc \in {"lookup", "reserve", "refused", "failed", "dead"}
  /\ k.pc \in {"change", "check", "push", "revert"} => k.seen # None
  /\ k.mine => k.res # None
  /\ k.res # None =>
       /\ res # None
       /\ k.res.run = res.run /\ k.res.body = res.body /\ res.body = Body[a]

(* The reservation that a request knows is the one that is there, up to its *)
(* state, and it asks for what the request asks for.                        *)
Known == \A a \in Attempts : Fits(a, call[a], reservation)

StoreTypes ==
  /\ reservation \in Reservation \union {None}
  /\ runs \in [Attempts -> Run \union {None}]
  /\ queue \subseteq Attempts /\ popped \subseteq Attempts
  /\ placed \subseteq Attempts

IInv == StoreTypes /\ call \in [Attempts -> Call] /\ Known

(* The run and the request a reservation binds never change. *)
Kept ==
  reservation # None =>
    /\ reservation' # None
    /\ reservation'.run = reservation.run
    /\ reservation'.body = reservation.body

(* A step of a is sound: it keeps the invariant, the reservation and what   *)
(* the others know, and a is refused only for another request's key.        *)
Sound(a) ==
  /\ IInv' /\ Kept
  /\ \A b \in Attempts \ {a} : call'[b] = call[b]
  /\ call'[a].pc = "refused" => reservation # None /\ reservation.body # Body[a]

-----------------------------------------------------------------------------
LEMMA TypeFromIInv == IInv => TypeOK
BY DEF IInv, TypeOK, StoreTypes, Known, Fits

LEMMA NewCallType == NewCall \in Call
BY DEF NewCall, Call, Label, Ended, EnqueueSteps

(* A step of one request is sound if what it knows then fits.               *)
LEMMA CallStep ==
  ASSUME IInv, NEW a \in Attempts, NEW k \in Call, Set(a, k), Kept,
         StoreTypes', Fits(a, k, reservation'),
         k.pc = "refused" => reservation # None /\ reservation.body # Body[a]
  PROVE  Sound(a)
<1>1. call' = [call EXCEPT ![a] = k]
  BY DEF Set
<1>2. call' \in [Attempts -> Call]
  BY <1>1 DEF IInv
<1>3. ASSUME NEW b \in Attempts PROVE Fits(b, call'[b], reservation')
  <2>1. CASE b = a
    BY <2>1, <1>1 DEF IInv
  <2>2. CASE b # a
    <3>1. call'[b] = call[b]
      BY <2>2, <1>1 DEF IInv
    <3>2. Fits(b, call[b], reservation)
      BY DEF IInv, Known
    <3>. QED
      BY <3>1, <3>2 DEF Fits, Kept
  <2>. QED
    BY <2>1, <2>2
<1>4. IInv'
  BY <1>2, <1>3 DEF IInv, Known
<1>5. call'[a] = k /\ \A b \in Attempts \ {a} : call'[b] = call[b]
  BY <1>1 DEF IInv
<1>. QED
  BY <1>4, <1>5 DEF Sound

(* What a request knows when it goes on at l. *)
LEMMA ThenType ==
  ASSUME NEW a \in Attempts, NEW l \in Label, call[a] \in Call
  PROVE  /\ Then(a, l) \in Call
         /\ Then(a, l).pc = l
         /\ l \notin Ended \ {"ok"} => Then(a, l).res = call[a].res
         /\ l \in Ended \ {"ok"} => Then(a, l).res = None
         /\ l \in EnqueueSteps => Then(a, l).seen = call[a].seen
         /\ Then(a, l).mine => call[a].mine /\ l \notin Ended
<1>1. CASE l = "ok"
  BY <1>1, NewCallType DEF Then, NewCall, Call, Ended, EnqueueSteps
<1>2. CASE l \in Ended \ {"ok"}
  BY <1>2, NewCallType DEF Then, NewCall, Call, Ended, EnqueueSteps
<1>3. CASE l \in EnqueueSteps
  BY <1>3 DEF Then, Call, Ended, EnqueueSteps
<1>4. CASE l \notin Ended \union EnqueueSteps
  BY <1>4 DEF Then, Call, Ended, EnqueueSteps
<1>. QED
  BY <1>1, <1>2, <1>3, <1>4

(* Going on at l is sound when the store keeps its types and the            *)
(* reservation its run and its request.                                     *)
LEMMA GotoStep ==
  ASSUME IInv, NEW a \in Attempts, NEW l \in Label, Goto(a, l), Kept, StoreTypes',
         l \in Ended \ {"ok"} \/ l = "lookup" \/ l = "reserve" \/ call[a].res # None,
         l \in {"change", "check", "push", "revert"} => call[a].seen # None,
         l = "refused" => reservation # None /\ reservation.body # Body[a]
  PROVE  Sound(a)
<1>1. call[a] \in Call /\ Fits(a, call[a], reservation)
  BY DEF IInv, Known
<1>2. /\ Then(a, l) \in Call
      /\ Then(a, l).pc = l
      /\ l \notin Ended \ {"ok"} => Then(a, l).res = call[a].res
      /\ l \in Ended \ {"ok"} => Then(a, l).res = None
      /\ l \in EnqueueSteps => Then(a, l).seen = call[a].seen
      /\ Then(a, l).mine => call[a].mine /\ l \notin Ended
  BY <1>1, ThenType
<1>3. Fits(a, Then(a, l), reservation')
  <2>1. Then(a, l).res = None =>
          l \in {"lookup", "reserve", "refused", "failed", "dead"}
    BY <1>2 DEF Ended
  <2>2. l \in {"change", "check", "push", "revert"} => Then(a, l).seen # None
    BY <1>2 DEF EnqueueSteps
  <2>3. Then(a, l).res # None => Then(a, l).res = call[a].res
    BY <1>2
  <2>. QED
    BY <1>1, <1>2, <2>1, <2>2, <2>3 DEF Fits, Kept
<1>. QED
  BY <1>2, <1>3, CallStep DEF Goto

(* The same for a request that raises. *)
LEMMA ExceptStep ==
  ASSUME IInv, NEW a \in Attempts, Except(a), Kept, StoreTypes'
  PROVE  Sound(a)
<1>1. CASE call[a].mine
  <2>1. Goto(a, "cleanup")
    BY <1>1 DEF Except
  <2>2. "cleanup" \in Label
    BY DEF Label
  <2>3. call[a].res # None
    BY <1>1 DEF IInv, Known, Fits
  <2>. QED
    BY <2>1, <2>2, <2>3, GotoStep
<1>2. CASE ~call[a].mine
  <2>1. Goto(a, "failed")
    BY <1>2 DEF Except
  <2>2. "failed" \in Label /\ "failed" \in Ended \ {"ok"}
    BY DEF Label, Ended
  <2>. QED
    BY <2>1, <2>2, GotoStep
<1>. QED
  BY <1>1, <1>2

-----------------------------------------------------------------------------
(* What holds of a request that is past the reservation. *)
LEMMA Past ==
  ASSUME IInv, NEW a \in Attempts,
         call[a].pc \notin {"lookup", "reserve", "refused", "failed", "dead"}
  PROVE  /\ call[a] \in Call
         /\ call[a].res \in Reservation /\ call[a].res # None
         /\ Id(a) \in Attempts
         /\ runs[Id(a)] \in Run \union {None}
         /\ reservation \in Reservation /\ reservation # None
         /\ call[a].res.run = reservation.run
         /\ call[a].res.body = reservation.body
         /\ reservation.body = Body[a]
         /\ call[a].pc \in {"change", "check", "push", "revert"} =>
              call[a].seen \in Status
<1>1. call[a] \in Call /\ Fits(a, call[a], reservation)
  BY DEF IInv, Known
<1>2. call[a].res # None
  BY <1>1 DEF Fits
<1>3. call[a].res \in Reservation
  BY <1>1, <1>2 DEF Call
<1>4. Id(a) \in Attempts
  BY <1>3 DEF Id, Reservation
<1>. QED
  BY <1>1, <1>2, <1>3, <1>4 DEF Fits, IInv, StoreTypes, Call

(* The steps that leave the store and the queues alone. *)
LEMMA NoStoreStep ==
  ASSUME IInv, UNCHANGED <<store, queues>>
  PROVE  Kept /\ StoreTypes'
BY DEF IInv, Kept, StoreTypes, store, queues

LEMMA SetStatusType ==
  ASSUME IInv, NEW r \in Attempts, runs[r] # None, NEW s \in Status,
         SetStatus(r, s)
  PROVE  runs' \in [Attempts -> Run \union {None}]
<1>1. runs[r] \in Run
  BY DEF IInv, StoreTypes
<1>2. [runs[r] EXCEPT !.status = s] \in Run
  BY <1>1 DEF Run
<1>3. runs \in [Attempts -> Run \union {None}]
  BY DEF IInv, StoreTypes
<1>. QED
  BY <1>2, <1>3 DEF SetStatus

-----------------------------------------------------------------------------
(* Each action of a request is sound. *)

LEMMA LookupSound ==
  ASSUME IInv, NEW a \in Attempts, Lookup(a)
  PROVE  Sound(a)
<1>1. Kept /\ StoreTypes'
  BY NoStoreStep DEF Lookup
<1>2. {"reserve", "refused"} \subseteq Label /\ "refused" \in Ended \ {"ok"}
  BY DEF Label, Ended
<1>3. CASE Goto(a, "reserve")
  BY <1>1, <1>2, <1>3, GotoStep
<1>4. CASE /\ reservation # None /\ reservation.body # Body[a]
           /\ Goto(a, "refused")
  BY <1>1, <1>2, <1>4, GotoStep
<1>5. CASE /\ reservation # None /\ reservation.body = Body[a]
           /\ Set(a, [call[a] EXCEPT !.pc = "find", !.res = reservation])
  <2> DEFINE k == [call[a] EXCEPT !.pc = "find", !.res = reservation]
  <2>1. call[a] \in Call /\ reservation \in Reservation
    BY <1>5 DEF IInv, StoreTypes
  <2>2. "find" \in Label
    BY DEF Label
  <2>3. k \in Call
    BY <2>1, <2>2 DEF Call
  <2>4. k.pc = "find" /\ k.res = reservation
    BY <2>1 DEF Call
  <2>5. reservation' = reservation
    BY DEF Lookup, store
  <2>6. Fits(a, k, reservation')
    BY <1>5, <2>4, <2>5 DEF Fits
  <2>7. Set(a, k)
    BY <1>5
  <2> HIDE DEF k
  <2>. QED
    BY <1>1, <2>3, <2>4, <2>6, <2>7, CallStep
<1>. QED
  BY <1>3, <1>4, <1>5 DEF Lookup

LEMMA Labels ==
  /\ Label = {"lookup", "reserve", "find", "clone", "adopt", "mark", "load",
              "change", "check", "push", "revert", "refetch", "commit", "recheck",
              "sync", "cleanup", "ok", "refused", "failed", "dead"}
  /\ Ended = {"ok", "refused", "failed", "dead"}
BY DEF Label, Ended, EnqueueSteps

LEMMA ReserveSound ==
  ASSUME IInv, NEW a \in Attempts, Reserve(a)
  PROVE  Sound(a)
<1>1. CASE reservation = None
  <2> DEFINE k == [call[a] EXCEPT !.pc = "find", !.res = Reserved(a)]
  <2>1. call[a] \in Call
    BY DEF IInv
  <2>2. Reserved(a) \in Reservation /\ Reserved(a).body = Body[a]
    BY DEF Reserved, Reservation, Bodies
  <2>3. k \in Call /\ k.pc = "find" /\ k.res = Reserved(a)
    BY <2>1, <2>2, Labels DEF Call
  <2>4. reservation' = Reserved(a) /\ Set(a, k) /\ UNCHANGED <<runs, queues>>
    BY <1>1 DEF Reserve
  <2>5. Reserved(a) # None
    BY <2>2, StartAssumption
  <2>6. Fits(a, k, reservation')
    BY <2>2, <2>3, <2>4, <2>5 DEF Fits
  <2>7. Kept /\ StoreTypes'
    BY <1>1, <2>2, <2>4 DEF Kept, StoreTypes, IInv, queues
  <2> HIDE DEF k
  <2>. QED
    BY <2>3, <2>4, <2>6, <2>7, CallStep
<1>2. CASE reservation # None
  <2>1. Goto(a, "lookup") /\ UNCHANGED <<store, queues>>
    BY <1>2 DEF Reserve, store
  <2>. QED
    BY <2>1, NoStoreStep, Labels, GotoStep
<1>. QED
  BY <1>1, <1>2

(* Going on with a run that is there. *)
LEMMA ProceedStep ==
  ASSUME IInv, NEW a \in Attempts, NEW r \in Run, Proceed(a, r), Kept, StoreTypes',
         call[a].res # None
  PROVE  Sound(a)
<1> DEFINE k == [call[a] EXCEPT !.record = r.record,
                   !.pc = IF r.status \in {"created", "queued"} THEN "load" ELSE "commit"]
<1>1. call[a] \in Call /\ Fits(a, call[a], reservation)
  BY DEF IInv, Known
<1>2. r.record \in {"pending", "committed"}
  BY DEF Run
<1>3. /\ k \in Call
      /\ k.pc \in {"load", "commit"}
      /\ k.res = call[a].res /\ k.mine = call[a].mine
  BY <1>1, <1>2, Labels DEF Call
<1>4. Fits(a, k, reservation')
  BY <1>1, <1>3 DEF Fits, Kept
<1>5. Set(a, k)
  BY DEF Proceed
<1> HIDE DEF k
<1>. QED
  BY <1>3, <1>4, <1>5, CallStep

LEMMA FindRunSound ==
  ASSUME IInv, NEW a \in Attempts, FindRun(a)
  PROVE  Sound(a)
<1>1. Kept /\ StoreTypes'
  BY NoStoreStep DEF FindRun
<1>2. call[a].res # None /\ runs[Id(a)] \in Run \union {None}
  BY Past DEF FindRun, At
<1>3. CASE \E l \in {"failed", "clone", "ok", "sync"} : Goto(a, l)
  BY <1>1, <1>2, <1>3, Labels, GotoStep
<1>4. CASE runs[Id(a)] # None /\ Proceed(a, runs[Id(a)])
  BY <1>1, <1>2, <1>4, ProceedStep
<1>. QED
  BY <1>3, <1>4 DEF FindRun

LEMMA CloneRunSound ==
  ASSUME IInv, NEW a \in Attempts, CloneRun(a)
  PROVE  Sound(a)
<1>1. /\ call[a] \in Call /\ Fits(a, call[a], reservation)
      /\ call[a].res # None /\ Id(a) \in Attempts
  BY Past DEF CloneRun, At, IInv, Known
<1>2. Kept /\ UNCHANGED <<reservation, queues>>
  BY DEF CloneRun, Kept
<1>3. CASE runs[Id(a)] = None
  <2> DEFINE k == [call[a] EXCEPT !.pc = "mark", !.mine = TRUE, !.record = "pending"]
  <2>1. runs' = [runs EXCEPT ![Id(a)] = [status |-> "created", record |-> "pending"]]
    BY <1>3 DEF CloneRun
  <2>2. [status |-> "created", record |-> "pending"] \in Run
    BY DEF Run, Status
  <2>3. StoreTypes'
    BY <1>1, <1>2, <2>1, <2>2 DEF StoreTypes, IInv, queues
  <2>4. k \in Call /\ k.pc = "mark" /\ k.res = call[a].res
    BY <1>1, Labels DEF Call
  <2>5. Fits(a, k, reservation')
    BY <1>1, <1>2, <2>4 DEF Fits
  <2>6. Set(a, k)
    BY <1>3 DEF CloneRun
  <2> HIDE DEF k
  <2>. QED
    BY <1>2, <2>3, <2>4, <2>5, <2>6, CallStep
<1>4. CASE runs[Id(a)] # None
  <2>1. Goto(a, "adopt") /\ UNCHANGED <<store, queues>>
    BY <1>2, <1>4 DEF CloneRun, store
  <2>. QED
    BY <1>1, <2>1, NoStoreStep, Labels, GotoStep
<1>. QED
  BY <1>3, <1>4

LEMMA AdoptRunSound ==
  ASSUME IInv, NEW a \in Attempts, AdoptRun(a)
  PROVE  Sound(a)
<1>1. Kept /\ StoreTypes'
  BY NoStoreStep DEF AdoptRun
<1>2. call[a].res # None /\ runs[Id(a)] \in Run \union {None}
  BY Past DEF AdoptRun, At
<1>3. CASE runs[Id(a)] = None
  BY <1>1, <1>3, Labels, GotoStep DEF AdoptRun
<1>4. CASE runs[Id(a)] # None
  BY <1>1, <1>2, <1>4, ProceedStep DEF AdoptRun
<1>. QED
  BY <1>3, <1>4

LEMMA MarkPendingSound ==
  ASSUME IInv, NEW a \in Attempts, MarkPending(a)
  PROVE  Sound(a)
<1> DEFINE res == [call[a].res EXCEPT !.state = "pending"]
           k == [call[a] EXCEPT !.res = res, !.pc = "load"]
<1>1. /\ call[a] \in Call /\ call[a].res \in Reservation
      /\ call[a].res.run = reservation.run
      /\ call[a].res.body = reservation.body /\ reservation.body = Body[a]
  BY Past DEF MarkPending, At
<1>2. /\ res \in Reservation
      /\ res.run = call[a].res.run /\ res.body = call[a].res.body
  BY <1>1 DEF Reservation
<1>3. res # None
  BY <1>2, StartAssumption
<1>4. reservation' = res /\ Set(a, k) /\ UNCHANGED <<runs, queues>>
  BY DEF MarkPending
<1> HIDE DEF res
<1>5. k \in Call /\ k.pc = "load" /\ k.res = res
  BY <1>1, <1>2, Labels DEF Call
<1>6. Kept /\ StoreTypes'
  BY <1>1, <1>2, <1>3, <1>4 DEF Kept, StoreTypes, IInv, queues
<1>7. Fits(a, k, reservation')
  BY <1>1, <1>2, <1>3, <1>4, <1>5 DEF Fits
<1> HIDE DEF k
<1>. QED
  BY <1>4, <1>5, <1>6, <1>7, CallStep

LEMMA EnqueueLoadSound ==
  ASSUME IInv, NEW a \in Attempts, EnqueueLoad(a)
  PROVE  Sound(a)
<1>1. Kept /\ StoreTypes'
  BY NoStoreStep DEF EnqueueLoad
<1>2. /\ call[a] \in Call /\ Fits(a, call[a], reservation)
      /\ call[a].res # None /\ runs[Id(a)] \in Run \union {None}
  BY Past DEF EnqueueLoad, At, IInv, Known
<1>3. CASE Except(a)
  BY <1>1, <1>3, ExceptStep
<1>4. CASE /\ runs[Id(a)] # None
           /\ Set(a, [call[a] EXCEPT !.seen = runs[Id(a)].status, !.pc = "change"])
  <2> DEFINE k == [call[a] EXCEPT !.seen = runs[Id(a)].status, !.pc = "change"]
  <2>1. runs[Id(a)].status \in Status
    BY <1>2, <1>4 DEF Run
  <2>2. /\ k \in Call /\ k.pc = "change"
        /\ k.res = call[a].res /\ k.seen = runs[Id(a)].status
    BY <1>2, <2>1, Labels DEF Call
  <2>3. runs[Id(a)].status # None
    BY <2>1, StartAssumption
  <2>4. Fits(a, k, reservation')
    BY <1>1, <1>2, <2>2, <2>3 DEF Fits, Kept
  <2>5. Set(a, k)
    BY <1>4
  <2> HIDE DEF k
  <2>. QED
    BY <1>1, <2>2, <2>4, <2>5, CallStep
<1>. QED
  BY <1>3, <1>4 DEF EnqueueLoad

LEMMA StatusRacedStep ==
  ASSUME IInv, NEW a \in Attempts, StatusRaced(a), Kept, StoreTypes',
         call[a].res # None
  PROVE  Sound(a)
<1>1. CASE Except(a)
  BY <1>1, ExceptStep
<1>2. CASE Goto(a, "refetch")
  BY <1>2, Labels, GotoStep
<1>. QED
  BY <1>1, <1>2 DEF StatusRaced

LEMMA EnqueueChangeSound ==
  ASSUME IInv, NEW a \in Attempts, EnqueueChange(a)
  PROVE  Sound(a)
<1>1. /\ call[a].res # None /\ Id(a) \in Attempts
      /\ call[a].seen # None
  BY Past, StartAssumption DEF EnqueueChange, At
<1>2. Kept /\ UNCHANGED <<reservation, queues>>
  BY DEF EnqueueChange, Kept
<1>3. CASE runs[Id(a)] # None /\ SetStatus(Id(a), "queued") /\ Goto(a, "check")
  <2>1. StoreTypes'
    BY <1>1, <1>2, <1>3, SetStatusType DEF StoreTypes, IInv, queues, Status
  <2>. QED
    BY <1>1, <1>2, <1>3, <2>1, Labels, GotoStep
<1>4. CASE StatusRaced(a) /\ UNCHANGED runs
  <2>1. StoreTypes'
    BY <1>2, <1>4 DEF StoreTypes, IInv, queues
  <2>. QED
    BY <1>1, <1>2, <1>4, <2>1, StatusRacedStep
<1>. QED
  BY <1>3, <1>4 DEF EnqueueChange

(* The enqueue turns to putting the status back. *)
LEMMA RevertStep ==
  ASSUME IInv, NEW a \in Attempts, NEW b \in BOOLEAN, Kept, StoreTypes',
         call[a].res # None, call[a].seen # None,
         Set(a, [call[a] EXCEPT !.pc = "revert", !.raising = b])
  PROVE  Sound(a)
<1> DEFINE k == [call[a] EXCEPT !.pc = "revert", !.raising = b]
<1>1. call[a] \in Call /\ Fits(a, call[a], reservation)
  BY DEF IInv, Known
<1>2. /\ k \in Call /\ k.pc = "revert"
      /\ k.res = call[a].res /\ k.seen = call[a].seen
  BY <1>1, Labels DEF Call
<1>3. Fits(a, k, reservation')
  BY <1>1, <1>2 DEF Fits, Kept
<1>4. Set(a, k)
  OBVIOUS
<1> HIDE DEF k
<1>. QED
  BY <1>2, <1>3, <1>4, CallStep

LEMMA FindEntrySound ==
  ASSUME IInv, NEW a \in Attempts, FindEntry(a)
  PROVE  Sound(a)
<1>1. Kept /\ StoreTypes'
  BY NoStoreStep DEF FindEntry
<1>2. call[a].res # None /\ call[a].seen # None
  BY Past, StartAssumption DEF FindEntry, At
<1>3. CASE Set(a, [call[a] EXCEPT !.pc = "revert", !.raising = FALSE])
  BY <1>1, <1>2, <1>3, RevertStep
<1>4. CASE Goto(a, "push")
  BY <1>1, <1>2, <1>4, Labels, GotoStep
<1>. QED
  BY <1>3, <1>4 DEF FindEntry

LEMMA PushEntrySound ==
  ASSUME IInv, NEW a \in Attempts, PushEntry(a)
  PROVE  Sound(a)
<1>1. /\ call[a].res # None /\ Id(a) \in Attempts
      /\ call[a].seen # None
  BY Past, StartAssumption DEF PushEntry, At
<1>2. /\ UNCHANGED <<store, popped>>
      /\ \/ UNCHANGED <<queue, placed>>
         \/ queue' = queue \union {Id(a)} /\ placed' = placed \union {Id(a)}
  BY DEF PushEntry
<1>3. Kept /\ StoreTypes'
  BY <1>1, <1>2 DEF Kept, StoreTypes, IInv, store
<1>4. CASE RaiseInAdd(a)
  BY <1>1, <1>3, <1>4, RevertStep DEF RaiseInAdd
<1>5. CASE Goto(a, "commit")
  BY <1>1, <1>3, <1>5, Labels, GotoStep
<1>6. CASE Except(a)
  BY <1>3, <1>6, ExceptStep
<1>. QED
  BY <1>4, <1>5, <1>6 DEF PushEntry

LEMMA EnqueueRevertSound ==
  ASSUME IInv, NEW a \in Attempts, EnqueueRevert(a)
  PROVE  Sound(a)
<1>1. /\ call[a].res # None /\ Id(a) \in Attempts
      /\ call[a].seen \in Status
  BY Past DEF EnqueueRevert, At
<1>2. Kept /\ UNCHANGED <<reservation, queues>>
  BY DEF EnqueueRevert, Kept
<1>3. CASE /\ runs[Id(a)] # None /\ SetStatus(Id(a), call[a].seen)
           /\ Except(a) \/ Goto(a, "commit")
  <2>1. StoreTypes'
    BY <1>1, <1>2, <1>3, SetStatusType DEF StoreTypes, IInv, queues
  <2>2. CASE Except(a)
    BY <1>2, <2>1, <2>2, ExceptStep
  <2>3. CASE Goto(a, "commit")
    BY <1>1, <1>2, <2>1, <2>3, Labels, GotoStep
  <2>. QED
    BY <1>3, <2>2, <2>3
<1>4. CASE StatusRaced(a) /\ UNCHANGED runs
  <2>1. StoreTypes'
    BY <1>2, <1>4 DEF StoreTypes, IInv, queues
  <2>. QED
    BY <1>1, <1>2, <1>4, <2>1, StatusRacedStep
<1>. QED
  BY <1>3, <1>4 DEF EnqueueRevert

LEMMA RefetchSound ==
  ASSUME IInv, NEW a \in Attempts, Refetch(a)
  PROVE  Sound(a)
<1>1. Kept /\ StoreTypes'
  BY NoStoreStep DEF Refetch
<1>2. /\ call[a] \in Call /\ Fits(a, call[a], reservation)
      /\ call[a].res # None /\ runs[Id(a)] \in Run \union {None}
  BY Past DEF Refetch, At, IInv, Known
<1>3. CASE Except(a)
  BY <1>1, <1>3, ExceptStep
<1>4. CASE ~(runs[Id(a)] = None \/ runs[Id(a)].status = "created")
  <2> DEFINE k == [call[a] EXCEPT !.record = runs[Id(a)].record, !.again = TRUE,
                     !.pc = IF runs[Id(a)].status = "queued" THEN "load" ELSE "commit"]
  <2>1. runs[Id(a)].record \in {"pending", "committed"}
    BY <1>2, <1>4 DEF Run
  <2>2. /\ k \in Call /\ k.pc \in {"load", "commit"}
        /\ k.res = call[a].res /\ k.mine = call[a].mine
    BY <1>2, <2>1, Labels DEF Call
  <2>3. Fits(a, k, reservation')
    BY <1>1, <1>2, <2>2 DEF Fits, Kept
  <2>4. Set(a, k)
    BY <1>4 DEF Refetch
  <2> HIDE DEF k
  <2>. QED
    BY <1>1, <2>2, <2>3, <2>4, CallStep
<1>. QED
  BY <1>3, <1>4 DEF Refetch

LEMMA CommitSound ==
  ASSUME IInv, NEW a \in Attempts, Commit(a)
  PROVE  Sound(a)
<1>1. call[a].res # None /\ Id(a) \in Attempts
  BY Past DEF Commit, At
<1>2. Kept /\ UNCHANGED <<reservation, queues>>
  BY DEF Commit, Kept
<1>3. CASE /\ runs[Id(a)] # None
           /\ runs' = [runs EXCEPT ![Id(a)] = [@ EXCEPT !.record = "committed"]]
           /\ Goto(a, "sync")
  <2>1. runs[Id(a)] \in Run
    BY <1>1, <1>3 DEF IInv, StoreTypes
  <2>2. [runs[Id(a)] EXCEPT !.record = "committed"] \in Run
    BY <2>1 DEF Run
  <2>3. StoreTypes'
    BY <1>1, <1>2, <1>3, <2>2 DEF StoreTypes, IInv, queues
  <2>. QED
    BY <1>1, <1>2, <1>3, <2>3, Labels, GotoStep
<1>4. CASE Goto(a, "recheck") /\ UNCHANGED runs
  <2>1. StoreTypes'
    BY <1>2, <1>4 DEF StoreTypes, IInv, queues
  <2>. QED
    BY <1>1, <1>2, <1>4, <2>1, Labels, GotoStep
<1>. QED
  BY <1>3, <1>4 DEF Commit

LEMMA RecheckSound ==
  ASSUME IInv, NEW a \in Attempts, Recheck(a)
  PROVE  Sound(a)
<1>1. Kept /\ StoreTypes'
  BY NoStoreStep DEF Recheck
<1>2. call[a].res # None
  BY Past DEF Recheck, At
<1>3. CASE Goto(a, "sync")
  BY <1>1, <1>2, <1>3, Labels, GotoStep
<1>4. CASE Except(a)
  BY <1>1, <1>4, ExceptStep
<1>. QED
  BY <1>3, <1>4 DEF Recheck

LEMMA SyncReservationSound ==
  ASSUME IInv, NEW a \in Attempts, SyncReservation(a)
  PROVE  Sound(a)
<1> DEFINE res == [call[a].res EXCEPT !.state = "committed"]
<1>1. /\ call[a].res \in Reservation /\ call[a].res # None
      /\ call[a].res.run = reservation.run
      /\ call[a].res.body = reservation.body
  BY Past DEF SyncReservation, At
<1>2. /\ res \in Reservation
      /\ res.run = call[a].res.run /\ res.body = call[a].res.body
  BY <1>1 DEF Reservation
<1>3. res # None
  BY <1>2, StartAssumption
<1>4. reservation' = res /\ Goto(a, "ok") /\ UNCHANGED <<runs, queues>>
  BY DEF SyncReservation
<1> HIDE DEF res
<1>5. Kept /\ StoreTypes'
  BY <1>1, <1>2, <1>3, <1>4 DEF Kept, StoreTypes, IInv, queues
<1>. QED
  BY <1>1, <1>4, <1>5, Labels, GotoStep

LEMMA CleanupSound ==
  ASSUME IInv, NEW a \in Attempts, Cleanup(a)
  PROVE  Sound(a)
<1>1. Id(a) \in Attempts
  BY Past DEF Cleanup, At
<1>2. /\ Kept /\ UNCHANGED <<reservation, queues>> /\ Goto(a, "failed")
      /\ runs' = [runs EXCEPT ![Id(a)] = None] \/ runs' = runs
  BY DEF Cleanup, Kept
<1>3. StoreTypes'
  BY <1>1, <1>2 DEF StoreTypes, IInv, queues
<1>. QED
  BY <1>2, <1>3, Labels, GotoStep

LEMMA RaiseElsewhereSound ==
  ASSUME IInv, NEW a \in Attempts, RaiseElsewhere(a)
  PROVE  Sound(a)
<1>1. Kept /\ StoreTypes'
  BY NoStoreStep DEF RaiseElsewhere
<1>2. CASE call[a].pc \in {"check", "push"} /\ RaiseInAdd(a)
  <2>1. call[a].res # None /\ call[a].seen # None
    BY <1>2, Past, StartAssumption
  <2>. QED
    BY <1>1, <1>2, <2>1, RevertStep DEF RaiseInAdd
<1>3. CASE Goto(a, "failed")
  BY <1>1, <1>3, Labels, GotoStep
<1>4. CASE Except(a)
  BY <1>1, <1>4, ExceptStep
<1>. QED
  BY <1>2, <1>3, <1>4 DEF RaiseElsewhere

LEMMA CrashSound ==
  ASSUME IInv, NEW a \in Attempts, Crash(a)
  PROVE  Sound(a)
<1>1. Kept /\ StoreTypes'
  BY NoStoreStep DEF Crash
<1>. QED
  BY <1>1, Labels, GotoStep DEF Crash

LEMMA HandleSound ==
  ASSUME IInv, NEW a \in Attempts, Handle(a)
  PROVE  Sound(a)
BY LookupSound, ReserveSound, FindRunSound, CloneRunSound, AdoptRunSound,
   MarkPendingSound, EnqueueLoadSound, EnqueueChangeSound, FindEntrySound,
   PushEntrySound, EnqueueRevertSound, RefetchSound, CommitSound, RecheckSound,
   SyncReservationSound, CleanupSound, RaiseElsewhereSound, CrashSound
   DEF Handle

(* Agents and users touch neither the reservation nor what requests know. *)
LEMMA OutsideSound ==
  ASSUME IInv, NEW r \in Attempts, Outside(r)
  PROVE  IInv' /\ UNCHANGED <<reservation, call>>
<1>1. UNCHANGED <<reservation, call>>
  BY DEF Outside, PopRun, StartRun, EndRun, DequeueRun, StopRun, queues
<1>2. runs' \in [Attempts -> Run \union {None}]
  <2>1. CASE UNCHANGED runs
    BY <2>1 DEF IInv, StoreTypes
  <2>2. CASE runs[r] # None /\ \E s \in Status : SetStatus(r, s)
    BY <2>2, SetStatusType
  <2>. QED
    BY <2>1, <2>2
       DEF Outside, PopRun, StartRun, EndRun, DequeueRun, StopRun, Status
<1>3. (queue' \subseteq Attempts /\ popped' \subseteq Attempts
         /\ placed' \subseteq Attempts)
  BY DEF Outside, PopRun, StartRun, EndRun, DequeueRun, StopRun, IInv,
         StoreTypes, queues
<1>4. StoreTypes'
  BY <1>1, <1>2, <1>3 DEF StoreTypes, IInv
<1>. QED
  BY <1>1, <1>4 DEF IInv, Known, Fits

LEMMA InitIInv == Init => IInv
BY NewCallType DEF Init, IInv, StoreTypes, Known, Fits, NewCall

LEMMA NextIInv == IInv /\ [Next]_vars => IInv'
<1> SUFFICES ASSUME IInv, [Next]_vars PROVE IInv'
  OBVIOUS
<1>1. CASE Next
  BY <1>1, HandleSound, OutsideSound DEF Next, Sound
<1>2. CASE UNCHANGED vars
  BY <1>2 DEF vars, store, queues, IInv, StoreTypes, Known, Fits
<1>. QED
  BY <1>1, <1>2

(* The variables keep their types, and no request passes the reservation    *)
(* without knowing it.                                                      *)
THEOREM StartTypes == Spec => []TypeOK
<1>. QED
  BY InitIInv, NextIInv, TypeFromIInv, PTL DEF Spec

-----------------------------------------------------------------------------
(* The refinement. *)

Answers == [a \in Attempts |-> Answer(a)]

(* A request that has ended does nothing more. *)
LEMMA HandleEnds ==
  ASSUME NEW a \in Attempts, Handle(a)
  PROVE  call[a].pc \notin Ended
BY Labels DEF Handle, Lookup, Reserve, FindRun, CloneRun, AdoptRun, MarkPending,
   EnqueueLoad, EnqueueChange, FindEntry, PushEntry, EnqueueRevert, Refetch,
   Commit, Recheck, SyncReservation, Cleanup, RaiseElsewhere, Crash, At

(* The reservation changes only in a request that is not answered by it, or *)
(* in its state.                                                            *)
LEMMA BoundSteps ==
  ASSUME IInv, NEW a \in Attempts, Handle(a)
  PROVE  \/ Bound' = Bound
         \/ /\ Bound = None /\ Bound' = [run |-> a, body |-> Body[a]]
            /\ call'[a].pc = "find"
<1>1. Sound(a)
  BY HandleSound
<1>2. CASE reservation # None
  BY <1>1, <1>2 DEF Sound, Kept, Bound
<1>3. CASE reservation = None /\ reservation' = None
  BY <1>3 DEF Bound
<1>4. CASE reservation = None /\ reservation' # None
  <2>1. call[a].pc \in {"lookup", "reserve", "refused", "failed", "dead"}
    BY <1>4, Past
  <2>2. Reserve(a)
    BY <1>4, <2>1 DEF Handle, Lookup, FindRun, CloneRun, AdoptRun, MarkPending,
       EnqueueLoad, EnqueueChange, FindEntry, PushEntry, EnqueueRevert, Refetch,
       Commit, Recheck, SyncReservation, Cleanup, RaiseElsewhere, Crash, At, store
  <2>3. /\ reservation' = Reserved(a)
        /\ call' = [call EXCEPT ![a] =
                       [call[a] EXCEPT !.pc = "find", !.res = Reserved(a)]]
    BY <1>4, <2>2 DEF Reserve, Set
  <2>4. call'[a].pc = "find"
    BY <2>3 DEF IInv, Call
  <2>. QED
    BY <1>4, <2>3, <2>4 DEF Bound, Reserved
<1>. QED
  BY <1>2, <1>3, <1>4

(* A step of a changes no answer but a's. *)
LEMMA AnswerSteps ==
  ASSUME IInv, NEW a \in Attempts, Handle(a)
  PROVE  /\ Answers[a] = None
         /\ Answers' = [Answers EXCEPT ![a] = Answer(a)']
<1>1. Answer(a) = None
  BY HandleEnds, Labels DEF Answer, At
<1>2. ASSUME NEW b \in Attempts, b # a PROVE Answer(b)' = Answer(b)
  <2>1. call'[b] = call[b]
    BY <1>2, HandleSound DEF Sound
  <2>. QED
    BY <2>1 DEF Answer, At, Id
<1>. QED
  BY <1>1, <1>2 DEF Answers

LEMMA BoundIsNot ==
  ASSUME IInv, reservation # None
  PROVE  /\ Bound # None
         /\ Bound.run = reservation.run /\ Bound.body = reservation.body
<1>1. reservation \in Reservation
  BY DEF IInv, StoreTypes
<1>2. Bound = [run |-> reservation.run, body |-> reservation.body]
  BY DEF Bound
<1>3. Bound \in [run : Attempts, body : Bodies]
  BY <1>1, <1>2 DEF Reservation
<1>. QED
  BY <1>2, <1>3, StartAssumption

(* Every step of a request is one of the abstract specification, or none. *)
LEMMA HandleAbstract ==
  ASSUME IInv, NEW a \in Attempts, Handle(a)
  PROVE  [Promise!Next]_<<Bound, Answers>>
<1>1. Sound(a)
  BY HandleSound
<1>2. Answers[a] = None /\ Answers' = [Answers EXCEPT ![a] = Answer(a)']
  BY AnswerSteps
<1>3. CASE /\ Bound = None /\ Bound' = [run |-> a, body |-> Body[a]]
           /\ call'[a].pc = "find"
  <2>1. Answer(a)' = None
    BY <1>3 DEF Answer, At
  <2>2. Answers' = Answers
    BY <1>2, <2>1 DEF Answers
  <2>3. Promise!Bind(a)
    BY <1>3, <2>2 DEF Promise!Bind, Answers
  <2>. QED
    BY <2>3 DEF Promise!Next
<1>4. CASE Bound' = Bound
  <2>1. CASE call'[a].pc = "ok"
    <3>1. /\ call'[a].res # None /\ reservation' # None
          /\ call'[a].res.run = reservation'.run /\ reservation'.body = Body[a]
      BY <1>1, <2>1 DEF Sound, IInv, Known, Fits
    <3>2. /\ Bound' # None
          /\ Bound'.run = reservation'.run /\ Bound'.body = reservation'.body
      <4>1. reservation' \in Reservation
        BY <1>1, <3>1 DEF Sound, IInv, StoreTypes
      <4>2. Bound' = [run |-> reservation'.run, body |-> reservation'.body]
        BY <3>1 DEF Bound
      <4>3. Bound' \in [run : Attempts, body : Bodies]
        BY <4>1, <4>2 DEF Reservation
      <4>. QED
        BY <4>2, <4>3, StartAssumption
    <3>3. Answer(a)' = Bound.run
      BY <1>4, <2>1, <3>1, <3>2 DEF Answer, At, Id
    <3>4. Promise!Succeed(a)
      BY <1>2, <1>4, <3>1, <3>2, <3>3 DEF Promise!Succeed, Promise!Reply, Answers
    <3>. QED
      BY <3>4 DEF Promise!Next
  <2>2. CASE call'[a].pc = "refused"
    <3>1. Bound # None /\ Bound.body # Body[a]
      BY <1>1, <2>2, BoundIsNot DEF Sound
    <3>2. Answer(a)' = "refused"
      BY <2>2 DEF Answer, At
    <3>3. Promise!Refuse(a)
      BY <1>2, <1>4, <3>1, <3>2 DEF Promise!Refuse, Promise!Reply, Answers
    <3>. QED
      BY <3>3 DEF Promise!Next
  <2>3. CASE call'[a].pc = "failed"
    <3>1. Answer(a)' = "failed"
      BY <2>3 DEF Answer, At
    <3>2. Promise!Fail(a)
      BY <1>2, <1>4, <3>1 DEF Promise!Fail, Promise!Reply, Answers
    <3>. QED
      BY <3>2 DEF Promise!Next
  <2>4. CASE call'[a].pc \notin {"ok", "refused", "failed"}
    <3>1. Answer(a)' = None
      BY <2>4 DEF Answer, At
    <3>2. Answers' = Answers
      BY <1>2, <3>1 DEF Answers
    <3>. QED
      BY <1>4, <3>2
  <2>. QED
    BY <2>1, <2>2, <2>3, <2>4
<1>. QED
  BY <1>3, <1>4, BoundSteps

(* For any requests with one key, however they interleave, fail and die: the *)
(* key is bound once, and every answer is the one that it is bound to.       *)
THEOREM KeyIsBoundOnce == Spec => ImplementsIdempotentStart
<1>1. Init => Promise!Init
  BY DEF Init, Promise!Init, Bound, Answer, NewCall, At
<1>2. IInv /\ [Next]_vars => [Promise!Next]_<<Bound, Answers>>
  <2> SUFFICES ASSUME IInv, [Next]_vars PROVE [Promise!Next]_<<Bound, Answers>>
    OBVIOUS
  <2>1. ASSUME NEW a \in Attempts, Handle(a) PROVE [Promise!Next]_<<Bound, Answers>>
    BY <2>1, HandleAbstract
  <2>2. CASE UNCHANGED <<reservation, call>>
    BY <2>2 DEF Bound, Answers, Answer, At, Id
  <2>3. ASSUME NEW r \in Attempts, Outside(r) PROVE UNCHANGED <<reservation, call>>
    BY <2>3, OutsideSound
  <2>4. CASE UNCHANGED vars
    BY <2>2, <2>4 DEF vars, store
  <2>. QED
    BY <2>1, <2>2, <2>3, <2>4 DEF Next
<1>. QED
  BY <1>1, <1>2, InitIInv, NextIInv, PTL
     DEF Spec, Promise!Spec, Answers, ImplementsIdempotentStart
-----------------------------------------------------------------------------
(* What is answered was enqueued. *)

(* A run that has left the queue for good, or whose record is committed,    *)
(* was in it.                                                               *)
RunsArePlaced ==
  \A r \in Attempts :
    runs[r] # None /\ (runs[r].status \notin {"created", "queued"}
                         \/ runs[r].record = "committed")
      => r \in placed

(* A request that knows this much knows that the run was in the queue.      *)
Vouches(k) ==
  \/ k.pc \in {"commit", "sync", "ok"}
  \/ k.pc = "revert" /\ ~k.raising
  \/ k.pc \in {"change", "check", "push", "revert"}
       /\ k.seen \notin {"created", "queued"}

CallsVouch == \A a \in Attempts : Vouches(call[a]) => Id(a) \in placed

PlacedInv ==
  queue \subseteq placed /\ popped \subseteq placed /\ RunsArePlaced /\ CallsVouch

(* The queue and the agents only get runs that are placed, for ever.        *)
QueuesStep ==
  /\ placed \subseteq placed'
  /\ queue' \subseteq placed' /\ popped' \subseteq placed'

(* A step of one request that leaves it with k. *)
LEMMA VouchStep ==
  ASSUME IInv, PlacedInv, NEW a \in Attempts, NEW k, Set(a, k),
         QueuesStep, RunsArePlaced', Vouches(k) => k.res.run \in placed'
  PROVE  PlacedInv'
<1>1. call' = [call EXCEPT ![a] = k] /\ call \in [Attempts -> Call]
  BY DEF Set, IInv
<1>2. ASSUME NEW b \in Attempts, Vouches(call'[b]) PROVE call'[b].res.run \in placed'
  <2>1. CASE b = a
    BY <1>1, <1>2, <2>1
  <2>2. CASE b # a
    <3>1. call'[b] = call[b]
      BY <1>1, <2>2
    <3> QED  BY <1>2, <3>1 DEF PlacedInv, CallsVouch, Id, QueuesStep
  <2> QED  BY <2>1, <2>2
<1> QED  BY <1>2 DEF PlacedInv, CallsVouch, Id, QueuesStep

(* One that goes to l may go where it vouches for the run if it did before, *)
(* or if the run is placed.                                                 *)
LEMMA VouchGoto ==
  ASSUME IInv, PlacedInv, NEW a \in Attempts, NEW l \in Label, Goto(a, l),
         QueuesStep, RunsArePlaced',
         l \in {"commit", "sync", "ok"} => Id(a) \in placed',
         l \in {"change", "check", "push"} =>
           call[a].pc \in {"change", "check", "push", "revert"},
         l # "revert"
  PROVE  PlacedInv'
<1> DEFINE k == Then(a, l)
<1>1. /\ Set(a, k) /\ k.pc = l
      /\ l \notin Ended \ {"ok"} => k.res = call[a].res
      /\ l \in EnqueueSteps => k.seen = call[a].seen
  BY ThenType DEF Goto, IInv
<1>2. Vouches(call[a]) => Id(a) \in placed'
  BY DEF PlacedInv, CallsVouch, QueuesStep
<1> HIDE DEF k
<1>3. ASSUME Vouches(k) PROVE k.res.run \in placed'
  <2>1. l \in {"commit", "sync", "ok", "change", "check", "push"}
    BY <1>1, <1>3 DEF Vouches
  <2>2. k.res = call[a].res
    BY <1>1, <2>1, Labels
  <2>3. CASE l \in {"commit", "sync", "ok"}
    BY <2>2, <2>3 DEF Id
  <2>4. CASE l \in {"change", "check", "push"}
    <3>1. k.seen = call[a].seen /\ k.seen \notin {"created", "queued"}
      BY <1>1, <1>3, <2>4 DEF Vouches, EnqueueSteps
    <3>2. Vouches(call[a])
      BY <3>1, <2>4 DEF Vouches
    <3> QED  BY <1>2, <2>2, <3>2 DEF Id
  <2> QED  BY <2>1, <2>3, <2>4
<1> QED  BY <1>1, <1>3, VouchStep

LEMMA VouchExcept ==
  ASSUME IInv, PlacedInv, NEW a \in Attempts, Except(a) \/ StatusRaced(a),
         QueuesStep, RunsArePlaced'
  PROVE  PlacedInv'
<1>1. \E l \in {"cleanup", "failed", "refetch"} : Goto(a, l)
  BY DEF Except, StatusRaced
<1> QED  BY <1>1, VouchGoto, Labels

LEMMA VouchUnchanged ==
  ASSUME PlacedInv, UNCHANGED <<store, queues>>
  PROVE  QueuesStep /\ RunsArePlaced'
BY DEF PlacedInv, store, queues, QueuesStep, RunsArePlaced

LEMMA VouchSetStatus ==
  ASSUME IInv, PlacedInv, NEW r \in Attempts, NEW s, SetStatus(r, s), runs[r] # None,
         placed \subseteq placed',
         s \notin {"created", "queued"} => r \in placed'
  PROVE  RunsArePlaced'
<1>1. runs[r] \in Run /\ runs \in [Attempts -> Run \union {None}]
  BY DEF IInv, StoreTypes
<1>2. /\ runs'[r].status = s /\ runs'[r].record = runs[r].record
      /\ \A q \in Attempts \ {r} : runs'[q] = runs[q]
  BY <1>1 DEF SetStatus, Run
<1> QED  BY <1>2 DEF PlacedInv, RunsArePlaced

LEMMA VouchRaise ==
  ASSUME IInv, PlacedInv, NEW a \in Attempts, RaiseInAdd(a),
         call[a].pc \in {"check", "push"}, QueuesStep, RunsArePlaced'
  PROVE  PlacedInv'
<1> DEFINE k == [call[a] EXCEPT !.pc = "revert", !.raising = TRUE]
<1>1. call[a] \in Call /\ Set(a, k)
  BY DEF IInv, RaiseInAdd
<1>2. k.pc = "revert" /\ k.raising = TRUE /\ k.seen = call[a].seen /\ k.res = call[a].res
  BY <1>1 DEF Call
<1> HIDE DEF k
<1>3. Vouches(k) => Vouches(call[a])
  BY <1>2 DEF Vouches
<1>4. Vouches(k) => k.res.run \in placed'
  BY <1>2, <1>3 DEF PlacedInv, CallsVouch, QueuesStep, Id
<1> QED  BY <1>1, <1>4, VouchStep

LEMMA VouchProceed ==
  ASSUME IInv, PlacedInv, NEW a \in Attempts, NEW r, r = runs[Id(a)], r # None,
         call[a].res # None,
         Id(a) \in Attempts, Proceed(a, r), UNCHANGED <<store, queues>>
  PROVE  PlacedInv'
<1> DEFINE k == [call[a] EXCEPT !.record = r.record,
                   !.pc = IF r.status \in {"created", "queued"} THEN "load" ELSE "commit"]
<1>1. call[a] \in Call /\ Set(a, k)
  BY DEF IInv, Proceed
<1>2. /\ k.res = call[a].res
      /\ k.pc = IF r.status \in {"created", "queued"} THEN "load" ELSE "commit"
  BY <1>1 DEF Call
<1>3. QueuesStep /\ RunsArePlaced' /\ placed' = placed
  BY VouchUnchanged DEF queues
<1> HIDE DEF k
<1>4. Vouches(k) => k.res.run \in placed'
  BY <1>2, <1>3 DEF Vouches, PlacedInv, RunsArePlaced, Id
<1> QED  BY <1>1, <1>3, <1>4, VouchStep

LEMMA RequestVouches ==
  ASSUME IInv, PlacedInv, NEW a \in Attempts, Handle(a)
  PROVE  PlacedInv'
<1>0. /\ call[a] \in Call /\ Fits(a, call[a], reservation)
      /\ runs \in [Attempts -> Run \union {None}]
  BY DEF IInv, StoreTypes, Known
<1>1. UNCHANGED <<store, queues>> => QueuesStep /\ RunsArePlaced' /\ placed' = placed
  BY VouchUnchanged DEF queues
<1>2. ASSUME Lookup(a) PROVE PlacedInv'
  <2>1. CASE Goto(a, "reserve") \/ Goto(a, "refused")
    BY <1>1, <1>2, <2>1, VouchGoto, Labels DEF Lookup
  <2>2. CASE Set(a, [call[a] EXCEPT !.pc = "find", !.res = reservation])
    <3> DEFINE k == [call[a] EXCEPT !.pc = "find", !.res = reservation]
    <3>1. k.pc = "find"
      BY <1>0 DEF Call
    <3>2. ~Vouches(k)
      BY <3>1 DEF Vouches
    <3> QED  BY <1>1, <1>2, <2>2, <3>2, VouchStep DEF Lookup
  <2> QED  BY <1>2, <2>1, <2>2 DEF Lookup
<1>3. ASSUME Reserve(a) PROVE PlacedInv'
  <2>1. QueuesStep /\ RunsArePlaced'
    BY <1>3 DEF Reserve, queues, PlacedInv, QueuesStep, RunsArePlaced
  <2>2. CASE Goto(a, "lookup")
    BY <2>1, <2>2, VouchGoto, Labels
  <2>3. CASE Set(a, [call[a] EXCEPT !.pc = "find", !.res = Reserved(a)])
    <3> DEFINE k == [call[a] EXCEPT !.pc = "find", !.res = Reserved(a)]
    <3>1. k.pc = "find"
      BY <1>0 DEF Call
    <3>2. ~Vouches(k)
      BY <3>1 DEF Vouches
    <3> QED  BY <2>1, <2>3, <3>2, VouchStep
  <2> QED  BY <1>3, <2>2, <2>3 DEF Reserve
<1>4. ASSUME FindRun(a) PROVE PlacedInv'
  <2>1. call[a].res # None /\ Id(a) \in Attempts
    BY <1>4, Past DEF FindRun, At
  <2>2. CASE \E l \in {"failed", "clone"} : Goto(a, l)
    BY <1>1, <1>4, <2>2, VouchGoto, Labels DEF FindRun
  <2>3. CASE /\ runs[Id(a)] # None /\ runs[Id(a)].record = "committed"
             /\ Goto(a, "ok") \/ Goto(a, "sync")
    <3>1. Id(a) \in placed
      BY <2>1, <2>3 DEF PlacedInv, RunsArePlaced
    <3> QED  BY <1>1, <1>4, <2>3, <3>1, VouchGoto, Labels DEF FindRun
  <2>4. CASE runs[Id(a)] # None /\ Proceed(a, runs[Id(a)])
    BY <1>4, <2>1, <2>4, VouchProceed DEF FindRun
  <2> QED  BY <1>4, <2>2, <2>3, <2>4 DEF FindRun
<1>5. ASSUME CloneRun(a) PROVE PlacedInv'
  <2>1. Id(a) \in Attempts
    BY <1>5, Past DEF CloneRun, At
  <2>2. QueuesStep /\ placed' = placed
    BY <1>5 DEF CloneRun, queues, PlacedInv, QueuesStep
  <2>3. CASE runs' = runs /\ Goto(a, "adopt")
    <3>1. RunsArePlaced'
      BY <2>2, <2>3 DEF PlacedInv, RunsArePlaced
    <3> QED  BY <2>2, <2>3, <3>1, VouchGoto, Labels
  <2>4. CASE /\ runs' = [runs EXCEPT ![Id(a)] = [status |-> "created", record |-> "pending"]]
             /\ Set(a, [call[a] EXCEPT !.pc = "mark", !.mine = TRUE, !.record = "pending"])
    <3> DEFINE k == [call[a] EXCEPT !.pc = "mark", !.mine = TRUE, !.record = "pending"]
    <3>1. k.pc = "mark"
      BY <1>0 DEF Call
    <3>2. ~Vouches(k)
      BY <3>1 DEF Vouches
    <3>3. RunsArePlaced'
      BY <1>0, <2>1, <2>2, <2>4 DEF PlacedInv, RunsArePlaced
    <3> QED  BY <2>2, <2>4, <3>2, <3>3, VouchStep
  <2> QED  BY <1>5, <2>3, <2>4 DEF CloneRun
<1>6. ASSUME AdoptRun(a) PROVE PlacedInv'
  <2>1. call[a].res # None /\ Id(a) \in Attempts
    BY <1>6, Past DEF AdoptRun, At
  <2>2. CASE Goto(a, "failed")
    BY <1>1, <1>6, <2>2, VouchGoto, Labels DEF AdoptRun
  <2>3. CASE runs[Id(a)] # None /\ Proceed(a, runs[Id(a)])
    BY <1>6, <2>1, <2>3, VouchProceed DEF AdoptRun
  <2> QED  BY <1>6, <2>2, <2>3 DEF AdoptRun
<1>7. ASSUME MarkPending(a) PROVE PlacedInv'
  <2> DEFINE res == [call[a].res EXCEPT !.state = "pending"]
             k == [call[a] EXCEPT !.res = res, !.pc = "load"]
  <2>1. k.pc = "load"
    BY <1>0 DEF Call
  <2>2. ~Vouches(k)
    BY <2>1 DEF Vouches
  <2>3. QueuesStep /\ RunsArePlaced'
    BY <1>7 DEF MarkPending, queues, PlacedInv, QueuesStep, RunsArePlaced
  <2>4. Set(a, k)
    BY <1>7 DEF MarkPending
  <2> QED  BY <2>2, <2>3, <2>4, VouchStep
<1>8. ASSUME EnqueueLoad(a) PROVE PlacedInv'
  <2> DEFINE r == runs[Id(a)]
             k == [call[a] EXCEPT !.seen = r.status, !.pc = "change"]
  <2>1. Id(a) \in Attempts
    BY <1>8, Past DEF EnqueueLoad, At
  <2>2. CASE Except(a)
    BY <1>1, <1>8, <2>2, VouchExcept DEF EnqueueLoad
  <2>3. CASE r # None /\ Set(a, k)
    <3>1. k.pc = "change" /\ k.seen = r.status /\ k.res = call[a].res
      BY <1>0 DEF Call
    <3>2. r # None /\ r.status \notin {"created", "queued"} => Id(a) \in placed
      BY <2>1 DEF PlacedInv, RunsArePlaced
    <3> HIDE DEF k
    <3>3. Vouches(k) => k.res.run \in placed'
      BY <1>1, <1>8, <2>3, <3>1, <3>2 DEF EnqueueLoad, Vouches, Id
    <3> QED  BY <1>1, <1>8, <2>3, <3>3, VouchStep DEF EnqueueLoad
  <2> QED  BY <1>8, <2>2, <2>3 DEF EnqueueLoad
<1>9. ASSUME EnqueueChange(a) PROVE PlacedInv'
  <2>1. Id(a) \in Attempts
    BY <1>9, Past DEF EnqueueChange, At
  <2>2. QueuesStep /\ placed' = placed
    BY <1>9 DEF EnqueueChange, queues, PlacedInv, QueuesStep
  <2>3. CASE /\ runs[Id(a)] # None /\ SetStatus(Id(a), "queued") /\ Goto(a, "check")
    <3>1. RunsArePlaced'
      BY <2>1, <2>2, <2>3, VouchSetStatus
    <3> QED  BY <1>9, <2>2, <2>3, <3>1, VouchGoto, Labels DEF EnqueueChange, At
  <2>4. CASE StatusRaced(a) /\ runs' = runs
    <3>1. RunsArePlaced'
      BY <2>2, <2>4 DEF PlacedInv, RunsArePlaced
    <3> QED  BY <2>2, <2>4, <3>1, VouchExcept
  <2> QED  BY <1>9, <2>3, <2>4 DEF EnqueueChange
<1>10. ASSUME FindEntry(a) PROVE PlacedInv'
  <2> DEFINE k == [call[a] EXCEPT !.pc = "revert", !.raising = FALSE]
  <2>1. CASE Goto(a, "push")
    BY <1>1, <1>10, <2>1, VouchGoto, Labels DEF FindEntry, At
  <2>2. CASE Id(a) \in queue /\ Set(a, k)
    <3>1. k.res = call[a].res
      BY <1>0 DEF Call
    <3>2. k.res.run \in placed
      BY <2>2, <3>1 DEF PlacedInv, Id
    <3> QED  BY <1>1, <1>10, <2>2, <3>2, VouchStep DEF FindEntry
  <2> QED  BY <1>10, <2>1, <2>2 DEF FindEntry
<1>11. ASSUME PushEntry(a) PROVE PlacedInv'
  <2>1. RunsArePlaced' /\ QueuesStep
    BY <1>11 DEF PushEntry, store, PlacedInv, RunsArePlaced, QueuesStep
  <2>2. CASE RaiseInAdd(a)
    BY <1>11, <2>1, <2>2, VouchRaise DEF PushEntry, At
  <2>3. CASE Except(a)
    BY <2>1, <2>3, VouchExcept
  <2>4. CASE Goto(a, "commit") /\ placed' = placed \union {Id(a)}
    BY <2>1, <2>4, VouchGoto, Labels
  <2> QED  BY <1>11, <2>2, <2>3, <2>4 DEF PushEntry
<1>12. ASSUME EnqueueRevert(a) PROVE PlacedInv'
  <2>1. Id(a) \in Attempts
    BY <1>12, Past DEF EnqueueRevert, At
  <2>2. QueuesStep /\ placed' = placed
    BY <1>12 DEF EnqueueRevert, queues, PlacedInv, QueuesStep
  <2>3. CASE runs[Id(a)] # None /\ SetStatus(Id(a), call[a].seen)
    <3>1. call[a].seen \notin {"created", "queued"} => Id(a) \in placed
      BY <1>12 DEF EnqueueRevert, At, PlacedInv, CallsVouch, Vouches
    <3>2. RunsArePlaced'
      BY <2>1, <2>2, <2>3, <3>1, VouchSetStatus
    <3>3. CASE Except(a)
      BY <2>2, <3>2, <3>3, VouchExcept
    <3>4. CASE ~call[a].raising /\ Goto(a, "commit")
      <4>1. Id(a) \in placed
        BY <1>12, <3>4 DEF EnqueueRevert, At, PlacedInv, CallsVouch, Vouches
      <4> QED  BY <2>2, <3>2, <3>4, <4>1, VouchGoto, Labels
    <3>5. CASE StatusRaced(a)
      BY <2>2, <3>2, <3>5, VouchExcept
    <3> QED  BY <1>12, <3>3, <3>4, <3>5 DEF EnqueueRevert
  <2>4. CASE StatusRaced(a) /\ runs' = runs
    <3>1. RunsArePlaced'
      BY <2>2, <2>4 DEF PlacedInv, RunsArePlaced
    <3> QED  BY <2>2, <2>4, <3>1, VouchExcept
  <2> QED  BY <1>12, <2>3, <2>4 DEF EnqueueRevert
<1>13. ASSUME Refetch(a) PROVE PlacedInv'
  <2> DEFINE r == runs[Id(a)]
             k == [call[a] EXCEPT !.record = r.record, !.again = TRUE,
                     !.pc = IF r.status = "queued" THEN "load" ELSE "commit"]
  <2>1. Id(a) \in Attempts
    BY <1>13, Past DEF Refetch, At
  <2>2. CASE Except(a)
    BY <1>1, <1>13, <2>2, VouchExcept DEF Refetch
  <2>3. CASE r # None /\ r.status # "created" /\ Set(a, k)
    <3>1. /\ k.res = call[a].res
          /\ k.pc = IF r.status = "queued" THEN "load" ELSE "commit"
      BY <1>0 DEF Call
    <3>2. r.status # "queued" => Id(a) \in placed
      BY <2>1, <2>3 DEF PlacedInv, RunsArePlaced
    <3> HIDE DEF k
    <3>3. Vouches(k) => k.res.run \in placed'
      BY <1>1, <1>13, <3>1, <3>2 DEF Refetch, Vouches, Id
    <3> QED  BY <1>1, <1>13, <2>3, <3>3, VouchStep DEF Refetch
  <2> QED  BY <1>13, <2>2, <2>3 DEF Refetch
<1>14. ASSUME Commit(a) PROVE PlacedInv'
  <2>1. Id(a) \in Attempts
    BY <1>14, Past DEF Commit, At
  <2>2. QueuesStep /\ placed' = placed
    BY <1>14 DEF Commit, queues, PlacedInv, QueuesStep
  <2>3. Id(a) \in placed
    BY <1>14 DEF Commit, At, PlacedInv, CallsVouch, Vouches
  <2>4. RunsArePlaced'
    BY <1>0, <1>14, <2>1, <2>2, <2>3 DEF Commit, PlacedInv, RunsArePlaced
  <2>5. Goto(a, "sync") \/ Goto(a, "recheck")
    BY <1>14 DEF Commit
  <2> QED  BY <2>2, <2>3, <2>4, <2>5, VouchGoto, Labels
<1>15. ASSUME Recheck(a) PROVE PlacedInv'
  <2>1. Id(a) \in Attempts
    BY <1>15, Past DEF Recheck, At
  <2>2. CASE Except(a)
    BY <1>1, <1>15, <2>2, VouchExcept DEF Recheck
  <2>3. CASE runs[Id(a)] # None /\ runs[Id(a)].record = "committed" /\ Goto(a, "sync")
    <3>1. Id(a) \in placed
      BY <2>1, <2>3 DEF PlacedInv, RunsArePlaced
    <3> QED  BY <1>1, <1>15, <2>3, <3>1, VouchGoto, Labels DEF Recheck
  <2> QED  BY <1>15, <2>2, <2>3 DEF Recheck
<1>16. ASSUME SyncReservation(a) PROVE PlacedInv'
  <2>1. Id(a) \in placed
    BY <1>16 DEF SyncReservation, At, PlacedInv, CallsVouch, Vouches
  <2>2. QueuesStep /\ RunsArePlaced' /\ placed' = placed
    BY <1>16 DEF SyncReservation, queues, PlacedInv, QueuesStep, RunsArePlaced
  <2> QED  BY <1>16, <2>1, <2>2, VouchGoto, Labels DEF SyncReservation
<1>17. ASSUME Cleanup(a) PROVE PlacedInv'
  <2>1. Id(a) \in Attempts
    BY <1>17, Past DEF Cleanup, At
  <2>2. QueuesStep /\ placed' = placed
    BY <1>17 DEF Cleanup, queues, PlacedInv, QueuesStep
  <2>3. RunsArePlaced'
    BY <1>0, <1>17, <2>1, <2>2 DEF Cleanup, PlacedInv, RunsArePlaced
  <2> QED  BY <1>17, <2>2, <2>3, VouchGoto, Labels DEF Cleanup
<1>18. ASSUME RaiseElsewhere(a) \/ Crash(a) PROVE PlacedInv'
  <2>1. QueuesStep /\ RunsArePlaced'
    BY <1>1, <1>18 DEF RaiseElsewhere, Crash
  <2>2. CASE call[a].pc \in {"check", "push"} /\ RaiseInAdd(a)
    BY <2>1, <2>2, VouchRaise
  <2>3. CASE \E l \in {"failed", "dead"} : Goto(a, l)
    BY <2>1, <2>3, VouchGoto, Labels
  <2>4. CASE Except(a)
    BY <2>1, <2>4, VouchExcept
  <2> QED  BY <1>18, <2>2, <2>3, <2>4 DEF RaiseElsewhere, Crash
<1> QED  BY <1>2, <1>3, <1>4, <1>5, <1>6, <1>7, <1>8, <1>9, <1>10, <1>11, <1>12, <1>13,
            <1>14, <1>15, <1>16, <1>17, <1>18 DEF Handle

LEMMA OutsideVouches ==
  ASSUME IInv, PlacedInv, NEW r \in Attempts, Outside(r)
  PROVE  PlacedInv'
<1>1. UNCHANGED call /\ QueuesStep
  BY DEF Outside, PopRun, StartRun, EndRun, DequeueRun, StopRun, queues, PlacedInv, QueuesStep
<1>2. RunsArePlaced'
  <2>1. CASE runs' = runs
    BY <1>1, <2>1 DEF PlacedInv, RunsArePlaced, QueuesStep
  <2>2. CASE runs[r] # None /\ \E s \in {"created", "queued"} : SetStatus(r, s)
    BY <1>1, <2>2, VouchSetStatus DEF QueuesStep
  <2>3. CASE runs[r] # None /\ r \in placed' /\ \E s : SetStatus(r, s)
    BY <1>1, <2>3, VouchSetStatus DEF QueuesStep
  <2>4. runs[r] # None /\ runs[r].status = "in_progress" => r \in placed'
    BY <1>1 DEF PlacedInv, RunsArePlaced, QueuesStep
  <2>5. r \in popped => r \in placed'
    BY <1>1 DEF PlacedInv, QueuesStep
  <2> QED  BY <2>1, <2>2, <2>3, <2>4, <2>5
           DEF Outside, PopRun, StartRun, EndRun, DequeueRun, StopRun
<1> QED  BY <1>1, <1>2 DEF PlacedInv, CallsVouch, QueuesStep, Id

(* For any requests with one key, with crashes, calls that raise, agents    *)
(* and users: a request is only answered with a run that was put into the   *)
(* queue, or that a user stopped on its way there.                          *)
THEOREM AnsweredRunsWereEnqueued == Spec => []EnqueuedIsReal
<1>1. Init => PlacedInv
  BY DEF Init, PlacedInv, RunsArePlaced, CallsVouch, Vouches, NewCall
<1>2. IInv /\ PlacedInv /\ [Next]_vars => PlacedInv'
  <2> SUFFICES ASSUME IInv, PlacedInv, [Next]_vars PROVE PlacedInv'
    OBVIOUS
  <2>1. CASE Next
    BY <2>1, RequestVouches, OutsideVouches DEF Next
  <2>2. CASE UNCHANGED vars
    BY <2>2 DEF vars, store, queues, PlacedInv, RunsArePlaced, CallsVouch, Id
  <2> QED  BY <2>1, <2>2
<1>3. PlacedInv => EnqueuedIsReal
  BY DEF PlacedInv, CallsVouch, Vouches, EnqueuedIsReal, At
<1> QED  BY <1>1, <1>2, <1>3, InitIInv, NextIInv, PTL DEF Spec
=============================================================================
