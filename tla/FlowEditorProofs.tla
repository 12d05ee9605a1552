-------------------------- MODULE FlowEditorProofs ---------------------------
(***************************************************************************)
(* The flow editor, for any graphs, sessions, imports and number of nodes  *)
(* and revisions: the types of its state; a graph that is not marked as    *)
(* changed is the saved one, and a run is started for what is shown; the   *)
(* busy flag goes with a request, and a run that is shown as running is    *)
(* polled; a graph made from sound ones is sound, and what its boundaries  *)
(* leave out is shown as stopped and put down to one of them.              *)
(***************************************************************************)
EXTENDS FlowEditor, FlowStoreProofs

(* The invariant.  What a save has stored is what it sends back, no revision *)
(* is ever rewritten, and a save that creates a definition comes from a page *)
(* without one and starts nothing.                                           *)
ServerOK ==
  /\ server = [revision |-> server.revision, contents |-> server.contents,
               activated |-> server.activated, runs |-> server.runs]
  /\ server.revision \in Nat
  /\ DOMAIN server.contents = 1..server.revision
  /\ editingRevision \in 1..server.revision

SaveOK ==
  saveReq # None =>
    /\ saveReq = [create |-> saveReq.create, rev |-> saveReq.rev, flow |-> saveReq.flow,
                  thenRun |-> saveReq.thenRun, answer |-> saveReq.answer,
                  result |-> saveReq.result]
    /\ saveReq.answer \in {"waiting", "done", "failed"}
    /\ "status" \in DOMAIN saveReq.flow
    /\ saveReq.create => ~editing /\ ~saveReq.thenRun
    /\ saveReq.answer = "done" =>
         /\ saveReq.result \in 1..server.revision
         /\ Content(saveReq.flow) = server.contents[saveReq.result]

BusyOK ==
  busyReq # None =>
    /\ busyReq = [kind |-> busyReq.kind, arg |-> busyReq.arg, answer |-> busyReq.answer,
                  result |-> busyReq.result]
    /\ busyReq.kind \in {"activate", "start", "stop"}

Inv ==
  /\ "status" \in DOMAIN graph
  /\ ServerOK /\ SaveOK /\ BusyOK /\ CleanMeansSaved

-----------------------------------------------------------------------------
(* Statuses are no content. *)
LEMMA StatusIsNoContent ==
  ASSUME NEW g, NEW st, "status" \in DOMAIN g
  PROVE  /\ Content(WithStatus(g, st)) = Content(g)
         /\ "status" \in DOMAIN WithStatus(g, st)
<1> DEFINE h == WithStatus(g, st)
<1>1. DOMAIN h = DOMAIN g /\ h.status = [n \in Nodes(g) |-> IF n \in DOMAIN st THEN st[n] ELSE g.status[n]]
  BY DEF WithStatus
<1>2. Nodes(h) = Nodes(g)
  BY <1>1 DEF Nodes
<1>3. \A f \in DOMAIN g : f # "status" => h[f] = g[f]
  BY DEF WithStatus
<1>4. Content(h) = [f \in DOMAIN g |-> IF f = "status" THEN [n \in Nodes(g) |-> "idle"] ELSE g[f]]
  BY <1>1, <1>2, <1>3 DEF Content
<1>5. Content(g) = [f \in DOMAIN g |-> IF f = "status" THEN [n \in Nodes(g) |-> "idle"] ELSE g[f]]
  BY DEF Content
<1> QED BY <1>1, <1>4, <1>5

(* A command marks the graph as changed or leaves it alone. *)
LEMMA CommandMarks ==
  ASSUME "status" \in DOMAIN graph, Command \/ EditDetail
  PROVE  /\ "status" \in DOMAIN graph'
         /\ dirty' = TRUE \/ (dirty' = dirty /\ graph' = graph)
<1> USE DEF Mutate, WithNodes, Without, InsertClones
<1>1. ASSUME AddNode \/ PasteClipboard
      PROVE  "status" \in DOMAIN graph' /\ dirty' = TRUE
  BY <1>1 DEF AddNode, PasteClipboard
<1>2. ASSUME NEW S \in Selections,
             MoveNodes(S) \/ RemoveNodes(S) \/ GroupSelectedNodes(S) \/ UngroupSelectedNodes(S)
               \/ CutSelectedNodes(S) \/ DuplicateSelectedNodes(S)
      PROVE  "status" \in DOMAIN graph' /\ dirty' = TRUE
  BY <1>2 DEF MoveNodes, RemoveNodes, GroupSelectedNodes, UngroupSelectedNodes,
              CutSelectedNodes, DuplicateSelectedNodes
<1>3. ASSUME NEW S \in Selections, CopySelectedNodes(S)
      PROVE  graph' = graph /\ dirty' = dirty
  BY <1>3 DEF CopySelectedNodes
<1>4. ASSUME NEW n \in Nodes(graph), DuplicateNode(n)
      PROVE  "status" \in DOMAIN graph' /\ dirty' = TRUE
  <2>1. PICK inside \in Placements(graph, Fresh(1)) :
          LET g == WithNodes(graph, [m \in Fresh(1) |-> graph.status[n]], inside)
          IN  Mutate([g EXCEPT
                !.groups = { IF n \in G THEN G \union Fresh(1) ELSE G : G \in @ },
                !.multi  = IF n \in @ THEN @ \union Fresh(1) ELSE @])
    BY <1>4 DEF DuplicateNode
  <2>2. "status" \in DOMAIN WithNodes(graph, [m \in Fresh(1) |-> graph.status[n]], inside)
    OBVIOUS
  <2> QED BY <2>1, <2>2
<1>10. ASSUME NEW n \in Nodes(graph), SplitTaskNode(n)
      PROVE  "status" \in DOMAIN graph' /\ dirty' = TRUE
  <2> HIDE DEF WithNodes, Without, Mutate
  <2>1. PICK inside \in Placements(graph, Fresh(2)) :
          LET g == WithNodes(Without(graph, {n}), [m \in Fresh(2) |-> "idle"], inside)
          IN  Mutate([g EXCEPT !.edges = @ \union EdgesOf(n, Fresh(2))])
    BY <1>10 DEF SplitTaskNode
  <2>2. "status" \in DOMAIN WithNodes(Without(graph, {n}), [m \in Fresh(2) |-> "idle"], inside)
    BY DEF WithNodes, Without
  <2> QED BY <2>1, <2>2 DEF Mutate
<1>5. ASSUME NEW n \in Nodes(graph), BeginConnection(n)
      PROVE  graph' = graph /\ dirty' = dirty
  BY <1>5 DEF BeginConnection
<1>6. ASSUME NEW n \in Nodes(graph) \union {None}, CompleteConnection(n)
      PROVE  /\ "status" \in DOMAIN graph'
             /\ dirty' = TRUE \/ (dirty' = dirty /\ graph' = graph)
  BY <1>6 DEF CompleteConnection
<1>7. ASSUME NEW b \in Boundaries, PlaceBoundary(b) \/ SetBoundaryOnReach(b) \/ RemoveBoundary(b)
      PROVE  "status" \in DOMAIN graph' /\ dirty' = TRUE
  BY <1>7 DEF PlaceBoundary, SetBoundaryOnReach, RemoveBoundary
<1>8. ASSUME NEW e \in graph.edges, RemoveEdge(e)
      PROVE  "status" \in DOMAIN graph' /\ dirty' = TRUE
  BY <1>8 DEF RemoveEdge
<1>9. CASE EditDetail
  BY <1>9 DEF EditDetail
<1> QED BY <1>1, <1>2, <1>3, <1>4, <1>5, <1>6, <1>7, <1>8, <1>9, <1>10 DEF Command

-----------------------------------------------------------------------------
LEMMA InitInv == Init => Inv
<1> SUFFICES ASSUME Init PROVE Inv
  OBVIOUS
<1> USE DEF Init
<1>1. PICK s \in Sessions : graph = s.graph /\ server = [revision |-> 1,
         contents |-> [r \in {1} |-> Content(s.graph)], activated |-> s.activated,
         runs |-> IF s.phase = None THEN <<>> ELSE <<[rev |-> 1, phase |-> s.phase]>>]
  OBVIOUS
<1>2. graph \in Graph
  BY <1>1, GraphsAssumption DEF Formed
<1>3. "status" \in DOMAIN graph
  BY <1>2 DEF Graph
<1>4. ServerOK
  BY <1>1 DEF ServerOK
<1>5. SaveOK /\ BusyOK
  BY DEF SaveOK, BusyOK
<1>6. CleanMeansSaved
  BY <1>1 DEF CleanMeansSaved
<1> QED BY <1>3, <1>4, <1>5, <1>6 DEF Inv

(* What a step may do to the parts of the invariant: the graph on the canvas, *)
(* without the requests.                                                      *)
SameServer == server' = server /\ editingRevision' = editingRevision

LEMMA CanvasSteps ==
  ASSUME Inv, SameServer, UNCHANGED saveReq,
         BusyOK', "status" \in DOMAIN graph',
         editing' => editing, open' => open,
         \/ ~editing' \/ imported' = TRUE \/ dirty' = TRUE
         \/ dirty' = dirty /\ imported' = imported /\ Content(graph') = Content(graph)
  PROVE  Inv'
<1>1. ServerOK' /\ SaveOK'
  BY DEF Inv, SameServer, ServerOK, SaveOK, Content
<1>2. CleanMeansSaved'
  BY DEF Inv, SameServer, CleanMeansSaved
<1> QED BY <1>1, <1>2 DEF Inv

LEMMA Statuses ==
  ASSUME Inv
  PROVE  \A g \in {PendingRun(graph), Interrupted(graph)} :
           Content(g) = Content(graph) /\ "status" \in DOMAIN g
<1>1. \A st : Content(WithStatus(graph, st)) = Content(graph) /\ "status" \in DOMAIN WithStatus(graph, st)
  BY StatusIsNoContent DEF Inv
<1>2. \A st, su : /\ Content(WithStatus(WithStatus(graph, st), su)) = Content(graph)
                  /\ "status" \in DOMAIN WithStatus(WithStatus(graph, st), su)
  BY <1>1, StatusIsNoContent
<1>3. Content(PendingRun(graph)) = Content(graph) /\ "status" \in DOMAIN PendingRun(graph)
  BY <1>2 DEF PendingRun, BoundaryStops
<1>4. Content(Interrupted(graph)) = Content(graph) /\ "status" \in DOMAIN Interrupted(graph)
  BY <1>1 DEF Interrupted
<1> QED BY <1>3, <1>4

(* What the user does. *)
LEMMA UserInv == Inv /\ User => Inv'
<1> SUFFICES ASSUME Inv, User PROVE Inv'
  OBVIOUS
<1> USE DEF ui, run, requests, history, canvas
<1>1. CASE Edit
  <2>1. /\ "status" \in DOMAIN graph'
        /\ dirty' = TRUE \/ (dirty' = dirty /\ graph' = graph)
    BY <1>1, CommandMarks DEF Edit, Inv
  <2>2. SameServer /\ UNCHANGED <<saveReq, busyReq, imported, editing, open>>
    BY <1>1 DEF Edit, SameServer
  <2> QED BY <2>1, <2>2, CanvasSteps DEF Inv, BusyOK
<1>2. CASE New
  <2>1. SameServer /\ UNCHANGED <<saveReq, busyReq>> /\ editing' = FALSE /\ (open' => open)
    BY <1>2 DEF New, SameServer, Spend
  <2>2. "status" \in DOMAIN graph'
    BY <1>2 DEF New, Load, EmptyGraph
  <2> QED BY <2>1, <2>2, CanvasSteps DEF Inv, BusyOK
<1>3. CASE Import
  <2>1. SameServer /\ UNCHANGED <<saveReq, busyReq, editing, open>> /\ imported' = TRUE
    BY <1>3 DEF Import, SameServer
  <2>2. "status" \in DOMAIN graph'
    <3>1. PICK g \in Imports : graph' = g
      BY <1>3 DEF Import, Load
    <3> QED BY <3>1, GraphsAssumption DEF Formed, Graph
  <2> QED BY <2>1, <2>2, CanvasSteps DEF Inv, BusyOK
<1>4. CASE Save \/ Run
  <2>1. SameServer /\ UNCHANGED <<graph, dirty, imported, editing, open>>
    BY <1>4 DEF Save, Run, SameServer
  <2>2. \/ saveReq' = saveReq
        \/ /\ saveReq' = [create |-> ~editing, rev |-> editingRevision, flow |-> graph,
                          thenRun |-> FALSE, answer |-> "waiting", result |-> None]
        \/ /\ editing
           /\ saveReq' = [create |-> ~editing, rev |-> editingRevision, flow |-> graph,
                          thenRun |-> TRUE, answer |-> "waiting", result |-> None]
    BY <1>4 DEF Save, Run, SendSave
  <2>3. SaveOK'
    <3>1. ASSUME NEW then \in BOOLEAN, then => editing,
                 saveReq' = [create |-> ~editing, rev |-> editingRevision, flow |-> graph,
                             thenRun |-> then, answer |-> "waiting", result |-> None]
          PROVE  SaveOK'
      BY <2>1, <3>1 DEF SaveOK, Inv
    <3>2. CASE saveReq' = saveReq
      BY <2>1, <3>2 DEF SaveOK, Inv, Content, Nodes, SameServer
    <3> QED BY <2>2, <3>1, <3>2
  <2>4. BusyOK'
    <3>1. busyReq' = busyReq \/ SendStart(editingRevision)
      BY <1>4 DEF Save, Run
    <3> QED BY <3>1 DEF SendStart, BusyOK, Inv
  <2>5. ServerOK' /\ CleanMeansSaved'
    BY <2>1 DEF SameServer, ServerOK, CleanMeansSaved, Inv, Content, Nodes
  <2> QED BY <2>1, <2>3, <2>4, <2>5 DEF Inv
<1>5. CASE ToggleActivated
  <2>1. SameServer /\ UNCHANGED <<saveReq, graph, dirty, imported, editing, open>>
    BY <1>5 DEF ToggleActivated, SameServer
  <2>2. BusyOK'
    BY <1>5 DEF ToggleActivated, BusyOK
  <2> QED BY <2>1, <2>2, CanvasSteps DEF Inv
<1>6. CASE Stop
  <2>1. SameServer /\ UNCHANGED <<saveReq, dirty, imported, editing, open>> /\ graph' = Interrupted(graph)
    BY <1>6 DEF Stop, ShowStopped, SameServer
  <2>2. BusyOK'
    BY <1>6 DEF Stop, StopRequest, BusyOK, Inv
  <2>3. Content(graph') = Content(graph) /\ "status" \in DOMAIN graph'
    BY <2>1, Statuses
  <2> QED BY <2>1, <2>2, <2>3, CanvasSteps
<1>7. CASE ToggleLive
  <2>1. SameServer /\ UNCHANGED <<saveReq, busyReq, graph, dirty, imported, editing, open>>
    BY <1>7 DEF ToggleLive, SameServer
  <2> QED BY <2>1, CanvasSteps DEF Inv, BusyOK
<1> QED BY <1>1, <1>2, <1>3, <1>4, <1>5, <1>6, <1>7 DEF User

(* The handlers of responses. *)
LEMMA SaveAnsweredInv == Inv /\ SaveAnswered => Inv'
<1> SUFFICES ASSUME Inv, SaveAnswered PROVE Inv'
  OBVIOUS
<1> USE DEF ui, SaveAnswered
<1>1. saveReq' = None /\ server' = server /\ editing' = editing
  OBVIOUS
<1>2. SaveOK'
  BY <1>1 DEF SaveOK
<1>3. CASE saveReq.answer = "failed"
  <2>1. UNCHANGED <<graph, dirty, editingRevision, busyReq, imported, open>>
    BY <1>3
  <2> QED BY <1>1, <1>2, <2>1 DEF Inv, ServerOK, BusyOK, CleanMeansSaved, Content, Nodes
<1>4. CASE saveReq.answer # "failed"
  <2>1. /\ MarkSaved(saveReq.flow) /\ (open' => ~saveReq.create)
        /\ editingRevision' = IF saveReq.create THEN editingRevision ELSE saveReq.result
        /\ SendStart(editingRevision') \/ busyReq' = busyReq
    BY <1>4
  <2>2. /\ "status" \in DOMAIN saveReq.flow /\ saveReq.result \in 1..server.revision
        /\ Content(saveReq.flow) = server.contents[saveReq.result]
    BY <1>4 DEF Inv, SaveOK
  <2>3. ServerOK'
    BY <1>1, <2>1, <2>2 DEF Inv, ServerOK
  <2>4. BusyOK'
    BY <2>1 DEF SendStart, BusyOK, Inv
  <2>5. CleanMeansSaved'
    BY <1>1, <2>1, <2>2 DEF CleanMeansSaved, MarkSaved, Content, Nodes
  <2> QED BY <1>2, <2>1, <2>2, <2>3, <2>4, <2>5 DEF Inv, MarkSaved
<1> QED BY <1>3, <1>4

LEMMA HandlersInv == Inv /\ Handlers => Inv'
<1> SUFFICES ASSUME Inv, Handlers PROVE Inv'
  OBVIOUS
<1> USE DEF ui, run, requests, history, canvas
<1>1. CASE SaveAnswered
  BY <1>1, SaveAnsweredInv
<1>2. CASE StartAnswered \/ LatestAnswered
  <2>1. SameServer /\ UNCHANGED <<saveReq, dirty, imported, editing, open>>
    BY <1>2 DEF StartAnswered, LatestAnswered, SameServer
  <2>2. BusyOK'
    BY <1>2 DEF StartAnswered, LatestAnswered, BusyOK, Inv
  <2>3. graph' = graph \/ graph' = PendingRun(graph)
    BY <1>2 DEF StartAnswered, LatestAnswered, BeginRun
  <2>4. Content(graph') = Content(graph) /\ "status" \in DOMAIN graph'
    BY <2>3, Statuses DEF Inv
  <2> QED BY <2>1, <2>2, <2>4, CanvasSteps
<1>3. CASE ActivateAnswered
  <2>1. SameServer /\ UNCHANGED <<saveReq, dirty, imported, editing, open>>
    BY <1>3 DEF ActivateAnswered, SameServer
  <2>2. BusyOK'
    BY <1>3 DEF ActivateAnswered, StopRequest, BusyOK
  <2>3. graph' = graph \/ graph' = Interrupted(graph)
    BY <1>3 DEF ActivateAnswered, ShowStopped
  <2>4. Content(graph') = Content(graph) /\ "status" \in DOMAIN graph'
    BY <2>3, Statuses DEF Inv
  <2> QED BY <2>1, <2>2, <2>4, CanvasSteps
<1>4. CASE StopAnswered
  <2>1. SameServer /\ UNCHANGED <<saveReq, graph, dirty, imported, editing, open>> /\ busyReq' = None
    BY <1>4 DEF StopAnswered, SameServer
  <2> QED BY <2>1, CanvasSteps DEF Inv, BusyOK
<1>5. ASSUME NEW s \in Streams, Consume(s)
      PROVE  Inv'
  <2>1. SameServer /\ UNCHANGED <<saveReq, busyReq, dirty, imported, editing, open>>
    BY <1>5 DEF Consume, SameServer
  <2>2. graph' = graph
        \/ graph' = BoundaryStops(WithStatus(graph, Snapshot(stream[s].run, stream[s].inner)))
    BY <1>5 DEF Consume
  <2>3. Content(graph') = Content(graph) /\ "status" \in DOMAIN graph'
    BY <2>2, StatusIsNoContent DEF Inv, BoundaryStops
  <2> QED BY <2>1, <2>3, CanvasSteps DEF Inv, BusyOK
<1> QED BY <1>1, <1>2, <1>3, <1>4, <1>5 DEF Handlers

(* The server only adds revisions. *)
LEMMA ServerSteps ==
  ASSUME Inv, UNCHANGED <<graph, dirty, imported, editing, open, editingRevision>>,
         server' = [revision |-> server'.revision, contents |-> server'.contents,
                    activated |-> server'.activated, runs |-> server'.runs],
         server'.revision \in Nat, server'.revision >= server.revision,
         DOMAIN server'.contents = 1..server'.revision,
         \A r \in 1..server.revision : server'.contents[r] = server.contents[r],
         SaveOK', BusyOK'
  PROVE  Inv'
<1>1. ServerOK'
  BY DEF Inv, ServerOK
<1>2. CleanMeansSaved'
  BY DEF Inv, ServerOK, CleanMeansSaved, Content, Nodes
<1> QED BY <1>1, <1>2 DEF Inv

LEMMA ServerInv == Inv /\ Server => Inv'
<1> SUFFICES ASSUME Inv, Server PROVE Inv'
  OBVIOUS
<1> USE DEF ui, run, requests, history, canvas
<1>1. CASE AnswerSave
  <2>1. UNCHANGED <<graph, dirty, imported, editing, open, editingRevision, busyReq>>
    BY <1>1 DEF AnswerSave
  <2>2. saveReq # None /\ saveReq.answer = "waiting"
    BY <1>1 DEF AnswerSave
  <2>3. /\ server = [revision |-> server.revision, contents |-> server.contents,
                     activated |-> server.activated, runs |-> server.runs]
        /\ server.revision \in Nat /\ DOMAIN server.contents = 1..server.revision
    BY DEF Inv, ServerOK
  <2>4. saveReq = [create |-> saveReq.create, rev |-> saveReq.rev, flow |-> saveReq.flow,
                   thenRun |-> saveReq.thenRun, answer |-> saveReq.answer,
                   result |-> saveReq.result]
    BY <2>2 DEF Inv, SaveOK
  <2>5. CASE UNCHANGED server /\ saveReq' = [saveReq EXCEPT !.answer = "failed"]
    <3>1. SaveOK'
      BY <2>1, <2>2, <2>4, <2>5 DEF SaveOK, Inv
    <3> QED BY <2>1, <2>3, <2>5, <3>1, ServerSteps DEF Inv, BusyOK
  <2>6. ASSUME server' = [server EXCEPT
                 !.revision = @ + 1,
                 !.contents = [r \in 1..server.revision + 1 |->
                   IF r \in DOMAIN @ THEN @[r] ELSE Content(saveReq.flow)]],
               \/ saveReq' = [saveReq EXCEPT !.answer = "done", !.result = server'.revision]
               \/ saveReq' = [saveReq EXCEPT !.answer = "failed"]
        PROVE  Inv'
    <3>1. /\ server'.revision = server.revision + 1
          /\ server'.contents = [r \in 1..server.revision + 1 |->
               IF r \in DOMAIN server.contents THEN server.contents[r] ELSE Content(saveReq.flow)]
          /\ server' = [revision |-> server'.revision, contents |-> server'.contents,
                        activated |-> server'.activated, runs |-> server'.runs]
      BY <2>3, <2>6
    <3>2. server'.contents[server'.revision] = Content(saveReq.flow)
      BY <2>3, <3>1
    <3>3. saveReq'.flow = saveReq.flow /\ saveReq'.create = saveReq.create
            /\ saveReq'.thenRun = saveReq.thenRun
      BY <2>4, <2>6
    <3>4. \/ saveReq'.answer = "failed"
          \/ saveReq'.answer = "done" /\ saveReq'.result = server'.revision
      BY <2>4, <2>6
    <3>5. saveReq' = [create |-> saveReq'.create, rev |-> saveReq'.rev, flow |-> saveReq'.flow,
                      thenRun |-> saveReq'.thenRun, answer |-> saveReq'.answer,
                      result |-> saveReq'.result]
      BY <2>4, <2>6
    <3>6. SaveOK'
      BY <2>1, <2>2, <2>3, <3>1, <3>2, <3>3, <3>4, <3>5 DEF SaveOK, Inv, Content, Nodes
    <3> QED BY <2>1, <2>3, <3>1, <3>6, ServerSteps DEF Inv, BusyOK
  <2> QED BY <1>1, <2>5, <2>6 DEF AnswerSave
<1>2. CASE AnswerBusy
  <2>1. UNCHANGED <<graph, dirty, imported, editing, open, editingRevision, saveReq>>
    BY <1>2 DEF AnswerBusy
  <2>2. BusyOK'
    BY <1>2 DEF AnswerBusy, Inv, BusyOK
  <2>3. /\ server = [revision |-> server.revision, contents |-> server.contents,
                     activated |-> server.activated, runs |-> server.runs]
        /\ server.revision \in Nat /\ DOMAIN server.contents = 1..server.revision
    BY DEF Inv, ServerOK
  <2>4. busyReq.kind \in {"activate", "start", "stop"} /\ (server' = server \/ server' = Done(busyReq))
    BY <1>2 DEF AnswerBusy, Inv, BusyOK
  <2>5. \/ server' = server
        \/ \E on : server' = [server EXCEPT !.activated = on]
        \/ \E runs : server' = [server EXCEPT !.runs = runs]
    BY <2>4 DEF Done
  <2>6. /\ server'.revision = server.revision /\ server'.contents = server.contents
        /\ server' = [revision |-> server'.revision, contents |-> server'.contents,
                      activated |-> server'.activated, runs |-> server'.runs]
    BY <2>3, <2>5
  <2>7. SaveOK'
    BY <2>1, <2>6 DEF SaveOK, Inv, Content, Nodes
  <2> QED BY <2>1, <2>2, <2>3, <2>6, <2>7, ServerSteps
<1>3. CASE AnswerLatest \/ \E s \in Streams : Tick(s) \/ AnswerSnapshot(s) \/ FailSnapshot(s)
  <2>1. SameServer /\ UNCHANGED <<saveReq, busyReq, graph, dirty, imported, editing, open>>
    BY <1>3 DEF AnswerLatest, Tick, AnswerSnapshot, FailSnapshot, SameServer
  <2> QED BY <2>1, CanvasSteps DEF Inv, BusyOK
<1>4. CASE SavedElsewhere
  <2>1. UNCHANGED <<graph, dirty, imported, editing, open, editingRevision, saveReq, busyReq>>
    BY <1>4 DEF SavedElsewhere
  <2>2. PICK c : server' = [server EXCEPT
         !.revision = @ + 1,
         !.contents = [r \in 1..server.revision + 1 |-> IF r \in DOMAIN @ THEN @[r] ELSE c]]
    BY <1>4 DEF SavedElsewhere
  <2>3. /\ server = [revision |-> server.revision, contents |-> server.contents,
                     activated |-> server.activated, runs |-> server.runs]
        /\ server.revision \in Nat /\ DOMAIN server.contents = 1..server.revision
    BY DEF Inv, ServerOK
  <2>4. /\ server'.revision = server.revision + 1
        /\ server'.contents = [r \in 1..server.revision + 1 |->
             IF r \in DOMAIN server.contents THEN server.contents[r] ELSE c]
        /\ server' = [revision |-> server'.revision, contents |-> server'.contents,
                      activated |-> server'.activated, runs |-> server'.runs]
    BY <2>2, <2>3
  <2>5. SaveOK'
    BY <2>1, <2>3, <2>4 DEF SaveOK, Inv, Content, Nodes
  <2> QED BY <2>1, <2>3, <2>4, <2>5, ServerSteps DEF Inv, BusyOK
<1>5. ASSUME NEW r \in Runs, RunProceeds(r)
      PROVE  Inv'
  <2>1. UNCHANGED <<graph, dirty, imported, editing, open, editingRevision, saveReq, busyReq>>
    BY <1>5 DEF RunProceeds
  <2>2. /\ server = [revision |-> server.revision, contents |-> server.contents,
                     activated |-> server.activated, runs |-> server.runs]
        /\ server.revision \in Nat /\ DOMAIN server.contents = 1..server.revision
    BY DEF Inv, ServerOK
  <2>3. \E runs : server' = [server EXCEPT !.runs = runs]
    BY <1>5 DEF RunProceeds
  <2>4. /\ server'.revision = server.revision /\ server'.contents = server.contents
        /\ server' = [revision |-> server'.revision, contents |-> server'.contents,
                      activated |-> server'.activated, runs |-> server'.runs]
    BY <2>2, <2>3
  <2>5. SaveOK'
    BY <2>1, <2>4 DEF SaveOK, Inv, Content, Nodes
  <2> QED BY <2>1, <2>2, <2>4, <2>5, ServerSteps DEF Inv, BusyOK
<1> QED BY <1>1, <1>2, <1>3, <1>4, <1>5 DEF Server

LEMMA NextInv == Inv /\ [Next]_vars => Inv'
<1>1. CASE UNCHANGED vars
  BY <1>1 DEF vars, canvas, ui, run, requests, history, Inv, ServerOK, SaveOK, BusyOK,
              CleanMeansSaved, Content, Nodes
<1>2. CASE Next
  BY <1>2, UserInv, HandlersInv, ServerInv DEF Next
<1> QED BY <1>1, <1>2

LEMMA Invariance == Spec => []Inv
<1> QED BY InitInv, NextInv, PTL DEF Spec

-----------------------------------------------------------------------------
(* Unless it was imported, a graph without the mark of unsaved changes is   *)
(* the saved one of the revision that the next save and run will name,      *)
(* whatever is edited, saved elsewhere or answered late (markSaved).        *)
THEOREM CleanGraphIsSaved == Spec => []CleanMeansSaved
<1>1. Inv => CleanMeansSaved
  BY DEF Inv
<1> QED BY <1>1, Invariance, PTL

(* A start is only asked for by a run without unsaved edits, or by the      *)
(* answer to the save that a run has sent first.                            *)
StartsSound ==
  StartSent /\ ~imported' => Content(graph') = server.contents[busyReq'.arg]

LEMMA StartStep == Inv /\ [Next]_vars => StartsSound
<1> SUFFICES ASSUME Inv, Next, busyReq' # busyReq, busyReq' # None,
                    busyReq'.kind = "start", busyReq'.answer = "waiting", ~imported'
             PROVE  Content(graph') = server.contents[busyReq'.arg]
  BY DEF StartsSound, StartSent, vars, requests
<1> USE DEF ui, run, requests, history, canvas
<1>1. CASE Edit \/ New \/ Import \/ Save \/ ToggleLive
  BY <1>1 DEF Edit, New, Import, Save, ToggleLive
<1>2. CASE Run
  <2>1. SendStart(editingRevision) /\ ~dirty /\ editing /\ open
    BY <1>2 DEF Run, SaveFirst, Spend
  <2>2. graph' = graph /\ imported' = imported
    BY <1>2 DEF Run
  <2> QED BY <2>1, <2>2 DEF SendStart, Inv, CleanMeansSaved, Content, Nodes
<1>3. CASE ToggleActivated
  BY <1>3 DEF ToggleActivated
<1>4. CASE Stop
  BY <1>4 DEF Stop, StopRequest
<1>5. CASE SaveAnswered
  <2>1. /\ saveReq # None /\ saveReq.answer \notin {"waiting", "failed"} /\ saveReq.thenRun
        /\ MarkSaved(saveReq.flow) /\ SendStart(editingRevision')
        /\ editingRevision' = IF saveReq.create THEN editingRevision ELSE saveReq.result
    BY <1>5 DEF SaveAnswered
  <2>2. Content(saveReq.flow) = server.contents[saveReq.result] /\ ~saveReq.create
    BY <2>1 DEF Inv, SaveOK
  <2> QED BY <2>1, <2>2 DEF SendStart, MarkSaved, Content, Nodes
<1>6. CASE StartAnswered \/ StopAnswered
  BY <1>6 DEF StartAnswered, StopAnswered
<1>7. CASE ActivateAnswered
  BY <1>7 DEF ActivateAnswered, StopRequest
<1>8. CASE LatestAnswered \/ (\E s \in Streams : Consume(s))
  BY <1>8 DEF LatestAnswered, Consume
<1>9. CASE AnswerBusy
  <2>1. busyReq # None /\ (busyReq'.answer = "done" \/ busyReq'.answer = "failed")
    BY <1>9 DEF AnswerBusy, Inv, BusyOK
  <2> QED BY <2>1
<1>10. CASE AnswerSave \/ AnswerLatest \/ SavedElsewhere
            \/ (\E r \in Runs : RunProceeds(r))
            \/ (\E s \in Streams : Tick(s) \/ AnswerSnapshot(s) \/ FailSnapshot(s))
  BY <1>10 DEF AnswerSave, AnswerLatest, SavedElsewhere, RunProceeds, Tick, AnswerSnapshot,
               FailSnapshot
<1> QED BY <1>1, <1>2, <1>3, <1>4, <1>5, <1>6, <1>7, <1>8, <1>9, <1>10
        DEF Next, User, Handlers, Server

(* A start names a revision whose graph is the one on the canvas, edits     *)
(* included (run, save, afterSave).  A graph that was imported and not      *)
(* saved since is exempt: a run does not save it, and the revision that is  *)
(* started is another one.                                                  *)
THEOREM StartsAreOfTheShownGraph == Spec => StartRunsWhatIsShown
<1>1. Inv /\ [Next]_vars => [StartsSound]_vars
  BY StartStep
<1>2. Spec => [][StartsSound]_vars
  BY <1>1, Invariance, PTL DEF Spec
<1> QED BY <1>2 DEF StartsSound, StartRunsWhatIsShown

-----------------------------------------------------------------------------
(* Types.  A request on its way names runs and revisions that exist, and a  *)
(* stream that has asked names a run.                                       *)
RunRecords == [rev : Revisions, phase : Phases]
StreamStates(runs) ==
  [run : runs \union {None}, inner : Phases \union {"none", "asked", "failed"}]

ServerTyped == server.revision \in Revisions /\ server.runs \in Seq(RunRecords)

FlagsTyped == {dirty, open, editing, activated, running, saving, busy, live} \subseteq BOOLEAN

SaveTyped ==
  saveReq # None =>
    /\ saveReq \in SaveRequests
    /\ Formed(saveReq.flow) /\ Nodes(saveReq.flow) \subseteq 1..minted

BusyTyped ==
  busyReq # None =>
    /\ busyReq \in BusyRequests
    /\ busyReq.kind = "activate" => busyReq.arg \in BOOLEAN
    /\ busyReq.kind = "start" => busyReq.arg \in Revisions
    /\ busyReq.kind = "stop" => busyReq.arg \in Runs
    /\ busyReq.kind = "start" /\ busyReq.answer = "done" => busyReq.result \in Runs

RunTyped ==
  /\ runTaskId \in Runs \union {None}
  /\ latestReq # None => latestReq.run \in Runs \union {None}

StreamTyped ==
  /\ stream \in [Streams -> StreamStates(Runs)]
  /\ \A s \in Streams : stream[s].inner # "none" => stream[s].run # None

Typed ==
  /\ Inv /\ CanvasFormed /\ ServerTyped /\ FlagsTyped
  /\ SaveTyped /\ BusyTyped /\ RunTyped /\ StreamTyped

LEMMA PhaseTypes ==
  ASSUME NEW x \in RunRecords, NEW p \in Phases
  PROVE  [x EXCEPT !.phase = p] \in RunRecords
BY DEF RunRecords

(* The server's runs are only added to.                                     *)
LEMMA ServerTypes ==
  ASSUME Typed, Next
  PROVE  ServerTyped' /\ Runs \subseteq Runs'
<1>1. /\ server = [revision |-> server.revision, contents |-> server.contents,
                   activated |-> server.activated, runs |-> server.runs]
      /\ server.revision \in Revisions /\ server.runs \in Seq(RunRecords)
  BY DEF Typed, Inv, ServerOK, ServerTyped
<1>2. CASE server' = server
  BY <1>1, <1>2 DEF ServerTyped, Runs
<1>3. ASSUME server.revision < MaxRevision, NEW c,
             server' = [server EXCEPT !.revision = @ + 1, !.contents = c]
      PROVE  ServerTyped' /\ Runs \subseteq Runs'
  <2>1. server'.revision = server.revision + 1 /\ server'.runs = server.runs
    BY <1>1, <1>3
  <2> QED BY <1>1, <1>3, <2>1, GraphsAssumption DEF ServerTyped, Revisions, Runs
<1>4. CASE AnswerSave
  BY <1>2, <1>3, <1>4 DEF AnswerSave
<1>5. CASE SavedElsewhere
  BY <1>3, <1>5 DEF SavedElsewhere
<1>6. ASSUME NEW r \in Runs, RunProceeds(r)
      PROVE  ServerTyped' /\ Runs \subseteq Runs'
  <2>1. PICK p \in Phases : server' = [server EXCEPT !.runs[r].phase = p]
    BY <1>6 DEF RunProceeds
  <2>2. server'.revision = server.revision
        /\ server'.runs = [server.runs EXCEPT ![r] = [server.runs[r] EXCEPT !.phase = p]]
    BY <1>1, <2>1
  <2>3. [server.runs[r] EXCEPT !.phase = p] \in RunRecords
    BY <1>1, PhaseTypes DEF Runs
  <2>4. server'.runs \in Seq(RunRecords) /\ Len(server'.runs) = Len(server.runs)
    BY <1>1, <2>2, <2>3 DEF Runs
  <2> QED BY <1>1, <2>2, <2>4 DEF ServerTyped, Runs
<1>7. CASE AnswerBusy
  <2>1. CASE server' = server
    BY <1>2, <2>1
  <2>2. CASE server' # server
    <3>1. busyReq # None /\ server' = Done(busyReq)
      BY <1>7, <2>2 DEF AnswerBusy
    <3>2. /\ busyReq.kind \in {"activate", "start", "stop"}
          /\ busyReq.kind = "start" => busyReq.arg \in Revisions
          /\ busyReq.kind = "stop" => busyReq.arg \in Runs
      BY <3>1 DEF Typed, BusyTyped, BusyRequests
    <3>3. CASE busyReq.kind = "activate"
      <4>1. server' = [server EXCEPT !.activated = busyReq.arg]
        BY <3>1, <3>3 DEF Done
      <4>2. server'.revision = server.revision /\ server'.runs = server.runs
        BY <1>1, <4>1
      <4> QED BY <1>1, <4>2 DEF ServerTyped, Runs
    <3>4. CASE busyReq.kind = "start"
      <4> DEFINE new == [rev |-> busyReq.arg, phase |-> "pending"]
      <4>1. server' = [server EXCEPT !.runs = Append(@, new)]
        BY <3>1, <3>4 DEF Done
      <4>2. new \in RunRecords
        BY <3>2, <3>4 DEF RunRecords, Phases
      <4> HIDE DEF new
      <4>3. server'.revision = server.revision /\ server'.runs = Append(server.runs, new)
        BY <1>1, <4>1
      <4>4. server'.runs \in Seq(RunRecords) /\ Len(server'.runs) = Len(server.runs) + 1
        BY <1>1, <4>2, <4>3
      <4>5. Len(server.runs) \in Nat
        BY <1>1
      <4> QED BY <1>1, <4>3, <4>4, <4>5 DEF ServerTyped, Runs
    <3>5. CASE busyReq.kind = "stop"
      <4> DEFINE r == busyReq.arg
      <4>1. server' = [server EXCEPT !.runs[r].phase = "over"]
        BY <3>1, <3>5 DEF Done
      <4>2. r \in Runs
        BY <3>2, <3>5
      <4> HIDE DEF r
      <4>3. server'.revision = server.revision
            /\ server'.runs = [server.runs EXCEPT ![r] = [server.runs[r] EXCEPT !.phase = "over"]]
        BY <1>1, <4>1
      <4>4. [server.runs[r] EXCEPT !.phase = "over"] \in RunRecords
        <5>1. server.runs[r] \in RunRecords /\ "over" \in Phases
          BY <1>1, <4>2 DEF Runs, Phases
        <5> QED BY <5>1, PhaseTypes
      <4>5. server'.runs \in Seq(RunRecords) /\ Len(server'.runs) = Len(server.runs)
        BY <1>1, <4>2, <4>3, <4>4 DEF Runs
      <4> QED BY <1>1, <4>3, <4>5 DEF ServerTyped, Runs
    <3> QED BY <3>2, <3>3, <3>4, <3>5
  <2> QED BY <2>1, <2>2
<1>8. CASE User
  BY <1>2, <1>8 DEF User, Edit, New, Import, Save, Run, ToggleActivated, Stop, ToggleLive
<1>9. CASE Handlers
  BY <1>2, <1>9 DEF Handlers, SaveAnswered, StartAnswered, ActivateAnswered, StopAnswered,
                    LatestAnswered, Consume
<1>10. CASE AnswerLatest \/ \E s \in Streams : Tick(s) \/ AnswerSnapshot(s) \/ FailSnapshot(s)
  BY <1>2, <1>10 DEF AnswerLatest, Tick, AnswerSnapshot, FailSnapshot
<1> QED BY <1>4, <1>5, <1>6, <1>7, <1>8, <1>9, <1>10 DEF Next, Server

(* What the editor shows of a run are the nodes of the graph, with other    *)
(* statuses.                                                                *)
LEMMA ShownForms ==
  ASSUME Formed(graph)
  PROVE  \A h : \/ h = PendingRun(graph) \/ h = Interrupted(graph)
                \/ \E r : \E phase \in Phases : h = BoundaryStops(WithStatus(graph, Snapshot(r, phase)))
           => /\ Formed(h) /\ Nodes(h) = Nodes(graph)
              /\ IsSound(graph) => IsSound(h)
<1>1. \A g, st : Formed(g) /\ (\A n \in DOMAIN st : st[n] \in NodeStatus)
         => LET h == WithStatus(g, st)
            IN  Formed(h) /\ Nodes(h) = Nodes(g) /\ (IsSound(g) => IsSound(h))
  BY RestatusForms
<1>2. \A g : Formed(g) => LET h == BoundaryStops(g)
                          IN  Formed(h) /\ Nodes(h) = Nodes(g) /\ (IsSound(g) => IsSound(h))
  <2> SUFFICES ASSUME NEW g, Formed(g)
               PROVE  LET h == BoundaryStops(g)
                      IN  Formed(h) /\ Nodes(h) = Nodes(g) /\ (IsSound(g) => IsSound(h))
    OBVIOUS
  <2> DEFINE st == [n \in ExcludedByBoundary(g) |-> "stopped"]
  <2>1. \A n \in DOMAIN st : st[n] \in NodeStatus
    BY DEF NodeStatus
  <2>2. BoundaryStops(g) = WithStatus(g, st)
    BY DEF BoundaryStops
  <2> HIDE DEF st
  <2> QED BY <1>1, <2>1, <2>2
<1>3. ASSUME NEW h, h = PendingRun(graph)
      PROVE  Formed(h) /\ Nodes(h) = Nodes(graph) /\ (IsSound(graph) => IsSound(h))
  <2> DEFINE st == [n \in Nodes(graph) |-> "pending"]
             g == WithStatus(graph, st)
  <2>1. \A n \in DOMAIN st : st[n] \in NodeStatus
    BY DEF NodeStatus
  <2>2. h = BoundaryStops(g)
    BY <1>3 DEF PendingRun
  <2> HIDE DEF st
  <2>3. Formed(g) /\ Nodes(g) = Nodes(graph) /\ (IsSound(graph) => IsSound(g))
    BY <1>1, <2>1
  <2> HIDE DEF g
  <2> QED BY <1>2, <2>2, <2>3
<1>4. ASSUME NEW h, h = Interrupted(graph)
      PROVE  Formed(h) /\ Nodes(h) = Nodes(graph) /\ (IsSound(graph) => IsSound(h))
  <2> DEFINE st == [n \in { m \in Nodes(graph) : graph.status[m] \in {"pending", "running"} } |-> "stopped"]
  <2>1. \A n \in DOMAIN st : st[n] \in NodeStatus
    BY DEF NodeStatus
  <2>2. h = WithStatus(graph, st)
    BY <1>4 DEF Interrupted
  <2> HIDE DEF st
  <2> QED BY <1>1, <2>1, <2>2
<1>5. ASSUME NEW h, NEW r, NEW phase \in Phases,
             h = BoundaryStops(WithStatus(graph, Snapshot(r, phase)))
      PROVE  Formed(h) /\ Nodes(h) = Nodes(graph) /\ (IsSound(graph) => IsSound(h))
  <2> DEFINE st == Snapshot(r, phase)
             g == WithStatus(graph, st)
  <2>1. \A n \in DOMAIN st : st[n] \in NodeStatus
    BY DEF NodeStatus, Snapshot, Phases
  <2> HIDE DEF st
  <2>2. Formed(g) /\ Nodes(g) = Nodes(graph) /\ (IsSound(graph) => IsSound(g))
    BY <1>1, <2>1
  <2>3. h = BoundaryStops(g)
    BY <1>5 DEF st
  <2> HIDE DEF g
  <2> QED BY <1>2, <2>2, <2>3
<1> QED BY <1>3, <1>4, <1>5

(* The graph and what a save stores of it.                                  *)
LEMMA CanvasTypes ==
  ASSUME Typed, Next
  PROVE  CanvasFormed' /\ minted <= minted'
<1> USE DEF ui, run, requests, history, canvas
<1>1. ASSUME UNCHANGED <<clipboard, minted>>, Formed(graph'), Nodes(graph') \subseteq 1..minted
      PROVE  CanvasFormed' /\ minted <= minted'
  BY <1>1, FormedFields DEF Typed, CanvasFormed, ClipFormed
<1>2. /\ Formed(graph) /\ Nodes(graph) \subseteq 1..minted /\ CanvasFormed
  BY DEF Typed, CanvasFormed
<1>3. CASE UNCHANGED <<clipboard, minted, graph>>
  BY <1>1, <1>2, <1>3
<1>4. CASE Edit
  BY <1>2, <1>4, CommandForms DEF Edit
<1>5. CASE New
  <2>1. graph.detail \in Details
    BY <1>2, FormedFields
  <2>2. graph' = EmptyGraph(graph.detail) /\ UNCHANGED <<clipboard, minted>>
    BY <1>5 DEF New, Load
  <2>3. Formed(graph') /\ Nodes(graph') = {}
    BY <2>1, <2>2, EmptyForms
  <2> QED BY <1>1, <2>2, <2>3
<1>6. CASE Import
  <2>1. PICK g \in Imports : Nodes(g) \subseteq 1..minted /\ graph' = g
    BY <1>6 DEF Import, Load
  <2> QED BY <1>1, <1>6, <2>1, GraphsAssumption DEF Import
<1>7. CASE Stop \/ ActivateAnswered
  <2>1. UNCHANGED <<clipboard, minted>> /\ (graph' = graph \/ graph' = Interrupted(graph))
    BY <1>7 DEF Stop, ActivateAnswered, ShowStopped
  <2> QED BY <1>1, <1>2, <2>1, ShownForms
<1>8. CASE SaveAnswered
  <2>1. UNCHANGED <<clipboard, minted>> /\ (graph' = graph \/ graph' = saveReq.flow)
    BY <1>8 DEF SaveAnswered, MarkSaved
  <2>2. Formed(saveReq.flow) /\ Nodes(saveReq.flow) \subseteq 1..minted
    BY <1>8 DEF SaveAnswered, Typed, SaveTyped
  <2> QED BY <1>1, <1>2, <2>1, <2>2
<1>9. CASE StartAnswered \/ LatestAnswered
  <2>1. UNCHANGED <<clipboard, minted>> /\ (graph' = graph \/ graph' = PendingRun(graph))
    BY <1>9 DEF StartAnswered, LatestAnswered, BeginRun
  <2> QED BY <1>1, <1>2, <2>1, ShownForms
<1>10. ASSUME NEW s \in Streams, Consume(s)
       PROVE  CanvasFormed' /\ minted <= minted'
  <2>1. /\ UNCHANGED <<clipboard, minted>> /\ stream[s].inner \in Phases
        /\ \/ graph' = graph
           \/ graph' = BoundaryStops(WithStatus(graph, Snapshot(stream[s].run, stream[s].inner)))
    BY <1>10 DEF Consume
  <2>2. Formed(graph') /\ Nodes(graph') = Nodes(graph)
    <3>1. CASE graph' = graph
      BY <1>2, <3>1
    <3>2. CASE graph' # graph
      BY <1>2, <2>1, <3>2, ShownForms
    <3> QED BY <3>1, <3>2
  <2> QED BY <1>1, <1>2, <2>1, <2>2
<1>11. CASE Save \/ Run \/ ToggleActivated \/ ToggleLive \/ StopAnswered \/ Server
  BY <1>3, <1>11 DEF Save, Run, ToggleActivated, ToggleLive, StopAnswered, Server, AnswerSave,
       AnswerBusy, AnswerLatest, SavedElsewhere, RunProceeds, Tick, AnswerSnapshot, FailSnapshot
<1> QED BY <1>4, <1>5, <1>6, <1>7, <1>8, <1>9, <1>10, <1>11 DEF Next, User, Handlers

LEMMA FlagTypes ==
  ASSUME Typed, Next
  PROVE  FlagsTyped'
<1> USE DEF ui, run, requests, history, canvas
<1> DEFINE B(x) == x = TRUE \/ x = FALSE
<1>1. B(dirty) /\ B(open) /\ B(editing) /\ B(activated) /\ B(running) /\ B(saving) /\ B(busy) /\ B(live)
  BY DEF Typed, FlagsTyped
<1> SUFFICES B(dirty') /\ B(open') /\ B(editing') /\ B(activated') /\ B(running')
               /\ B(saving') /\ B(busy') /\ B(live')
  BY DEF FlagsTyped
<1>2. CASE Edit
  <2>1. dirty' = TRUE \/ dirty' = dirty
    BY <1>2, CommandMarks DEF Edit, Typed, Inv
  <2> QED BY <1>1, <1>2, <2>1 DEF Edit
<1>3. CASE New
  BY <1>1, <1>3 DEF New, Load
<1>4. CASE Import
  BY <1>1, <1>4 DEF Import, Load
<1>5. CASE Save \/ Run \/ ToggleActivated \/ Stop \/ ToggleLive
  BY <1>1, <1>5 DEF Save, SendSave, Run, SendStart, ToggleActivated, Stop, ShowStopped, ToggleLive
<1>6. CASE SaveAnswered
  BY <1>1, <1>6 DEF SaveAnswered, MarkSaved, SendStart
<1>7. CASE StartAnswered \/ StopAnswered \/ LatestAnswered
  BY <1>1, <1>7 DEF StartAnswered, StopAnswered, LatestAnswered, BeginRun, Finalized
<1>8. CASE ActivateAnswered
  <2>1. B(busyReq.arg)
    BY <1>8 DEF ActivateAnswered, Typed, BusyTyped
  <2> QED BY <1>1, <1>8, <2>1 DEF ActivateAnswered, ShowStopped, Finalized
<1>9. ASSUME NEW s \in Streams, Consume(s)
      PROVE  FlagsTyped'
  BY <1>1, <1>9 DEF Consume, FlagsTyped
<1>10. CASE Server
  <2>1. UNCHANGED <<dirty, open, editing, activated, running, saving, busy, live>>
    BY <1>10 DEF Server, AnswerSave, AnswerBusy, AnswerLatest, SavedElsewhere, RunProceeds,
         Tick, AnswerSnapshot, FailSnapshot
  <2> QED BY <1>1, <2>1
<1> QED BY <1>2, <1>3, <1>4, <1>5, <1>6, <1>7, <1>8, <1>9, <1>10 DEF Next, User, Handlers, FlagsTyped

LEMMA SaveTypes ==
  ASSUME Typed, Next
  PROVE  SaveTyped'
<1> USE DEF ui, run, requests, history, canvas
<1>1. Inv' /\ minted <= minted' /\ minted \in Nat /\ minted' \in Nat
  BY CanvasTypes, NextInv, StoreAssumption DEF Typed, CanvasFormed
<1>2. CASE saveReq' = saveReq
  BY <1>1, <1>2 DEF Typed, SaveTyped, Formed, Nodes
<1>3. ASSUME NEW then \in BOOLEAN, graph' = graph,
             saveReq' = [create |-> ~editing, rev |-> editingRevision, flow |-> graph,
                         thenRun |-> then, answer |-> "waiting", result |-> None]
      PROVE  SaveTyped'
  <2>1. saveReq'.flow = graph /\ graph \in Graph /\ Formed(graph) /\ Nodes(graph) \subseteq 1..minted
    BY <1>3 DEF Typed, CanvasFormed, Formed
  <2>2. editingRevision \in Nat
    BY DEF Typed, Inv, ServerOK
  <2>3. saveReq' \in SaveRequests
    BY <1>3, <2>1, <2>2 DEF SaveRequests, Answers
  <2> QED BY <1>1, <2>1, <2>3 DEF SaveTyped
<1>4. CASE Save \/ Run
  <2>1. saveReq' = saveReq \/ SendSave(FALSE) \/ SendSave(TRUE)
    BY <1>4 DEF Save, Run
  <2>2. graph' = graph
    BY <1>4 DEF Save, Run
  <2> QED BY <1>2, <1>3, <2>1, <2>2 DEF SendSave
<1>5. CASE SaveAnswered
  BY <1>5 DEF SaveAnswered, SaveTyped
<1>6. CASE AnswerSave
  <2>1. /\ saveReq # None /\ saveReq \in SaveRequests /\ Formed(saveReq.flow)
        /\ Nodes(saveReq.flow) \subseteq 1..minted
    BY <1>6 DEF AnswerSave, Typed, SaveTyped
  <2>2. \/ saveReq' = [saveReq EXCEPT !.answer = "failed"]
        \/ saveReq' = [saveReq EXCEPT !.answer = "done", !.result = server'.revision]
    BY <1>6 DEF AnswerSave
  <2>3. server'.revision \in Nat
    BY <1>1 DEF Inv, ServerOK
  <2>4. saveReq' \in SaveRequests /\ saveReq'.flow = saveReq.flow
    BY <2>1, <2>2, <2>3 DEF SaveRequests, Answers
  <2> QED BY <1>1, <2>1, <2>4 DEF SaveTyped
<1>7. CASE Edit \/ New \/ Import \/ ToggleActivated \/ Stop \/ ToggleLive
  BY <1>2, <1>7 DEF Edit, New, Import, ToggleActivated, Stop, ToggleLive
<1>8. CASE StartAnswered \/ ActivateAnswered \/ StopAnswered \/ LatestAnswered \/ \E s \in Streams : Consume(s)
  BY <1>2, <1>8 DEF StartAnswered, ActivateAnswered, StopAnswered, LatestAnswered, Consume
<1>9. CASE Server /\ ~ AnswerSave
  BY <1>2, <1>9 DEF Server, AnswerBusy, AnswerLatest, SavedElsewhere, RunProceeds,
       Tick, AnswerSnapshot, FailSnapshot
<1> QED BY <1>4, <1>5, <1>6, <1>7, <1>8, <1>9 DEF Next, User, Handlers

LEMMA BusyTypes ==
  ASSUME Typed, Next
  PROVE  BusyTyped'
<1> USE DEF ui, run, requests, history, canvas
<1>1. Runs \subseteq Runs'
  BY ServerTypes
<1>2. CASE busyReq' = busyReq
  BY <1>1, <1>2 DEF Typed, BusyTyped
<1>3. CASE busyReq' = None
  BY <1>3 DEF BusyTyped
<1>4. ASSUME NEW rev \in Revisions, SendStart(rev)
      PROVE  BusyTyped'
  <2>1. busyReq' = [kind |-> "start", arg |-> rev, answer |-> "waiting", result |-> None]
    BY <1>4 DEF SendStart
  <2>2. busyReq' \in BusyRequests
    BY <2>1 DEF BusyRequests, Revisions, Answers
  <2> QED BY <2>1, <2>2 DEF BusyTyped
<1>5. ASSUME busyReq' = StopRequest, runTaskId # None
      PROVE  BusyTyped'
  <2>1. runTaskId \in Runs
    BY <1>5 DEF Typed, RunTyped
  <2>2. busyReq' = [kind |-> "stop", arg |-> runTaskId, answer |-> "waiting", result |-> None]
    BY <1>5 DEF StopRequest
  <2>3. busyReq' \in BusyRequests
    BY <2>1, <2>2 DEF BusyRequests, Runs, Answers
  <2> QED BY <1>1, <2>1, <2>2, <2>3 DEF BusyTyped
<1>6. editingRevision \in Revisions /\ editingRevision' \in Revisions
  <2>1. Inv /\ Inv' /\ ServerTyped /\ ServerTyped'
    BY ServerTypes, NextInv DEF Typed
  <2> QED BY <2>1, GraphsAssumption DEF Inv, ServerOK, ServerTyped, Revisions
<1>7. CASE Run
  BY <1>2, <1>4, <1>6, <1>7 DEF Run
<1>8. CASE ToggleActivated
  <2>1. busyReq' = [kind |-> "activate", arg |-> ~activated, answer |-> "waiting", result |-> None]
    BY <1>8 DEF ToggleActivated
  <2>2. busyReq' \in BusyRequests /\ busyReq'.arg \in BOOLEAN
    BY <2>1 DEF BusyRequests, Answers
  <2> QED BY <2>1, <2>2 DEF BusyTyped
<1>9. CASE Stop
  BY <1>2, <1>5, <1>9 DEF Stop, StopAsks
<1>10. CASE SaveAnswered
  BY <1>2, <1>4, <1>6, <1>10 DEF SaveAnswered
<1>11. CASE StartAnswered \/ StopAnswered
  BY <1>3, <1>11 DEF StartAnswered, StopAnswered
<1>12. CASE ActivateAnswered
  BY <1>3, <1>5, <1>12 DEF ActivateAnswered, StopAsks
<1>13. CASE AnswerBusy
  <2>1. /\ busyReq # None /\ busyReq \in BusyRequests
        /\ busyReq.kind = "activate" => busyReq.arg \in BOOLEAN
        /\ busyReq.kind = "start" => busyReq.arg \in Revisions
        /\ busyReq.kind = "stop" => busyReq.arg \in Runs
    BY <1>13 DEF AnswerBusy, Typed, BusyTyped
  <2>2. Len(server'.runs) \in Nat
    BY ServerTypes DEF ServerTyped
  <2>3. CASE busyReq' = [busyReq EXCEPT !.answer = "failed"]
    <3>1. /\ busyReq' \in BusyRequests /\ busyReq'.kind = busyReq.kind
          /\ busyReq'.arg = busyReq.arg /\ busyReq'.answer = "failed"
      BY <2>1, <2>3 DEF BusyRequests, Answers
    <3> QED BY <1>1, <2>1, <3>1 DEF BusyTyped
  <2>4. CASE busyReq' = [busyReq EXCEPT !.answer = "done", !.result = Len(server'.runs)]
             /\ server' = Done(busyReq)
    <3>1. /\ busyReq' \in BusyRequests /\ busyReq'.kind = busyReq.kind
          /\ busyReq'.arg = busyReq.arg /\ busyReq'.result = Len(server'.runs)
      BY <2>1, <2>2, <2>4 DEF BusyRequests, Answers
    <3>2. busyReq.kind = "start" => Len(server'.runs) \in Runs'
      <4> SUFFICES ASSUME busyReq.kind = "start" PROVE Len(server'.runs) >= 1
        BY <2>2 DEF Runs
      <4>1. server' = [server EXCEPT !.runs = Append(@, [rev |-> busyReq.arg, phase |-> "pending"])]
        BY <2>4 DEF Done
      <4>2. /\ server = [revision |-> server.revision, contents |-> server.contents,
                         activated |-> server.activated, runs |-> server.runs]
            /\ server.runs \in Seq(RunRecords)
        BY DEF Typed, Inv, ServerOK, ServerTyped
      <4>3. server'.runs = Append(server.runs, [rev |-> busyReq.arg, phase |-> "pending"])
        BY <4>1, <4>2
      <4> QED BY <4>2, <4>3
    <3> QED BY <1>1, <2>1, <3>1, <3>2 DEF BusyTyped
  <2> QED BY <1>13, <2>3, <2>4 DEF AnswerBusy
<1>14. CASE Edit \/ New \/ Import \/ Save \/ ToggleLive
  BY <1>2, <1>14 DEF Edit, New, Import, Save, ToggleLive
<1>15. CASE LatestAnswered \/ \E s \in Streams : Consume(s)
  BY <1>2, <1>15 DEF LatestAnswered, Consume
<1>16. CASE Server /\ ~ AnswerBusy
  BY <1>2, <1>16 DEF Server, AnswerSave, AnswerLatest, SavedElsewhere, RunProceeds,
       Tick, AnswerSnapshot, FailSnapshot
<1> QED BY <1>7, <1>8, <1>9, <1>10, <1>11, <1>12, <1>13, <1>14, <1>15, <1>16 DEF Next, User, Handlers

LEMMA RunTypes ==
  ASSUME Typed, Next
  PROVE  RunTyped'
<1> USE DEF ui, run, requests, history, canvas
<1>1. Runs \subseteq Runs'
  BY ServerTypes
<1>2. RunTyped
  BY DEF Typed
<1>3. ASSUME \/ runTaskId' = runTaskId \/ runTaskId' \in Runs \/ runTaskId' = None,
             latestReq' = latestReq \/ latestReq' = None
      PROVE  RunTyped'
  BY <1>1, <1>2, <1>3 DEF RunTyped
<1>4. CASE New \/ Import
  BY <1>3, <1>4 DEF New, Import, Load
<1>5. CASE Edit \/ Save \/ Run \/ ToggleActivated \/ Stop \/ ToggleLive
  BY <1>3, <1>5 DEF Edit, Save, Run, ToggleActivated, Stop, ToggleLive
<1>6. CASE SaveAnswered \/ ActivateAnswered \/ StopAnswered \/ \E s \in Streams : Consume(s)
  BY <1>3, <1>6 DEF SaveAnswered, ActivateAnswered, StopAnswered, Consume
<1>7. CASE StartAnswered
  <2>1. latestReq' = latestReq
    BY <1>7 DEF StartAnswered
  <2>2. runTaskId' = runTaskId \/ (busyReq.answer # "failed" /\ runTaskId' = busyReq.result)
    BY <1>7 DEF StartAnswered, BeginRun
  <2>3. busyReq.answer # "failed" => busyReq.result \in Runs
    BY <1>7 DEF StartAnswered, Typed, BusyTyped, BusyRequests, Answers
  <2> QED BY <1>3, <2>1, <2>2, <2>3
<1>8. CASE LatestAnswered
  <2>1. latestReq' = None /\ runTaskId' = latestReq.run
    BY <1>8 DEF LatestAnswered, BeginRun
  <2>2. latestReq.run \in Runs
    BY <1>2, <1>8 DEF LatestAnswered, RunTyped
  <2> QED BY <1>3, <2>1, <2>2
<1>9. CASE AnswerLatest
  <2>1. runTaskId' = runTaskId /\ server' = server
    BY <1>9 DEF AnswerLatest
  <2>2. CASE latestReq' = None
    BY <1>3, <2>1, <2>2
  <2>3. CASE server.runs # <<>> /\ latestReq'.run = Len(server.runs)
    <3>1. server.runs \in Seq(RunRecords)
      BY DEF Typed, ServerTyped
    <3>2. Len(server.runs) \in Nat /\ Len(server.runs) # 0
      BY <2>3, <3>1
    <3> QED BY <1>2, <2>1, <2>3, <3>2 DEF RunTyped, Runs
  <2> QED BY <1>9, <2>2, <2>3 DEF AnswerLatest
<1>10. CASE Server /\ ~ AnswerLatest
  BY <1>3, <1>10 DEF Server, AnswerSave, AnswerBusy, SavedElsewhere, RunProceeds,
       Tick, AnswerSnapshot, FailSnapshot
<1> QED BY <1>4, <1>5, <1>6, <1>7, <1>8, <1>9, <1>10 DEF Next, User, Handlers

(* A stream that is replaced, asks or is answered.                          *)
StreamOK(x, runs) == x \in StreamStates(runs) /\ (x.inner # "none" => x.run # None)

LEMMA StreamKinds ==
  ASSUME Typed
  PROVE  /\ StreamOK(Off, Runs)
         /\ \A r \in Runs : StreamOK(Subscribed(r), Runs) /\ StreamOK(Asked(r), Runs)
         /\ \A s \in Streams : StreamOK(stream[s], Runs) /\ StreamOK([stream[s] EXCEPT !.inner = "none"], Runs)
         /\ \A s \in Streams : stream[s].run # None =>
              \A p \in Phases \union {"asked", "failed"} :
                StreamOK([stream[s] EXCEPT !.inner = p], Runs)
<1>1. \A r \in Runs : r # None
  BY NoneAssumption DEF Runs
<1>2. \A s \in Streams : StreamOK(stream[s], Runs)
  BY DEF Typed, StreamTyped, StreamOK
<1>3. \A s \in Streams : StreamOK([stream[s] EXCEPT !.inner = "none"], Runs)
  BY <1>2 DEF StreamOK, StreamStates
<1>4. ASSUME NEW s \in Streams, stream[s].run # None, NEW p \in Phases \union {"asked", "failed"}
      PROVE  StreamOK([stream[s] EXCEPT !.inner = p], Runs)
  BY <1>2, <1>4 DEF StreamOK, StreamStates
<1>5. StreamOK(Off, Runs)
  BY DEF StreamOK, StreamStates, Off
<1>6. \A r \in Runs : StreamOK(Subscribed(r), Runs) /\ StreamOK(Asked(r), Runs)
  BY <1>1 DEF StreamOK, StreamStates, Subscribed, Asked
<1> QED BY <1>2, <1>3, <1>4, <1>5, <1>6

LEMMA StreamTypes ==
  ASSUME Typed, Next
  PROVE  StreamTyped'
<1> USE DEF ui, run, requests, history, canvas
<1>1. Runs \subseteq Runs'
  BY ServerTypes
<1>2. DOMAIN stream = Streams /\ stream = [s \in Streams |-> stream[s]]
  BY DEF Typed, StreamTyped
<1>3. ASSUME DOMAIN stream' = Streams, stream' = [s \in Streams |-> stream'[s]],
             \A s \in Streams : StreamOK(stream'[s], Runs)
      PROVE  StreamTyped'
  <2>1. \A s \in Streams : StreamOK(stream'[s], Runs')
    BY <1>1, <1>3 DEF StreamOK, StreamStates
  <2> QED BY <1>3, <2>1 DEF StreamTyped, StreamOK
<1>4. CASE stream' = stream
  BY <1>2, <1>3, <1>4, StreamKinds
<1>5. ASSUME NEW s \in Streams, NEW x, StreamOK(x, Runs), stream' = [stream EXCEPT ![s] = x]
      PROVE  StreamTyped'
  BY <1>2, <1>3, <1>5, StreamKinds
<1>6. ASSUME NEW poll, NEW once, NEW isLive, NEW isRunning, NEW r \in Runs \union {None},
             StreamOK(poll, Runs), StreamOK(once, Runs), Streaming(poll, once, isLive, isRunning, r)
      PROVE  StreamTyped'
  <2>1. StreamOK(LiveStream(isLive, isRunning, r), Runs)
    BY StreamKinds DEF LiveStream, Streams
  <2>2. stream' = [stream EXCEPT !["poll"] = poll, !["once"] = once,
                                 !["live"] = LiveStream(isLive, isRunning, r)]
    BY <1>6 DEF Streaming
  <2>3. stream' = [s \in Streams |-> IF s = "poll" THEN poll ELSE IF s = "once" THEN once
                                     ELSE LiveStream(isLive, isRunning, r)]
    BY <1>2, <2>2 DEF Streams
  <2> QED BY <1>3, <1>6, <2>1, <2>3 DEF Streams
<1>7. /\ StreamOK(stream["poll"], Runs) /\ StreamOK(stream["once"], Runs) /\ StreamOK(Off, Runs)
      /\ runTaskId \in Runs \union {None}
  BY StreamKinds DEF Streams, Typed, RunTyped
<1>8. CASE New
  <2>1. PICK once \in {Off, stream["once"]} : Streaming(Off, once, live, FALSE, None)
    BY <1>8 DEF New
  <2> QED BY <1>6, <1>7, <2>1
<1>9. CASE Import
  BY <1>6, <1>7, <1>9 DEF Import
<1>10. CASE Stop
  BY <1>6, <1>7, <1>10 DEF Stop, ShowStopped
<1>11. CASE ToggleLive
  <2>1. PICK asks \in BOOLEAN :
          /\ asks => runTaskId # None
          /\ Streaming(stream["poll"], IF asks THEN Asked(runTaskId) ELSE stream["once"],
                       ~live, running, runTaskId)
    BY <1>11 DEF ToggleLive
  <2>2. asks => StreamOK(Asked(runTaskId), Runs)
    BY <1>7, <2>1, StreamKinds
  <2> QED BY <1>6, <1>7, <2>1, <2>2
<1>12. ASSUME NEW r \in Runs, BeginRun(r)
       PROVE  StreamTyped'
  <2>1. Streaming(IF open THEN Subscribed(r) ELSE Off, stream["once"], live /\ open, TRUE, r)
    BY <1>12 DEF BeginRun
  <2>2. StreamOK(IF open THEN Subscribed(r) ELSE Off, Runs)
    BY <1>7, StreamKinds
  <2> QED BY <1>6, <1>7, <2>1, <2>2
<1>13. CASE StartAnswered
  <2>1. CASE busyReq.answer = "failed"
    BY <1>4, <1>13, <2>1 DEF StartAnswered
  <2>2. CASE busyReq.answer # "failed"
    <3>1. busyReq.result \in Runs
      BY <1>13, <2>2 DEF StartAnswered, Typed, BusyTyped, BusyRequests, Answers
    <3> QED BY <1>12, <1>13, <2>2, <3>1 DEF StartAnswered
  <2> QED BY <2>1, <2>2
<1>14. CASE ActivateAnswered
  BY <1>4, <1>6, <1>7, <1>14 DEF ActivateAnswered, ShowStopped
<1>15. CASE LatestAnswered
  <2>1. latestReq.run \in Runs
    BY <1>15 DEF LatestAnswered, Typed, RunTyped
  <2>2. CASE latestReq.running
    BY <1>12, <1>15, <2>1, <2>2 DEF LatestAnswered
  <2>3. CASE ~ latestReq.running
    <3>1. Streaming(stream["poll"], Asked(latestReq.run), live, running, latestReq.run)
      BY <1>15, <2>3 DEF LatestAnswered
    <3> QED BY <1>6, <1>7, <2>1, <3>1, StreamKinds
  <2> QED BY <2>2, <2>3
<1>16. ASSUME NEW s \in Streams, Consume(s)
       PROVE  StreamTyped'
  <2> DEFINE rest == IF s = "once" THEN Off ELSE [stream[s] EXCEPT !.inner = "none"]
  <2>1. StreamOK(rest, Runs)
    BY StreamKinds
  <2>2. \/ stream' = [stream EXCEPT ![s] = rest]
        \/ runTaskId = stream[s].run /\ Streaming(Off, stream["once"], live, FALSE, stream[s].run)
    BY <1>16 DEF Consume
  <2> HIDE DEF rest
  <2> QED BY <1>5, <1>6, <1>7, <2>1, <2>2
<1>17. ASSUME NEW s \in Streams, Tick(s)
       PROVE  StreamTyped'
  <2>1. stream[s].run # None /\ stream' = [stream EXCEPT ![s] = [stream[s] EXCEPT !.inner = "asked"]]
    BY <1>17 DEF Tick
  <2> QED BY <1>5, <2>1, StreamKinds
<1>18. ASSUME NEW s \in Streams, AnswerSnapshot(s)
       PROVE  StreamTyped'
  <2> DEFINE p == server.runs[stream[s].run].phase
  <2>1. stream[s].inner = "asked" /\ stream' = [stream EXCEPT ![s] = [stream[s] EXCEPT !.inner = p]]
    BY <1>18 DEF AnswerSnapshot
  <2>2. stream[s].run # None /\ stream[s].run \in Runs
    BY <2>1 DEF Typed, StreamTyped, StreamStates
  <2>3. p \in Phases
    <3>1. server.runs[stream[s].run] \in RunRecords
      BY <2>2 DEF Typed, ServerTyped, Runs
    <3> QED BY <3>1 DEF RunRecords
  <2> HIDE DEF p
  <2> QED BY <1>5, <2>1, <2>2, <2>3, StreamKinds
<1>19. ASSUME NEW s \in Streams, FailSnapshot(s)
       PROVE  StreamTyped'
  <2> DEFINE x == IF s = "once" THEN Off ELSE [stream[s] EXCEPT !.inner = "failed"]
  <2>1. stream[s].inner = "asked" /\ stream' = [stream EXCEPT ![s] = x]
    BY <1>19 DEF FailSnapshot
  <2>2. StreamOK(x, Runs)
    BY <2>1, StreamKinds DEF Typed, StreamTyped
  <2> HIDE DEF x
  <2> QED BY <1>5, <2>1, <2>2
<1>20. CASE Edit \/ Save \/ Run \/ ToggleActivated \/ SaveAnswered \/ StopAnswered
  BY <1>4, <1>20 DEF Edit, Save, Run, ToggleActivated, SaveAnswered, StopAnswered
<1>21. CASE AnswerSave \/ AnswerBusy \/ AnswerLatest \/ SavedElsewhere \/ \E r \in Runs : RunProceeds(r)
  BY <1>4, <1>21 DEF AnswerSave, AnswerBusy, AnswerLatest, SavedElsewhere, RunProceeds
<1> QED BY <1>8, <1>9, <1>10, <1>11, <1>13, <1>14, <1>15, <1>16, <1>17, <1>18, <1>19, <1>20, <1>21
        DEF Next, User, Handlers, Server

LEMMA TypedInductive == (Init => Typed) /\ (Typed /\ [Next]_vars => Typed')
<1>1. ASSUME Init PROVE Typed
  <2>1. PICK s \in Sessions :
       /\ graph = s.graph /\ minted = Cardinality(Nodes(s.graph))
       /\ editing = s.editing /\ activated = s.activated
       /\ latestReq = IF s.editing THEN [run |-> None, running |-> FALSE] ELSE None
       /\ server = [revision |-> 1, contents |-> [r \in {1} |-> Content(s.graph)],
                    activated |-> s.activated,
                    runs |-> IF s.phase = None THEN <<>> ELSE <<[rev |-> 1, phase |-> s.phase]>>]
    BY <1>1 DEF Init
  <2>2. /\ Formed(s.graph) /\ Nodes(s.graph) = 1..Cardinality(Nodes(s.graph))
        /\ s.editing \in BOOLEAN /\ s.activated \in BOOLEAN /\ s.phase \in Phases \union {None}
    BY GraphsAssumption
  <2>3. CanvasFormed
    <3>1. Nodes(graph) \subseteq Ids /\ IsFiniteSet(Ids) /\ Cardinality(Ids) = MaxNodes
      BY <2>1, <2>2, GraphFields, FS_Interval, StoreAssumption DEF Formed, Ids
    <3>2. minted \in Nat /\ minted <= MaxNodes
      BY <2>1, <3>1, FS_Subset, FS_CardinalityType
    <3>3. ClipFormed(clipboard)
      BY <1>1 DEF Init, NoClip, ClipFormed
    <3> QED BY <2>1, <2>2, <3>2, <3>3, StoreAssumption DEF CanvasFormed
  <2>4. ServerTyped
    <3>1. \A p \in Phases : <<[rev |-> 1, phase |-> p]>> \in Seq(RunRecords)
      BY GraphsAssumption DEF RunRecords, Revisions
    <3> QED BY <2>1, <2>2, <3>1, GraphsAssumption DEF ServerTyped, Revisions
  <2>5. FlagsTyped
    BY <1>1, <2>1, <2>2 DEF Init, FlagsTyped
  <2>6. SaveTyped /\ BusyTyped /\ RunTyped
    BY <1>1, <2>1 DEF Init, SaveTyped, BusyTyped, RunTyped
  <2>7. StreamTyped
    BY <1>1 DEF Init, StreamTyped, StreamStates, Off
  <2> QED BY <1>1, <2>3, <2>4, <2>5, <2>6, <2>7, InitInv DEF Typed
<1>2. ASSUME Typed, UNCHANGED vars PROVE Typed'
  <2>1. Inv'
    BY <1>2, NextInv DEF Typed
  <2>2. CanvasFormed' /\ ServerTyped' /\ FlagsTyped' /\ SaveTyped'
    BY <1>2 DEF vars, canvas, ui, run, requests, Typed, CanvasFormed, ClipFormed, ServerTyped,
                FlagsTyped, SaveTyped, Formed, Nodes
  <2>3. BusyTyped' /\ RunTyped' /\ StreamTyped'
    BY <1>2 DEF vars, run, requests, Typed, BusyTyped, RunTyped, StreamTyped, Runs
  <2> QED BY <2>1, <2>2, <2>3 DEF Typed
<1>3. ASSUME Typed, Next PROVE Typed'
  <2>1. Inv'
    BY <1>3, NextInv DEF Typed
  <2> QED BY <1>3, <2>1, CanvasTypes, ServerTypes, FlagTypes, SaveTypes, BusyTypes, RunTypes, StreamTypes
          DEF Typed
<1> QED BY <1>1, <1>2, <1>3

(* The variables of the page stay within their types, and the graph is one  *)
(* of the store on ids that were drawn (FlowSnapshot, the signals of the    *)
(* editor, startPolling).                                                   *)
THEOREM TypeCorrect == Spec => []TypeOK
<1>1. Typed => TypeOK
  <2> SUFFICES ASSUME Typed PROVE TypeOK
    OBVIOUS
  <2>1. Formed(graph) /\ Nodes(graph) \subseteq 1..minted /\ minted <= MaxNodes
    BY FormedFields DEF Typed
  <2>2. {dirty, open, editing, activated, running, saving, busy, live} \subseteq BOOLEAN
    BY DEF Typed, FlagsTyped
  <2>3. /\ server.revision \in Revisions /\ DOMAIN server.contents = 1..server.revision
        /\ editingRevision \in Revisions
    BY GraphsAssumption DEF Typed, Inv, ServerOK, ServerTyped, Revisions
  <2>4. runTaskId \in Runs \union {None}
    BY DEF Typed, RunTyped
  <2>5. \A s \in Streams : /\ stream[s].run \in Runs \union {None}
                           /\ stream[s].inner \in Phases \union {"none", "asked", "failed"}
    BY DEF Typed, StreamTyped, StreamStates
  <2> QED BY <2>1, <2>2, <2>3, <2>4, <2>5 DEF TypeOK
<1> QED BY <1>1, TypedInductive, PTL DEF Spec

-----------------------------------------------------------------------------
(* The buttons and the requests. *)

(* busy is up exactly while one activation, start or stop is on its way,    *)
(* and saving while a save is.                                              *)
BusyMatchesRequest == (busy <=> busyReq # None) /\ (saving <=> saveReq # None)

LEMMA BusyStep == Typed /\ BusyMatchesRequest /\ [Next]_vars => BusyMatchesRequest'
<1> SUFFICES ASSUME Typed, BusyMatchesRequest, [Next]_vars PROVE BusyMatchesRequest'
  OBVIOUS
<1> USE DEF ui, run, requests, history, canvas
<1>1. (busy <=> busyReq # None) /\ (saving <=> saveReq # None)
  BY DEF BusyMatchesRequest
<1>2. (busyReq' \in BusyRequests => busyReq' # None) /\ (saveReq' \in SaveRequests => saveReq' # None)
  BY NoneAssumption
<1>3. CASE UNCHANGED <<busy, busyReq, saving, saveReq>>
  BY <1>1, <1>3 DEF BusyMatchesRequest
<1>4. ASSUME NEW then \in BOOLEAN, SendSave(then), graph \in Graph PROVE saving' = TRUE /\ saveReq' # None
  <2>1. saveReq' = [create |-> ~editing, rev |-> editingRevision, flow |-> graph,
                    thenRun |-> then, answer |-> "waiting", result |-> None]
    BY <1>4 DEF SendSave
  <2>2. editingRevision \in Nat
    BY DEF Typed, Inv, ServerOK
  <2>3. saveReq' \in SaveRequests
    BY <1>4, <2>1, <2>2 DEF SaveRequests, Answers
  <2> QED BY <1>2, <1>4, <2>3 DEF SendSave
<1>5. ASSUME NEW rev \in Nat, SendStart(rev) PROVE busy' = TRUE /\ busyReq' # None
  <2>1. busyReq' \in BusyRequests
    BY <1>5 DEF SendStart, BusyRequests, Answers
  <2> QED BY <1>2, <1>5, <2>1 DEF SendStart
<1>6. /\ graph \in Graph /\ editingRevision \in Nat /\ editingRevision' \in Nat
      /\ runTaskId # None => runTaskId \in Nat
  <2>1. Inv /\ Inv' /\ graph \in Graph
    BY NextInv DEF Typed, CanvasFormed, Formed
  <2> QED BY <2>1 DEF Typed, Inv, ServerOK, RunTyped, Runs
<1>7. ASSUME busyReq' = StopRequest, runTaskId # None PROVE busyReq' # None
  <2>1. busyReq' \in BusyRequests
    BY <1>6, <1>7 DEF StopRequest, BusyRequests, Answers
  <2> QED BY <1>2, <2>1
<1>8. CASE Save
  <2>1. SendSave(FALSE) /\ UNCHANGED <<busy, busyReq>>
    BY <1>8 DEF Save
  <2> QED BY <1>1, <1>4, <1>6, <2>1 DEF BusyMatchesRequest
<1>9. CASE Run
  <2>1. \/ UNCHANGED <<busy, busyReq>> /\ (UNCHANGED <<saving, saveReq>> \/ SendSave(TRUE))
        \/ UNCHANGED <<saving, saveReq>> /\ SendStart(editingRevision)
    BY <1>9 DEF Run
  <2>2. CASE SendStart(editingRevision) /\ UNCHANGED <<saving, saveReq>>
    <3>1. busy' = TRUE /\ busyReq' # None
      BY <1>5, <1>6, <2>2
    <3> QED BY <1>1, <2>2, <3>1 DEF BusyMatchesRequest
  <2>3. CASE SendSave(TRUE) /\ UNCHANGED <<busy, busyReq>>
    <3>1. saving' = TRUE /\ saveReq' # None
      BY <1>4, <1>6, <2>3
    <3> QED BY <1>1, <2>3, <3>1 DEF BusyMatchesRequest
  <2> QED BY <1>3, <2>1, <2>2, <2>3
<1>10. CASE ToggleActivated
  <2>1. busy' = TRUE /\ UNCHANGED <<saving, saveReq>>
        /\ busyReq' = [kind |-> "activate", arg |-> ~activated, answer |-> "waiting", result |-> None]
    BY <1>10 DEF ToggleActivated
  <2>2. busyReq' \in BusyRequests
    BY <2>1 DEF BusyRequests, Answers
  <2> QED BY <1>1, <1>2, <2>1, <2>2 DEF BusyMatchesRequest
<1>11. CASE Stop
  <2>1. UNCHANGED <<saving, saveReq>>
        /\ \/ UNCHANGED <<busy, busyReq>>
           \/ busy' = TRUE /\ busyReq' = StopRequest /\ runTaskId # None
    BY <1>11 DEF Stop, StopAsks
  <2> QED BY <1>1, <1>7, <2>1 DEF BusyMatchesRequest
<1>12. CASE SaveAnswered
  <2>1. saving' = FALSE /\ saveReq' = None
        /\ (UNCHANGED <<busy, busyReq>> \/ SendStart(editingRevision'))
    BY <1>12 DEF SaveAnswered
  <2>2. CASE SendStart(editingRevision')
    <3>1. busy' = TRUE /\ busyReq' # None
      BY <1>5, <1>6, <2>2
    <3> QED BY <2>1, <3>1 DEF BusyMatchesRequest
  <2> QED BY <1>1, <2>1, <2>2 DEF BusyMatchesRequest
<1>13. CASE StartAnswered \/ StopAnswered
  <2>1. busy' = FALSE /\ busyReq' = None /\ UNCHANGED <<saving, saveReq>>
    BY <1>13 DEF StartAnswered, StopAnswered, Finalized
  <2> QED BY <1>1, <2>1 DEF BusyMatchesRequest
<1>14. CASE ActivateAnswered
  (* stop() finds the page busy with the deactivation and asks nothing. *)
  <2>1. busyReq # None /\ busy' = FALSE /\ UNCHANGED <<saving, saveReq>>
        /\ (busyReq' = None \/ StopAsks)
    BY <1>14 DEF ActivateAnswered, Finalized
  <2>2. ~ StopAsks
    BY <1>1, <2>1 DEF StopAsks
  <2> QED BY <1>1, <2>1, <2>2 DEF BusyMatchesRequest
<1>15. CASE AnswerSave
  <2>1. saveReq # None /\ UNCHANGED <<saving, busy, busyReq>>
        /\ \/ saveReq' = [saveReq EXCEPT !.answer = "failed"]
           \/ saveReq' = [saveReq EXCEPT !.answer = "done", !.result = server'.revision]
    BY <1>15 DEF AnswerSave
  <2>2. saveReq \in SaveRequests
    BY <2>1 DEF Typed, SaveTyped
  <2>3. server'.revision \in Nat
    BY NextInv DEF Typed, Inv, ServerOK
  <2>4. saveReq' \in SaveRequests
    BY <2>1, <2>2, <2>3 DEF SaveRequests, Answers
  <2> QED BY <1>1, <1>2, <2>1, <2>4 DEF BusyMatchesRequest
<1>16. CASE AnswerBusy
  <2>1. busyReq # None /\ UNCHANGED <<saving, saveReq, busy>>
        /\ \/ busyReq' = [busyReq EXCEPT !.answer = "failed"]
           \/ busyReq' = [busyReq EXCEPT !.answer = "done", !.result = Len(server'.runs)]
    BY <1>16 DEF AnswerBusy
  <2>2. busyReq \in BusyRequests
    BY <2>1 DEF Typed, BusyTyped
  <2>3. Len(server'.runs) \in Nat
    BY TypedInductive DEF Typed, ServerTyped
  <2>4. busyReq' \in BusyRequests
    BY <2>1, <2>2, <2>3 DEF BusyRequests, Answers
  <2> QED BY <1>1, <1>2, <2>1, <2>4 DEF BusyMatchesRequest
<1>17. CASE UNCHANGED vars
  BY <1>3, <1>17 DEF vars
<1>18. CASE Edit \/ New \/ Import \/ ToggleLive
  BY <1>3, <1>18 DEF Edit, New, Import, ToggleLive
<1>19. CASE LatestAnswered \/ \E s \in Streams : Consume(s)
  BY <1>3, <1>19 DEF LatestAnswered, Consume
<1>20. CASE Server /\ ~ AnswerSave /\ ~ AnswerBusy
  BY <1>3, <1>20 DEF Server, AnswerLatest, SavedElsewhere, RunProceeds, Tick, AnswerSnapshot, FailSnapshot
<1> QED BY <1>8, <1>9, <1>10, <1>11, <1>12, <1>13, <1>14, <1>15, <1>16, <1>17, <1>18, <1>19, <1>20
        DEF Next, User, Handlers

(* The page is busy exactly while an activation, a start or a stop is on    *)
(* its way, and saving exactly while a save is (toggleActivated, stop and   *)
(* their finalize).  That a stop reaches the server is not said: the one of *)
(* a deactivation does not.                                                 *)
THEOREM BusyIsTheRequest == Spec => []BusyMatchesRequest
<1>1. Init => BusyMatchesRequest
  BY DEF Init, BusyMatchesRequest
<1> QED BY <1>1, BusyStep, TypedInductive, PTL DEF Spec

-----------------------------------------------------------------------------
(* The run that is shown. *)
LEMMA FollowStep == Typed /\ RunningIsFollowed /\ [Next]_vars => RunningIsFollowed'
<1> DEFINE FollowedNext == /\ runTaskId' # None /\ stream'["poll"].run # None
                           /\ stream'["poll"].inner # "failed" \/ pollFailed'
                           /\ stream'["poll"].run = runTaskId' \/ overtaken'
<1> SUFFICES ASSUME Typed, RunningIsFollowed, [Next]_vars, open', running'
             PROVE  FollowedNext
  BY DEF RunningIsFollowed
<1> USE DEF ui, run, requests, history, canvas
<1>1. DOMAIN stream = Streams /\ "poll" \in Streams /\ "once" \in Streams /\ "live" \in Streams
  BY DEF Typed, StreamTyped, Streams
<1>2. open /\ running =>
        /\ runTaskId # None /\ stream["poll"].run # None
        /\ stream["poll"].inner # "failed" \/ pollFailed
        /\ stream["poll"].run = runTaskId \/ overtaken
  BY DEF RunningIsFollowed
<1>3. \A poll, once, l, r, t : Streaming(poll, once, l, r, t) => stream'["poll"] = poll
  BY <1>1 DEF Streaming
<1>4. CASE UNCHANGED <<open, running, runTaskId, overtaken, pollFailed>> /\ stream'["poll"] = stream["poll"]
  BY <1>2, <1>4
<1>5. ASSUME NEW r \in Runs, BeginRun(r), UNCHANGED open
      PROVE  FollowedNext
  <2>1. runTaskId' = r /\ stream'["poll"] = Subscribed(r)
    BY <1>3, <1>5 DEF BeginRun
  <2> QED BY <2>1, NoneAssumption DEF Subscribed, Runs
<1>6. CASE New \/ Import
  BY <1>6 DEF New, Import, Load
<1>7. CASE Stop
  BY <1>7 DEF Stop, ShowStopped
<1>8. CASE ToggleLive
  BY <1>3, <1>4, <1>8 DEF ToggleLive
<1>9. CASE SaveAnswered
  <2>1. open /\ UNCHANGED <<running, runTaskId, overtaken, pollFailed, stream>>
    BY <1>9 DEF SaveAnswered
  <2> QED BY <1>2, <2>1
<1>10. CASE StartAnswered
  <2>1. CASE busyReq.answer = "failed"
    BY <1>4, <1>10, <2>1 DEF StartAnswered
  <2>2. CASE busyReq.answer # "failed"
    <3>1. busyReq.result \in Runs
      BY <1>10, <2>2 DEF StartAnswered, Typed, BusyTyped, BusyRequests, Answers
    <3> QED BY <1>5, <1>10, <2>2, <3>1 DEF StartAnswered
  <2> QED BY <2>1, <2>2
<1>11. CASE ActivateAnswered
  BY <1>4, <1>11 DEF ActivateAnswered, ShowStopped
<1>12. CASE LatestAnswered
  <2>1. latestReq.run \in Runs /\ latestReq.run # None
    BY <1>12 DEF LatestAnswered, Typed, RunTyped
  <2>2. CASE latestReq.running
    BY <1>5, <1>12, <2>1, <2>2 DEF LatestAnswered
  <2>3. CASE ~ latestReq.running
    <3>1. /\ runTaskId' = latestReq.run /\ overtaken' = running
          /\ UNCHANGED <<open, running, pollFailed>>
          /\ stream'["poll"] = stream["poll"]
      BY <1>3, <1>12, <2>3 DEF LatestAnswered
    <3> QED BY <1>2, <2>1, <3>1
  <2> QED BY <2>2, <2>3
<1>13. ASSUME NEW s \in Streams, Consume(s)
       PROVE  FollowedNext
  <2>1. /\ UNCHANGED <<open, runTaskId, overtaken, pollFailed, running>>
        /\ stream' = [stream EXCEPT ![s] = IF s = "once" THEN Off ELSE [stream[s] EXCEPT !.inner = "none"]]
    BY <1>13 DEF Consume
  <2>2. CASE s = "poll"
    <3>1. stream'["poll"].run = stream["poll"].run /\ stream'["poll"].inner = "none"
      BY <1>1, <2>1, <2>2 DEF Typed, StreamTyped, StreamStates
    <3> QED BY <1>2, <2>1, <3>1
  <2>3. CASE s # "poll"
    BY <1>1, <1>4, <2>1, <2>3
  <2> QED BY <2>2, <2>3
<1>14. ASSUME NEW s \in Streams, Tick(s) \/ AnswerSnapshot(s) \/ FailSnapshot(s)
       PROVE  FollowedNext
  <2>1. UNCHANGED <<open, runTaskId, overtaken, running>> /\ (pollFailed' = pollFailed \/ s = "poll")
    BY <1>14 DEF Tick, AnswerSnapshot, FailSnapshot
  <2>2. CASE s # "poll"
    <3>1. pollFailed' = pollFailed /\ stream'["poll"] = stream["poll"]
      BY <1>1, <1>14, <2>2, ZenonT(30) DEF Tick, AnswerSnapshot, FailSnapshot
    <3> QED BY <1>4, <2>1, <3>1
  <2>3. CASE s = "poll" /\ FailSnapshot(s)
    <3>1. pollFailed' /\ stream'["poll"].run = stream["poll"].run
      BY <1>1, <2>3 DEF FailSnapshot, Typed, StreamTyped, StreamStates
    <3> QED BY <1>2, <2>1, <3>1
  <2>4. CASE s = "poll" /\ Tick(s)
    <3>1. stream'["poll"].inner = "asked" /\ stream'["poll"].run = stream["poll"].run
      BY <1>1, <2>4 DEF Tick, Typed, StreamTyped, StreamStates
    <3> QED BY <1>2, <2>1, <3>1
  <2>5. CASE s = "poll" /\ AnswerSnapshot(s)
    <3>1. stream["poll"].run \in Runs
      BY <1>2, <2>1, <2>5 DEF Typed, StreamTyped, StreamStates, Runs
    <3>2. server.runs[stream["poll"].run].phase # "failed"
      <4>1. server.runs \in Seq(RunRecords)
        BY DEF Typed, ServerTyped
      <4>2. server.runs[stream["poll"].run] \in RunRecords
        BY <3>1, <4>1 DEF Runs
      <4> QED BY <4>2 DEF RunRecords, Phases
    <3>3. /\ stream'["poll"].run = stream["poll"].run
          /\ stream'["poll"].inner = server.runs[stream["poll"].run].phase
      BY <1>1, <2>5 DEF AnswerSnapshot, Typed, StreamTyped, StreamStates
    <3> QED BY <1>2, <2>1, <3>2, <3>3
  <2> QED BY <1>14, <2>2, <2>3, <2>4, <2>5
<1>15. CASE UNCHANGED vars
  BY <1>4, <1>15 DEF vars
<1>16. CASE Edit \/ Save \/ Run \/ ToggleActivated \/ StopAnswered
  BY <1>4, <1>16 DEF Edit, Save, Run, ToggleActivated, StopAnswered
<1>17. CASE AnswerSave \/ AnswerBusy \/ AnswerLatest \/ SavedElsewhere \/ \E r \in Runs : RunProceeds(r)
  BY <1>4, <1>17 DEF AnswerSave, AnswerBusy, AnswerLatest, SavedElsewhere, RunProceeds
<1> QED BY <1>6, <1>7, <1>8, <1>9, <1>10, <1>11, <1>12, <1>13, <1>14, <1>15, <1>16, <1>17
        DEF Next, User, Handlers, Server

(* A run shown as running has a polling, and one that has not ended unless  *)
(* one of its own requests failed, and it is the polling of the run that is *)
(* named unless restoreRun was answered too late (run, stop, restoreRun,    *)
(* newPipeline, consumeSnapshot).                                           *)
THEOREM RunningIsPolled == Spec => []RunningIsFollowed
<1>1. Init => RunningIsFollowed
  BY DEF Init, RunningIsFollowed
<1> QED BY <1>1, FollowStep, TypedInductive, PTL DEF Spec

-----------------------------------------------------------------------------
(* The graph.  What is loaded and imported is taken as it comes: the page   *)
(* checks neither the files nor the definitions it reads.                   *)
SoundSources ==
  /\ \A s \in Sessions : IsSound(s.graph)
  /\ \A g \in Imports : IsSound(g)

SoundInv == CanvasSound /\ (saveReq # None => IsSound(saveReq.flow))

LEMMA SoundStep == SoundSources /\ Typed /\ SoundInv /\ [Next]_vars => SoundInv'
<1> SUFFICES ASSUME SoundSources, Typed, SoundInv, [Next]_vars PROVE SoundInv'
  OBVIOUS
<1> USE DEF ui, run, requests, history, canvas
<1>1. IsSound(graph) /\ ClipSound(clipboard) /\ Formed(graph) /\ CanvasFormed
  BY DEF SoundInv, CanvasSound, Typed, CanvasFormed
<1>2. ASSUME clipboard' = clipboard, IsSound(graph')
      PROVE  CanvasSound'
  BY <1>1, <1>2 DEF CanvasSound, ClipSound
<1>3. ASSUME CanvasSound', saveReq' = saveReq PROVE SoundInv'
  BY <1>3 DEF SoundInv, IsSound, Nodes
<1>4. CASE UNCHANGED <<graph, clipboard, saveReq>>
  BY <1>1, <1>2, <1>3, <1>4
<1>5. CASE Edit
  <2>1. CanvasSound' /\ saveReq' = saveReq
    BY <1>1, <1>5, CommandForms DEF Edit, CanvasSound
  <2> QED BY <1>3, <2>1
<1>6. CASE New
  <2>1. /\ graph' = EmptyGraph(graph.detail) /\ UNCHANGED <<clipboard, saveReq>>
        /\ graph.detail \in Details
    BY <1>1, <1>6, FormedFields DEF New, Load
  <2> QED BY <1>2, <1>3, <2>1, EmptyForms
<1>7. CASE Import
  <2>1. UNCHANGED <<clipboard, saveReq>> /\ \E g \in Imports : graph' = g
    BY <1>7 DEF Import, Load
  <2> QED BY <1>2, <1>3, <2>1 DEF SoundSources
<1>8. CASE Save \/ Run
  <2>1. UNCHANGED <<graph, clipboard>> /\ (saveReq' = saveReq \/ saveReq'.flow = graph)
    BY <1>8 DEF Save, Run, SendSave
  <2>2. CASE saveReq' = saveReq
    BY <1>4, <2>1, <2>2
  <2>3. CASE saveReq'.flow = graph
    BY <1>1, <1>2, <2>1, <2>3 DEF SoundInv
  <2> QED BY <2>1, <2>2, <2>3
<1>9. CASE Stop \/ ActivateAnswered
  <2>1. UNCHANGED <<clipboard, saveReq>> /\ (graph' = graph \/ graph' = Interrupted(graph))
    BY <1>9 DEF Stop, ActivateAnswered, ShowStopped
  <2>2. IsSound(graph')
    BY <1>1, <2>1, ShownForms
  <2> QED BY <1>2, <1>3, <2>1, <2>2
<1>10. CASE SaveAnswered
  <2>1. clipboard' = clipboard /\ saveReq' = None /\ saveReq # None
        /\ (graph' = graph \/ graph' = saveReq.flow)
    BY <1>10 DEF SaveAnswered, MarkSaved
  <2>2. IsSound(graph')
    BY <1>1, <2>1 DEF SoundInv
  <2> QED BY <1>2, <2>1, <2>2 DEF SoundInv
<1>11. CASE StartAnswered \/ LatestAnswered
  <2>1. UNCHANGED <<clipboard, saveReq>> /\ (graph' = graph \/ graph' = PendingRun(graph))
    BY <1>11 DEF StartAnswered, LatestAnswered, BeginRun
  <2>2. IsSound(graph')
    BY <1>1, <2>1, ShownForms
  <2> QED BY <1>2, <1>3, <2>1, <2>2
<1>12. ASSUME NEW s \in Streams, Consume(s)
       PROVE  SoundInv'
  <2>1. /\ UNCHANGED <<clipboard, saveReq>> /\ stream[s].inner \in Phases
        /\ \/ graph' = graph
           \/ graph' = BoundaryStops(WithStatus(graph, Snapshot(stream[s].run, stream[s].inner)))
    BY <1>12 DEF Consume
  <2>2. IsSound(graph')
    <3>1. CASE graph' = graph
      BY <1>1, <3>1
    <3>2. CASE graph' # graph
      BY <1>1, <2>1, <3>2, ShownForms
    <3> QED BY <3>1, <3>2
  <2> QED BY <1>2, <1>3, <2>1, <2>2
<1>13. CASE AnswerSave
  <2>1. UNCHANGED <<graph, clipboard>> /\ saveReq # None
        /\ \/ saveReq' = [saveReq EXCEPT !.answer = "failed"]
           \/ saveReq' = [saveReq EXCEPT !.answer = "done", !.result = server'.revision]
    BY <1>13 DEF AnswerSave
  <2>2. saveReq \in SaveRequests
    BY <2>1 DEF Typed, SaveTyped
  <2>3. saveReq'.flow = saveReq.flow
    BY <2>1, <2>2 DEF SaveRequests
  <2>4. IsSound(saveReq.flow)
    BY <2>1 DEF SoundInv
  <2> QED BY <1>1, <1>2, <2>1, <2>3, <2>4 DEF SoundInv
<1>14. CASE UNCHANGED vars
  BY <1>4, <1>14 DEF vars
<1>15. CASE ToggleActivated \/ ToggleLive \/ StopAnswered
  BY <1>4, <1>15 DEF ToggleActivated, ToggleLive, StopAnswered
<1>16. CASE Server /\ ~ AnswerSave
  BY <1>4, <1>16 DEF Server, AnswerBusy, AnswerLatest, SavedElsewhere, RunProceeds, Tick,
       AnswerSnapshot, FailSnapshot
<1> QED BY <1>5, <1>6, <1>7, <1>8, <1>9, <1>10, <1>11, <1>12, <1>13, <1>14, <1>15, <1>16
        DEF Next, User, Handlers

LEMMA Soundness == SoundSources /\ Spec => []SoundInv
<1> SUFFICES ASSUME SoundSources  PROVE Spec => []SoundInv
  OBVIOUS
<1>1. Init => SoundInv
  <2> SUFFICES ASSUME Init  PROVE SoundInv
    OBVIOUS
  <2>1. IsSound(graph) /\ saveReq = None /\ clipboard = NoClip
    BY DEF Init, SoundSources
  <2>2. ClipSound(NoClip)
    BY DEF NoClip, ClipSound, Acyclic
  <2> QED BY <2>1, <2>2 DEF SoundInv, CanvasSound
<1>2. Typed /\ SoundInv /\ [Next]_vars => SoundInv'
  BY SoundStep
<1> QED BY <1>1, <1>2, TypedInductive, PTL DEF Spec

(* As long as what is loaded and imported is sound, the graph that is shown *)
(* is: no connection dragged while a node goes, no clone, split or save     *)
(* that puts an older graph back makes a cycle, a loose edge or a node in   *)
(* two groups (connect, insertClones, splitTaskNode, removeSelectedNodes,   *)
(* markSaved).                                                              *)
THEOREM ShownGraphIsSound == SoundSources /\ Spec => []GraphIsSound
<1>1. SoundInv => GraphIsSound
  BY DEF SoundInv, CanvasSound, GraphIsSound
<1> QED BY <1>1, Soundness, PTL

(* And then every node that a run leaves out is put down to a boundary:     *)
(* what nothing reaches lies below a cut (flowBoundaryExecutionPlan).       *)
THEOREM ExcludedAreStopped == SoundSources /\ Spec => []ExcludedNodesAreExplained
<1>1. Typed /\ SoundInv => ExcludedNodesAreExplained
  <2> SUFFICES ASSUME Typed, SoundInv PROVE ExcludedNodesAreExplained
    OBVIOUS
  <2>1. graph \in Graph /\ IsSound(graph)
    BY DEF Typed, CanvasFormed, Formed, SoundInv, CanvasSound
  <2> QED BY <2>1, SoundIsExplained DEF ExcludedNodesAreExplained
<1> QED BY <1>1, Soundness, TypedInductive, PTL DEF Spec

(* Every change of what is shown of a run ends by stopping what the         *)
(* boundaries leave out.                                                    *)
ShownInv == running /\ untouched => InProgressAreActive(graph)

LEMMA ShownStep == Typed /\ SoundInv /\ ShownInv /\ [Next]_vars => ShownInv'
<1> SUFFICES ASSUME Typed, SoundInv, ShownInv, [Next]_vars, running', untouched'
             PROVE  InProgressAreActive(graph')
  BY DEF ShownInv, InProgressAreActive, Nodes, Active, CutEdges, Roots
<1> USE DEF ui, run, requests, history, canvas
<1>1. Formed(graph) /\ IsSound(graph)
  BY DEF SoundInv, CanvasSound, Typed, CanvasFormed
<1>2. CASE graph' = graph /\ running /\ untouched
  BY <1>2 DEF ShownInv
<1>3. CASE Edit \/ Save \/ Run \/ ToggleActivated \/ ToggleLive
  BY <1>2, <1>3 DEF Edit, Save, Run, ToggleActivated, ToggleLive
<1>4. CASE New \/ Import \/ Stop
  BY <1>4 DEF New, Import, Load, Stop, ShowStopped
<1>5. CASE SaveAnswered
  BY <1>2, <1>5 DEF SaveAnswered
<1>6. ASSUME NEW r, BeginRun(r) PROVE InProgressAreActive(graph')
  <2> DEFINE st == [n \in Nodes(graph) |-> "pending"]
  <2>1. \A n \in DOMAIN st : st[n] \in NodeStatus
    BY DEF NodeStatus
  <2>2. graph' = BoundaryStops(WithStatus(graph, st))
    BY <1>6 DEF BeginRun, PendingRun
  <2> HIDE DEF st
  <2> QED BY <1>1, <2>1, <2>2, RestatusForms, StopsForm
<1>7. CASE StartAnswered \/ LatestAnswered
  BY <1>2, <1>6, <1>7 DEF StartAnswered, LatestAnswered
<1>8. CASE ActivateAnswered
  BY <1>2, <1>8 DEF ActivateAnswered, ShowStopped
<1>9. ASSUME NEW s \in Streams, Consume(s)
      PROVE  InProgressAreActive(graph')
  <2> DEFINE st == Snapshot(stream[s].run, stream[s].inner)
  <2>1. /\ stream[s].inner \in Phases /\ untouched' = untouched
        /\ \/ graph' = graph /\ running' = running
           \/ graph' = BoundaryStops(WithStatus(graph, st))
    BY <1>9 DEF Consume
  <2>2. \A n \in DOMAIN st : st[n] \in NodeStatus
    BY <2>1 DEF NodeStatus, Snapshot, Phases
  <2> HIDE DEF st
  <2>3. CASE graph' = BoundaryStops(WithStatus(graph, st))
    BY <1>1, <2>2, <2>3, RestatusForms, StopsForm
  <2> QED BY <1>2, <2>1, <2>3
<1>10. CASE StopAnswered \/ Server \/ UNCHANGED vars
  BY <1>2, <1>10 DEF StopAnswered, Server, AnswerSave, AnswerBusy, AnswerLatest, SavedElsewhere,
       RunProceeds, Tick, AnswerSnapshot, FailSnapshot, vars
<1> QED BY <1>3, <1>4, <1>5, <1>7, <1>8, <1>9, <1>10 DEF Next, User, Handlers

(* While the graph shown is the one that runs, a node that is shown as      *)
(* pending or running is one that the run executes (beginRun,               *)
(* applyBoundaryStops, consumeSnapshot).                                    *)
THEOREM InProgressIsExecuted == SoundSources /\ Spec => []ShownInProgressIsExecuted
<1>1. Init => ShownInv
  BY DEF Init, ShownInv
<1>2. Typed /\ ShownInv => ShownInProgressIsExecuted
  <2> SUFFICES ASSUME Typed, ShownInv, running, untouched,
                      Content(graph) = server.contents[server.runs[runTaskId].rev]
               PROVE  \A n \in Nodes(graph) :
                        graph.status[n] \in {"pending", "running"} => n \in NodesOf(runTaskId)
    BY DEF ShownInProgressIsExecuted
  <2>1. graph \in Graph
    BY DEF Typed, CanvasFormed, Formed
  <2>2. NodesOf(runTaskId) = Active(graph)
    BY <2>1, ContentIsThePlan DEF NodesOf
  <2> QED BY <2>2 DEF ShownInv, InProgressAreActive
<1> QED BY <1>1, <1>2, ShownStep, Soundness, TypedInductive, PTL DEF Spec
=============================================================================
