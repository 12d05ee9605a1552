------------------------------ MODULE FlowStore ------------------------------
(***************************************************************************)
(* The graph that the ClearPipe flow editor shows and the commands that    *)
(* change it: ClearpipeFlowStoreService and the gestures of the canvas     *)
(* (features/clearpipe/editor/flow).                                       *)
(*                                                                         *)
(* The commands that work on the multi-selection take it as a parameter:   *)
(* the user may select any of the nodes that are shown.  A position is the *)
(* set of the boundaries around it.  Names, configurations and edge rules  *)
(* are one value, detail.                                                  *)
(***************************************************************************)
EXTENDS Naturals, FiniteSets

CONSTANTS
  MaxNodes,    \* how many node ids crypto.randomUUID draws in a session
  Boundaries,  \* the ids of boundaries
  Details,     \* the values of everything else that is saved
  None

ASSUME StoreAssumption == MaxNodes \in Nat

VARIABLES
  graph,       \* the signal graph
  clipboard,   \* what was copied: its nodes, the edges and groups among them
  connecting,  \* connectingFrom: the output port a connection is dragged from
  dirty,
  minted       \* how many node ids have been drawn

canvas == <<graph, clipboard, connecting, dirty, minted>>

Ids == 1..MaxNodes
NodeStatus == {"idle", "pending", "running", "done", "stopped"}
Pairs == Ids \X Ids

(* A graph: the run status of each node, the ordering edges, the groups,    *)
(* the nodes inside each boundary, the boundaries that stop a run, and the  *)
(* task nodes that still hold several base tasks.                           *)
Graph ==
  [status : UNION { [N -> NodeStatus] : N \in SUBSET Ids },
   edges : SUBSET Pairs, groups : SUBSET SUBSET Ids,
   holds : UNION { [B -> SUBSET Ids] : B \in SUBSET Boundaries },
   stops : SUBSET Boundaries, multi : SUBSET Ids, detail : Details]

Nodes(g) == DOMAIN g.status

(* A graph of the store: stopping boundaries are boundaries, and tasks with *)
(* several base tasks are nodes.                                            *)
Formed(g) == g \in Graph /\ g.stops \subseteq DOMAIN g.holds /\ g.multi \subseteq Nodes(g)

(* What a save stores: statuses are never persisted. *)
Content(g) == [g EXCEPT !.status = [n \in Nodes(g) |-> "idle"]]

EmptyGraph(d) ==
  [status |-> [n \in {} |-> "idle"], edges |-> {}, groups |-> {},
   holds |-> [b \in {} |-> {}], stops |-> {}, multi |-> {}, detail |-> d]

(* The nodes of S and all that is reached from them. *)
Below(edges, S) ==
  LET reach[k \in 0..MaxNodes] ==
        IF k = 0 THEN S
        ELSE LET R == reach[k - 1] IN R \union { e[2] : e \in { x \in edges : x[1] \in R } }
  IN  reach[MaxNodes]

(* hasPath *)
HasPath(edges, source, target) == target \in Below(edges, {source})

-----------------------------------------------------------------------------
(* What of the graph a run executes: flowBoundaryExecutionPlan. *)
CutEdges(g) ==
  { e \in g.edges : \E b \in g.stops : e[1] \in g.holds[b] /\ e[2] \notin g.holds[b] }

Roots(g) == { n \in Nodes(g) : \A e \in g.edges : e[2] # n }

Active(g) == Below(g.edges \ CutEdges(g), Roots(g))

Excluded(g) == Nodes(g) \ Active(g)

ExcludedByBoundary_Direct(g) == Excluded(g) \intersect { e[2] : e \in CutEdges(g) }

ExcludedByBoundary(g) ==
  Excluded(g) \intersect Below(g.edges, { e[2] : e \in CutEdges(g) })

(* applyRunStatuses: statuses for some of the nodes. *)
WithStatus(g, statuses) ==
  [g EXCEPT !.status = [n \in Nodes(g) |-> IF n \in DOMAIN statuses THEN statuses[n] ELSE @[n]]]

(* applyBoundaryStops *)
BoundaryStops(g) == WithStatus(g, [n \in ExcludedByBoundary(g) |-> "stopped"])

(* The statuses of beginRun. *)
PendingRun_All(g) == WithStatus(g, [n \in Nodes(g) |-> "pending"])

PendingRun(g) == BoundaryStops(WithStatus(g, [n \in Nodes(g) |-> "pending"]))

(* markRunStopped *)
Interrupted(g) ==
  WithStatus(g, [n \in { m \in Nodes(g) : g.status[m] \in {"pending", "running"} } |-> "stopped"])

-----------------------------------------------------------------------------
(* Parts of the commands. *)
Without_Split(g, gone) ==
  [g EXCEPT !.status = [n \in Nodes(g) \ gone |-> @[n]],
            !.edges  = { e \in @ : e[1] \notin gone /\ e[2] \notin gone },
            !.groups = { G \ gone : G \in @ } \ {{}},
            !.holds  = [b \in DOMAIN @ |-> @[b] \ gone]]

Without(g, gone) ==
  [g EXCEPT !.status = [n \in Nodes(g) \ gone |-> @[n]],
            !.edges  = { e \in @ : e[1] \notin gone /\ e[2] \notin gone },
            !.groups = { G \ gone : G \in @ } \ {{}},
            !.holds  = [b \in DOMAIN @ |-> @[b] \ gone],
            !.multi  = @ \ gone]

(* New nodes, with inside[b] of them in the boundary b. *)
WithNodes(g, statuses, inside) ==
  [g EXCEPT !.status = [n \in Nodes(g) \union DOMAIN statuses |->
                          IF n \in DOMAIN statuses THEN statuses[n] ELSE @[n]],
            !.holds = [b \in DOMAIN @ |-> (@[b] \ DOMAIN statuses) \union inside[b]]]

Placements(g, S) == [DOMAIN g.holds -> SUBSET S]

Fresh(k) == minted + 1 .. minted + k

(* mutate *)
Mutate(g) == graph' = g /\ dirty' = TRUE

Mint(k) == minted + k <= MaxNodes /\ minted' = minted + k

Selections == SUBSET Nodes(graph) \ {{}}

NoClip == [nodes |-> {}, edges |-> {}, groups |-> {}, multi |-> {}]

(* What copySelectedNodes puts on the clipboard. *)
Selected(S) ==
  [nodes |-> S, edges |-> { e \in graph.edges : e[1] \in S /\ e[2] \in S },
   groups |-> { G \intersect S : G \in graph.groups } \ {{}},
   multi |-> graph.multi \intersect S]

(* insertClones: fresh ids, idle, with the edges and groups among them. *)
InsertClones(clip) ==
  LET k == Cardinality(clip.nodes)
      clone(n) == minted + Cardinality({ m \in clip.nodes : m <= n })
  IN  \E inside \in Placements(graph, Fresh(k)) :
        LET g == WithNodes(graph, [n \in Fresh(k) |-> "idle"], inside)
        IN  /\ Mint(k)
            /\ Mutate([g EXCEPT
                 !.edges  = @ \union { <<clone(e[1]), clone(e[2])>> : e \in clip.edges },
                 !.groups = @ \union { { clone(n) : n \in G } : G \in clip.groups },
                 !.multi  = @ \union { clone(n) : n \in clip.multi }])

-----------------------------------------------------------------------------
(* The commands. *)
AddNode ==
  \E inside \in Placements(graph, Fresh(1)) :
    /\ Mint(1)
    /\ Mutate(WithNodes(graph, [n \in Fresh(1) |-> "idle"], inside))
    /\ UNCHANGED <<clipboard, connecting>>

(* A drag of the selection: moveNodes and then commitMove. *)
MoveNodes(S) ==
  /\ \E inside \in Placements(graph, S) :
       Mutate(WithNodes(graph, [n \in S |-> graph.status[n]], inside))
  /\ UNCHANGED <<clipboard, connecting, minted>>

(* updateMetadata, updateNode, updateBoundary and the edge rules. *)
EditDetail ==
  /\ \E d \in Details \ {graph.detail} : Mutate([graph EXCEPT !.detail = d])
  /\ UNCHANGED <<clipboard, connecting, minted>>

(* removeNode, removeSelectedNodes *)
RemoveNodes(S) ==
  /\ Mutate(Without(graph, S))
  /\ UNCHANGED <<clipboard, connecting, minted>>

(* duplicateNode copies the node with its status and its group. *)
DuplicateNode(n) ==
  /\ Mint(1)
  /\ \E inside \in Placements(graph, Fresh(1)) :
       LET g == WithNodes(graph, [m \in Fresh(1) |-> graph.status[n]], inside)
       IN  Mutate([g EXCEPT
             !.groups = { IF n \in G THEN G \union Fresh(1) ELSE G : G \in @ },
             !.multi  = IF n \in @ THEN @ \union Fresh(1) ELSE @])
  /\ UNCHANGED <<clipboard, connecting>>

(* splitTaskNode: a node for each of the two base tasks, in the place and   *)
(* with the edges of the original.  No report maps the tasks themselves.    *)
EdgesOf(n, S) ==
  { <<m, e[2]>> : m \in S, e \in { x \in graph.edges : x[1] = n } }
    \union { <<e[1], m>> : m \in S, e \in { x \in graph.edges : x[2] = n } }

SplitTaskNode(n) ==
  /\ n \in graph.multi
  /\ Mint(2)
  /\ \E inside \in Placements(graph, Fresh(2)) :
       LET g == WithNodes(Without(graph, {n}), [m \in Fresh(2) |-> "idle"], inside)
       IN  Mutate([g EXCEPT !.edges = @ \union EdgesOf(n, Fresh(2))])
  /\ UNCHANGED <<clipboard, connecting>>

GroupSelectedNodes(S) ==
  /\ Cardinality(S) >= 2
  /\ Mutate([graph EXCEPT !.groups = ({ G \ S : G \in @ } \ {{}}) \union {S}])
  /\ UNCHANGED <<clipboard, connecting, minted>>

UngroupSelectedNodes(S) ==
  /\ \E G \in graph.groups : G \intersect S # {}
  /\ Mutate([graph EXCEPT !.groups = { G \in @ : G \intersect S = {} }])
  /\ UNCHANGED <<clipboard, connecting, minted>>

CopySelectedNodes(S) ==
  /\ clipboard' = Selected(S)
  /\ UNCHANGED <<graph, connecting, dirty, minted>>

CutSelectedNodes(S) ==
  /\ clipboard' = Selected(S)
  /\ Mutate(Without(graph, S))
  /\ UNCHANGED <<connecting, minted>>

PasteClipboard ==
  /\ clipboard.nodes # {}
  /\ InsertClones(clipboard)
  /\ UNCHANGED <<clipboard, connecting>>

DuplicateSelectedNodes(S) ==
  /\ InsertClones(Selected(S))
  /\ UNCHANGED <<clipboard, connecting>>

(* addBoundary, or a drag or resize of a boundary and its commitBoundary. *)
PlaceBoundary(b) ==
  /\ \E S \in SUBSET Nodes(graph) :
       Mutate([graph EXCEPT
         !.holds = [c \in DOMAIN @ \union {b} |-> IF c = b THEN S ELSE @[c]],
         !.stops = IF b \in DOMAIN graph.holds THEN @ ELSE @ \union {b}])
  /\ UNCHANGED <<clipboard, connecting, minted>>

(* updateBoundary with onReach. *)
SetBoundaryOnReach(b) ==
  /\ b \in DOMAIN graph.holds
  /\ Mutate([graph EXCEPT !.stops = IF b \in @ THEN @ \ {b} ELSE @ \union {b}])
  /\ UNCHANGED <<clipboard, connecting, minted>>

RemoveBoundary(b) ==
  /\ b \in DOMAIN graph.holds
  /\ Mutate([graph EXCEPT !.holds = [c \in DOMAIN @ \ {b} |-> @[c]], !.stops = @ \ {b}])
  /\ UNCHANGED <<clipboard, connecting, minted>>

RemoveEdge(e) ==
  /\ Mutate([graph EXCEPT !.edges = @ \ {e}])
  /\ UNCHANGED <<clipboard, connecting, minted>>

BeginConnection(n) ==
  /\ connecting' = n
  /\ UNCHANGED <<graph, clipboard, dirty, minted>>

(* connect: no loop, no node that is gone, no second edge, no cycle. *)
MayConnect_Gone(source, target) ==
  /\ source # target
  /\ <<source, target>> \notin graph.edges
  /\ ~HasPath(graph.edges, target, source)

MayConnect(source, target) ==
  /\ source # target
  /\ {source, target} \subseteq Nodes(graph)
  /\ <<source, target>> \notin graph.edges
  /\ ~HasPath(graph.edges, target, source)

(* completeConnection on the node under the pointer, or cancelConnection. *)
CompleteConnection(target) ==
  /\ connecting # None
  /\ IF target # None /\ MayConnect(connecting, target)
       THEN Mutate([graph EXCEPT !.edges = @ \union {<<connecting, target>>}])
       ELSE UNCHANGED <<graph, dirty>>
  /\ connecting' = None
  /\ UNCHANGED <<clipboard, minted>>

(* One command on the graph, from the canvas, the inspector or the keyboard. *)
Command ==
  \/ AddNode \/ PasteClipboard
  \/ \E S \in Selections :
       \/ MoveNodes(S) \/ RemoveNodes(S) \/ GroupSelectedNodes(S)
       \/ UngroupSelectedNodes(S) \/ CopySelectedNodes(S) \/ CutSelectedNodes(S)
       \/ DuplicateSelectedNodes(S)
  \/ \E n \in Nodes(graph) : DuplicateNode(n) \/ SplitTaskNode(n) \/ BeginConnection(n)
  \/ \E n \in Nodes(graph) \union {None} : CompleteConnection(n)
  \/ \E b \in Boundaries : PlaceBoundary(b) \/ SetBoundaryOnReach(b) \/ RemoveBoundary(b)
  \/ \E e \in graph.edges : RemoveEdge(e)

-----------------------------------------------------------------------------
(* A sound graph: every edge joins two of its nodes, the edges have no      *)
(* cycle, and groups and boundaries hold only its nodes, each node in one   *)
(* group at most.                                                           *)
Acyclic(edges) == \A e \in edges : ~HasPath(edges, e[2], e[1])

IsSound(g) ==
  /\ \A e \in g.edges : {e[1], e[2]} \subseteq Nodes(g)
  /\ Acyclic(g.edges)
  /\ UNION g.groups \subseteq Nodes(g)
  /\ \A G, H \in g.groups : G # H => G \intersect H = {}
  /\ \A b \in DOMAIN g.holds : g.holds[b] \subseteq Nodes(g)

(* The graph that is shown stays sound through connections dragged while    *)
(* nodes are deleted under them, clones, splits, and saves that put an      *)
(* older graph back (connect, insertClones, splitTaskNode,                  *)
(* removeSelectedNodes, markSaved).                                         *)
GraphIsSound == IsSound(graph)

(* A node that the run leaves out is always put down to a boundary: none is *)
(* shown as pending for ever because nothing reaches it                     *)
(* (flowBoundaryExecutionPlan, and beginRun on its result).                 *)
ExcludedNodesAreExplained == Excluded(graph) \subseteq ExcludedByBoundary(graph)
=============================================================================
