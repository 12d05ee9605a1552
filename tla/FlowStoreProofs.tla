--------------------------- MODULE FlowStoreProofs ---------------------------
(***************************************************************************)
(* What the commands of the store make of a graph: lemmas for the proofs   *)
(* about the editor.  Below is the least set that holds where it starts    *)
(* and is closed under the edges; edges have no cycle when each of them    *)
(* has a set of nodes, left by no edge, that holds its target and not its  *)
(* source; clones, splits and removals keep a graph formed and sound.      *)
(***************************************************************************)
EXTENDS FlowStore, Induction, FiniteSetTheorems

(* What is in R or one edge below it. *)
OneBelow(edges, R) == R \union { e[2] : e \in { x \in edges : x[1] \in R } }

Reaches(edges, S, f, n) ==
  f = [k \in 0..n |-> IF k = 0 THEN S ELSE OneBelow(edges, f[k - 1])]

(* The recursive function of Below exists. *)
LEMMA ReachExists ==
  ASSUME NEW edges, NEW S
  PROVE  \A n \in Nat : \E f : Reaches(edges, S, f, n)
<1> DEFINE T == { n \in Nat : \E f : Reaches(edges, S, f, n) }
<1>1. 0 \in T
  <2>1. Reaches(edges, S, [k \in 0..0 |-> S], 0)
    BY DEF Reaches
  <2> QED BY <2>1
<1>2. ASSUME NEW n \in Nat, n \in T PROVE n + 1 \in T
  <2>1. PICK f : Reaches(edges, S, f, n)
    BY <1>2
  <2> DEFINE g == [k \in 0..n + 1 |-> IF k = 0 THEN S ELSE OneBelow(edges, f[k - 1])]
  <2>2. \A k \in 0..n : g[k] = f[k]
    BY <2>1 DEF Reaches
  <2>3. \A k \in 0..n + 1 : k # 0 => k - 1 \in 0..n
    OBVIOUS
  <2>4. g = [k \in 0..n + 1 |-> IF k = 0 THEN S ELSE OneBelow(edges, g[k - 1])]
    BY <2>2, <2>3
  <2> HIDE DEF g
  <2>5. Reaches(edges, S, g, n + 1)
    BY <2>4 DEF Reaches
  <2> QED BY <2>5
<1> HIDE DEF T
<1>3. Nat \subseteq T
  BY <1>1, <1>2, NatSetInduction
<1> QED BY <1>3 DEF T

LEMMA ReachOf ==
  ASSUME NEW edges, NEW S, MaxNodes \in Nat
  PROVE  \E f : Reaches(edges, S, f, MaxNodes) /\ Below(edges, S) = f[MaxNodes]
<1> DEFINE Is(f) == f = [k \in 0..MaxNodes |->
                           IF k = 0 THEN S
                           ELSE LET R == f[k - 1]
                                IN  R \union { e[2] : e \in { x \in edges : x[1] \in R } }]
<1>1. \A f : Is(f) <=> Reaches(edges, S, f, MaxNodes)
  BY DEF Reaches, OneBelow
<1>2. \E f : Is(f)
  BY <1>1, ReachExists
<1>3. Is(CHOOSE f : Is(f))
  <2> HIDE DEF Is
  <2> QED BY <1>2
<1>4. Below(edges, S) = (CHOOSE f : Is(f))[MaxNodes]
  BY DEF Below
<1> QED BY <1>1, <1>3, <1>4

Closed(edges, C) == \A e \in edges : e[1] \in C => e[2] \in C

LEMMA ReachSteps ==
  ASSUME NEW edges, NEW S, NEW f, NEW m \in Nat, Reaches(edges, S, f, m)
  PROVE  /\ f[0] = S
         /\ \A k \in Nat : k < m => f[k + 1] = OneBelow(edges, f[k])
<1>1. 0 \in 0..m
  OBVIOUS
<1>2. \A k \in Nat : k < m => k + 1 \in 0..m /\ k + 1 # 0 /\ (k + 1) - 1 = k
  OBVIOUS
<1> QED BY <1>1, <1>2 DEF Reaches

(* Below is contained in every set that contains S and loses no edge. *)
LEMMA BelowIsLeast ==
  ASSUME NEW edges, NEW S, NEW C, S \subseteq C, Closed(edges, C), MaxNodes \in Nat
  PROVE  Below(edges, S) \subseteq C
<1>1. PICK f : Reaches(edges, S, f, MaxNodes) /\ Below(edges, S) = f[MaxNodes]
  BY ReachOf
<1> DEFINE T == { n \in Nat : n <= MaxNodes => f[n] \subseteq C }
<1>2. 0 \in T
  BY <1>1, ReachSteps
<1>3. ASSUME NEW n \in Nat, n \in T PROVE n + 1 \in T
  <2>1. SUFFICES ASSUME n + 1 <= MaxNodes PROVE f[n + 1] \subseteq C
    OBVIOUS
  <2>2. f[n] \subseteq C /\ f[n + 1] = OneBelow(edges, f[n])
    BY <1>1, <1>3, <2>1, ReachSteps
  <2> QED BY <2>2 DEF OneBelow, Closed
<1> HIDE DEF T
<1>4. Nat \subseteq T
  BY <1>2, <1>3, NatSetInduction
<1> QED BY <1>1, <1>4 DEF T

(* It contains S, holds no other ids, and loses no edge: the sets that are  *)
(* reached grow with each step until nothing is new, and there are MaxNodes *)
(* ids to reach.                                                            *)
LEMMA BelowIsClosed ==
  ASSUME NEW edges \in SUBSET Pairs, NEW S \in SUBSET Ids, MaxNodes \in Nat
  PROVE  /\ S \subseteq Below(edges, S)
         /\ Below(edges, S) \subseteq Ids
         /\ Closed(edges, Below(edges, S))
<1>1. PICK f : Reaches(edges, S, f, MaxNodes) /\ Below(edges, S) = f[MaxNodes]
  BY ReachOf
<1>2. f[0] = S /\ \A k \in Nat : k < MaxNodes => f[k + 1] = OneBelow(edges, f[k])
  BY <1>1, ReachSteps
<1>3. Closed(edges, Ids)
  BY DEF Closed, Pairs
<1>4. Below(edges, S) \subseteq Ids
  BY <1>3, BelowIsLeast
<1> DEFINE T == { n \in Nat : n <= MaxNodes => S \subseteq f[n] /\ f[n] \subseteq Ids }
<1>5. Nat \subseteq T
  <2>1. 0 \in T
    BY <1>2
  <2>2. ASSUME NEW n \in Nat, n \in T PROVE n + 1 \in T
    <3>1. SUFFICES ASSUME n + 1 <= MaxNodes PROVE S \subseteq f[n + 1] /\ f[n + 1] \subseteq Ids
      OBVIOUS
    <3>2. S \subseteq f[n] /\ f[n] \subseteq Ids /\ f[n + 1] = OneBelow(edges, f[n])
      BY <1>2, <2>2, <3>1
    <3> QED BY <3>2 DEF OneBelow, Pairs
  <2> HIDE DEF T
  <2> QED BY <2>1, <2>2, NatSetInduction
<1>6. ASSUME ~ Closed(edges, f[MaxNodes]) PROVE FALSE
  <2> DEFINE Open == { n \in Nat : n <= MaxNodes => ~ Closed(edges, f[MaxNodes - n]) }
  <2>1. Nat \subseteq Open
    <3>1. 0 \in Open
      BY <1>6
    <3>2. ASSUME NEW n \in Nat, n \in Open PROVE n + 1 \in Open
      <4>1. SUFFICES ASSUME n + 1 <= MaxNodes, Closed(edges, f[MaxNodes - (n + 1)]) PROVE FALSE
        OBVIOUS
      <4> DEFINE k == MaxNodes - (n + 1)
      <4>2. k \in Nat /\ k < MaxNodes /\ k + 1 = MaxNodes - n
        BY <4>1
      <4>3. f[k + 1] = OneBelow(edges, f[k])
        BY <1>2, <4>2
      <4>4. f[k + 1] = f[k]
        BY <4>1, <4>3 DEF OneBelow, Closed
      <4> QED BY <3>2, <4>1, <4>2, <4>4
    <3> HIDE DEF Open
    <3> QED BY <3>1, <3>2, NatSetInduction
  <2>2. \A k \in Nat : k <= MaxNodes => ~ Closed(edges, f[k])
    <3> TAKE k \in Nat
    <3> HAVE k <= MaxNodes
    <3>1. MaxNodes - k \in Open /\ MaxNodes - k \in Nat /\ MaxNodes - k <= MaxNodes
      BY <2>1
    <3>2. MaxNodes - (MaxNodes - k) = k
      OBVIOUS
    <3> QED BY <3>1, <3>2
  <2>3. IsFiniteSet(Ids) /\ Cardinality(Ids) = MaxNodes
    BY FS_Interval DEF Ids
  <2>4. \A k \in Nat : k <= MaxNodes => IsFiniteSet(f[k])
    BY <1>5, <2>3, FS_Subset
  <2> DEFINE Big == { n \in Nat : n <= MaxNodes => Cardinality(f[n]) >= n }
  <2>5. Nat \subseteq Big
    <3>1. 0 \in Big
      BY <2>4, FS_CardinalityType
    <3>2. ASSUME NEW n \in Nat, n \in Big PROVE n + 1 \in Big
      <4>1. SUFFICES ASSUME n + 1 <= MaxNodes PROVE Cardinality(f[n + 1]) >= n + 1
        OBVIOUS
      <4>2. Cardinality(f[n]) >= n /\ f[n + 1] = OneBelow(edges, f[n]) /\ ~ Closed(edges, f[n])
        BY <1>2, <2>2, <3>2, <4>1
      <4>3. f[n] \subseteq f[n + 1] /\ f[n] # f[n + 1]
        BY <4>2 DEF OneBelow, Closed
      <4>4. IsFiniteSet(f[n + 1]) /\ Cardinality(f[n]) \in Nat /\ Cardinality(f[n + 1]) \in Nat
        BY <2>4, <4>1, FS_CardinalityType
      <4>5. Cardinality(f[n]) < Cardinality(f[n + 1])
        BY <4>3, <4>4, FS_Subset
      <4> QED BY <4>2, <4>4, <4>5
    <3> HIDE DEF Big
    <3> QED BY <3>1, <3>2, NatSetInduction
  <2>6. Cardinality(f[MaxNodes]) >= MaxNodes /\ f[MaxNodes] \subseteq Ids
    BY <1>5, <2>5
  <2>7. f[MaxNodes] = Ids
    <3>1. IsFiniteSet(f[MaxNodes]) /\ Cardinality(f[MaxNodes]) <= Cardinality(Ids)
      BY <2>3, <2>6, FS_Subset
    <3>2. Cardinality(f[MaxNodes]) \in Nat
      BY <3>1, FS_CardinalityType
    <3>3. Cardinality(f[MaxNodes]) = Cardinality(Ids)
      BY <2>3, <2>6, <3>1, <3>2
    <3> QED BY <2>3, <2>6, <3>3, FS_Subset
  <2> QED BY <1>3, <1>6, <2>7
<1> QED BY <1>1, <1>4, <1>5, <1>6

-----------------------------------------------------------------------------
(* Edges without cycles. *)
LEMMA NoWayBack ==
  ASSUME NEW edges \in SUBSET Pairs, NEW e \in edges
  PROVE  /\ e[1] \in Ids /\ e[2] \in Ids
         /\ e[2] \in Below(edges, {e[2]}) /\ Below(edges, {e[2]}) \subseteq Ids
         /\ Closed(edges, Below(edges, {e[2]}))
         /\ Acyclic(edges) => e[1] \notin Below(edges, {e[2]})
<1>1. e[1] \in Ids /\ e[2] \in Ids
  BY DEF Pairs
<1>2. Acyclic(edges) => e[1] \notin Below(edges, {e[2]})
  BY DEF Acyclic, HasPath
<1> QED BY <1>1, <1>2, BelowIsClosed, StoreAssumption

(* It is enough to know, for each edge, a set of nodes that no edge leaves  *)
(* and that holds its target and not its source.                            *)
LEMMA AcyclicBy ==
  ASSUME NEW edges, \A e \in edges : \E C : e[2] \in C /\ e[1] \notin C /\ Closed(edges, C)
  PROVE  Acyclic(edges)
<1> SUFFICES ASSUME NEW e \in edges, e[1] \in Below(edges, {e[2]}) PROVE FALSE
  BY DEF Acyclic, HasPath
<1>1. PICK C : e[2] \in C /\ e[1] \notin C /\ Closed(edges, C)
  OBVIOUS
<1>2. Below(edges, {e[2]}) \subseteq C
  BY <1>1, BelowIsLeast, StoreAssumption
<1> QED BY <1>1, <1>2

(* Edges that map to edges without a cycle have none: some of the edges, or *)
(* those of copies of a node.                                               *)
LEMMA AcyclicImage ==
  ASSUME NEW edges \in SUBSET Pairs, Acyclic(edges), NEW more \in SUBSET Pairs,
         NEW h, \A e \in more : <<h[e[1]], h[e[2]]>> \in edges
  PROVE  Acyclic(more)
<1> SUFFICES ASSUME NEW e \in more
             PROVE  \E C : e[2] \in C /\ e[1] \notin C /\ Closed(more, C)
  BY AcyclicBy
<1> DEFINE d == <<h[e[1]], h[e[2]]>>
           D == Below(edges, {d[2]})
           C == { n \in Ids : h[n] \in D }
<1>1. d \in edges /\ d[1] = h[e[1]] /\ d[2] = h[e[2]]
  OBVIOUS
<1>2. d[2] \in D /\ d[1] \notin D /\ Closed(edges, D)
  BY <1>1, NoWayBack
<1> HIDE DEF D
<1>3. e[1] \in Ids /\ e[2] \in Ids
  BY DEF Pairs
<1>4. Closed(more, C)
  <2> SUFFICES ASSUME NEW x \in more, x[1] \in C PROVE x[2] \in C
    BY DEF Closed
  <2>1. x[2] \in Ids /\ <<h[x[1]], h[x[2]]>> \in edges
    BY DEF Pairs
  <2>2. h[x[2]] \in D
    BY <1>2, <2>1 DEF Closed
  <2> QED BY <2>1, <2>2
<1> QED BY <1>1, <1>2, <1>3, <1>4

(* An edge whose target does not lead to its source closes no cycle.        *)
LEMMA AcyclicConnect ==
  ASSUME NEW edges \in SUBSET Pairs, Acyclic(edges), NEW s \in Ids, NEW t \in Ids,
         s # t, ~ HasPath(edges, t, s)
  PROVE  Acyclic(edges \union {<<s, t>>})
<1> DEFINE more == edges \union {<<s, t>>}
           B == Below(edges, {t})
<1>1. t \in B /\ s \notin B /\ Closed(edges, B)
  BY BelowIsClosed, StoreAssumption DEF HasPath
<1> HIDE DEF B
<1>2. Closed(more, B)
  BY <1>1 DEF Closed
<1> SUFFICES ASSUME NEW e \in more
             PROVE  \E C : e[2] \in C /\ e[1] \notin C /\ Closed(more, C)
  BY AcyclicBy
<1>3. CASE e = <<s, t>>
  BY <1>1, <1>2, <1>3
<1>4. CASE e \in edges /\ e[2] \in B /\ e[1] \notin B
  BY <1>2, <1>4
<1>5. CASE e \in edges /\ (e[2] \notin B \/ e[1] \in B)
  <2> DEFINE D == Below(edges, {e[2]})
  <2>1. e[2] \in D /\ e[1] \notin D /\ Closed(edges, D)
    BY <1>5, NoWayBack
  <2> HIDE DEF D
  <2>2. CASE e[1] \notin B
    <3>1. Closed(more, D \union B)
      BY <1>1, <2>1 DEF Closed
    <3> QED BY <2>1, <2>2, <3>1
  <2>3. CASE e[1] \in B
    <3>1. e[2] \in B
      BY <1>1, <1>5, <2>3 DEF Closed
    <3>2. D \subseteq B
      BY <1>1, <3>1, BelowIsLeast, StoreAssumption DEF D
    <3>3. Closed(more, D)
      BY <1>1, <2>1, <3>2 DEF Closed
    <3> QED BY <2>1, <3>3
  <2> QED BY <2>2, <2>3
<1> QED BY <1>3, <1>4, <1>5

(* Clones have the edges of their originals and none to other nodes.        *)
ClonesApart(edges, nodes, copied, originals, c, new) ==
  /\ edges \in SUBSET Pairs /\ Acyclic(edges)
  /\ \A e \in edges : e[1] \in nodes /\ e[2] \in nodes
  /\ copied \in SUBSET Pairs /\ Acyclic(copied)
  /\ \A e \in copied : e[1] \in originals /\ e[2] \in originals
  /\ \A n \in originals : c[n] \notin nodes
  /\ \A m, n \in originals : c[m] = c[n] => m = n
  /\ \A e \in new : \E x \in copied : e = <<c[x[1]], c[x[2]]>>

LEMMA AcyclicClones ==
  ASSUME NEW edges, NEW nodes, NEW copied, NEW originals, NEW c, NEW new,
         ClonesApart(edges, nodes, copied, originals, c, new)
  PROVE  Acyclic(edges \union new)
<1> USE DEF ClonesApart
<1> DEFINE more == edges \union new
<1> SUFFICES ASSUME NEW e \in more
             PROVE  \E C : e[2] \in C /\ e[1] \notin C /\ Closed(more, C)
  BY AcyclicBy
<1>1. CASE e \in edges
  <2> DEFINE D == Below(edges, {e[2]})
  <2>1. e[2] \in D /\ e[1] \notin D /\ Closed(edges, D)
    BY <1>1, NoWayBack
  <2> HIDE DEF D
  <2>2. Closed(more, D \intersect nodes)
    BY <2>1 DEF Closed
  <2> QED BY <1>1, <2>1, <2>2
<1>2. CASE e \in new
  <2>1. PICK x \in copied : e = <<c[x[1]], c[x[2]]>>
    BY <1>2
  <2> DEFINE D == Below(copied, {x[2]})
             C == { c[n] : n \in D \intersect originals }
  <2>2. x[2] \in D /\ x[1] \notin D /\ Closed(copied, D)
    BY NoWayBack
  <2> HIDE DEF D
  <2>3. Closed(edges, C)
    BY DEF Closed
  <2>4. Closed(new, C)
    <3> SUFFICES ASSUME NEW y \in copied, c[y[1]] \in C PROVE c[y[2]] \in C
      <4> HIDE DEF C
      <4> QED BY DEF Closed
    <3>1. y[1] \in D
      OBVIOUS
    <3> QED BY <2>2, <3>1 DEF Closed
  <2>5. Closed(more, C)
    BY <2>3, <2>4 DEF Closed
  <2>6. e[2] \in C /\ e[1] \notin C
    BY <2>1, <2>2
  <2> QED BY <2>5, <2>6
<1> QED BY <1>1, <1>2

(* Without cycles, not every node of a set has another one before it.       *)
LEMMA AcyclicHasFirst ==
  ASSUME NEW edges \in SUBSET Pairs, Acyclic(edges), NEW X \in SUBSET Ids, X # {}
  PROVE  \E n \in X : \A e \in edges : e[2] = n => e[1] \notin X
<1> SUFFICES ASSUME \A n \in X : \E e \in edges : e[2] = n /\ e[1] \in X PROVE FALSE
  OBVIOUS
<1> DEFINE size(n) == Cardinality(Below(edges, {n}))
           T == { k \in Nat : \A n \in X : size(n) <= MaxNodes - k }
<1>1. IsFiniteSet(Ids) /\ Cardinality(Ids) = MaxNodes
  BY FS_Interval, StoreAssumption DEF Ids
<1>2. \A n \in X : /\ IsFiniteSet(Below(edges, {n})) /\ size(n) \in Nat /\ size(n) <= MaxNodes
  <2> TAKE n \in X
  <2>1. Below(edges, {n}) \subseteq Ids
    BY BelowIsClosed, StoreAssumption
  <2> QED BY <1>1, <2>1, FS_Subset, FS_CardinalityType
<1>3. 0 \in T
  BY <1>2, StoreAssumption
<1>4. ASSUME NEW k \in Nat, k \in T PROVE k + 1 \in T
  <2> SUFFICES ASSUME NEW n \in X PROVE size(n) <= MaxNodes - (k + 1)
    OBVIOUS
  <2>1. PICK e \in edges : e[2] = n /\ e[1] \in X
    OBVIOUS
  <2> DEFINE m == e[1]
  <2>2. n \in Below(edges, {n}) /\ m \notin Below(edges, {n})
    BY <2>1, NoWayBack
  <2>3. m \in Below(edges, {m}) /\ Closed(edges, Below(edges, {m}))
    BY <2>1, BelowIsClosed, StoreAssumption
  <2>4. n \in Below(edges, {m})
    BY <2>1, <2>3 DEF Closed
  <2>5. Below(edges, {n}) \subseteq Below(edges, {m})
    BY <2>3, <2>4, BelowIsLeast, StoreAssumption
  <2>6. size(n) < size(m)
    <3>1. size(n) <= size(m) /\ (size(m) = size(n) => Below(edges, {m}) = Below(edges, {n}))
      BY <1>2, <2>1, <2>5, FS_Subset
    <3> QED BY <1>2, <2>1, <2>2, <2>3, <3>1
  <2>7. size(m) <= MaxNodes - k /\ size(m) \in Nat /\ size(n) \in Nat
    BY <1>2, <1>4, <2>1
  <2> HIDE DEF size
  <2> QED BY <2>6, <2>7, StoreAssumption
<1> HIDE DEF T
<1>5. Nat \subseteq T
  BY <1>3, <1>4, NatSetInduction
<1>6. PICK n \in X : TRUE
  OBVIOUS
<1>7. size(n) \in Nat /\ size(n) <= MaxNodes - (MaxNodes + 1)
  BY <1>2, <1>5, <1>6, StoreAssumption DEF T
<1> HIDE DEF size
<1> QED BY <1>7, StoreAssumption

-----------------------------------------------------------------------------
(* The fields of a graph. *)
Fields == {"status", "edges", "groups", "holds", "stops", "multi", "detail"}

LEMMA GraphFields ==
  ASSUME NEW g \in Graph
  PROVE  /\ Nodes(g) \subseteq Ids /\ g.status \in [Nodes(g) -> NodeStatus]
         /\ g.edges \in SUBSET Pairs /\ g.groups \in SUBSET SUBSET Ids
         /\ DOMAIN g.holds \subseteq Boundaries /\ g.holds \in [DOMAIN g.holds -> SUBSET Ids]
         /\ g.stops \in SUBSET Boundaries /\ g.multi \in SUBSET Ids /\ g.detail \in Details
         /\ DOMAIN g = Fields
BY DEF Graph, Nodes, Fields

LEMMA IsGraph ==
  ASSUME NEW g, NEW N \in SUBSET Ids, NEW B \in SUBSET Boundaries,
         g = [f \in Fields |-> g[f]],
         g.status \in [N -> NodeStatus], g.edges \in SUBSET Pairs,
         g.groups \in SUBSET SUBSET Ids, g.holds \in [B -> SUBSET Ids],
         g.stops \in SUBSET Boundaries, g.multi \in SUBSET Ids, g.detail \in Details
  PROVE  g \in Graph /\ Nodes(g) = N /\ DOMAIN g.holds = B
<1>1. g.status \in UNION { [M -> NodeStatus] : M \in SUBSET Ids }
  OBVIOUS
<1>2. g.holds \in UNION { [C -> SUBSET Ids] : C \in SUBSET Boundaries }
  OBVIOUS
<1>3. g = [status |-> g.status, edges |-> g.edges, groups |-> g.groups, holds |-> g.holds,
           stops |-> g.stops, multi |-> g.multi, detail |-> g.detail]
  BY DEF Fields
<1>4. g \in Graph
  BY <1>1, <1>2, <1>3 DEF Graph
<1> QED BY <1>4 DEF Nodes

(* What a run executes of a graph does not depend on the statuses it shows. *)
LEMMA ContentIsThePlan ==
  ASSUME NEW g \in Graph
  PROVE  Active(Content(g)) = Active(g)
<1>1. /\ Content(g).edges = g.edges /\ Content(g).stops = g.stops
      /\ Content(g).holds = g.holds /\ Nodes(Content(g)) = Nodes(g)
  BY GraphFields DEF Content, Fields, Nodes
<1>2. CutEdges(Content(g)) = CutEdges(g) /\ Roots(Content(g)) = Roots(g)
  BY <1>1 DEF CutEdges, Roots
<1> QED BY <1>1, <1>2 DEF Active

(* In a sound graph every node that a run leaves out lies below an edge     *)
(* that a boundary cuts.                                                    *)
LEMMA SoundIsExplained ==
  ASSUME NEW g \in Graph, IsSound(g)
  PROVE  /\ Active(g) \subseteq Nodes(g)
         /\ Excluded(g) \subseteq ExcludedByBoundary(g)
<1> DEFINE cut == { e[2] : e \in CutEdges(g) }
           A == Below(g.edges \ CutEdges(g), Roots(g))
           B == Below(g.edges, cut)
           X == Nodes(g) \ (A \union B)
<1>1. Nodes(g) \subseteq Ids /\ g.edges \in SUBSET Pairs /\ Acyclic(g.edges)
  BY GraphFields DEF IsSound
<1>2. CutEdges(g) \subseteq g.edges /\ cut \subseteq Ids /\ Roots(g) \subseteq Nodes(g)
  BY <1>1 DEF CutEdges, Roots, Pairs
<1>3. Roots(g) \subseteq A /\ Closed(g.edges \ CutEdges(g), A)
  BY <1>1, <1>2, BelowIsClosed, StoreAssumption
<1>4. cut \subseteq B /\ Closed(g.edges, B)
  BY <1>1, <1>2, BelowIsClosed, StoreAssumption
<1>5. Closed(g.edges \ CutEdges(g), Nodes(g))
  BY DEF IsSound, Closed
<1>6. A \subseteq Nodes(g)
  BY <1>2, <1>5, BelowIsLeast, StoreAssumption
<1> HIDE DEF A, B
<1>7. ASSUME X # {} PROVE FALSE
  <2>0. X \in SUBSET Ids
    BY <1>1
  <2>1. PICK n \in X : \A e \in g.edges : e[2] = n => e[1] \notin X
    <3> HIDE DEF X
    <3> QED BY <1>1, <1>7, <2>0, AcyclicHasFirst
  <2>2. n \notin Roots(g) /\ n \in Nodes(g) /\ n \notin A /\ n \notin B
    BY <1>3
  <2>3. PICK e \in g.edges : e[2] = n
    BY <2>2 DEF Roots
  <2>4. e[1] \in Nodes(g) /\ e[1] \notin X
    BY <2>1, <2>3 DEF IsSound
  <2>5. CASE e[1] \in B
    BY <1>4, <2>2, <2>3, <2>5 DEF Closed
  <2>6. CASE e \in CutEdges(g)
    BY <1>4, <2>2, <2>3, <2>6
  <2>7. CASE e[1] \in A /\ e \notin CutEdges(g)
    BY <1>3, <2>2, <2>3, <2>7 DEF Closed
  <2> QED BY <2>4, <2>5, <2>6, <2>7
<1>8. Excluded(g) \subseteq B
  BY <1>7 DEF Excluded, Active, A
<1> QED BY <1>6, <1>8 DEF Excluded, Active, ExcludedByBoundary, A, B

-----------------------------------------------------------------------------
(* The parts of the commands: graphs of the store stay graphs of the store. *)
LEMMA WithoutForms ==
  ASSUME NEW g, Formed(g), NEW gone
  PROVE  LET h == Without(g, gone)
         IN  /\ Formed(h) /\ Nodes(h) = Nodes(g) \ gone /\ DOMAIN h.holds = DOMAIN g.holds
             /\ h.edges = { e \in g.edges : e[1] \notin gone /\ e[2] \notin gone }
             /\ IsSound(g) => IsSound(h)
<1> DEFINE h == Without(g, gone)
<1>1. /\ Nodes(g) \subseteq Ids /\ g.status \in [Nodes(g) -> NodeStatus]
      /\ g.edges \in SUBSET Pairs /\ g.groups \in SUBSET SUBSET Ids
      /\ DOMAIN g.holds \subseteq Boundaries /\ g.holds \in [DOMAIN g.holds -> SUBSET Ids]
      /\ g.stops \in SUBSET Boundaries /\ g.multi \in SUBSET Ids /\ g.detail \in Details
      /\ DOMAIN g = Fields
  BY GraphFields DEF Formed
<1>2. /\ h.status = [n \in Nodes(g) \ gone |-> g.status[n]]
      /\ h.edges = { e \in g.edges : e[1] \notin gone /\ e[2] \notin gone }
      /\ h.groups = { G \ gone : G \in g.groups } \ {{}}
      /\ h.holds = [b \in DOMAIN g.holds |-> g.holds[b] \ gone]
      /\ h.stops = g.stops /\ h.multi = g.multi \ gone /\ h.detail = g.detail
      /\ h = [f \in Fields |-> h[f]]
  BY <1>1 DEF Without, Fields
<1> HIDE DEF h
<1>3. h \in Graph /\ Nodes(h) = Nodes(g) \ gone /\ DOMAIN h.holds = DOMAIN g.holds
  <2>1. /\ h.status \in [Nodes(g) \ gone -> NodeStatus] /\ h.edges \in SUBSET Pairs
        /\ h.groups \in SUBSET SUBSET Ids /\ h.holds \in [DOMAIN g.holds -> SUBSET Ids]
        /\ h.multi \in SUBSET Ids
    BY <1>1, <1>2
  <2> QED BY <1>1, <1>2, <2>1, IsGraph
<1>4. Formed(h)
  BY <1>2, <1>3 DEF Formed
<1>5. ASSUME IsSound(g) PROVE IsSound(h)
  <2>1. \A e \in h.edges : {e[1], e[2]} \subseteq Nodes(h)
    BY <1>2, <1>3, <1>5 DEF IsSound
  <2>2. Acyclic(h.edges)
    <3> DEFINE id == [n \in Ids |-> n]
    <3>1. \A e \in h.edges : <<id[e[1]], id[e[2]]>> \in g.edges
      BY <1>1, <1>2 DEF Pairs
    <3>2. h.edges \in SUBSET Pairs
      BY <1>1, <1>2
    <3>3. Acyclic(g.edges)
      BY <1>5 DEF IsSound
    <3> HIDE DEF id
    <3> QED BY <1>1, <3>1, <3>2, <3>3, AcyclicImage
  <2>3. UNION h.groups \subseteq Nodes(h)
    BY <1>2, <1>3, <1>5 DEF IsSound
  <2>4. \A G, H \in h.groups : G # H => G \intersect H = {}
    <3> SUFFICES ASSUME NEW G \in h.groups, NEW H \in h.groups, G # H
                 PROVE  G \intersect H = {}
      OBVIOUS
    <3>1. PICK G0 \in g.groups : G = G0 \ gone
      BY <1>2
    <3>2. PICK H0 \in g.groups : H = H0 \ gone
      BY <1>2
    <3>3. G0 \intersect H0 = {}
      BY <1>5, <3>1, <3>2 DEF IsSound
    <3> QED BY <3>1, <3>2, <3>3
  <2>5. \A b \in DOMAIN h.holds : h.holds[b] \subseteq Nodes(h)
    BY <1>2, <1>3, <1>5 DEF IsSound
  <2> QED BY <2>1, <2>2, <2>3, <2>4, <2>5 DEF IsSound
<1> QED BY <1>2, <1>3, <1>4, <1>5 DEF h

LEMMA WithNodesForms ==
  ASSUME NEW g, Formed(g), NEW S \in SUBSET Ids, NEW statuses \in [S -> NodeStatus],
         NEW inside \in Placements(g, S)
  PROVE  LET h == WithNodes(g, statuses, inside)
         IN  /\ Formed(h) /\ Nodes(h) = Nodes(g) \union S /\ DOMAIN h.holds = DOMAIN g.holds
             /\ h.edges = g.edges /\ h.groups = g.groups /\ h.multi = g.multi
             /\ IsSound(g) => IsSound(h)
<1> DEFINE h == WithNodes(g, statuses, inside)
<1>1. /\ Nodes(g) \subseteq Ids /\ g.status \in [Nodes(g) -> NodeStatus]
      /\ g.edges \in SUBSET Pairs /\ g.groups \in SUBSET SUBSET Ids
      /\ DOMAIN g.holds \subseteq Boundaries /\ g.holds \in [DOMAIN g.holds -> SUBSET Ids]
      /\ g.stops \in SUBSET Boundaries /\ g.multi \in SUBSET Ids /\ g.detail \in Details
      /\ DOMAIN g = Fields
  BY GraphFields DEF Formed
<1>2. /\ DOMAIN statuses = S /\ \A b \in DOMAIN g.holds : inside[b] \in SUBSET S
  BY DEF Placements
<1>3. /\ h.status = [n \in Nodes(g) \union S |-> IF n \in S THEN statuses[n] ELSE g.status[n]]
      /\ h.holds = [b \in DOMAIN g.holds |-> (g.holds[b] \ S) \union inside[b]]
      /\ h.edges = g.edges /\ h.groups = g.groups /\ h.stops = g.stops
      /\ h.multi = g.multi /\ h.detail = g.detail
      /\ h = [f \in Fields |-> h[f]]
  BY <1>1, <1>2 DEF WithNodes, Fields
<1> HIDE DEF h
<1>4. h \in Graph /\ Nodes(h) = Nodes(g) \union S /\ DOMAIN h.holds = DOMAIN g.holds
  <2>1. /\ h.status \in [Nodes(g) \union S -> NodeStatus]
        /\ h.holds \in [DOMAIN g.holds -> SUBSET Ids]
    BY <1>1, <1>2, <1>3
  <2> QED BY <1>1, <1>3, <2>1, IsGraph
<1>5. Formed(h)
  BY <1>3, <1>4 DEF Formed
<1>6. IsSound(g) => IsSound(h)
  BY <1>2, <1>3, <1>4 DEF IsSound
<1> QED BY <1>3, <1>4, <1>5, <1>6 DEF h

(* A change of a graph in other fields than its nodes.                      *)
LEMMA Reforms ==
  ASSUME NEW g, Formed(g), NEW h, h = [f \in Fields |-> h[f]], h.status = g.status,
         h.edges \in SUBSET Pairs, h.groups \in SUBSET SUBSET Ids,
         DOMAIN h.holds \subseteq Boundaries, h.holds \in [DOMAIN h.holds -> SUBSET Ids],
         h.stops \subseteq DOMAIN h.holds, h.multi \subseteq Nodes(g), h.detail \in Details
  PROVE  Formed(h) /\ Nodes(h) = Nodes(g)
<1>1. Nodes(g) \subseteq Ids /\ g.status \in [Nodes(g) -> NodeStatus]
  BY GraphFields DEF Formed
<1>2. h \in Graph /\ Nodes(h) = Nodes(g)
  BY <1>1, IsGraph
<1> QED BY <1>2 DEF Formed

LEMMA RestatusForms ==
  ASSUME NEW g, Formed(g), NEW statuses, \A n \in DOMAIN statuses : statuses[n] \in NodeStatus
  PROVE  LET h == WithStatus(g, statuses)
         IN  /\ Formed(h) /\ Nodes(h) = Nodes(g) /\ h.edges = g.edges
             /\ h.status = [n \in Nodes(g) |-> IF n \in DOMAIN statuses THEN statuses[n] ELSE g.status[n]]
             /\ Content(h) = Content(g)
             /\ IsSound(g) => IsSound(h)
<1> DEFINE h == WithStatus(g, statuses)
<1>1. /\ Nodes(g) \subseteq Ids /\ g.status \in [Nodes(g) -> NodeStatus]
      /\ g.edges \in SUBSET Pairs /\ g.groups \in SUBSET SUBSET Ids
      /\ DOMAIN g.holds \subseteq Boundaries /\ g.holds \in [DOMAIN g.holds -> SUBSET Ids]
      /\ g.stops \in SUBSET Boundaries /\ g.multi \in SUBSET Ids /\ g.detail \in Details
      /\ DOMAIN g = Fields
  BY GraphFields DEF Formed
<1>2. /\ h.status = [n \in Nodes(g) |-> IF n \in DOMAIN statuses THEN statuses[n] ELSE g.status[n]]
      /\ h.edges = g.edges /\ h.groups = g.groups /\ h.holds = g.holds /\ h.stops = g.stops
      /\ h.multi = g.multi /\ h.detail = g.detail
      /\ h = [f \in Fields |-> h[f]]
  BY <1>1 DEF WithStatus, Fields
<1> HIDE DEF h
<1>3. h \in Graph /\ Nodes(h) = Nodes(g)
  <2>1. h.status \in [Nodes(g) -> NodeStatus]
    BY <1>1, <1>2
  <2> QED BY <1>1, <1>2, <2>1, IsGraph
<1>4. Formed(h) /\ (IsSound(g) => IsSound(h))
  BY <1>2, <1>3 DEF Formed, IsSound
<1>5. Content(h) = Content(g)
  <2> DEFINE C == [f \in Fields |-> IF f = "status" THEN [n \in Nodes(g) |-> "idle"] ELSE g[f]]
  <2>1. \A f \in Fields : f # "status" => h[f] = g[f]
    BY <1>2 DEF Fields
  <2>2. DOMAIN h = Fields
    BY <1>2
  <2>3. Content(h) = C
    BY <1>3, <2>1, <2>2 DEF Content
  <2>4. Content(g) = C
    BY <1>1 DEF Content
  <2> QED BY <2>3, <2>4
<1> QED BY <1>2, <1>3, <1>4, <1>5 DEF h

-----------------------------------------------------------------------------
(* The commands.  What is on the clipboard is a part of a graph, though     *)
(* perhaps of one that was shown earlier.                                   *)
ClipFormed(c) ==
  /\ c.nodes \in SUBSET Ids /\ c.edges \in SUBSET (c.nodes \X c.nodes)
  /\ c.groups \in SUBSET SUBSET c.nodes /\ c.multi \in SUBSET c.nodes

ClipSound(c) ==
  Acyclic(c.edges) /\ \A G, H \in c.groups : G # H => G \intersect H = {}

CanvasFormed ==
  /\ Formed(graph) /\ ClipFormed(clipboard)
  /\ minted \in 0..MaxNodes /\ Nodes(graph) \subseteq 1..minted

CanvasSound == IsSound(graph) /\ ClipSound(clipboard)

LEMMA SelectedForms ==
  ASSUME Formed(graph), NEW S \in SUBSET Nodes(graph)
  PROVE  /\ ClipFormed(Selected(S)) /\ Selected(S).nodes = S
         /\ IsSound(graph) => ClipSound(Selected(S))
<1> DEFINE c == Selected(S)
<1>1. /\ Nodes(graph) \subseteq Ids /\ graph.edges \in SUBSET Pairs
      /\ graph.groups \in SUBSET SUBSET Ids /\ graph.multi \in SUBSET Ids
  BY GraphFields DEF Formed
<1>2. /\ c.nodes = S /\ c.edges = { e \in graph.edges : e[1] \in S /\ e[2] \in S }
      /\ c.groups = { G \intersect S : G \in graph.groups } \ {{}}
      /\ c.multi = graph.multi \intersect S
  BY DEF Selected
<1> HIDE DEF c
<1>3. ClipFormed(c)
  BY <1>1, <1>2 DEF ClipFormed, Pairs
<1>4. ASSUME IsSound(graph) PROVE ClipSound(c)
  <2>1. Acyclic(c.edges)
    <3> DEFINE id == [n \in Ids |-> n]
    <3>1. \A e \in c.edges : <<id[e[1]], id[e[2]]>> \in graph.edges
      BY <1>1, <1>2 DEF Pairs
    <3>2. c.edges \in SUBSET Pairs
      BY <1>1, <1>2
    <3>3. Acyclic(graph.edges)
      BY <1>4 DEF IsSound
    <3> HIDE DEF id
    <3> QED BY <1>1, <3>1, <3>2, <3>3, AcyclicImage
  <2>2. ASSUME NEW G \in c.groups, NEW H \in c.groups, G # H
        PROVE  G \intersect H = {}
    <3>1. PICK G0 \in graph.groups : G = G0 \intersect S
      BY <1>2
    <3>2. PICK H0 \in graph.groups : H = H0 \intersect S
      BY <1>2
    <3>3. G0 \intersect H0 = {}
      BY <1>4, <2>2, <3>1, <3>2 DEF IsSound
    <3> QED BY <3>1, <3>2, <3>3
  <2> QED BY <2>1, <2>2 DEF ClipSound
<1> QED BY <1>2, <1>3, <1>4 DEF c

(* The ids of clones are fresh, and each clone has its own.                 *)
LEMMA CloneIds ==
  ASSUME NEW N \in SUBSET Ids, NEW m \in Nat
  PROVE  LET clone(n) == m + Cardinality({ x \in N : x <= n })
         IN  /\ Cardinality(N) \in Nat
             /\ \A n \in N : clone(n) \in m + 1 .. m + Cardinality(N)
             /\ \A n, p \in N : clone(n) = clone(p) => n = p
<1> DEFINE upTo(n) == { x \in N : x <= n }
<1>1. IsFiniteSet(N) /\ Cardinality(N) \in Nat
  <2>1. IsFiniteSet(Ids)
    BY FS_Interval, StoreAssumption DEF Ids
  <2> QED BY <2>1, FS_Subset, FS_CardinalityType
<1>2. \A n \in N : /\ IsFiniteSet(upTo(n)) /\ Cardinality(upTo(n)) \in Nat
                   /\ Cardinality(upTo(n)) <= Cardinality(N)
  <2> TAKE n \in N
  <2>1. upTo(n) \in SUBSET N
    OBVIOUS
  <2> HIDE DEF upTo
  <2> QED BY <1>1, <2>1, FS_Subset, FS_CardinalityType
<1>3. \A n \in N : Cardinality(upTo(n)) # 0
  <2> TAKE n \in N
  <2>1. n \in upTo(n)
    BY DEF Ids
  <2> QED BY <1>2, <2>1, FS_EmptySet
<1>4. ASSUME NEW n \in N, NEW p \in N, n < p
      PROVE  Cardinality(upTo(n)) # Cardinality(upTo(p))
  <2>1. upTo(n) \in SUBSET upTo(p) /\ p \in upTo(p) /\ p \notin upTo(n)
    <3>1. N \subseteq Int
      BY StoreAssumption DEF Ids
    <3>2. \A x \in N : x <= n => x <= p
      BY <1>4, <3>1
    <3>3. p <= p /\ ~ (p <= n)
      BY <1>4, <3>1
    <3> QED BY <3>2, <3>3
  <2> HIDE DEF upTo
  <2> QED BY <1>2, <2>1, FS_Subset
<1>5. \A n, p \in N : n # p => n < p \/ p < n
  BY DEF Ids
<1>6. \A n, p \in N : Cardinality(upTo(n)) = Cardinality(upTo(p)) => n = p
  BY <1>4, <1>5
<1> HIDE DEF upTo
<1>7. \A n \in N : m + Cardinality(upTo(n)) \in m + 1 .. m + Cardinality(N)
  BY <1>1, <1>2, <1>3
<1>8. \A n, p \in N : m + Cardinality(upTo(n)) = m + Cardinality(upTo(p)) => n = p
  BY <1>2, <1>6
<1> QED BY <1>1, <1>7, <1>8 DEF upTo

LEMMA ClonesForm ==
  ASSUME CanvasFormed, NEW clip, ClipFormed(clip), InsertClones(clip)
  PROVE  /\ Formed(graph') /\ minted' \in 0..MaxNodes /\ Nodes(graph') \subseteq 1..minted'
         /\ minted <= minted'
         /\ IsSound(graph) /\ ClipSound(clip) => IsSound(graph')
<1> DEFINE k == Cardinality(clip.nodes)
           c == [n \in clip.nodes |-> minted + Cardinality({ m \in clip.nodes : m <= n })]
<1>1. PICK inside \in Placements(graph, Fresh(k)) :
        LET g == WithNodes(graph, [n \in Fresh(k) |-> "idle"], inside)
            clone(n) == minted + Cardinality({ m \in clip.nodes : m <= n })
        IN  /\ Mint(k)
            /\ Mutate([g EXCEPT
                 !.edges  = @ \union { <<clone(e[1]), clone(e[2])>> : e \in clip.edges },
                 !.groups = @ \union { { clone(n) : n \in G } : G \in clip.groups },
                 !.multi  = @ \union { clone(n) : n \in clip.multi }])
  BY DEF InsertClones
<1> DEFINE g == WithNodes(graph, [n \in Fresh(k) |-> "idle"], inside)
           copies == { <<c[e[1]], c[e[2]]>> : e \in clip.edges }
           more == { { c[n] : n \in G } : G \in clip.groups }
<1>2. /\ clip.nodes \in SUBSET Ids /\ clip.edges \in SUBSET (clip.nodes \X clip.nodes)
      /\ clip.groups \in SUBSET SUBSET clip.nodes /\ clip.multi \in SUBSET clip.nodes
  BY DEF ClipFormed
<1>3. /\ minted \in Nat /\ k \in Nat /\ minted + k <= MaxNodes /\ minted' = minted + k
  <2>1. minted \in Nat
    BY StoreAssumption DEF CanvasFormed
  <2> QED BY <1>1, <1>2, <2>1, CloneIds DEF Mint
<1>4. \A n \in clip.nodes : c[n] \in Fresh(k)
  BY <1>2, <1>3, CloneIds DEF Fresh
<1>5. \A m, n \in clip.nodes : c[m] = c[n] => m = n
  BY <1>2, <1>3, CloneIds
<1>6. /\ \A e \in clip.edges : <<c[e[1]], c[e[2]]>> =
           <<minted + Cardinality({ m \in clip.nodes : m <= e[1] }),
             minted + Cardinality({ m \in clip.nodes : m <= e[2] })>>
      /\ \A n \in clip.nodes : c[n] = minted + Cardinality({ m \in clip.nodes : m <= n })
  BY <1>2
<1>7. Fresh(k) \subseteq Ids /\ Nodes(graph) \intersect Fresh(k) = {}
      /\ Nodes(graph) \subseteq Ids
      /\ Nodes(graph) \union Fresh(k) \subseteq 1..minted'
  BY <1>3, StoreAssumption DEF Fresh, Ids, CanvasFormed
<1>8. [n \in Fresh(k) |-> "idle"] \in [Fresh(k) -> NodeStatus]
  BY DEF NodeStatus
<1>9. /\ Formed(g) /\ Nodes(g) = Nodes(graph) \union Fresh(k)
      /\ g.edges = graph.edges /\ g.groups = graph.groups /\ g.multi = graph.multi
      /\ IsSound(graph) => IsSound(g)
  BY <1>7, <1>8, WithNodesForms DEF CanvasFormed
<1>10. graph' = [g EXCEPT !.edges = @ \union copies, !.groups = @ \union more,
                          !.multi = @ \union { c[n] : n \in clip.multi }]
  <2>1. copies = { <<minted + Cardinality({ m \in clip.nodes : m <= e[1] }),
                     minted + Cardinality({ m \in clip.nodes : m <= e[2] })>> : e \in clip.edges }
    BY <1>6
  <2>2. \A N \in SUBSET clip.nodes :
          { c[n] : n \in N } = { minted + Cardinality({ m \in clip.nodes : m <= n }) : n \in N }
    BY <1>6
  <2>3. more = { { minted + Cardinality({ m \in clip.nodes : m <= n }) : n \in G } : G \in clip.groups }
    BY <1>2, <2>2
  <2>4. { c[n] : n \in clip.multi } =
          { minted + Cardinality({ m \in clip.nodes : m <= n }) : n \in clip.multi }
    BY <1>2, <2>2
  <2> HIDE DEF g, c
  <2> QED BY <1>1, <2>1, <2>3, <2>4 DEF Mutate, g
<1> HIDE DEF g, c, k
<1>11. /\ DOMAIN g = Fields /\ g.edges \in SUBSET Pairs /\ g.groups \in SUBSET SUBSET Ids
       /\ g.multi \in SUBSET Nodes(g)
       /\ DOMAIN g.holds \subseteq Boundaries /\ g.holds \in [DOMAIN g.holds -> SUBSET Ids]
       /\ g.stops \subseteq DOMAIN g.holds /\ g.detail \in Details
  BY <1>9, GraphFields DEF Formed
<1>12. /\ graph'.status = g.status /\ graph'.holds = g.holds /\ graph'.stops = g.stops
       /\ graph'.detail = g.detail
       /\ graph'.edges = graph.edges \union copies
       /\ graph'.groups = graph.groups \union more
       /\ graph'.multi = graph.multi \union { c[n] : n \in clip.multi }
       /\ graph' = [f \in Fields |-> graph'[f]]
  BY <1>9, <1>10, <1>11 DEF Fields
<1>13. /\ graph'.edges \in SUBSET Pairs /\ graph'.groups \in SUBSET SUBSET Ids
       /\ graph'.multi \subseteq Nodes(g)
  <2>1. copies \in SUBSET Pairs
    BY <1>2, <1>4, <1>7 DEF Pairs
  <2>2. more \in SUBSET SUBSET Ids
    BY <1>2, <1>4, <1>7
  <2>3. { c[n] : n \in clip.multi } \subseteq Nodes(g)
    BY <1>2, <1>4, <1>9
  <2> QED BY <1>9, <1>11, <1>12, <2>1, <2>2, <2>3
<1>14. Formed(graph') /\ Nodes(graph') = Nodes(graph) \union Fresh(k)
  BY <1>9, <1>11, <1>12, <1>13, Reforms
<1>15. ASSUME IsSound(graph), ClipSound(clip) PROVE IsSound(graph')
  <2>1. \A e \in graph'.edges : {e[1], e[2]} \subseteq Nodes(graph')
    BY <1>2, <1>4, <1>12, <1>14, <1>15 DEF IsSound
  <2>2. Acyclic(graph'.edges)
    <3>1. graph.edges \in SUBSET Pairs /\ Acyclic(graph.edges)
      BY <1>15, GraphFields DEF IsSound, CanvasFormed, Formed
    <3>2. \A e \in graph.edges : e[1] \in Nodes(graph) /\ e[2] \in Nodes(graph)
      BY <1>15 DEF IsSound
    <3>3. clip.edges \in SUBSET Pairs /\ Acyclic(clip.edges)
      BY <1>2, <1>15 DEF ClipSound, Pairs
    <3>4. \A e \in clip.edges : e[1] \in clip.nodes /\ e[2] \in clip.nodes
      BY <1>2
    <3>5. \A n \in clip.nodes : c[n] \notin Nodes(graph)
      BY <1>4, <1>7
    <3>6. Nodes(graph) \in SUBSET Ids /\ clip.nodes \in SUBSET Ids
      BY <1>2, <1>7
    <3>7. \A e \in copies : \E x \in clip.edges : e = <<c[x[1]], c[x[2]]>>
      OBVIOUS
    <3>8. Acyclic(graph.edges \union copies)
      <4> HIDE DEF copies
      <4>1. ClonesApart(graph.edges, Nodes(graph), clip.edges, clip.nodes, c, copies)
        BY <1>5, <3>1, <3>2, <3>3, <3>4, <3>5, <3>7 DEF ClonesApart
      <4> QED BY <4>1, AcyclicClones
    <3> QED BY <1>12, <3>8
  <2>3. UNION graph'.groups \subseteq Nodes(graph')
    BY <1>2, <1>4, <1>12, <1>14, <1>15 DEF IsSound
  <2>4. \A G, H \in graph'.groups : G # H => G \intersect H = {}
    <3>1. \A G \in graph.groups : G \subseteq Nodes(graph)
      BY <1>15 DEF IsSound
    <3>2. \A G \in more : G \subseteq Fresh(k)
      BY <1>2, <1>4
    <3>3. ASSUME NEW G \in more, NEW H \in more, G # H PROVE G \intersect H = {}
      <4>1. PICK G0 \in clip.groups : G = { c[n] : n \in G0 }
        OBVIOUS
      <4>2. PICK H0 \in clip.groups : H = { c[n] : n \in H0 }
        OBVIOUS
      <4>3. G0 \intersect H0 = {}
        BY <1>15, <3>3, <4>1, <4>2 DEF ClipSound
      <4> QED BY <1>2, <1>5, <4>1, <4>2, <4>3
    <3>4. \A G, H \in graph.groups : G # H => G \intersect H = {}
      BY <1>15 DEF IsSound
    <3>5. ASSUME NEW G \in graph.groups, NEW H \in more PROVE G \intersect H = {}
      BY <1>7, <3>1, <3>2
    <3> HIDE DEF more
    <3> QED BY <1>12, <3>3, <3>4, <3>5
  <2>5. \A b \in DOMAIN graph'.holds : graph'.holds[b] \subseteq Nodes(graph')
    BY <1>9, <1>12, <1>14, <1>15 DEF IsSound
  <2> QED BY <2>1, <2>2, <2>3, <2>4, <2>5 DEF IsSound
<1> QED BY <1>3, <1>7, <1>14, <1>15, StoreAssumption

(* A command that keeps the clipboard and draws no id, and changes the graph *)
(* to one on the same nodes or fewer.                                        *)
LEMMA StepForms ==
  ASSUME CanvasFormed, Formed(graph'), Nodes(graph') \subseteq Nodes(graph),
         CanvasSound => IsSound(graph'),
         UNCHANGED <<clipboard, minted>>
  PROVE  CanvasFormed' /\ minted <= minted' /\ (CanvasSound => CanvasSound')
BY StoreAssumption DEF CanvasFormed, CanvasSound, ClipFormed, ClipSound

(* A sound graph with other edges, groups or boundaries.                     *)
LEMMA ResoundEdges ==
  ASSUME NEW g, IsSound(g), NEW h, Nodes(h) = Nodes(g), h.groups = g.groups,
         h.holds = g.holds, \A e \in h.edges : {e[1], e[2]} \subseteq Nodes(g), Acyclic(h.edges)
  PROVE  IsSound(h)
BY DEF IsSound

LEMMA ResoundGroups ==
  ASSUME NEW g, IsSound(g), NEW h, Nodes(h) = Nodes(g), h.edges = g.edges,
         h.holds = g.holds, UNION h.groups \subseteq Nodes(g),
         \A G, H \in h.groups : G # H => G \intersect H = {}
  PROVE  IsSound(h)
BY DEF IsSound

LEMMA ResoundHolds ==
  ASSUME NEW g, IsSound(g), NEW h, Nodes(h) = Nodes(g), h.edges = g.edges,
         h.groups = g.groups, \A b \in DOMAIN h.holds : h.holds[b] \subseteq Nodes(g)
  PROVE  IsSound(h)
BY DEF IsSound

LEMMA FormedFields ==
  ASSUME CanvasFormed
  PROVE  /\ DOMAIN graph = Fields /\ Formed(graph) /\ ClipFormed(clipboard)
         /\ Nodes(graph) \subseteq Ids /\ graph.status \in [Nodes(graph) -> NodeStatus]
         /\ graph.edges \in SUBSET Pairs /\ graph.groups \in SUBSET SUBSET Ids
         /\ DOMAIN graph.holds \subseteq Boundaries
         /\ graph.holds \in [DOMAIN graph.holds -> SUBSET Ids]
         /\ graph.stops \subseteq DOMAIN graph.holds
         /\ graph.multi \subseteq Nodes(graph) /\ graph.detail \in Details
         /\ minted \in Nat /\ minted <= MaxNodes /\ Nodes(graph) \subseteq 1..minted
BY GraphFields, StoreAssumption DEF CanvasFormed, Formed

(* Fresh ids.                                                               *)
LEMMA FreshIds ==
  ASSUME CanvasFormed, NEW k \in Nat, Mint(k)
  PROVE  /\ Fresh(k) \in SUBSET Ids /\ Fresh(k) \intersect Nodes(graph) = {}
         /\ minted' \in 0..MaxNodes /\ minted <= minted'
         /\ Nodes(graph) \union Fresh(k) \subseteq 1..minted'
BY StoreAssumption DEF CanvasFormed, Mint, Fresh, Ids

(* New nodes.                                                               *)
LEMMA AddNodeForms ==
  ASSUME CanvasFormed, AddNode
  PROVE  CanvasFormed' /\ minted <= minted' /\ (CanvasSound => CanvasSound')
<1>1. PICK inside \in Placements(graph, Fresh(1)) :
        Mint(1) /\ Mutate(WithNodes(graph, [n \in Fresh(1) |-> "idle"], inside))
  BY DEF AddNode
<1>2. clipboard' = clipboard
  BY DEF AddNode
<1>3. [n \in Fresh(1) |-> "idle"] \in [Fresh(1) -> NodeStatus]
  BY DEF NodeStatus
<1>4. /\ Formed(graph') /\ Nodes(graph') = Nodes(graph) \union Fresh(1)
      /\ IsSound(graph) => IsSound(graph')
  BY <1>1, <1>3, FreshIds, FormedFields, WithNodesForms DEF Mutate
<1>5. minted' \in 0..MaxNodes /\ minted <= minted' /\ Nodes(graph') \subseteq 1..minted'
  BY <1>1, <1>4, FreshIds
<1> QED BY <1>2, <1>4, <1>5 DEF CanvasFormed, CanvasSound, ClipFormed, ClipSound

LEMMA DuplicateForms ==
  ASSUME CanvasFormed, NEW n \in Nodes(graph), DuplicateNode(n)
  PROVE  CanvasFormed' /\ minted <= minted' /\ (CanvasSound => CanvasSound')
<1>1. PICK inside \in Placements(graph, Fresh(1)) :
        LET g == WithNodes(graph, [m \in Fresh(1) |-> graph.status[n]], inside)
        IN  Mutate([g EXCEPT
              !.groups = { IF n \in G THEN G \union Fresh(1) ELSE G : G \in @ },
              !.multi  = IF n \in @ THEN @ \union Fresh(1) ELSE @])
  BY DEF DuplicateNode
<1>2. Mint(1) /\ clipboard' = clipboard
  BY DEF DuplicateNode
<1> DEFINE g == WithNodes(graph, [m \in Fresh(1) |-> graph.status[n]], inside)
<1>3. [m \in Fresh(1) |-> graph.status[n]] \in [Fresh(1) -> NodeStatus]
  BY FormedFields
<1>4. /\ Formed(g) /\ Nodes(g) = Nodes(graph) \union Fresh(1)
      /\ g.groups = graph.groups /\ g.edges = graph.edges
      /\ IsSound(graph) => IsSound(g)
  BY <1>2, <1>3, FreshIds, FormedFields, WithNodesForms
<1>5. graph' = [g EXCEPT
              !.groups = { IF n \in G THEN G \union Fresh(1) ELSE G : G \in g.groups },
              !.multi  = IF n \in g.multi THEN g.multi \union Fresh(1) ELSE g.multi]
  BY <1>1 DEF Mutate
<1> HIDE DEF g
<1>6. /\ DOMAIN g = Fields /\ g.edges \in SUBSET Pairs /\ g.groups \in SUBSET SUBSET Ids
      /\ g.multi \in SUBSET Nodes(g)
      /\ DOMAIN g.holds \subseteq Boundaries /\ g.holds \in [DOMAIN g.holds -> SUBSET Ids]
      /\ g.stops \subseteq DOMAIN g.holds /\ g.detail \in Details
  BY <1>4, GraphFields DEF Formed
<1>7. /\ graph'.status = g.status /\ graph'.holds = g.holds /\ graph'.stops = g.stops
      /\ graph'.detail = g.detail /\ graph'.edges = g.edges
      /\ graph'.groups = { IF n \in G THEN G \union Fresh(1) ELSE G : G \in g.groups }
      /\ graph'.multi \subseteq g.multi \union Fresh(1)
      /\ graph' = [f \in Fields |-> graph'[f]]
  BY <1>5, <1>6 DEF Fields
<1>8. Fresh(1) \in SUBSET Ids /\ Fresh(1) \intersect Nodes(graph) = {}
  BY <1>2, FreshIds
<1>9. graph'.groups \in SUBSET SUBSET Ids /\ graph'.multi \subseteq Nodes(g)
  BY <1>4, <1>6, <1>7, <1>8
<1>10. Formed(graph') /\ Nodes(graph') = Nodes(g)
  BY <1>4, <1>6, <1>7, <1>9, Reforms
<1>11. ASSUME IsSound(graph) PROVE IsSound(graph')
  <2>1. UNION graph'.groups \subseteq Nodes(g)
    BY <1>4, <1>7, <1>11 DEF IsSound
  <2>2. ASSUME NEW G \in graph'.groups, NEW H \in graph'.groups, G # H
        PROVE  G \intersect H = {}
    <3>1. PICK G0 \in graph.groups : G = IF n \in G0 THEN G0 \union Fresh(1) ELSE G0
      BY <1>4, <1>7
    <3>2. PICK H0 \in graph.groups : H = IF n \in H0 THEN H0 \union Fresh(1) ELSE H0
      BY <1>4, <1>7
    <3>3. G0 \intersect H0 = {} /\ G0 \subseteq Nodes(graph) /\ H0 \subseteq Nodes(graph)
      BY <1>11, <2>2, <3>1, <3>2 DEF IsSound
    <3> QED BY <1>8, <3>1, <3>2, <3>3
  <2> QED BY <1>4, <1>7, <1>10, <1>11, <2>1, <2>2, ResoundGroups
<1>12. minted' \in 0..MaxNodes /\ minted <= minted' /\ Nodes(graph') \subseteq 1..minted'
  BY <1>2, <1>4, <1>10, FreshIds
<1> QED BY <1>2, <1>10, <1>11, <1>12 DEF CanvasFormed, CanvasSound, ClipFormed, ClipSound

LEMMA SplitForms ==
  ASSUME CanvasFormed, NEW n \in Nodes(graph), SplitTaskNode(n)
  PROVE  CanvasFormed' /\ minted <= minted' /\ (CanvasSound => CanvasSound')
<1> DEFINE w == Without(graph, {n})
           idle == [m \in Fresh(2) |-> "idle"]
<1>1. PICK inside \in Placements(graph, Fresh(2)) :
        LET g == WithNodes(Without(graph, {n}), [m \in Fresh(2) |-> "idle"], inside)
        IN  Mutate([g EXCEPT !.edges = @ \union EdgesOf(n, Fresh(2))])
  BY DEF SplitTaskNode
<1>2. Mint(2) /\ clipboard' = clipboard
  BY DEF SplitTaskNode
<1> DEFINE g == WithNodes(w, idle, inside)
<1>3. /\ Formed(w) /\ Nodes(w) = Nodes(graph) \ {n} /\ DOMAIN w.holds = DOMAIN graph.holds
      /\ w.edges = { e \in graph.edges : e[1] # n /\ e[2] # n }
      /\ IsSound(graph) => IsSound(w)
  BY FormedFields, WithoutForms
<1>4. idle \in [Fresh(2) -> NodeStatus] /\ inside \in Placements(w, Fresh(2))
  BY <1>3 DEF NodeStatus, Placements
<1>5. Fresh(2) \in SUBSET Ids /\ Fresh(2) \intersect Nodes(graph) = {} /\ n \in Ids
  BY <1>2, FreshIds, FormedFields
<1> HIDE DEF w, idle
<1>6. /\ Formed(g) /\ Nodes(g) = (Nodes(graph) \ {n}) \union Fresh(2)
      /\ g.edges = w.edges
      /\ IsSound(graph) => IsSound(g)
  BY <1>3, <1>4, <1>5, WithNodesForms
<1>7. graph' = [g EXCEPT !.edges = g.edges \union EdgesOf(n, Fresh(2))]
  BY <1>1 DEF Mutate, w, idle
<1> HIDE DEF g
<1>8. /\ DOMAIN g = Fields /\ g.edges \in SUBSET Pairs /\ g.groups \in SUBSET SUBSET Ids
      /\ g.multi \in SUBSET Nodes(g)
      /\ DOMAIN g.holds \subseteq Boundaries /\ g.holds \in [DOMAIN g.holds -> SUBSET Ids]
      /\ g.stops \subseteq DOMAIN g.holds /\ g.detail \in Details
  BY <1>6, GraphFields DEF Formed
<1>9. /\ graph'.status = g.status /\ graph'.holds = g.holds /\ graph'.stops = g.stops
      /\ graph'.detail = g.detail /\ graph'.groups = g.groups /\ graph'.multi = g.multi
      /\ graph'.edges = w.edges \union EdgesOf(n, Fresh(2))
      /\ graph' = [f \in Fields |-> graph'[f]]
  BY <1>6, <1>7, <1>8 DEF Fields
<1>10. EdgesOf(n, Fresh(2)) \in SUBSET Pairs
  <2>1. \A e \in graph.edges : e[1] \in Ids /\ e[2] \in Ids
    BY FormedFields DEF Pairs
  <2> QED BY <1>5, <2>1 DEF EdgesOf, Pairs
<1>11. Formed(graph') /\ Nodes(graph') = Nodes(g)
  BY <1>6, <1>8, <1>9, <1>10, Reforms
<1>12. ASSUME IsSound(graph) PROVE IsSound(graph')
  <2>1. /\ graph.edges \in SUBSET Pairs /\ Acyclic(graph.edges)
        /\ \A e \in graph.edges : e[1] \in Nodes(graph) /\ e[2] \in Nodes(graph)
    BY <1>12, FormedFields DEF IsSound
  <2>2. \A e \in graph.edges : e = <<e[1], e[2]>> /\ e[1] # e[2]
    <3>1. \A e \in graph.edges : e = <<e[1], e[2]>>
      BY <2>1 DEF Pairs
    <3>2. \A e \in graph.edges : e[1] # e[2]
      BY <2>1, NoWayBack
    <3> QED BY <3>1, <3>2
  <2> DEFINE h == [m \in Ids |-> IF m \in Fresh(2) THEN n ELSE m]
  <2>3. ASSUME NEW e \in graph'.edges
        PROVE  /\ <<h[e[1]], h[e[2]]>> \in graph.edges
               /\ {e[1], e[2]} \subseteq Nodes(g)
    <3>1. CASE e \in w.edges
      <4>1. e \in graph.edges /\ e[1] # n /\ e[2] # n
        BY <1>3, <3>1
      <4>2. h[e[1]] = e[1] /\ h[e[2]] = e[2]
        BY <1>5, <2>1, <4>1, FormedFields
      <4> HIDE DEF h
      <4> QED BY <1>6, <2>1, <2>2, <4>1, <4>2
    <3>2. ASSUME NEW x \in graph.edges, NEW m \in Fresh(2), x[1] = n, e = <<m, x[2]>>
          PROVE  /\ <<h[e[1]], h[e[2]]>> \in graph.edges
                 /\ {e[1], e[2]} \subseteq Nodes(g)
      <4>1. h[m] = n /\ h[x[2]] = x[2]
        BY <1>5, <2>1, FormedFields
      <4> HIDE DEF h
      <4> QED BY <1>6, <2>1, <2>2, <3>2, <4>1
    <3>3. ASSUME NEW x \in graph.edges, NEW m \in Fresh(2), x[2] = n, e = <<x[1], m>>
          PROVE  /\ <<h[e[1]], h[e[2]]>> \in graph.edges
                 /\ {e[1], e[2]} \subseteq Nodes(g)
      <4>1. h[m] = n /\ h[x[1]] = x[1]
        BY <1>5, <2>1, FormedFields
      <4> HIDE DEF h
      <4> QED BY <1>6, <2>1, <2>2, <3>3, <4>1
    <3> HIDE DEF h
    <3> QED BY <1>9, <3>1, <3>2, <3>3 DEF EdgesOf
  <2>4. Acyclic(graph'.edges)
    <3>1. graph'.edges \in SUBSET Pairs
      BY <1>6, <1>8, <1>9, <1>10
    <3> HIDE DEF h
    <3> QED BY <2>1, <2>3, <3>1, AcyclicImage
  <2>5. \A e \in graph'.edges : {e[1], e[2]} \subseteq Nodes(g)
    BY <2>3
  <2> QED BY <1>6, <1>9, <1>11, <1>12, <2>4, <2>5, ResoundEdges
<1>13. minted' \in 0..MaxNodes /\ minted <= minted' /\ Nodes(graph') \subseteq 1..minted'
  BY <1>2, <1>6, <1>11, FreshIds
<1> QED BY <1>2, <1>11, <1>12, <1>13 DEF CanvasFormed, CanvasSound, ClipFormed, ClipSound

(* Nodes that are moved or removed.                                         *)
LEMMA NodesForm ==
  ASSUME CanvasFormed, NEW S \in Selections, MoveNodes(S) \/ RemoveNodes(S)
  PROVE  CanvasFormed' /\ minted <= minted' /\ (CanvasSound => CanvasSound')
<1>1. UNCHANGED <<clipboard, minted>> /\ S \subseteq Nodes(graph) /\ S \in SUBSET Ids
  BY FormedFields DEF MoveNodes, RemoveNodes, Selections
<1>2. CASE RemoveNodes(S)
  <2>1. graph' = Without(graph, S)
    BY <1>2 DEF RemoveNodes, Mutate
  <2>2. /\ Formed(graph') /\ Nodes(graph') \subseteq Nodes(graph)
        /\ IsSound(graph) => IsSound(graph')
    BY <2>1, FormedFields, WithoutForms
  <2> QED BY <1>1, <2>2, StepForms DEF CanvasSound
<1>3. CASE MoveNodes(S)
  <2> DEFINE same == [n \in S |-> graph.status[n]]
  <2>1. PICK inside \in Placements(graph, S) : graph' = WithNodes(graph, same, inside)
    BY <1>3 DEF MoveNodes, Mutate
  <2>2. same \in [S -> NodeStatus]
    BY <1>1, FormedFields
  <2> HIDE DEF same
  <2>3. /\ Formed(graph') /\ Nodes(graph') \subseteq Nodes(graph)
        /\ IsSound(graph) => IsSound(graph')
    BY <1>1, <2>1, <2>2, FormedFields, WithNodesForms
  <2> QED BY <1>1, <2>3, StepForms DEF CanvasSound
<1> QED BY <1>2, <1>3

LEMMA GroupsForm ==
  ASSUME CanvasFormed, NEW S \in Selections,
         GroupSelectedNodes(S) \/ UngroupSelectedNodes(S)
  PROVE  CanvasFormed' /\ minted <= minted' /\ (CanvasSound => CanvasSound')
<1>1. UNCHANGED <<clipboard, minted>> /\ S \subseteq Nodes(graph) /\ S \in SUBSET Ids
  BY FormedFields DEF GroupSelectedNodes, UngroupSelectedNodes, Selections
<1>2. /\ graph' = [graph EXCEPT !.groups = graph'.groups]
      /\ \/ graph'.groups = ({ G \ S : G \in graph.groups } \ {{}}) \union {S}
         \/ graph'.groups = { G \in graph.groups : G \intersect S = {} }
  BY FormedFields DEF GroupSelectedNodes, UngroupSelectedNodes, Mutate, Fields
<1>3. /\ graph'.status = graph.status /\ graph'.holds = graph.holds
      /\ graph'.stops = graph.stops /\ graph'.detail = graph.detail
      /\ graph'.edges = graph.edges /\ graph'.multi = graph.multi
      /\ graph' = [f \in Fields |-> graph'[f]]
  BY <1>2, FormedFields DEF Fields
<1>4. graph'.groups \in SUBSET SUBSET Ids
  BY <1>1, <1>2, FormedFields
<1>5. Formed(graph') /\ Nodes(graph') = Nodes(graph)
  BY <1>3, <1>4, FormedFields, Reforms
<1>6. ASSUME IsSound(graph) PROVE IsSound(graph')
  <2>1. /\ UNION graph.groups \subseteq Nodes(graph)
        /\ \A G, H \in graph.groups : G # H => G \intersect H = {}
    BY <1>6 DEF IsSound
  <2>2. UNION graph'.groups \subseteq Nodes(graph)
    BY <1>1, <1>2, <2>1
  <2>3. \A G, H \in graph'.groups : G # H => G \intersect H = {}
    <3>1. CASE graph'.groups = { G \in graph.groups : G \intersect S = {} }
      BY <2>1, <3>1
    <3>2. CASE graph'.groups = ({ G \ S : G \in graph.groups } \ {{}}) \union {S}
      <4> SUFFICES ASSUME NEW G \in graph'.groups, NEW H \in graph'.groups, G # H
                   PROVE  G \intersect H = {}
        OBVIOUS
      <4>1. G = S \/ \E G0 \in graph.groups : G = G0 \ S
        BY <3>2
      <4>2. H = S \/ \E H0 \in graph.groups : H = H0 \ S
        BY <3>2
      <4>3. CASE G = S \/ H = S
        BY <4>1, <4>2, <4>3
      <4>4. CASE G # S /\ H # S
        <5>1. PICK G0 \in graph.groups : G = G0 \ S
          BY <4>1, <4>4
        <5>2. PICK H0 \in graph.groups : H = H0 \ S
          BY <4>2, <4>4
        <5> QED BY <2>1, <5>1, <5>2
      <4> QED BY <4>3, <4>4
    <3> QED BY <1>2, <3>1, <3>2
  <2> QED BY <1>3, <1>5, <1>6, <2>2, <2>3, ResoundGroups
<1> QED BY <1>1, <1>5, <1>6, StepForms DEF CanvasSound

(* Clones, and the clipboard.                                               *)
LEMMA InsertForms ==
  ASSUME CanvasFormed, NEW clip, ClipFormed(clip), InsertClones(clip), clipboard' = clipboard,
         CanvasSound => ClipSound(clip)
  PROVE  CanvasFormed' /\ minted <= minted' /\ (CanvasSound => CanvasSound')
<1>1. /\ Formed(graph') /\ minted' \in 0..MaxNodes /\ Nodes(graph') \subseteq 1..minted'
      /\ minted <= minted'
      /\ CanvasSound => IsSound(graph')
  BY ClonesForm DEF CanvasSound
<1> QED BY <1>1 DEF CanvasFormed, CanvasSound, ClipFormed, ClipSound

LEMMA ClipForms ==
  ASSUME CanvasFormed, NEW S \in Selections,
         CopySelectedNodes(S) \/ CutSelectedNodes(S) \/ DuplicateSelectedNodes(S)
  PROVE  CanvasFormed' /\ minted <= minted' /\ (CanvasSound => CanvasSound')
<1>1. S \in SUBSET Nodes(graph)
  BY DEF Selections
<1>2. /\ ClipFormed(Selected(S))
      /\ IsSound(graph) => ClipSound(Selected(S))
  BY <1>1, FormedFields, SelectedForms
<1>3. CASE CopySelectedNodes(S)
  <2>1. clipboard' = Selected(S) /\ UNCHANGED <<graph, minted>>
    BY <1>3 DEF CopySelectedNodes
  <2> HIDE DEF Selected
  <2>2. ClipFormed(clipboard') /\ (IsSound(graph) => ClipSound(clipboard'))
    BY <1>2, <2>1
  <2>3. Formed(graph') /\ (IsSound(graph) => IsSound(graph'))
    BY <2>1, FormedFields
  <2> QED BY <2>1, <2>2, <2>3, FormedFields DEF CanvasFormed, CanvasSound, Nodes
<1>4. CASE CutSelectedNodes(S)
  <2>1. clipboard' = Selected(S) /\ graph' = Without(graph, S) /\ minted' = minted
    BY <1>4 DEF CutSelectedNodes, Mutate
  <2>2. ClipFormed(clipboard') /\ (IsSound(graph) => ClipSound(clipboard'))
    BY <1>2, <2>1
  <2>3. /\ Formed(graph') /\ Nodes(graph') \subseteq Nodes(graph)
        /\ IsSound(graph) => IsSound(graph')
    BY <2>1, FormedFields, WithoutForms
  <2> QED BY <2>1, <2>2, <2>3, FormedFields DEF CanvasFormed, CanvasSound
<1>5. CASE DuplicateSelectedNodes(S)
  BY <1>2, <1>5, InsertForms DEF DuplicateSelectedNodes, CanvasSound
<1> QED BY <1>3, <1>4, <1>5

(* Boundaries and everything else that is edited in place.                  *)
LEMMA HoldsForm ==
  ASSUME CanvasFormed, UNCHANGED <<clipboard, minted>>,
         NEW holds, NEW stops, NEW detail \in Details,
         graph' = [graph EXCEPT !.holds = holds, !.stops = stops, !.detail = detail],
         DOMAIN holds \subseteq Boundaries, holds \in [DOMAIN holds -> SUBSET Ids],
         stops \subseteq DOMAIN holds,
         IsSound(graph) => \A c \in DOMAIN holds : holds[c] \subseteq Nodes(graph)
  PROVE  CanvasFormed' /\ minted <= minted' /\ (CanvasSound => CanvasSound')
<1>1. /\ graph'.status = graph.status /\ graph'.edges = graph.edges
      /\ graph'.groups = graph.groups /\ graph'.multi = graph.multi
      /\ graph'.holds = holds /\ graph'.stops = stops /\ graph'.detail = detail
      /\ graph' = [f \in Fields |-> graph'[f]]
  BY FormedFields DEF Fields
<1>2. Formed(graph') /\ Nodes(graph') = Nodes(graph)
  <2>1. /\ DOMAIN graph'.holds \subseteq Boundaries
        /\ graph'.holds \in [DOMAIN graph'.holds -> SUBSET Ids]
        /\ graph'.stops \subseteq DOMAIN graph'.holds /\ graph'.detail \in Details
    BY <1>1
  <2>2. /\ graph'.edges \in SUBSET Pairs /\ graph'.groups \in SUBSET SUBSET Ids
        /\ graph'.multi \subseteq Nodes(graph) /\ Formed(graph)
    BY <1>1, FormedFields
  <2> QED BY <1>1, <2>1, <2>2, Reforms
<1>3. IsSound(graph) => IsSound(graph')
  BY <1>1, <1>2, ResoundHolds
<1> QED BY <1>2, <1>3, StepForms DEF CanvasSound

LEMMA BoundariesForm ==
  ASSUME CanvasFormed,
         EditDetail
           \/ \E b \in Boundaries : PlaceBoundary(b) \/ SetBoundaryOnReach(b) \/ RemoveBoundary(b)
  PROVE  CanvasFormed' /\ minted <= minted' /\ (CanvasSound => CanvasSound')
<1>1. /\ DOMAIN graph = Fields /\ DOMAIN graph.holds \subseteq Boundaries
      /\ Nodes(graph) \subseteq Ids
      /\ graph.holds \in [DOMAIN graph.holds -> SUBSET Ids]
      /\ graph.stops \subseteq DOMAIN graph.holds /\ graph.detail \in Details
      /\ IsSound(graph) => \A c \in DOMAIN graph.holds : graph.holds[c] \subseteq Nodes(graph)
  BY FormedFields DEF IsSound
<1>2. CASE EditDetail
  <2>1. PICK d \in Details : graph' = [graph EXCEPT !.detail = d]
    BY <1>2 DEF EditDetail, Mutate
  <2>2. graph' = [graph EXCEPT !.holds = graph.holds, !.stops = graph.stops, !.detail = d]
    BY <1>1, <2>1 DEF Fields
  <2> QED BY <1>1, <1>2, <2>2, HoldsForm DEF EditDetail
<1>3. ASSUME NEW b \in Boundaries, PlaceBoundary(b)
      PROVE  CanvasFormed' /\ minted <= minted' /\ (CanvasSound => CanvasSound')
  <2>1. PICK S \in SUBSET Nodes(graph) :
          graph' = [graph EXCEPT
            !.holds = [c \in DOMAIN @ \union {b} |-> IF c = b THEN S ELSE @[c]],
            !.stops = IF b \in DOMAIN graph.holds THEN @ ELSE @ \union {b}]
    BY <1>3 DEF PlaceBoundary, Mutate
  <2> DEFINE holds == [c \in DOMAIN graph.holds \union {b} |-> IF c = b THEN S ELSE graph.holds[c]]
             stops == IF b \in DOMAIN graph.holds THEN graph.stops ELSE graph.stops \union {b}
  <2>2. /\ DOMAIN holds \subseteq Boundaries /\ holds \in [DOMAIN holds -> SUBSET Ids]
        /\ stops \subseteq DOMAIN holds
        /\ IsSound(graph) => \A c \in DOMAIN holds : holds[c] \subseteq Nodes(graph)
    BY <1>1
  <2>3. graph' = [graph EXCEPT !.holds = holds, !.stops = stops]
    BY <2>1
  <2> HIDE DEF holds, stops
  <2>4. graph' = [graph EXCEPT !.holds = holds, !.stops = stops, !.detail = graph.detail]
    BY <1>1, <2>3 DEF Fields
  <2> QED BY <1>1, <1>3, <2>2, <2>4, HoldsForm DEF PlaceBoundary
<1>4. ASSUME NEW b \in Boundaries, SetBoundaryOnReach(b)
      PROVE  CanvasFormed' /\ minted <= minted' /\ (CanvasSound => CanvasSound')
  <2> DEFINE stops == IF b \in graph.stops THEN graph.stops \ {b} ELSE graph.stops \union {b}
  <2>1. graph' = [graph EXCEPT !.stops = stops]
    BY <1>4 DEF SetBoundaryOnReach, Mutate
  <2>2. stops \subseteq DOMAIN graph.holds
    BY <1>1, <1>4 DEF SetBoundaryOnReach
  <2> HIDE DEF stops
  <2>3. graph' = [graph EXCEPT !.holds = graph.holds, !.stops = stops, !.detail = graph.detail]
    BY <1>1, <2>1 DEF Fields
  <2> QED BY <1>1, <1>4, <2>2, <2>3, HoldsForm DEF SetBoundaryOnReach
<1>5. ASSUME NEW b \in Boundaries, RemoveBoundary(b)
      PROVE  CanvasFormed' /\ minted <= minted' /\ (CanvasSound => CanvasSound')
  <2> DEFINE holds == [c \in DOMAIN graph.holds \ {b} |-> graph.holds[c]]
             stops == graph.stops \ {b}
  <2>1. graph' = [graph EXCEPT !.holds = holds, !.stops = stops]
    BY <1>5 DEF RemoveBoundary, Mutate
  <2>2. /\ DOMAIN holds \subseteq Boundaries /\ holds \in [DOMAIN holds -> SUBSET Ids]
        /\ stops \subseteq DOMAIN holds
        /\ IsSound(graph) => \A c \in DOMAIN holds : holds[c] \subseteq Nodes(graph)
    BY <1>1
  <2> HIDE DEF holds, stops
  <2>3. graph' = [graph EXCEPT !.holds = holds, !.stops = stops, !.detail = graph.detail]
    BY <1>1, <2>1 DEF Fields
  <2> QED BY <1>1, <1>5, <2>2, <2>3, HoldsForm DEF RemoveBoundary
<1> QED BY <1>2, <1>3, <1>4, <1>5

(* Edges that are drawn and removed.                                        *)
LEMMA EdgesForm ==
  ASSUME CanvasFormed,
         (\E e \in graph.edges : RemoveEdge(e))
           \/ \E n \in Nodes(graph) \union {None} : CompleteConnection(n)
  PROVE  CanvasFormed' /\ minted <= minted' /\ (CanvasSound => CanvasSound')
<1>1. ASSUME NEW edges \in SUBSET Pairs, graph' = [graph EXCEPT !.edges = edges],
             UNCHANGED <<clipboard, minted>>,
             IsSound(graph) =>
               Acyclic(edges) /\ \A e \in edges : {e[1], e[2]} \subseteq Nodes(graph)
      PROVE  CanvasFormed' /\ minted <= minted' /\ (CanvasSound => CanvasSound')
  <2>1. /\ graph'.status = graph.status /\ graph'.edges = edges
        /\ graph'.groups = graph.groups /\ graph'.multi = graph.multi
        /\ graph'.holds = graph.holds /\ graph'.stops = graph.stops
        /\ graph'.detail = graph.detail /\ graph' = [f \in Fields |-> graph'[f]]
    BY <1>1, FormedFields DEF Fields
  <2>2. Formed(graph') /\ Nodes(graph') = Nodes(graph)
    BY <2>1, FormedFields, Reforms
  <2>3. ASSUME IsSound(graph) PROVE IsSound(graph')
    <3>1. Acyclic(graph'.edges) /\ \A e \in graph'.edges : {e[1], e[2]} \subseteq Nodes(graph)
      BY <1>1, <2>1, <2>3
    <3> QED BY <2>1, <2>2, <2>3, <3>1, ResoundEdges
  <2> QED BY <1>1, <2>2, <2>3, StepForms DEF CanvasSound
<1>2. ASSUME NEW e \in graph.edges, RemoveEdge(e)
      PROVE  CanvasFormed' /\ minted <= minted' /\ (CanvasSound => CanvasSound')
  <2> DEFINE id == [n \in Ids |-> n]
             less == graph.edges \ {e}
  <2>1. less \in SUBSET Pairs /\ graph.edges \in SUBSET Pairs
    BY FormedFields
  <2>2. \A x \in less : <<id[x[1]], id[x[2]]>> \in graph.edges
    BY FormedFields DEF Pairs
  <2>3. IsSound(graph) =>
          Acyclic(graph.edges) /\ \A x \in less : {x[1], x[2]} \subseteq Nodes(graph)
    BY DEF IsSound
  <2>4. graph' = [graph EXCEPT !.edges = less] /\ UNCHANGED <<clipboard, minted>>
    BY <1>2 DEF RemoveEdge, Mutate
  <2> HIDE DEF id, less
  <2>5. IsSound(graph) => Acyclic(less)
    BY <2>1, <2>2, <2>3, AcyclicImage
  <2> QED BY <1>1, <2>1, <2>3, <2>4, <2>5
<1>3. ASSUME NEW n \in Nodes(graph) \union {None}, CompleteConnection(n)
      PROVE  CanvasFormed' /\ minted <= minted' /\ (CanvasSound => CanvasSound')
  <2>1. UNCHANGED <<clipboard, minted>>
    BY <1>3 DEF CompleteConnection
  <2>2. CASE graph' = graph
    BY <2>1, <2>2, FormedFields DEF CanvasFormed, CanvasSound, ClipFormed, ClipSound
  <2>3. CASE graph' # graph
    <3> DEFINE edges == graph.edges \union {<<connecting, n>>}
    <3>1. MayConnect(connecting, n) /\ graph' = [graph EXCEPT !.edges = edges]
      BY <1>3, <2>3 DEF CompleteConnection, Mutate
    <3>2. /\ connecting \in Nodes(graph) /\ n \in Nodes(graph) /\ connecting # n
          /\ ~ HasPath(graph.edges, n, connecting)
      BY <3>1 DEF MayConnect
    <3>3. connecting \in Ids /\ n \in Ids /\ graph.edges \in SUBSET Pairs
      BY <3>2, FormedFields
    <3>4. edges \in SUBSET Pairs
      BY <3>3 DEF Pairs
    <3>5. IsSound(graph) => \A e \in edges : {e[1], e[2]} \subseteq Nodes(graph)
      BY <3>2 DEF IsSound
    <3>6. IsSound(graph) => Acyclic(edges)
      BY <3>2, <3>3, AcyclicConnect DEF IsSound
    <3> HIDE DEF edges
    <3> QED BY <1>1, <2>1, <3>1, <3>4, <3>5, <3>6
  <2> QED BY <2>2, <2>3
<1> QED BY <1>2, <1>3

(* Every command keeps a canvas formed, and a sound one sound.              *)
LEMMA CommandForms ==
  ASSUME CanvasFormed, Command \/ EditDetail
  PROVE  CanvasFormed' /\ minted <= minted' /\ (CanvasSound => CanvasSound')
<1>1. ASSUME NEW n \in Nodes(graph), BeginConnection(n)
      PROVE  CanvasFormed' /\ minted <= minted' /\ (CanvasSound => CanvasSound')
  BY <1>1, FormedFields, StepForms DEF BeginConnection, CanvasSound
<1>2. CASE PasteClipboard
  <2>1. ClipFormed(clipboard) /\ (CanvasSound => ClipSound(clipboard))
    BY FormedFields DEF CanvasSound
  <2> QED BY <1>2, <2>1, InsertForms DEF PasteClipboard
<1> QED BY <1>1, <1>2, AddNodeForms, NodesForm, GroupsForm, ClipForms, DuplicateForms, SplitForms,
           BoundariesForm, EdgesForm DEF Command

LEMMA EmptyForms ==
  ASSUME NEW d \in Details
  PROVE  Formed(EmptyGraph(d)) /\ Nodes(EmptyGraph(d)) = {} /\ IsSound(EmptyGraph(d))
<1> DEFINE g == EmptyGraph(d)
<1>1. /\ g.status \in [{} -> NodeStatus] /\ g.edges = {} /\ g.groups = {}
      /\ DOMAIN g.holds = {} /\ g.holds \in [{} -> SUBSET Ids] /\ g.stops = {} /\ g.multi = {}
      /\ g.detail = d /\ g = [f \in Fields |-> g[f]]
  BY DEF EmptyGraph, Fields
<1> HIDE DEF g
<1>2. g \in Graph /\ Nodes(g) = {}
  BY <1>1, IsGraph
<1>3. Formed(g)
  BY <1>1, <1>2 DEF Formed
<1>4. IsSound(g)
  BY <1>1 DEF IsSound, Acyclic
<1> QED BY <1>2, <1>3, <1>4 DEF g

(* Once the nodes that a run leaves out are shown as stopped, only nodes    *)
(* that it executes are shown as pending or running.                        *)
InProgressAreActive(g) ==
  \A n \in Nodes(g) : g.status[n] \in {"pending", "running"} => n \in Active(g)

LEMMA StopsForm ==
  ASSUME NEW g, Formed(g), IsSound(g)
  PROVE  InProgressAreActive(BoundaryStops(g))
<1> DEFINE st == [n \in ExcludedByBoundary(g) |-> "stopped"]
           h == WithStatus(g, st)
<1>1. \A n \in DOMAIN st : st[n] \in NodeStatus
  BY DEF NodeStatus
<1>2. DOMAIN st = ExcludedByBoundary(g) /\ \A n \in ExcludedByBoundary(g) : st[n] = "stopped"
  OBVIOUS
<1>3. h = BoundaryStops(g)
  BY DEF BoundaryStops
<1> HIDE DEF st
<1>4. /\ Formed(h) /\ Nodes(h) = Nodes(g) /\ Content(h) = Content(g)
      /\ h.status = [n \in Nodes(g) |-> IF n \in DOMAIN st THEN st[n] ELSE g.status[n]]
  BY <1>1, RestatusForms
<1>5. Active(h) = Active(g)
  BY <1>4, ContentIsThePlan DEF Formed
<1>6. Nodes(g) \ Active(g) \subseteq ExcludedByBoundary(g)
  BY SoundIsExplained DEF Formed, Excluded
<1> HIDE DEF h
<1> QED BY <1>2, <1>3, <1>4, <1>5, <1>6 DEF InProgressAreActive
=============================================================================
