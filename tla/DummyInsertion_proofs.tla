------------------------ MODULE DummyInsertion_proofs ------------------------
(****************************************************************************)
(* insert_dummy_nodes for every edge list and every system of ranks: the    *)
(* type invariant, that the edges end up between adjacent ranks, that each  *)
(* edge of the caller is covered by one chain and the dummies by one chain  *)
(* each, that the layers stay consistent, and what an error leaves.         *)
(****************************************************************************)
EXTENDS DummyInsertion, LayoutTheorems

-----------------------------------------------------------------------------
(* The inductive invariant, in parts.                                       *)

Count0 == Cardinality(Originals)

\* The labels of the caller's edges, and that of a segment.
Labels == {NoLabel} \union UNION {{es[i].label : i \in DOMAIN es} : es \in EdgeLists}

\* What the caller handed over is never written.
InputInv ==
    /\ input.edges \in Seq(LabelledEdge(Labels))
    /\ Count0 \in Nat /\ Originals = NodeIds(Count0)
    /\ input.ranks.rank \in [Originals -> Nat \union {NoRank}]
    /\ input.ranks.order \in [Originals -> Nat \union {NoRank}]
    /\ input.ranks.layers \in Seq(Seq(Originals))

\* The nodes: the caller's as they were, then the dummies, which have a rank.
NodesInv ==
    /\ NodeCount \in Nat /\ NodeCount >= Count0
    /\ rank \in [NodeIds(NodeCount) -> Nat \union {NoRank}]
    /\ order \in [NodeIds(NodeCount) -> Nat \union {NoRank}]
    /\ dummies = DOMAIN rank \ Originals
    /\ \A v \in Originals : rank[v] = input.ranks.rank[v]
    /\ \A v \in dummies : rank[v] # NoRank
    /\ result # "Ok" => \A v \in Originals : order[v] = input.ranks.order[v]

\* EdgeChain.
Chain == [source : Nat, target : Nat, reversed : BOOLEAN, isSelfLoop : BOOLEAN, label : Labels, chain : Seq(Nat)]

\* The loop: one chain per edge it has passed, and the edges replaced at its end.
LoopInv ==
    /\ next \in 1 .. Len(input.edges) + 1
    /\ newEdges \in Seq(LabelledEdge(Labels))
    /\ chains \in Seq(Chain) /\ Len(chains) = next - 1
    /\ result \in {"none", "Ok", "DanglingEdge", "MissingRank"}
    /\ result = "Ok" => next > Len(input.edges)
    /\ edges = IF result = "Ok" THEN newEdges ELSE input.edges

\* A layer, or none.
LayerOf(ls, k) == IF k \in DOMAIN ls THEN ls[k] ELSE <<>>
InputLayer(k) == LayerOf(input.ranks.layers, k)

\* A layer is the caller's layer and dummies behind it.
LayersInv ==
    /\ layers \in Seq(Seq(DOMAIN rank))
    /\ Len(input.ranks.layers) <= Len(layers)
    /\ \A k \in DOMAIN layers :
        /\ Len(InputLayer(k)) <= Len(layers[k])
        /\ \A p \in DOMAIN layers[k] : IF p <= Len(InputLayer(k)) THEN layers[k][p] = InputLayer(k)[p]
                                       ELSE layers[k][p] \in dummies

Core == InputInv /\ NodesInv /\ LoopInv /\ LayersInv

-----------------------------------------------------------------------------
(* The operators of the module.                                             *)

\* out is the layers ls after m dummies, numbered from n, were pushed below rank f.
PushedBelow(V, ls, f, n, m, out) ==
    /\ out \in Seq(Seq(V)) /\ Len(out) >= Len(ls) /\ Len(out) >= f + m + 1
    /\ Len(out) \in {Len(ls), f + m + 1}
    /\ \A r \in DOMAIN out :
          out[r] = IF r \in f + 2 .. f + m + 1 THEN Append(LayerOf(ls, r), n + r - f - 2) ELSE LayerOf(ls, r)

\* The code pushes each dummy once, to the layer of its rank.
LEMMA PushedOnce ==
    ASSUME NEW V, NEW ls \in Seq(Seq(V)), NEW f \in Nat, NEW n \in Nat, NEW m \in Nat \ {0},
           \A k \in 1 .. m : n + k - 1 \in V,
           NEW ds \in Seq(Nat), Len(ds) = m, \A k \in 1 .. m : ds[k] = n + k - 1,
           NEW out, out = PushToLayers(ls, f, ds)
    PROVE  PushedBelow(V, ls, f, n, m, out)
<1>. DEFINE At(r) == LayerOf(ls, r)
            height == IF f + m + 1 > Len(ls) THEN f + m + 1 ELSE Len(ls)
            Pushed(r) == {k \in DOMAIN ds : f + k + 1 = r}
            Layer(r) == IF Pushed(r) = {} THEN At(r) ELSE Append(At(r), ds[CHOOSE k \in Pushed(r) : TRUE])
<1>1. DOMAIN ds = 1 .. m /\ Len(ds) = m
  OBVIOUS
<1>2. out = [r \in 1 .. height |-> Layer(r)]
  BY <1>1 DEF PushToLayers, LayerOf
<1>3. height \in Nat /\ height >= Len(ls) /\ height >= f + m + 1 /\ height \in {Len(ls), f + m + 1}
  OBVIOUS
<1>4. ASSUME NEW r \in 1 .. height
      PROVE  /\ At(r) \in Seq(V)
             /\ IF r \in f + 2 .. f + m + 1 THEN Layer(r) = Append(At(r), n + r - f - 2) ELSE Layer(r) = At(r)
             /\ Layer(r) \in Seq(V)
  <2>1. At(r) \in Seq(V)
    BY DEF LayerOf
  <2>2. CASE r \in f + 2 .. f + m + 1
    <3>0. r \in Int /\ r - f - 1 \in 1 .. m /\ \A k \in 1 .. m : f + k + 1 = r <=> k = r - f - 1
      BY <2>2
    <3>1. Pushed(r) = {r - f - 1}
      BY <1>1, <3>0
    <3>2. Layer(r) = Append(At(r), ds[r - f - 1])
      <4>. HIDE DEF At, Pushed
      <4>. QED
        BY <3>1
    <3>3. ds[r - f - 1] = n + r - f - 2 /\ ds[r - f - 1] \in V
      <4>1. ds[r - f - 1] = n + (r - f - 1) - 1
        BY <3>0
      <4>2. n + (r - f - 1) - 1 = n + r - f - 2
        BY <3>0
      <4>. QED
        BY <3>0, <4>1, <4>2
    <3>. HIDE DEF Layer, At
    <3>. QED
      BY <2>1, <2>2, <3>2, <3>3
  <2>3. CASE r \notin f + 2 .. f + m + 1
    <3>1. Pushed(r) = {}
      BY <2>3
    <3>2. Layer(r) = At(r)
      BY <3>1
    <3>. HIDE DEF Layer, At, Pushed
    <3>. QED
      BY <2>1, <2>3, <3>2
  <2>. QED
    BY <2>2, <2>3
<1>. HIDE DEF Layer, height
<1>5. /\ out \in Seq(Seq(V)) /\ Len(out) = height /\ DOMAIN out = 1 .. height
      /\ \A r \in 1 .. height : out[r] = Layer(r)
  <2>1. out \in [1 .. height -> Seq(V)]
    BY <1>2, <1>4
  <2>2. out \in Seq(Seq(V)) /\ Len(out) = height /\ DOMAIN out = 1 .. height
    BY <2>1, <1>3
  <2>. QED
    BY <2>2, <1>2
<1>6. \A r \in DOMAIN out :
         out[r] = IF r \in f + 2 .. f + m + 1 THEN Append(At(r), n + r - f - 2) ELSE At(r)
  BY <1>4, <1>5
<1>. QED
  BY <1>3, <1>5, <1>6 DEF PushedBelow

-----------------------------------------------------------------------------
(* The steps, as the proofs use them.                                       *)

\* The loop is at an edge of the caller.
LEMMA EdgeFacts ==
    ASSUME InputInv, LoopInv, AtEdge
    PROVE  /\ next \in DOMAIN input.edges /\ E = input.edges[next] /\ E \in LabelledEdge(Labels)
           /\ E.from \in Nat /\ E.to \in Nat /\ E.reversed \in BOOLEAN /\ E.label \in Labels
           /\ result = "none" /\ edges = input.edges
           /\ next \in Nat \ {0} /\ next + 1 \in 1 .. Len(input.edges) + 1
<1>1. result = "none" /\ edges = input.edges /\ next <= Len(input.edges) /\ next \in 1 .. Len(input.edges) + 1
  BY DEF LoopInv, AtEdge
<1>2. input.edges \in Seq(LabelledEdge(Labels))
  BY DEF InputInv
<1>3. next \in DOMAIN input.edges /\ next \in Nat \ {0} /\ next + 1 \in 1 .. Len(input.edges) + 1
  BY <1>1, <1>2
<1>4. E = input.edges[next] /\ E \in LabelledEdge(Labels)
  BY <1>1, <1>2, <1>3 DEF E
<1>5. E.from \in Nat /\ E.to \in Nat /\ E.reversed \in BOOLEAN /\ E.label \in Labels
  BY <1>4 DEF LabelledEdge
<1>. QED
  BY <1>1, <1>3, <1>4, <1>5

\* What the branch for long edges writes: m new nodes, numbered from n.
LEMMA LongFacts ==
    ASSUME Core, LongEdge
    PROVE  LET n == NodeCount
               m == Span - 1
               f == rank[E.from]
               path == <<E.from>> \o NewDummies \o <<E.to>>
           IN /\ n \in Nat /\ m \in Nat \ {0} /\ f \in Nat /\ rank[E.to] = f + m + 1
              /\ E.from \in DOMAIN rank /\ E.to \in DOMAIN rank
              /\ NodeCount' = n + m /\ DOMAIN rank' = NodeIds(n + m) /\ DOMAIN order' = NodeIds(n + m)
              /\ rank' \in [NodeIds(n + m) -> Nat \union {NoRank}]
              /\ order' \in [NodeIds(n + m) -> Nat \union {NoRank}]
              /\ \A v \in DOMAIN rank : rank'[v] = rank[v] /\ order'[v] = order[v]
              /\ \A k \in 1 .. m : rank'[n + k - 1] = f + k
              /\ DOMAIN rank = NodeIds(n)
              /\ Range(NewDummies) = NodeIds(n + m) \ NodeIds(n)
              /\ path \in Seq(Nat) /\ Len(path) = m + 2 /\ path[1] = E.from /\ path[m + 2] = E.to
              /\ \A k \in 2 .. m + 1 : path[k] = n + k - 2
              /\ PushedBelow(NodeIds(n + m), layers, f, n, m, layers')
              /\ newEdges' = newEdges \o Segments(path)
              /\ chains' = Append(chains, ChainOf(path, FALSE))
              /\ next' = next + 1 /\ dummies' = dummies \union Range(NewDummies)
              /\ input' = input /\ edges' = edges /\ result' = result
<1>. DEFINE n == NodeCount
            m == Span - 1
            f == rank[E.from]
            path == <<E.from>> \o NewDummies \o <<E.to>>
<1>1. /\ n \in Nat /\ rank \in [NodeIds(n) -> Nat \union {NoRank}] /\ order \in [NodeIds(n) -> Nat \union {NoRank}]
      /\ DOMAIN rank = NodeIds(n) /\ layers \in Seq(Seq(DOMAIN rank))
  BY DEF Core, NodesInv, LayersInv
<1>2. E.from \in DOMAIN rank /\ E.to \in DOMAIN rank /\ rank[E.from] # NoRank /\ rank[E.to] # NoRank
  BY DEF LongEdge, Ranked, Found
<1>3. rank[E.from] \in Nat /\ rank[E.to] \in Nat
  BY <1>1, <1>2
<1>4. m \in Nat \ {0} /\ f \in Nat /\ rank[E.to] = f + m + 1
  BY <1>3 DEF LongEdge, Span
<1>5. NewDummies = [k \in 1 .. m |-> n + k - 1]
  BY DEF NewDummies
<1>6. E.from \in Nat /\ E.to \in Nat
  BY EdgeFacts DEF Core, LongEdge
<1>7. /\ rank' = [v \in NodeIds(n + m) |-> IF v < n THEN rank[v] ELSE f + 1 + v - n]
      /\ order' = [v \in NodeIds(n + m) |-> IF v < n THEN order[v] ELSE NoRank]
  <2>1. NodeCount + Span - 1 = n + m
    BY <1>1, <1>3 DEF Span
  <2>. QED
    BY <2>1 DEF LongEdge
<1>8. /\ dummies' = dummies \union Range(NewDummies)
      /\ layers' = PushToLayers(layers, f, [k \in 1 .. m |-> n + k - 1])
      /\ newEdges' = newEdges \o Segments(path)
      /\ chains' = Append(chains, ChainOf(path, FALSE))
      /\ next' = next + 1
      /\ input' = input /\ edges' = edges /\ result' = result
  BY <1>5 DEF LongEdge
<1>. HIDE DEF n, m, f
<1>9. n + m \in Nat /\ \A v \in NodeIds(n + m) : v \in Nat /\ (v < n <=> v \in NodeIds(n))
  BY <1>1, <1>4 DEF NodeIds
<1>10. \A v \in NodeIds(n) : v \in NodeIds(n + m) /\ v < n
  BY <1>1, <1>4 DEF NodeIds
<1>11. /\ rank' \in [NodeIds(n + m) -> Nat \union {NoRank}] /\ DOMAIN rank' = NodeIds(n + m)
       /\ order' \in [NodeIds(n + m) -> Nat \union {NoRank}] /\ DOMAIN order' = NodeIds(n + m)
  <2>1. \A v \in NodeIds(n + m) : IF v < n THEN rank[v] \in Nat \union {NoRank} /\ order[v] \in Nat \union {NoRank}
                                  ELSE f + 1 + v - n \in Nat
    BY <1>1, <1>4, <1>9
  <2>. QED
    BY <2>1, <1>7
<1>12. NodeCount' = n + m
  BY <1>9, <1>11, IdsCounted DEF NodeCount
<1>13. \A v \in DOMAIN rank : rank'[v] = rank[v] /\ order'[v] = order[v]
  BY <1>1, <1>7, <1>10
<1>14. \A k \in 1 .. m : n + k - 1 \in NodeIds(n + m) /\ ~(n + k - 1 < n) /\ f + 1 + (n + k - 1) - n = f + k
  BY <1>1, <1>4 DEF NodeIds
<1>15. \A k \in 1 .. m : rank'[n + k - 1] = f + k
  BY <1>7, <1>14
<1>16. Range(NewDummies) = NodeIds(n + m) \ NodeIds(n)
  <2>1. \A v \in NodeIds(n + m) \ NodeIds(n) : v - n + 1 \in 1 .. m /\ n + (v - n + 1) - 1 = v
    BY <1>1, <1>4 DEF NodeIds
  <2>2. \A k \in 1 .. m : n + k - 1 \in NodeIds(n + m) \ NodeIds(n)
    BY <1>9, <1>14
  <2>. QED
    BY <2>1, <2>2, <1>5 DEF Range
<1>17. /\ path \in Seq(Nat) /\ Len(path) = m + 2 /\ path[1] = E.from /\ path[m + 2] = E.to
       /\ \A k \in 2 .. m + 1 : path[k] = n + k - 2
  BY <1>1, <1>4, <1>5, <1>6, PathLaidOut DEF LeadsOver
<1>18. PushedBelow(NodeIds(n + m), layers, f, n, m, layers')
  <2>. DEFINE V == NodeIds(n + m)
  <2>1. layers \in Seq(Seq(V))
    <3>1. DOMAIN rank \in SUBSET V
      BY <1>1, <1>10
    <3>. HIDE DEF V
    <3>. QED
      BY <3>1, <1>1
  <2>2. \A k \in 1 .. m : n + k - 1 \in V
    BY <1>14
  <2>. HIDE DEF V
  <2>3. PushedBelow(V, layers, f, n, m, layers')
    <3>. DEFINE ds == [k \in 1 .. m |-> n + k - 1]
    <3>1. layers' = PushToLayers(layers, f, ds)
      BY <1>8
    <3>2. n \in Nat /\ m \in Nat \ {0} /\ f \in Nat
      BY <1>1, <1>4
    <3>3. ds \in Seq(Nat) /\ Len(ds) = m /\ \A k \in 1 .. m : ds[k] = n + k - 1
      BY <3>2
    <3>. HIDE DEF ds
    <3>. QED
      BY <2>1, <2>2, <3>1, <3>2, <3>3, PushedOnce
  <2>. QED
    BY <2>3 DEF V
<1>. HIDE DEF path
<1>. QED
  BY <1>1, <1>2, <1>4, <1>8, <1>11, <1>12, <1>13, <1>15, <1>16, <1>17, <1>18 DEF n, m, f, path

\* Max finds the greatest of a bounded set of naturals.
LEMMA MaxIsGreatest ==
    ASSUME NEW b \in Nat, NEW S \in SUBSET (0 .. b), S # {}
    PROVE  Max(S) \in S /\ \A k \in S : k <= Max(S)
<1>1. PICK g \in S : \A k \in S : k <= g
  BY GreatestNatural
<1>2. \A k \in S : g >= k
  BY <1>1
<1>3. Max(S) \in S /\ \A k \in S : Max(S) >= k
  BY <1>2 DEF Max
<1>. QED
  BY <1>3

\* The place that Finish finds is one where the node stands.
LEMMA PlaceIsThere ==
    ASSUME LayersInv, NEW v \in DOMAIN rank, Listed(v) # {}
    PROVE  \E k \in DOMAIN layers : \E p \in DOMAIN layers[k] :
              layers[k][p] = v /\ Place(v) = p - 1 /\ p \in Nat \ {0}
<1>. DEFINE k == Max(Listed(v))
            P == {p \in DOMAIN layers[k] : layers[k][p] = v}
<1>1. layers \in Seq(Seq(DOMAIN rank)) /\ Len(layers) \in Nat /\ Listed(v) \in SUBSET (0 .. Len(layers))
  BY DEF LayersInv, Listed
<1>2. k \in Listed(v)
  BY <1>1, MaxIsGreatest
<1>. HIDE DEF k
<1>3. k \in DOMAIN layers /\ v \in Range(layers[k])
  BY <1>2 DEF Listed
<1>4. layers[k] \in Seq(DOMAIN rank) /\ Len(layers[k]) \in Nat /\ P \in SUBSET (0 .. Len(layers[k])) /\ P # {}
  BY <1>1, <1>3 DEF Range
<1>5. Max(P) \in P
  <2>. HIDE DEF P
  <2>. QED
    BY <1>4, MaxIsGreatest
<1>6. Place(v) = Max(P) - 1
  BY DEF Place, k
<1>7. Max(P) \in DOMAIN layers[k] /\ layers[k][Max(P)] = v
  BY <1>5
<1>8. Max(P) \in Nat \ {0}
  BY <1>4, <1>7
<1>. QED
  BY <1>3, <1>6, <1>7, <1>8

-----------------------------------------------------------------------------
(* The core of the invariant.                                               *)

LEMMA InitCore == Init => Core
<1>. SUFFICES ASSUME Init PROVE Core
  OBVIOUS
<1>1. /\ input.edges \in EdgeLists /\ input.ranks \in RankSystems
      /\ edges = input.edges /\ layers = input.ranks.layers
      /\ rank = input.ranks.rank /\ order = input.ranks.order
      /\ dummies = {} /\ next = 1 /\ newEdges = <<>> /\ chains = <<>> /\ result = "none"
  BY DEF Init
<1>2. InputInv
  <2>. DEFINE es == input.edges
              own == {es[i].label : i \in DOMAIN es}
  <2>1. es \in Seq(LabelledEdge(own))
    BY <1>1, EdgeListsAssumption
  <2>2. own \in SUBSET Labels
    BY <1>1 DEF Labels
  <2>. HIDE DEF own, es
  <2>3. LabelledEdge(own) \in SUBSET LabelledEdge(Labels)
    BY <2>2 DEF LabelledEdge
  <2>4. es \in Seq(LabelledEdge(Labels))
    BY <2>1, <2>3
  <2>5. IsRankSystem(input.ranks)
    BY <1>1, RankSystemsAssumption
  <2>6. /\ IsFiniteSet(Originals)
        /\ input.ranks.rank \in [NodeIds(Count0) -> Nat \union {NoRank}]
        /\ input.ranks.order \in [NodeIds(Count0) -> Nat \union {NoRank}]
        /\ input.ranks.layers \in Seq(Seq(NodeIds(Count0)))
    BY <2>5 DEF IsRankSystem, Originals, Count0
  <2>7. Originals = NodeIds(Count0)
    BY <2>6 DEF Originals
  <2>8. Count0 \in Nat
    BY <2>6, FS_CardinalityType DEF Count0
  <2>. QED
    BY <2>4, <2>6, <2>7, <2>8 DEF InputInv, es
<1>3. NodesInv
  <2>1. NodeCount = Count0 /\ DOMAIN rank = Originals
    BY <1>1 DEF NodeCount, Count0, Originals
  <2>. QED
    BY <2>1, <1>1, <1>2 DEF NodesInv, InputInv
<1>4. LoopInv
  <2>1. Len(input.edges) \in Nat
    BY <1>2 DEF InputInv
  <2>. QED
    BY <2>1, <1>1 DEF LoopInv
<1>5. LayersInv
  <2>1. DOMAIN rank = Originals /\ layers \in Seq(Seq(Originals)) /\ Len(layers) \in Nat
    BY <1>1, <1>2 DEF Originals, InputInv
  <2>2. \A k \in DOMAIN layers : InputLayer(k) = layers[k] /\ Len(layers[k]) \in Nat /\ DOMAIN layers[k] = 1 .. Len(layers[k])
    BY <1>1, <2>1 DEF InputLayer, LayerOf
  <2>. QED
    BY <2>1, <2>2, <1>1 DEF LayersInv
<1>. QED
  BY <1>2, <1>3, <1>4, <1>5 DEF Core

\* What the short branches leave alone.
LEMMA ShortFacts ==
    ASSUME [Next]_vars, ~LongEdge, ~Finish
    PROVE  UNCHANGED <<input, edges, rank, order, dummies, layers>>
  BY DEF Next, Step, DanglingEdge, MissingRank, Fail, SelfLoop, KeepEdge, Returned, vars

LEMMA InputIsKept == [Next]_vars => input' = input
  BY DEF Next, Step, DanglingEdge, MissingRank, Fail, SelfLoop, KeepEdge, LongEdge, Finish, Returned, vars

LEMMA StepInput == InputInv /\ [Next]_vars => InputInv'
<1>. SUFFICES ASSUME InputInv, [Next]_vars PROVE InputInv'
  OBVIOUS
<1>1. input' = input
  BY InputIsKept
<1>. QED
  BY <1>1 DEF InputInv, Originals, Count0

\* New nodes go behind the old ones.
LEMMA StepNodes == Core /\ [Next]_vars => NodesInv'
<1>. SUFFICES ASSUME Core, [Next]_vars PROVE NodesInv'
  OBVIOUS
<1>0. Originals' = Originals /\ Count0' = Count0 /\ input' = input
  BY InputIsKept DEF Originals, Count0
<1>1. /\ NodeCount \in Nat /\ NodeCount >= Count0 /\ Count0 \in Nat /\ Originals = NodeIds(Count0)
      /\ rank \in [NodeIds(NodeCount) -> Nat \union {NoRank}]
      /\ order \in [NodeIds(NodeCount) -> Nat \union {NoRank}]
      /\ dummies = DOMAIN rank \ Originals
      /\ \A v \in Originals : rank[v] = input.ranks.rank[v]
      /\ \A v \in dummies : rank[v] # NoRank
      /\ result # "Ok" => \A v \in Originals : order[v] = input.ranks.order[v]
  BY DEF Core, NodesInv, InputInv
<1>2. \A v \in Originals : v \in DOMAIN rank
  BY <1>1 DEF NodeIds
<1>3. CASE ~LongEdge /\ ~Finish
  <2>1. UNCHANGED <<rank, order, dummies>>
    BY <1>3, ShortFacts
  <2>2. result = "Ok" => result' = "Ok"
    BY <1>3 DEF Next, Step, DanglingEdge, MissingRank, Fail, SelfLoop, KeepEdge, Returned, AtEdge, vars
  <2>3. NodeCount' = NodeCount
    BY <2>1 DEF NodeCount
  <2>. QED
    BY <1>0, <1>1, <2>1, <2>2, <2>3 DEF NodesInv
<1>4. CASE LongEdge
  <2>. DEFINE n == NodeCount
              m == Span - 1
              f == rank[E.from]
  <2>1. /\ m \in Nat \ {0} /\ f \in Nat
        /\ NodeCount' = n + m /\ DOMAIN rank' = NodeIds(n + m)
        /\ rank' \in [NodeIds(n + m) -> Nat \union {NoRank}]
        /\ order' \in [NodeIds(n + m) -> Nat \union {NoRank}]
        /\ \A v \in DOMAIN rank : rank'[v] = rank[v] /\ order'[v] = order[v]
        /\ \A k \in 1 .. m : rank'[n + k - 1] = f + k
        /\ DOMAIN rank = NodeIds(n)
        /\ Range(NewDummies) = NodeIds(n + m) \ NodeIds(n)
        /\ dummies' = dummies \union Range(NewDummies)
        /\ result' = result
    BY <1>4, LongFacts
  <2>. HIDE DEF n, m, f
  <2>2. n \in Nat /\ n >= Count0
    BY <1>1 DEF n
  <2>3. \A v \in NodeIds(n) : v \in NodeIds(n + m)
    BY <2>1, <2>2 DEF NodeIds
  <2>4. \A v \in Originals : v \in NodeIds(n)
    BY <1>2, <2>1
  <2>5. dummies' = DOMAIN rank' \ Originals
    BY <1>1, <2>1, <2>3, <2>4
  <2>6. ASSUME NEW v \in dummies'
        PROVE  rank'[v] # NoRank
    <3>1. CASE v \in dummies
      BY <3>1, <1>1, <2>1
    <3>2. CASE v \in NodeIds(n + m) \ NodeIds(n)
      <4>1. v - n + 1 \in 1 .. m /\ n + (v - n + 1) - 1 = v
        BY <3>2, <2>1, <2>2 DEF NodeIds
      <4>2. rank'[v] = f + (v - n + 1)
        BY <4>1, <2>1
      <4>. QED
        BY <4>1, <4>2, <2>1 DEF NoRank
    <3>. QED
      BY <3>1, <3>2, <2>1, <2>6
  <2>7. n + m \in Nat /\ n + m >= Count0
    BY <1>1, <2>1, <2>2
  <2>8. \A v \in Originals : rank'[v] = input.ranks.rank[v] /\ (result' # "Ok" => order'[v] = input.ranks.order[v])
    BY <1>1, <1>2, <2>1
  <2>. QED
    BY <1>0, <2>1, <2>5, <2>6, <2>7, <2>8 DEF NodesInv
<1>5. CASE Finish
  <2>1. /\ UNCHANGED <<rank, dummies>> /\ result' = "Ok"
        /\ order' = [v \in DOMAIN order |-> IF Listed(v) = {} THEN order[v] ELSE Place(v)]
    BY <1>5 DEF Finish
  <2>2. NodeCount' = NodeCount
    BY <2>1 DEF NodeCount
  <2>3. \A v \in DOMAIN rank : Listed(v) # {} => Place(v) \in Nat
    BY PlaceIsThere DEF Core
  <2>4. order' \in [NodeIds(NodeCount) -> Nat \union {NoRank}]
    BY <1>1, <2>1, <2>3
  <2>. QED
    BY <1>0, <1>1, <2>1, <2>2, <2>4 DEF NodesInv
<1>. QED
  BY <1>3, <1>4, <1>5

\* The edges along a path.
LEMMA SegmentsAlong ==
    ASSUME NEW path \in Seq(Nat), Len(path) >= 1
    PROVE  /\ Segments(path) \in Seq(LabelledEdge(Labels)) /\ Len(Segments(path)) = Len(path) - 1
           /\ \A k \in 1 .. Len(path) - 1 : Segments(path)[k].from = path[k] /\ Segments(path)[k].to = path[k + 1]
<1>. DEFINE c == Len(path) - 1
            Along(k) == [from |-> path[k], to |-> path[k + 1], reversed |-> FALSE, label |-> NoLabel]
<1>1. c \in Nat
  OBVIOUS
<1>2. Segments(path) = [k \in 1 .. c |-> Along(k)]
  BY DEF Segments
<1>3. \A k \in 1 .. c : Along(k) \in LabelledEdge(Labels)
  BY DEF LabelledEdge, Labels
<1>6. \A k \in 1 .. c : Along(k).from = path[k] /\ Along(k).to = path[k + 1]
  OBVIOUS
<1>. HIDE DEF c, Along
<1>4. Segments(path) \in [1 .. c -> LabelledEdge(Labels)] /\ \A k \in 1 .. c : Segments(path)[k] = Along(k)
  BY <1>2, <1>3
<1>5. Segments(path) \in Seq(LabelledEdge(Labels)) /\ Len(Segments(path)) = c
  BY <1>1, <1>4
<1>. QED
  BY <1>4, <1>5, <1>6 DEF c

\* A chain along a path.
LEMMA ChainTyped ==
    ASSUME InputInv, LoopInv, AtEdge, NEW path \in Seq(Nat), NEW b \in BOOLEAN
    PROVE  ChainOf(path, b) \in Chain
<1>1. E.from \in Nat /\ E.to \in Nat /\ E.reversed \in BOOLEAN /\ E.label \in Labels
  BY EdgeFacts
<1>. QED
  BY <1>1 DEF ChainOf, Chain, OrigSource, OrigTarget

\* The loop appends one chain per edge.
LEMMA StepLoop == Core /\ [Next]_vars => LoopInv'
<1>. SUFFICES ASSUME Core, [Next]_vars PROVE LoopInv'
  OBVIOUS
<1>0. Labels' = Labels /\ Chain' = Chain /\ input' = input
  BY InputIsKept DEF Labels, Chain
<1>1. /\ InputInv /\ LoopInv
      /\ next \in 1 .. Len(input.edges) + 1 /\ Len(input.edges) \in Nat
      /\ newEdges \in Seq(LabelledEdge(Labels))
      /\ chains \in Seq(Chain) /\ Len(chains) = next - 1
      /\ result \in {"none", "Ok", "DanglingEdge", "MissingRank"}
      /\ result = "Ok" => next > Len(input.edges)
      /\ edges = IF result = "Ok" THEN newEdges ELSE input.edges
  BY DEF Core, LoopInv, InputInv
<1>2. CASE DanglingEdge \/ MissingRank
  <2>1. /\ result' \in {"DanglingEdge", "MissingRank"} /\ edges = input.edges
        /\ UNCHANGED <<edges, next, newEdges, chains>>
    BY <1>1, <1>2 DEF DanglingEdge, MissingRank, Fail, AtEdge
  <2>. QED
    BY <1>0, <1>1, <2>1 DEF LoopInv
<1>3. ASSUME AtEdge, result' = result, edges' = edges, next' = next + 1,
             NEW c \in Chain, chains' = Append(chains, c),
             NEW more \in Seq(LabelledEdge(Labels)), newEdges' = newEdges \o more
      PROVE  LoopInv'
  <2>1. next + 1 \in 1 .. Len(input.edges) + 1 /\ result = "none"
    BY <1>1, <1>3, EdgeFacts
  <2>2. newEdges' \in Seq(LabelledEdge(Labels))
    BY <1>1, <1>3
  <2>3. chains' \in Seq(Chain) /\ Len(chains') = (next + 1) - 1
    BY <1>1, <1>3
  <2>. QED
    BY <1>0, <1>1, <1>3, <2>1, <2>2, <2>3 DEF LoopInv
<1>4. CASE SelfLoop
  <2>. DEFINE e == [E EXCEPT !.reversed = FALSE]
  <2>1. AtEdge /\ E \in LabelledEdge(Labels) /\ E.from \in Nat
    BY <1>1, <1>4, EdgeFacts DEF SelfLoop
  <2>2. e \in LabelledEdge(Labels)
    BY <2>1 DEF LabelledEdge
  <2>3. ChainOf(<<E.from>>, TRUE) \in Chain
    <3>1. <<E.from>> \in Seq(Nat)
      BY <2>1
    <3>. QED
      BY <1>1, <2>1, <3>1, ChainTyped
  <2>4. /\ chains' = Append(chains, ChainOf(<<E.from>>, TRUE)) /\ newEdges' = Append(newEdges, e)
        /\ next' = next + 1 /\ result' = result /\ edges' = edges
    BY <1>4 DEF SelfLoop
  <2>. HIDE DEF e
  <2>5. <<e>> \in Seq(LabelledEdge(Labels)) /\ Append(newEdges, e) = newEdges \o <<e>>
    BY <1>1, <2>2
  <2>. QED
    BY <2>1, <2>3, <2>4, <2>5, <1>3
<1>5. CASE KeepEdge
  <2>1. AtEdge /\ E \in LabelledEdge(Labels) /\ E.from \in Nat /\ E.to \in Nat
    BY <1>1, <1>5, EdgeFacts DEF KeepEdge
  <2>2. ChainOf(<<E.from, E.to>>, FALSE) \in Chain
    <3>1. <<E.from, E.to>> \in Seq(Nat)
      BY <2>1
    <3>. QED
      BY <1>1, <2>1, <3>1, ChainTyped
  <2>3. /\ chains' = Append(chains, ChainOf(<<E.from, E.to>>, FALSE)) /\ newEdges' = Append(newEdges, E)
        /\ next' = next + 1 /\ result' = result /\ edges' = edges
    BY <1>5 DEF KeepEdge
  <2>4. <<E>> \in Seq(LabelledEdge(Labels)) /\ Append(newEdges, E) = newEdges \o <<E>>
    BY <1>1, <2>1
  <2>. QED
    BY <2>1, <2>2, <2>3, <2>4, <1>3
<1>6. CASE LongEdge
  <2>. DEFINE path == <<E.from>> \o NewDummies \o <<E.to>>
  <2>1. /\ path \in Seq(Nat) /\ Len(path) = (Span - 1) + 2 /\ Span - 1 \in Nat \ {0}
        /\ newEdges' = newEdges \o Segments(path)
        /\ chains' = Append(chains, ChainOf(path, FALSE))
        /\ next' = next + 1 /\ edges' = edges /\ result' = result
    BY <1>6, LongFacts
  <2>. HIDE DEF path
  <2>2. AtEdge
    BY <1>6 DEF LongEdge
  <2>3. ChainOf(path, FALSE) \in Chain
    BY <1>1, <2>1, <2>2, ChainTyped
  <2>4. Segments(path) \in Seq(LabelledEdge(Labels))
    BY <2>1, SegmentsAlong
  <2>. QED
    BY <2>1, <2>2, <2>3, <2>4, <1>3
<1>7. CASE Finish
  BY <1>0, <1>1, <1>7 DEF Finish, LoopInv
<1>8. CASE Returned \/ UNCHANGED vars
  <2>1. UNCHANGED <<edges, next, newEdges, chains, result>>
    BY <1>8 DEF Returned, vars
  <2>. QED
    BY <1>0, <1>1, <2>1 DEF LoopInv
<1>. QED
  BY <1>2, <1>4, <1>5, <1>6, <1>7, <1>8 DEF Next, Step

\* A dummy goes behind what stands in its layer.
LEMMA StepLayers == Core /\ [Next]_vars => LayersInv'
<1>. SUFFICES ASSUME Core, [Next]_vars PROVE LayersInv'
  OBVIOUS
<1>0. input' = input /\ \A k : InputLayer(k)' = InputLayer(k)
  BY InputIsKept DEF InputLayer, LayerOf
<1>1. /\ layers \in Seq(Seq(DOMAIN rank)) /\ Len(layers) \in Nat /\ DOMAIN layers = 1 .. Len(layers)
      /\ Len(input.ranks.layers) <= Len(layers)
      /\ Len(input.ranks.layers) \in Nat
      /\ \A k \in DOMAIN layers :
          /\ Len(InputLayer(k)) <= Len(layers[k])
          /\ \A p \in DOMAIN layers[k] : IF p <= Len(InputLayer(k)) THEN layers[k][p] = InputLayer(k)[p]
                                         ELSE layers[k][p] \in dummies
  BY DEF Core, LayersInv, InputInv
<1>2. CASE UNCHANGED <<rank, layers, dummies>>
  BY <1>0, <1>1, <1>2 DEF LayersInv
<1>3. CASE ~LongEdge
  BY <1>2, <1>3, ShortFacts DEF Finish
<1>4. CASE LongEdge
  <2>. DEFINE n == NodeCount
              m == Span - 1
              f == rank[E.from]
              last(r) == n + r - f - 2
  <2>1. /\ n \in Nat /\ m \in Nat \ {0} /\ f \in Nat
        /\ DOMAIN rank' = NodeIds(n + m) /\ DOMAIN rank = NodeIds(n)
        /\ Range(NewDummies) = NodeIds(n + m) \ NodeIds(n)
        /\ dummies' = dummies \union Range(NewDummies)
        /\ PushedBelow(NodeIds(n + m), layers, f, n, m, layers')
    BY <1>4, LongFacts
  <2>. HIDE DEF n, m, f
  <2>2. /\ layers' \in Seq(Seq(DOMAIN rank')) /\ Len(layers') >= Len(layers)
        /\ \A r \in DOMAIN layers' :
              layers'[r] = IF r \in f + 2 .. f + m + 1 THEN Append(LayerOf(layers, r), last(r)) ELSE LayerOf(layers, r)
    BY <2>1 DEF PushedBelow
  <2>3. ASSUME NEW r \in DOMAIN layers', NEW p \in DOMAIN layers'[r]
        PROVE  /\ Len(InputLayer(r)) <= Len(LayerOf(layers, r)) /\ LayerOf(layers, r) \in Seq(DOMAIN rank)
               /\ Len(layers'[r]) >= Len(LayerOf(layers, r)) /\ InputLayer(r) \in Seq(Originals)
               /\ IF p <= Len(InputLayer(r)) THEN layers'[r][p] = InputLayer(r)[p] ELSE layers'[r][p] \in dummies'
    <3>1. r \in Nat \ {0} /\ InputLayer(r) \in Seq(Originals)
      BY <2>2 DEF InputLayer, LayerOf, Core, InputInv
    <3>2. /\ LayerOf(layers, r) \in Seq(DOMAIN rank) /\ Len(InputLayer(r)) <= Len(LayerOf(layers, r))
          /\ \A q \in DOMAIN LayerOf(layers, r) :
                IF q <= Len(InputLayer(r)) THEN LayerOf(layers, r)[q] = InputLayer(r)[q]
                ELSE LayerOf(layers, r)[q] \in dummies
      <4>1. CASE r \in DOMAIN layers
        BY <4>1, <1>1 DEF LayerOf
      <4>2. CASE r \notin DOMAIN layers
        <5>1. r \notin DOMAIN input.ranks.layers
          BY <4>2, <3>1, <1>1 DEF Core, InputInv
        <5>2. InputLayer(r) = <<>> /\ LayerOf(layers, r) = <<>>
          BY <4>2, <5>1 DEF InputLayer, LayerOf
        <5>. QED
          BY <5>2
      <4>. QED
        BY <4>1, <4>2
    <3>3. CASE r \in f + 2 .. f + m + 1
      <4>. DEFINE old == LayerOf(layers, r)
      <4>1. layers'[r] = Append(old, last(r))
        BY <3>3, <2>2
      <4>2. last(r) \in Range(NewDummies)
        BY <3>3, <2>1 DEF NodeIds
      <4>. HIDE DEF old, last
      <4>3. Len(layers'[r]) = Len(old) + 1 /\ DOMAIN layers'[r] = 1 .. Len(old) + 1 /\ Len(old) \in Nat
            /\ DOMAIN old = 1 .. Len(old)
        BY <4>1, <3>2 DEF old
      <4>4. CASE p \in DOMAIN old
        <5>1. layers'[r][p] = old[p]
          BY <4>1, <4>4, <3>2 DEF old
        <5>. QED
          BY <5>1, <4>3, <4>4, <3>1, <3>2, <2>1 DEF old
      <4>5. CASE p = Len(old) + 1
        <5>1. layers'[r][p] = last(r)
          BY <4>1, <4>5, <3>2 DEF old
        <5>2. ~(p <= Len(InputLayer(r)))
          BY <4>3, <4>5, <3>1, <3>2 DEF old
        <5>. QED
          BY <5>1, <5>2, <4>2, <4>3, <3>1, <3>2, <2>1 DEF old
      <4>. QED
        BY <4>3, <4>4, <4>5
    <3>4. CASE r \notin f + 2 .. f + m + 1
      <4>1. layers'[r] = LayerOf(layers, r)
        BY <3>4, <2>2
      <4>. QED
        BY <4>1, <3>1, <3>2, <2>1
    <3>. QED
      BY <3>3, <3>4
  <2>4. ASSUME NEW r \in DOMAIN layers'
        PROVE  Len(InputLayer(r)) <= Len(layers'[r])
    <3>1. layers'[r] \in Seq(DOMAIN rank') /\ r \in Nat \ {0}
      BY <2>2
    <3>2. InputLayer(r) \in Seq(Originals)
      BY DEF InputLayer, LayerOf, Core, InputInv
    <3>3. CASE DOMAIN layers'[r] = {}
      <4>1. Len(layers'[r]) = 0
        BY <3>1, <3>3
      <4>2. r \notin f + 2 .. f + m + 1
        <5>. DEFINE old == LayerOf(layers, r)
        <5>1. old \in Seq(DOMAIN rank)
          <6>1. CASE r \in DOMAIN layers
            BY <6>1, <1>1 DEF LayerOf
          <6>2. CASE r \notin DOMAIN layers
            <7>1. old = <<>>
              BY <6>2 DEF LayerOf
            <7>. QED
              BY <7>1
          <6>. QED
            BY <6>1, <6>2
        <5>. HIDE DEF old
        <5>2. Len(Append(old, last(r))) # 0
          BY <5>1
        <5>. QED
          BY <4>1, <5>2, <2>2 DEF old
      <4>3. layers'[r] = LayerOf(layers, r)
        BY <4>2, <2>2
      <4>4. CASE r \in DOMAIN layers
        BY <4>3, <4>4, <1>1 DEF LayerOf
      <4>5. CASE r \notin DOMAIN layers
        <5>1. r \notin DOMAIN input.ranks.layers
          BY <4>5, <3>1, <1>1 DEF Core, InputInv
        <5>2. InputLayer(r) = <<>>
          BY <5>1 DEF InputLayer, LayerOf
        <5>. QED
          BY <5>2, <4>1
      <4>. QED
        BY <4>4, <4>5
    <3>4. CASE DOMAIN layers'[r] # {}
      <4>1. /\ Len(InputLayer(r)) <= Len(LayerOf(layers, r))
            /\ Len(layers'[r]) >= Len(LayerOf(layers, r))
            /\ LayerOf(layers, r) \in Seq(DOMAIN rank)
        BY <3>4, <2>3
      <4>. QED
        BY <4>1, <3>1, <3>2
    <3>. QED
      BY <3>3, <3>4
  <2>5. Len(input.ranks.layers) <= Len(layers')
    BY <1>1, <2>2
  <2>. QED
    BY <1>0, <2>2, <2>3, <2>4, <2>5 DEF LayersInv
<1>. QED
  BY <1>3, <1>4

\* The core holds in every state.
LEMMA CoreInvariant == Spec => []Core
<1>1. Core /\ [Next]_vars => Core'
  BY StepInput, StepNodes, StepLoop, StepLayers DEF Core
<1>. QED
  BY InitCore, <1>1, PTL DEF Spec

\* Type correctness: ids are dense, the dummies are exactly the ids behind the
\* caller's, and the loop has built one chain per edge it has passed.
THEOREM InsertionTypes == Spec => []TypeOK
<1>1. ASSUME Core
      PROVE  TypeOK
  <2>1. \A e \in LabelledEdge(Labels) : e \in LabelledEdge({e.label})
    BY DEF LabelledEdge
  <2>2. Range(edges) \in SUBSET LabelledEdge(Labels) /\ Range(newEdges) \in SUBSET LabelledEdge(Labels)
    BY <1>1 DEF Core, LoopInv, InputInv, Range
  <2>3. \A k \in DOMAIN layers : Range(layers[k]) \subseteq DOMAIN rank
    BY <1>1 DEF Core, LayersInv, Range
  <2>4. /\ DOMAIN rank = NodeIds(NodeCount) /\ Range(rank) \subseteq Nat \union {NoRank}
        /\ DOMAIN order = DOMAIN rank /\ Range(order) \subseteq Nat \union {NoRank}
        /\ dummies = DOMAIN rank \ Originals
    BY <1>1 DEF Core, NodesInv, Range
  <2>5. /\ next \in 1 .. Len(input.edges) + 1 /\ Len(chains) = next - 1
        /\ result \in {"none", "Ok", "DanglingEdge", "MissingRank"}
    BY <1>1 DEF Core, LoopInv
  <2>. QED
    BY <2>1, <2>2, <2>3, <2>4, <2>5 DEF TypeOK
<1>. QED
  BY <1>1, CoreInvariant, PTL

\* After an error the caller's edges, ranks and orders are as they were, and what
\* is left of the work so far stands behind the caller's nodes.
THEOREM ErrorsKeepTheEdges == Spec => []FailureKeepsEdges
<1>1. ASSUME Core
      PROVE  FailureKeepsEdges
  <2>. SUFFICES ASSUME result \in {"DanglingEdge", "MissingRank"}
                PROVE  /\ edges = input.edges
                       /\ \A v \in Originals : rank[v] = input.ranks.rank[v] /\ order[v] = input.ranks.order[v]
                       /\ \A k \in DOMAIN layers :
                            /\ IsPrefix(InputLayer(k), layers[k])
                            /\ \A p \in Len(InputLayer(k)) + 1 .. Len(layers[k]) : layers[k][p] \in dummies
    BY DEF FailureKeepsEdges, InputLayer, LayerOf
  <2>1. edges = input.edges
    BY <1>1 DEF Core, LoopInv
  <2>2. \A v \in Originals : rank[v] = input.ranks.rank[v] /\ order[v] = input.ranks.order[v]
    BY <1>1 DEF Core, NodesInv
  <2>3. ASSUME NEW k \in DOMAIN layers
        PROVE  /\ IsPrefix(InputLayer(k), layers[k])
               /\ \A p \in Len(InputLayer(k)) + 1 .. Len(layers[k]) : layers[k][p] \in dummies
    <3>. DEFINE s == InputLayer(k)
                t == layers[k]
    <3>1. t \in Seq(DOMAIN rank) /\ Len(s) <= Len(t)
          /\ \A p \in DOMAIN t : IF p <= Len(s) THEN t[p] = s[p] ELSE t[p] \in dummies
      BY <1>1 DEF Core, LayersInv
    <3>2. s \in Seq(Originals)
      BY <1>1 DEF InputLayer, LayerOf, Core, InputInv
    <3>. HIDE DEF s, t
    <3>3. \A p \in 1 .. Len(s) : t[p] = s[p]
      BY <3>1, <3>2
    <3>4. SubSeq(s, 1, Len(s)) = SubSeq(t, 1, Len(s))
      BY <3>1, <3>2, <3>3
    <3>5. \A p \in Len(s) + 1 .. Len(t) : t[p] \in dummies
      BY <3>1, <3>2
    <3>. QED
      BY <3>1, <3>4, <3>5 DEF IsPrefix, s, t
  <2>. QED
    BY <2>1, <2>2, <2>3
<1>. QED
  BY <1>1, CoreInvariant, PTL

-----------------------------------------------------------------------------
(* One edge of the caller, when none dangles.                               *)

\* The edge becomes the chain c along path, over m new dummies, and the edges
\* `more`, one per step of the path.
Passes(path, more, c, m) ==
    /\ path \in Seq(Nat) /\ more \in Seq(LabelledEdge(Labels)) /\ c \in Chain /\ m \in Nat
    /\ E.from \in Originals /\ E.to \in Originals
    /\ m = DummiesOn(input.ranks.rank, E)
    /\ IsSelfLoop(E) => m = 0 /\ path = <<E.from>>
    /\ ~IsSelfLoop(E) => /\ Len(path) = m + 2 /\ path[1] = E.from /\ path[m + 2] = E.to
                         /\ \A k \in 2 .. m + 1 : path[k] = NodeCount + k - 2
    /\ c.chain = path /\ c.label = E.label
    /\ <<c.source, c.target>> = IF E.reversed THEN <<E.to, E.from>> ELSE <<E.from, E.to>>
    /\ Len(more) = IF IsSelfLoop(E) THEN 1 ELSE Len(path) - 1
    /\ \A k \in DOMAIN more : /\ more[k].from = path[k]
                              /\ more[k].to = IF IsSelfLoop(E) THEN path[k] ELSE path[k + 1]
                              /\ \/ rank'[more[k].to] = rank'[more[k].from] + 1
                                 \/ more[k].to \in Originals /\ rank'[more[k].to] <= rank'[more[k].from]
    /\ \A k \in DOMAIN path : path[k] \in NodeIds(NodeCount + m)
    /\ NodeCount' = NodeCount + m /\ DOMAIN rank' = NodeIds(NodeCount + m)
    /\ \A v \in DOMAIN rank : v \in DOMAIN rank' /\ rank'[v] = rank[v]
    /\ dummies' = dummies \union (NodeIds(NodeCount + m) \ NodeIds(NodeCount))
    /\ chains' = Append(chains, c) /\ newEdges' = newEdges \o more /\ next' = next + 1
    /\ result' = "none"

\* Every branch that does not fail does so.
LEMMA EdgePasses ==
    ASSUME Core, NoDangling, SelfLoop \/ KeepEdge \/ LongEdge
    PROVE  \E path, more, c, m : Passes(path, more, c, m)
<1>. DEFINE n == NodeCount
            rk == input.ranks.rank
<1>1. AtEdge /\ Ranked /\ InputInv /\ LoopInv
  BY DEF SelfLoop, KeepEdge, LongEdge, Core
<1>2. /\ next \in DOMAIN input.edges /\ E = input.edges[next] /\ E \in LabelledEdge(Labels)
      /\ E.from \in Nat /\ E.to \in Nat /\ E.reversed \in BOOLEAN /\ result = "none"
  BY <1>1, EdgeFacts
<1>3. E.from \in Originals /\ E.to \in Originals
  BY <1>2 DEF NoDangling
<1>4. /\ n \in Nat /\ rank \in [NodeIds(n) -> Nat \union {NoRank}] /\ DOMAIN rank = NodeIds(n)
      /\ \A v \in Originals : rank[v] = rk[v]
  BY DEF Core, NodesInv
<1>5. /\ E.from \in DOMAIN rank /\ E.to \in DOMAIN rank
      /\ rank[E.from] \in Nat /\ rank[E.to] \in Nat
      /\ rank[E.from] = rk[E.from] /\ rank[E.to] = rk[E.to]
  BY <1>1, <1>3, <1>4 DEF Ranked, Found
<1>. HIDE DEF rk
<1>6. DummiesOn(rk, E) = IF Span > 1 THEN Span - 1 ELSE 0
  BY <1>5 DEF DummiesOn, Span
<1>7. ASSUME UNCHANGED <<rank, dummies>>
      PROVE  /\ NodeCount' = n + 0 /\ DOMAIN rank' = NodeIds(n + 0)
             /\ \A v \in DOMAIN rank : v \in DOMAIN rank' /\ rank'[v] = rank[v]
             /\ dummies' = dummies \union (NodeIds(n + 0) \ NodeIds(n))
  <2>1. n + 0 = n
    BY <1>4
  <2>2. NodeCount' = n
    BY <1>7 DEF NodeCount
  <2>. HIDE DEF n
  <2>. QED
    BY <1>4, <1>7, <2>1, <2>2
<1>8. CASE SelfLoop
  <2>. DEFINE e == [E EXCEPT !.reversed = FALSE]
              path == <<E.from>>
              more == <<e>>
              c == ChainOf(path, TRUE)
  <2>1. /\ E.from = E.to /\ IsSelfLoop(E) /\ Span = 0
    BY <1>5, <1>8 DEF SelfLoop, IsSelfLoop, Span
  <2>2. e \in LabelledEdge(Labels) /\ e.from = E.from /\ e.to = E.to
    BY <1>2 DEF LabelledEdge
  <2>. HIDE DEF e
  <2>3. /\ path \in Seq(Nat) /\ Len(path) = 1 /\ path[1] = E.from /\ DOMAIN path = {1}
        /\ more \in Seq(LabelledEdge(Labels)) /\ Len(more) = 1 /\ more[1] = e /\ DOMAIN more = {1}
    BY <1>2, <2>2
  <2>4. /\ c \in Chain /\ c.chain = path /\ c.label = E.label
        /\ <<c.source, c.target>> = IF E.reversed THEN <<E.to, E.from>> ELSE <<E.from, E.to>>
    <3>1. c \in Chain
      BY <1>1, <2>3, ChainTyped
    <3>. QED
      BY <3>1 DEF ChainOf, OrigSource, OrigTarget
  <2>5. /\ chains' = Append(chains, c) /\ newEdges' = newEdges \o more /\ next' = next + 1
        /\ result' = "none" /\ UNCHANGED <<rank, dummies>>
    <3>1. newEdges \in Seq(LabelledEdge(Labels)) /\ newEdges' = Append(newEdges, e)
      BY <1>1, <1>8 DEF LoopInv, SelfLoop, e
    <3>2. newEdges' = newEdges \o more
      BY <3>1, <2>2
    <3>. QED
      BY <1>2, <1>8, <3>2 DEF SelfLoop
  <2>6. \A k \in DOMAIN path : path[k] \in NodeIds(n + 0)
    BY <1>4, <1>5, <2>3
  <2>7. DummiesOn(rk, E) = 0
    BY <1>6, <2>1
  <2>. HIDE DEF path, more, c
  <2>8. \A k \in DOMAIN more : /\ more[k].from = path[k] /\ more[k].to = path[k]
                               /\ more[k].to \in Originals /\ rank'[more[k].to] <= rank'[more[k].from]
    BY <1>3, <1>5, <2>1, <2>2, <2>3, <2>5
  <2>. HIDE DEF n
  <2>9. path = <<E.from>>
    BY DEF path
  <2>10. Passes(path, more, c, 0)
    BY <1>3, <1>7, <2>1, <2>3, <2>4, <2>5, <2>6, <2>7, <2>8, <2>9 DEF Passes, n, rk
  <2>. QED
    BY <2>10
<1>9. CASE KeepEdge
  <2>. DEFINE path == <<E.from, E.to>>
              more == <<E>>
              c == ChainOf(path, FALSE)
  <2>1. /\ ~IsSelfLoop(E) /\ Span <= 1
    BY <1>9 DEF KeepEdge
  <2>3. /\ path \in Seq(Nat) /\ Len(path) = 2 /\ path[1] = E.from /\ path[2] = E.to /\ DOMAIN path = {1, 2}
        /\ more \in Seq(LabelledEdge(Labels)) /\ Len(more) = 1 /\ more[1] = E /\ DOMAIN more = {1}
    BY <1>2
  <2>4. /\ c \in Chain /\ c.chain = path /\ c.label = E.label
        /\ <<c.source, c.target>> = IF E.reversed THEN <<E.to, E.from>> ELSE <<E.from, E.to>>
    <3>1. c \in Chain
      BY <1>1, <2>3, ChainTyped
    <3>. QED
      BY <3>1 DEF ChainOf, OrigSource, OrigTarget
  <2>5. /\ chains' = Append(chains, c) /\ newEdges' = newEdges \o more /\ next' = next + 1
        /\ result' = "none" /\ UNCHANGED <<rank, dummies>>
    <3>1. newEdges \in Seq(LabelledEdge(Labels)) /\ newEdges' = Append(newEdges, E)
      BY <1>1, <1>9 DEF LoopInv, KeepEdge
    <3>2. newEdges' = newEdges \o more
      <4>. DEFINE T == LabelledEdge(Labels)
      <4>1. newEdges \in Seq(T) /\ E \in T
        BY <3>1, <1>2
      <4>. HIDE DEF T
      <4>. QED
        BY <4>1, <3>1
    <3>. QED
      BY <1>2, <1>9, <3>2 DEF KeepEdge
  <2>6. \A k \in DOMAIN path : path[k] \in NodeIds(n + 0)
    BY <1>4, <1>5, <2>3
  <2>7. DummiesOn(rk, E) = 0
    BY <1>5, <1>6, <2>1 DEF Span
  <2>. HIDE DEF path, more, c
  <2>8. \A k \in DOMAIN more : /\ more[k].from = path[k] /\ more[k].to = path[k + 1]
                               /\ \/ rank'[more[k].to] = rank'[more[k].from] + 1
                                  \/ more[k].to \in Originals /\ rank'[more[k].to] <= rank'[more[k].from]
    BY <1>3, <1>5, <2>1, <2>3, <2>5 DEF Span
  <2>9. Len(path) = 0 + 2 /\ path[0 + 2] = E.to /\ \A k \in 2 .. 0 + 1 : FALSE
    BY <2>3
  <2>. HIDE DEF n
  <2>10. Passes(path, more, c, 0)
    BY <1>3, <1>7, <2>1, <2>3, <2>4, <2>5, <2>6, <2>7, <2>8, <2>9 DEF Passes, n, rk
  <2>. QED
    BY <2>10
<1>10. CASE LongEdge
  <2>. DEFINE m == Span - 1
              f == rank[E.from]
              path == <<E.from>> \o NewDummies \o <<E.to>>
              more == Segments(path)
              c == ChainOf(path, FALSE)
  <2>1. /\ m \in Nat \ {0} /\ f \in Nat /\ rank[E.to] = f + m + 1
        /\ NodeCount' = n + m /\ DOMAIN rank' = NodeIds(n + m)
        /\ \A v \in DOMAIN rank : rank'[v] = rank[v]
        /\ \A k \in 1 .. m : rank'[n + k - 1] = f + k
        /\ Range(NewDummies) = NodeIds(n + m) \ NodeIds(n)
        /\ path \in Seq(Nat) /\ Len(path) = m + 2 /\ path[1] = E.from /\ path[m + 2] = E.to
        /\ \A k \in 2 .. m + 1 : path[k] = n + k - 2
        /\ newEdges' = newEdges \o more
        /\ chains' = Append(chains, c)
        /\ next' = next + 1 /\ dummies' = dummies \union Range(NewDummies)
        /\ result' = "none"
    BY <1>2, <1>10, LongFacts
  <2>2. c \in Chain /\ c.chain = path /\ c.label = E.label
        /\ <<c.source, c.target>> = IF E.reversed THEN <<E.to, E.from>> ELSE <<E.from, E.to>>
    <3>1. path \in Seq(Nat)
      BY <2>1
    <3>. HIDE DEF path
    <3>2. c \in Chain
      BY <1>1, <3>1, ChainTyped
    <3>. QED
      BY <3>2 DEF ChainOf, OrigSource, OrigTarget
  <2>. HIDE DEF path
  <2>3. /\ more \in Seq(LabelledEdge(Labels)) /\ Len(more) = m + 1
        /\ \A k \in 1 .. m + 1 : more[k].from = path[k] /\ more[k].to = path[k + 1]
    <3>0. path \in Seq(Nat) /\ Len(path) >= 1 /\ Len(path) - 1 = m + 1
      BY <2>1
    <3>. HIDE DEF m, n, f, c
    <3>1. /\ more \in Seq(LabelledEdge(Labels)) /\ Len(more) = Len(path) - 1
          /\ \A k \in 1 .. Len(path) - 1 : more[k].from = path[k] /\ more[k].to = path[k + 1]
      BY <3>0, SegmentsAlong
    <3>. HIDE DEF more
    <3>. QED
      BY <3>0, <3>1
  <2>4. DummiesOn(rk, E) = m /\ ~IsSelfLoop(E)
    BY <1>6, <1>5, <1>10 DEF LongEdge, IsSelfLoop, Span
  <2>. HIDE DEF m, f, more, c, n
  <2>5. \A v \in NodeIds(n) : v \in NodeIds(n + m)
    BY <1>4, <2>1 DEF NodeIds
  <2>6. ASSUME NEW k \in 1 .. m + 2
        PROVE  path[k] \in NodeIds(n + m) /\ rank'[path[k]] = f + k - 1
    <3>1. CASE k = 1
      BY <3>1, <1>4, <1>5, <2>1, <2>5 DEF f
    <3>2. CASE k = m + 2
      <4>1. rank'[path[k]] = f + m + 1
        BY <3>2, <1>5, <2>1
      <4>2. f + m + 1 = f + k - 1
        BY <3>2, <2>1
      <4>. QED
        BY <3>2, <4>1, <4>2, <1>4, <1>5, <2>1, <2>5
    <3>3. CASE k \in 2 .. m + 1
      <4>1. path[k] = n + (k - 1) - 1 /\ k - 1 \in 1 .. m
        BY <3>3, <1>4, <2>1
      <4>2. rank'[path[k]] = f + (k - 1)
        BY <4>1, <2>1
      <4>3. path[k] \in NodeIds(n + m)
        BY <4>1, <1>4, <2>1 DEF NodeIds
      <4>. QED
        BY <4>2, <4>3, <2>1
    <3>. QED
      BY <3>1, <3>2, <3>3, <2>1
  <2>7. ASSUME NEW k \in 1 .. m + 1
        PROVE  rank'[more[k].to] = rank'[more[k].from] + 1
    <3>1. k \in 1 .. m + 2 /\ k + 1 \in 1 .. m + 2
      BY <2>1
    <3>2. rank'[path[k + 1]] = f + (k + 1) - 1 /\ rank'[path[k]] = f + k - 1
      BY <2>6, <3>1
    <3>3. more[k].from = path[k] /\ more[k].to = path[k + 1]
      BY <2>3
    <3>4. f + (k + 1) - 1 = (f + k - 1) + 1
      BY <2>1
    <3>. QED
      BY <3>2, <3>3, <3>4
  <2>8. DOMAIN more = 1 .. m + 1 /\ DOMAIN path = 1 .. m + 2 /\ Len(more) = Len(path) - 1
    BY <2>1, <2>3
  <2>9. \A v \in DOMAIN rank : v \in DOMAIN rank' /\ rank'[v] = rank[v]
    BY <1>4, <2>1, <2>5
  <2>10. Passes(path, more, c, m)
    BY <1>3, <2>1, <2>2, <2>3, <2>4, <2>6, <2>7, <2>8, <2>9 DEF Passes, n, rk
  <2>. QED
    BY <2>10
<1>. QED
  BY <1>8, <1>9, <1>10

-----------------------------------------------------------------------------
(* What the steps do, for an induction over the edges.                      *)

\* An element of a joined sequence is one of the first or one of the second.
LEMMA JoinedAt ==
    ASSUME NEW S, NEW s \in Seq(S), NEW t \in Seq(S), NEW i \in DOMAIN (s \o t)
    PROVE  \/ i \in DOMAIN s /\ (s \o t)[i] = s[i]
           \/ \E k \in DOMAIN t : i = Len(s) + k /\ (s \o t)[i] = t[k]
<1>1. Len(s) \in Nat /\ Len(t) \in Nat /\ DOMAIN s = 1 .. Len(s) /\ DOMAIN t = 1 .. Len(t) /\ i \in 1 .. Len(s) + Len(t)
  OBVIOUS
<1>2. CASE i <= Len(s)
  BY <1>1, <1>2
<1>3. CASE ~(i <= Len(s))
  <2>1. i - Len(s) \in 1 .. Len(t) /\ i = Len(s) + (i - Len(s))
    BY <1>1, <1>3
  <2>2. (s \o t)[i] = t[i - Len(s)]
    BY <1>1, <1>3
  <2>. QED
    BY <1>1, <2>1, <2>2
<1>. QED
  BY <1>2, <1>3

\* The branches of the loop that keep an edge or split it.
Pass == SelfLoop \/ KeepEdge \/ LongEdge

\* Every other step leaves the nodes, the new edges and the chains as they are.
LEMMA OtherSteps ==
    ASSUME [Next]_vars, ~Pass
    PROVE  /\ UNCHANGED <<input, rank, dummies, newEdges, chains, next, layers>>
           /\ ~Finish => order' = order
  BY DEF Next, Step, Pass, DanglingEdge, MissingRank, Fail, Finish, Returned, vars

\* The hypothesis of the theorems below does not change.
LEMMA DanglingIsGiven == [Next]_vars => (NoDangling' <=> NoDangling) /\ Originals' = Originals
  BY InputIsKept DEF NoDangling, Originals

\* Every edge the loop has produced goes down one rank, but for those that did
\* not descend on entry.
EdgesInv ==
    NoDangling => \A i \in DOMAIN newEdges :
        /\ newEdges[i].from \in DOMAIN rank /\ newEdges[i].to \in DOMAIN rank
        /\ \/ rank[newEdges[i].to] = rank[newEdges[i].from] + 1
           \/ newEdges[i].to \in Originals /\ rank[newEdges[i].to] <= rank[newEdges[i].from]

LEMMA StepEdges == Core /\ EdgesInv /\ [Next]_vars => EdgesInv'
<1>. SUFFICES ASSUME Core, EdgesInv, [Next]_vars, NoDangling
              PROVE  EdgesInv'
  BY DanglingIsGiven DEF EdgesInv
<1>1. CASE ~Pass
  <2>1. UNCHANGED <<input, rank, newEdges>>
    BY <1>1, OtherSteps
  <2>. QED
    BY <2>1 DEF EdgesInv, NoDangling, Originals
<1>2. CASE Pass
  <2>1. PICK path, more, c, m : Passes(path, more, c, m)
    BY <1>2, EdgePasses DEF Pass
  <2>2. /\ more \in Seq(LabelledEdge(Labels)) /\ newEdges' = newEdges \o more
        /\ \A k \in DOMAIN more : more[k].from \in DOMAIN rank' /\ more[k].to \in DOMAIN rank'
        /\ \A k \in DOMAIN more :
              \/ rank'[more[k].to] = rank'[more[k].from] + 1
              \/ more[k].to \in Originals /\ rank'[more[k].to] <= rank'[more[k].from]
        /\ \A v \in DOMAIN rank : v \in DOMAIN rank' /\ rank'[v] = rank[v]
    <3>1. \A k \in DOMAIN more : k \in DOMAIN path /\ (~IsSelfLoop(E) => k + 1 \in DOMAIN path)
      <4>1. /\ path \in Seq(Nat) /\ more \in Seq(LabelledEdge(Labels))
            /\ Len(more) = IF IsSelfLoop(E) THEN 1 ELSE Len(path) - 1
            /\ IsSelfLoop(E) => path = <<E.from>>
        BY <2>1 DEF Passes
      <4>. QED
        BY <4>1
    <3>. QED
      BY <2>1, <3>1 DEF Passes
  <2>3. newEdges \in Seq(LabelledEdge(Labels)) /\ Originals' = Originals
    BY DanglingIsGiven DEF Core, LoopInv
  <2>4. ASSUME NEW i \in DOMAIN newEdges'
        PROVE  \/ i \in DOMAIN newEdges /\ newEdges'[i] = newEdges[i]
               \/ \E k \in DOMAIN more : newEdges'[i] = more[k]
    BY <2>2, <2>3, JoinedAt
  <2>. QED
    BY <2>2, <2>3, <2>4 DEF EdgesInv
<1>. QED
  BY <1>1, <1>2

\* Crossing reduction and coordinates are handed a graph whose edges join
\* adjacent ranks, but for those that did not descend on entry.
THEOREM EdgesJoinAdjacentRanks == Spec => []EdgesSpanOneRank
<1>1. Init => EdgesInv
  BY DEF Init, EdgesInv
<1>2. Core /\ EdgesInv => EdgesSpanOneRank
  BY DEF EdgesInv, EdgesSpanOneRank, Success, Core, LoopInv, Range
<1>. QED
  BY <1>1, <1>2, StepEdges, CoreInvariant, PTL DEF Spec

-----------------------------------------------------------------------------
(* Each dummy belongs to one chain.                                         *)

\* The places where s has a member of D.
Hits(s, D) == {i \in DOMAIN s : s[i] \in D}

\* u has them where its parts s and t have them.
HitsAlong(s, t, u, D) ==
    /\ Hits(t, D) = {} => Hits(u, D) = Hits(s, D)
    /\ \A k : Hits(s, D) = {} /\ Hits(t, D) = {k} => Hits(u, D) = {Len(s) + k}

\* Where a joined sequence has them.
LEMMA HitsJoined ==
    ASSUME NEW S, NEW s \in Seq(S), NEW t \in Seq(S), NEW D
    PROVE  HitsAlong(s, t, s \o t, D)
<1>1. /\ \A i \in DOMAIN s : i \in DOMAIN (s \o t) /\ (s \o t)[i] = s[i]
      /\ \A k \in DOMAIN t : Len(s) + k \in DOMAIN (s \o t) /\ (s \o t)[Len(s) + k] = t[k]
  OBVIOUS
<1>2. \A i \in DOMAIN (s \o t) : \/ i \in DOMAIN s /\ (s \o t)[i] = s[i]
                                 \/ \E k \in DOMAIN t : i = Len(s) + k /\ (s \o t)[i] = t[k]
  BY JoinedAt
<1>. DEFINE u == s \o t
<1>. HIDE DEF u
<1>. QED
  BY <1>1, <1>2 DEF HitsAlong, Hits, u

\* The places of a node on the chains cs.
OnChains(cs, d) ==
    {kp \in UNION {{k} \X DOMAIN cs[k].chain : k \in DOMAIN cs} : cs[kp[1]].chain[kp[2]] = d}

\* A new chain adds its own places.
LEMMA OnMoreChains ==
    ASSUME NEW cs \in Seq(Chain), NEW c \in Chain, NEW d
    PROVE  OnChains(Append(cs, c), d) = OnChains(cs, d) \union {<<Len(cs) + 1, q>> : q \in {q \in DOMAIN c.chain : c.chain[q] = d}}
<1>. DEFINE new == Append(cs, c)
            here == {<<Len(cs) + 1, q>> : q \in {q \in DOMAIN c.chain : c.chain[q] = d}}
<1>1. /\ DOMAIN new = DOMAIN cs \union {Len(cs) + 1} /\ Len(cs) + 1 \notin DOMAIN cs
      /\ \A k \in DOMAIN cs : new[k] = cs[k]
      /\ new[Len(cs) + 1] = c
  OBVIOUS
<1>. HIDE DEF new
<1>2. ASSUME NEW kp
      PROVE  kp \in OnChains(new, d) <=> kp \in OnChains(cs, d) \/ kp \in here
  <2>1. kp \in OnChains(new, d) <=>
           \E k \in DOMAIN new : \E q \in DOMAIN new[k].chain : kp = <<k, q>> /\ new[k].chain[q] = d
    BY DEF OnChains
  <2>2. kp \in OnChains(cs, d) <=>
           \E k \in DOMAIN cs : \E q \in DOMAIN cs[k].chain : kp = <<k, q>> /\ cs[k].chain[q] = d
    BY DEF OnChains
  <2>. QED
    BY <1>1, <2>1, <2>2
<1>. QED
  BY <1>2 DEF new

EdgesFrom(d) == {e \in LabelledEdge(Labels) : e.from = d}
EdgesTo(d) == {e \in LabelledEdge(Labels) : e.to = d}

\* Each dummy has one place on the chains, one edge out and one edge in.
PrivateInv ==
    NoDangling =>
        /\ \A k \in DOMAIN chains : \A p \in DOMAIN chains[k].chain : chains[k].chain[p] \in DOMAIN rank
        /\ \A d \in dummies : /\ \E kp : OnChains(chains, d) = {kp}
                              /\ \E i : Hits(newEdges, EdgesFrom(d)) = {i}
                              /\ \E i : Hits(newEdges, EdgesTo(d)) = {i}

\* A path meets no dummy that was there before it, and each of its own once.
LEMMA PathMeets ==
    ASSUME Core, NEW path, NEW more, NEW c, NEW m, Passes(path, more, c, m)
    PROVE  /\ \A d \in dummies : /\ {q \in DOMAIN path : path[q] = d} = {}
                                 /\ Hits(more, EdgesFrom(d)) = {} /\ Hits(more, EdgesTo(d)) = {}
           /\ \A d \in NodeIds(NodeCount + m) \ NodeIds(NodeCount) :
                 /\ {q \in DOMAIN path : path[q] = d} = {d - NodeCount + 2}
                 /\ Hits(more, EdgesFrom(d)) = {d - NodeCount + 2}
                 /\ Hits(more, EdgesTo(d)) = {d - NodeCount + 1}
<1>. DEFINE n == NodeCount
<1>1. /\ n \in Nat /\ dummies = NodeIds(n) \ Originals /\ Originals \in SUBSET NodeIds(n)
  BY DEF Core, NodesInv, InputInv, NodeIds
<1>2. /\ path \in Seq(Nat) /\ more \in Seq(LabelledEdge(Labels)) /\ m \in Nat
      /\ E.from \in Originals /\ E.to \in Originals
      /\ IsSelfLoop(E) => m = 0 /\ path = <<E.from>>
      /\ ~IsSelfLoop(E) => /\ Len(path) = m + 2 /\ path[1] = E.from /\ path[m + 2] = E.to
                           /\ \A k \in 2 .. m + 1 : path[k] = n + k - 2
      /\ Len(more) = IF IsSelfLoop(E) THEN 1 ELSE Len(path) - 1
      /\ \A k \in DOMAIN more : /\ more[k].from = path[k]
                                /\ more[k].to = IF IsSelfLoop(E) THEN path[k] ELSE path[k + 1]
  BY DEF Passes
<1>. HIDE DEF n
<1>3. CASE IsSelfLoop(E)
  <2>1. NodeIds(n + m) \ NodeIds(n) = {}
    BY <1>1, <1>2, <1>3 DEF NodeIds
  <2>2. DOMAIN path = {1} /\ path[1] \in Originals /\ DOMAIN more = {1}
    BY <1>2, <1>3
  <2>3. \A d \in dummies : d # path[1]
    BY <1>1, <2>2
  <2>. QED
    BY <2>1, <2>2, <2>3, <1>2, <1>3 DEF Hits, EdgesFrom, EdgesTo, n
<1>4. CASE ~IsSelfLoop(E)
  <2>1. DOMAIN path = 1 .. m + 2 /\ DOMAIN more = 1 .. m + 1
    <3>1. Len(path) = m + 2 /\ Len(more) = m + 1
      BY <1>2, <1>4
    <3>. QED
      BY <1>2, <3>1
  <2>2. ASSUME NEW d, d \notin Originals, NEW q \in 1 .. m + 2
        PROVE  path[q] = d => q \in 2 .. m + 1 /\ d = n + q - 2 /\ d \in NodeIds(n + m) \ NodeIds(n)
    <3>1. CASE q = 1 \/ q = m + 2
      BY <3>1, <1>2, <1>4, <2>2
    <3>2. CASE q \in 2 .. m + 1
      BY <3>2, <1>1, <1>2, <1>4 DEF NodeIds
    <3>. QED
      BY <3>1, <3>2, <1>2
  <2>3. ASSUME NEW d, d \notin Originals, d \notin NodeIds(n + m) \ NodeIds(n)
        PROVE  /\ {q \in DOMAIN path : path[q] = d} = {}
               /\ Hits(more, EdgesFrom(d)) = {} /\ Hits(more, EdgesTo(d)) = {}
    <3>1. \A q \in 1 .. m + 2 : path[q] # d
      BY <2>2, <2>3
    <3>2. \A k \in 1 .. m + 1 : k \in 1 .. m + 2 /\ k + 1 \in 1 .. m + 2
      BY <1>2
    <3>3. ASSUME NEW k \in DOMAIN more
          PROVE  more[k].from # d /\ more[k].to # d
      <4>1. more[k].from = path[k] /\ more[k].to = path[k + 1]
        BY <1>2, <1>4
      <4>2. k \in 1 .. m + 2 /\ k + 1 \in 1 .. m + 2
        BY <2>1, <3>2
      <4>. QED
        BY <4>1, <4>2, <3>1
    <3>4. Hits(more, EdgesFrom(d)) = {} /\ Hits(more, EdgesTo(d)) = {}
      BY <3>3 DEF Hits, EdgesFrom, EdgesTo
    <3>. QED
      BY <2>1, <3>1, <3>4
  <2>4. ASSUME NEW d \in NodeIds(n + m) \ NodeIds(n)
        PROVE  /\ {q \in DOMAIN path : path[q] = d} = {d - n + 2}
               /\ Hits(more, EdgesFrom(d)) = {d - n + 2}
               /\ Hits(more, EdgesTo(d)) = {d - n + 1}
    <3>1. d \in Nat /\ d - n + 2 \in 2 .. m + 1 /\ d \notin Originals
      BY <1>1, <1>2 DEF NodeIds
    <3>2. path[d - n + 2] = d
      <4>1. path[d - n + 2] = n + (d - n + 2) - 2
        BY <1>2, <1>4, <3>1
      <4>. QED
        BY <4>1, <1>1, <3>1
    <3>3. \A q \in 1 .. m + 2 : path[q] = d => q = d - n + 2
      <4>1. \A q \in 1 .. m + 2 : path[q] = d => d = n + q - 2
        BY <2>2, <3>1
      <4>. QED
        BY <4>1, <1>1, <1>2, <3>1
    <3>4. d - n + 2 \in 1 .. m + 2 /\ d - n + 2 \in 1 .. m + 1 /\ d - n + 1 \in 1 .. m + 1 /\ (d - n + 1) + 1 = d - n + 2
      BY <1>1, <1>2, <3>1
    <3>5. {q \in DOMAIN path : path[q] = d} = {d - n + 2}
      BY <2>1, <3>2, <3>3, <3>4
    <3>6. \A k \in 1 .. m + 1 : /\ more[k] \in LabelledEdge(Labels) /\ more[k].from = path[k] /\ more[k].to = path[k + 1]
                                /\ k \in 1 .. m + 2 /\ k + 1 \in 1 .. m + 2
      BY <1>2, <1>4, <2>1
    <3>7. \A k \in 1 .. m + 1 : more[k].from = d <=> k = d - n + 2
      BY <3>2, <3>3, <3>6
    <3>8. \A k \in 1 .. m + 1 : more[k].to = d <=> k = d - n + 1
      <4>1. \A k \in 1 .. m + 1 : more[k].to = d => k + 1 = d - n + 2
        BY <3>3, <3>6
      <4>2. more[d - n + 1].to = d
        BY <3>2, <3>4, <3>6
      <4>3. \A k \in 1 .. m + 1 : k + 1 = d - n + 2 => k = d - n + 1
        BY <1>1, <1>2, <3>1
      <4>. QED
        BY <4>1, <4>2, <4>3
    <3>9. Hits(more, EdgesFrom(d)) = {d - n + 2} /\ Hits(more, EdgesTo(d)) = {d - n + 1}
      BY <2>1, <3>4, <3>6, <3>7, <3>8 DEF Hits, EdgesFrom, EdgesTo
    <3>. QED
      BY <3>5, <3>9
  <2>5. \A d \in dummies : d \notin Originals /\ d \notin NodeIds(n + m) \ NodeIds(n)
    BY <1>1
  <2>. QED
    BY <2>3, <2>4, <2>5 DEF n
<1>. QED
  BY <1>3, <1>4

LEMMA StepPrivate == Core /\ EdgesInv /\ PrivateInv /\ [Next]_vars => PrivateInv'
<1>. SUFFICES ASSUME Core, EdgesInv, PrivateInv, [Next]_vars, NoDangling
              PROVE  PrivateInv'
  BY DanglingIsGiven DEF PrivateInv
<1>0. Labels' = Labels /\ \A d : EdgesFrom(d)' = EdgesFrom(d) /\ EdgesTo(d)' = EdgesTo(d)
  BY DEF Labels, EdgesFrom, EdgesTo, LabelledEdge
<1>1. CASE ~Pass
  <2>1. UNCHANGED <<rank, dummies, newEdges, chains>>
    BY <1>1, OtherSteps
  <2>. QED
    BY <1>0, <2>1 DEF PrivateInv
<1>2. CASE Pass
  <2>1. PICK path, more, c, m : Passes(path, more, c, m)
    BY <1>2, EdgePasses DEF Pass
  <2>. DEFINE n == NodeCount
              new == NodeIds(n + m) \ NodeIds(n)
  <2>2. /\ more \in Seq(LabelledEdge(Labels)) /\ newEdges' = newEdges \o more
        /\ c \in Chain /\ c.chain = path /\ chains' = Append(chains, c)
        /\ \A k \in DOMAIN path : path[k] \in NodeIds(n + m)
        /\ DOMAIN rank' = NodeIds(n + m)
        /\ \A v \in DOMAIN rank : v \in DOMAIN rank'
        /\ dummies' = dummies \union new
    BY <2>1 DEF Passes
  <2>3. newEdges \in Seq(LabelledEdge(Labels)) /\ chains \in Seq(Chain) /\ DOMAIN rank = NodeIds(n)
    BY DEF Core, LoopInv, NodesInv
  <2>4. /\ \A d \in dummies : /\ {q \in DOMAIN path : path[q] = d} = {}
                              /\ Hits(more, EdgesFrom(d)) = {} /\ Hits(more, EdgesTo(d)) = {}
        /\ \A d \in new :
              /\ {q \in DOMAIN path : path[q] = d} = {d - n + 2}
              /\ Hits(more, EdgesFrom(d)) = {d - n + 2}
              /\ Hits(more, EdgesTo(d)) = {d - n + 1}
    BY <2>1, PathMeets
  <2>5. ASSUME NEW d \in new
        PROVE  /\ OnChains(chains, d) = {}
               /\ Hits(newEdges, EdgesFrom(d)) = {} /\ Hits(newEdges, EdgesTo(d)) = {}
    <3>1. d \notin DOMAIN rank
      BY <2>3
    <3>2. OnChains(chains, d) = {}
      BY <3>1 DEF PrivateInv, OnChains
    <3>3. \A i \in DOMAIN newEdges : newEdges[i].from # d /\ newEdges[i].to # d
      BY <3>1 DEF EdgesInv
    <3>. QED
      BY <3>2, <3>3 DEF Hits, EdgesFrom, EdgesTo
  <2>. HIDE DEF n, new
  <2>6. ASSUME NEW k \in DOMAIN chains', NEW p \in DOMAIN chains'[k].chain
        PROVE  chains'[k].chain[p] \in DOMAIN rank'
    <3>1. /\ k \in DOMAIN chains \/ k = Len(chains) + 1
          /\ k \in DOMAIN chains => chains'[k] = chains[k]
          /\ k = Len(chains) + 1 => chains'[k] = c
      BY <2>2, <2>3
    <3>. QED
      BY <3>1, <2>2 DEF PrivateInv
  <2>7. \A d : OnChains(chains', d) = OnChains(chains, d) \union {<<Len(chains) + 1, q>> : q \in {q \in DOMAIN path : path[q] = d}}
    BY <2>2, <2>3, OnMoreChains
  <2>8. /\ \A d : Hits(more, EdgesFrom(d)) = {} => Hits(newEdges', EdgesFrom(d)) = Hits(newEdges, EdgesFrom(d))
        /\ \A d : Hits(more, EdgesTo(d)) = {} => Hits(newEdges', EdgesTo(d)) = Hits(newEdges, EdgesTo(d))
        /\ \A d, k : Hits(newEdges, EdgesFrom(d)) = {} /\ Hits(more, EdgesFrom(d)) = {k}
              => Hits(newEdges', EdgesFrom(d)) = {Len(newEdges) + k}
        /\ \A d, k : Hits(newEdges, EdgesTo(d)) = {} /\ Hits(more, EdgesTo(d)) = {k}
              => Hits(newEdges', EdgesTo(d)) = {Len(newEdges) + k}
    <3>1. ASSUME NEW D
          PROVE  /\ Hits(more, D) = {} => Hits(newEdges', D) = Hits(newEdges, D)
                 /\ \A k : Hits(newEdges, D) = {} /\ Hits(more, D) = {k} => Hits(newEdges', D) = {Len(newEdges) + k}
      <4>. DEFINE S == LabelledEdge(Labels)
      <4>1. newEdges \in Seq(S) /\ more \in Seq(S) /\ newEdges' = newEdges \o more
        BY <2>2, <2>3
      <4>. HIDE DEF S
      <4>2. HitsAlong(newEdges, more, newEdges', D)
        BY <4>1, HitsJoined
      <4>. QED
        BY <4>2 DEF HitsAlong
    <3>. QED
      BY <3>1
  <2>9. ASSUME NEW d \in dummies'
        PROVE  /\ \E kp : OnChains(chains', d) = {kp}
               /\ \E i : Hits(newEdges', EdgesFrom(d)) = {i}
               /\ \E i : Hits(newEdges', EdgesTo(d)) = {i}
    <3>1. CASE d \in dummies
      <4>1. OnChains(chains', d) = OnChains(chains, d)
        <5>. DEFINE on == {q \in DOMAIN path : path[q] = d}
        <5>1. on = {}
          BY <2>4, <3>1
        <5>2. OnChains(chains', d) = OnChains(chains, d) \union {<<Len(chains) + 1, q>> : q \in on}
          BY <2>7
        <5>. HIDE DEF on
        <5>. QED
          BY <5>1, <5>2
      <4>. QED
        <5>1. /\ \E kp : OnChains(chains, d) = {kp}
              /\ \E i : Hits(newEdges, EdgesFrom(d)) = {i}
              /\ \E i : Hits(newEdges, EdgesTo(d)) = {i}
          BY <3>1 DEF PrivateInv
        <5>2. /\ Hits(newEdges', EdgesFrom(d)) = Hits(newEdges, EdgesFrom(d))
              /\ Hits(newEdges', EdgesTo(d)) = Hits(newEdges, EdgesTo(d))
          BY <2>4, <2>8, <3>1
        <5>. QED
          BY <4>1, <5>1, <5>2
    <3>2. CASE d \in new
      <4>1. OnChains(chains', d) = {<<Len(chains) + 1, d - n + 2>>}
        BY <2>4, <2>5, <2>7, <3>2
      <4>2. /\ Hits(newEdges', EdgesFrom(d)) = {Len(newEdges) + (d - n + 2)}
            /\ Hits(newEdges', EdgesTo(d)) = {Len(newEdges) + (d - n + 1)}
        BY <2>4, <2>5, <2>8, <3>2
      <4>. QED
        BY <4>1, <4>2
    <3>. QED
      BY <3>1, <3>2, <2>2
  <2>. QED
    BY <1>0, <2>6, <2>9 DEF PrivateInv
<1>. QED
  BY <1>1, <1>2

\* No dummy is shared: it stands on one chain, once, and one edge enters it and
\* one leaves.
THEOREM DummiesAreNotShared == Spec => []DummiesArePrivate
<1>1. Init => EdgesInv /\ PrivateInv
  BY DEF Init, EdgesInv, PrivateInv
<1>2. ASSUME Core, PrivateInv
      PROVE  DummiesArePrivate
  <2>. SUFFICES ASSUME Success, NEW d \in dummies
                PROVE  /\ Cardinality(OnChains(chains, d)) = 1
                       /\ Cardinality({i \in DOMAIN edges : edges[i].from = d}) = 1
                       /\ Cardinality({i \in DOMAIN edges : edges[i].to = d}) = 1
    BY DEF DummiesArePrivate, OnChains
  <2>1. /\ \E kp : OnChains(chains, d) = {kp}
        /\ \E i : Hits(newEdges, EdgesFrom(d)) = {i}
        /\ \E i : Hits(newEdges, EdgesTo(d)) = {i}
    BY <1>2 DEF PrivateInv, Success
  <2>2. edges = newEdges /\ edges \in Seq(LabelledEdge(Labels))
    BY <1>2 DEF Core, LoopInv, Success
  <2>3. \A i \in DOMAIN edges : edges[i] \in LabelledEdge(Labels)
    BY <2>2
  <2>4. /\ {i \in DOMAIN edges : edges[i].from = d} = Hits(newEdges, EdgesFrom(d))
        /\ {i \in DOMAIN edges : edges[i].to = d} = Hits(newEdges, EdgesTo(d))
    BY <2>2, <2>3 DEF Hits, EdgesFrom, EdgesTo
  <2>5. \A x : Cardinality({x}) = 1
    BY FS_Singleton
  <2>. QED
    BY <2>1, <2>4, <2>5
<1>. QED
  BY <1>1, <1>2, StepEdges, StepPrivate, CoreInvariant, PTL DEF Spec

-----------------------------------------------------------------------------
(* The layers.                                                              *)

GivenConsistent == Consistent(input.ranks.rank, input.ranks.order, input.ranks.layers)

\* The nodes whose places the phase answers for.
Kept == IF GivenConsistent THEN DOMAIN rank ELSE dummies

\* Each of them stands in the layer of its rank, once, and in no other; after the
\* last step at the place its order says.
PlacesInv ==
    /\ \A v \in Kept : /\ rank[v] \in Nat /\ rank[v] + 1 \in DOMAIN layers
                       /\ \E p \in DOMAIN layers[rank[v] + 1] : layers[rank[v] + 1][p] = v
    /\ \A k \in DOMAIN layers : \A p \in DOMAIN layers[k] : layers[k][p] \in Kept =>
          /\ rank[layers[k][p]] = k - 1
          /\ \A q \in DOMAIN layers[k] : layers[k][p] = layers[k][q] => p = q
          /\ result = "Ok" => order[layers[k][p]] = p - 1

LEMMA InitPlaces == Init => PlacesInv
<1>. SUFFICES ASSUME Init PROVE PlacesInv
  OBVIOUS
<1>1. /\ Core /\ result = "none" /\ layers \in Seq(Seq(DOMAIN rank))
      /\ rank \in [DOMAIN rank -> Nat \union {NoRank}] /\ order \in [DOMAIN rank -> Nat \union {NoRank}]
  BY InitCore DEF Core, LayersInv, NodesInv, Init
<1>2. CASE ~GivenConsistent
  <2>1. Kept = {}
    BY <1>2 DEF Kept, Init
  <2>. QED
    BY <2>1 DEF PlacesInv
<1>3. CASE GivenConsistent
  <2>0. Kept = DOMAIN rank
    BY <1>3 DEF Kept
  <2>1. Consistent(rank, order, layers)
    BY <1>3 DEF GivenConsistent, Init
  <2>2. ASSUME NEW v \in DOMAIN rank
        PROVE  /\ rank[v] \in Nat /\ rank[v] + 1 \in DOMAIN layers
               /\ \E p \in DOMAIN layers[rank[v] + 1] : layers[rank[v] + 1][p] = v
    <3>1. rank[v] + 1 \in DOMAIN layers /\ order[v] + 1 \in DOMAIN layers[rank[v] + 1] /\ layers[rank[v] + 1][order[v] + 1] = v
      BY <2>1 DEF Consistent, Placed
    <3>2. rank[v] \in Int /\ rank[v] + 1 \in Nat \ {0}
      BY <1>1, <3>1 DEF NoRank
    <3>. QED
      BY <3>1, <3>2
  <2>3. ASSUME NEW k \in DOMAIN layers, NEW p \in DOMAIN layers[k], NEW q \in DOMAIN layers[k], layers[k][p] = layers[k][q],
               layers[k][p] \in DOMAIN rank
        PROVE  p = q
    <3>1. p - 1 = q - 1
      BY <2>1, <2>3 DEF Consistent, Placed
    <3>2. p \in Int /\ q \in Int
      BY <1>1
    <3>. QED
      BY <3>1, <3>2
  <2>4. \A k \in DOMAIN layers : \A p \in DOMAIN layers[k] : layers[k][p] \in DOMAIN rank => rank[layers[k][p]] = k - 1
    BY <2>1 DEF Consistent, Placed
  <2>. QED
    BY <1>1, <2>0, <2>2, <2>3, <2>4 DEF PlacesInv
<1>. QED
  BY <1>2, <1>3

\* The layer of rank r - 1, before and after the push.
HasGrown(W, old, f, n, m, r, grown) ==
    /\ r \in Nat \ {0} /\ old \in Seq(W)
    /\ \A p \in DOMAIN old : p \in DOMAIN grown /\ grown[p] = old[p]
    /\ \A p \in DOMAIN grown : p \in DOMAIN old \/ (p = Len(old) + 1 /\ r \in f + 2 .. f + m + 1)
    /\ r \in f + 2 .. f + m + 1 => Len(old) + 1 \in DOMAIN grown /\ grown[Len(old) + 1] = n + r - f - 2

\* A layer after the push: what was there, and perhaps one node behind it.
LEMMA PushedLayer ==
    ASSUME NEW V, NEW W \in SUBSET V, NEW ls \in Seq(Seq(W)), NEW f \in Nat, NEW n \in Nat, NEW m \in Nat,
           NEW out, PushedBelow(V, ls, f, n, m, out), NEW r \in DOMAIN out
    PROVE  HasGrown(W, LayerOf(ls, r), f, n, m, r, out[r])
<1>. DEFINE old == LayerOf(ls, r)
            end == n + r - f - 2
<1>1. out \in Seq(Seq(V)) /\ out[r] = IF r \in f + 2 .. f + m + 1 THEN Append(old, end) ELSE old
  BY DEF PushedBelow
<1>2. r \in Nat \ {0}
  <2>. DEFINE T == Seq(V)
  <2>1. out \in Seq(T)
    BY <1>1
  <2>. HIDE DEF T
  <2>. QED
    BY <2>1
<1>3. old \in Seq(W)
  <2>1. CASE r \in DOMAIN ls
    <3>. DEFINE T == Seq(W)
    <3>1. ls \in Seq(T)
      OBVIOUS
    <3>. HIDE DEF T
    <3>2. ls[r] \in T
      BY <3>1, <2>1
    <3>. QED
      BY <3>2, <2>1 DEF LayerOf, T
  <2>2. CASE r \notin DOMAIN ls
    BY <2>2 DEF LayerOf
  <2>. QED
    BY <2>1, <2>2
<1>. HIDE DEF old, end
<1>4. CASE r \in f + 2 .. f + m + 1
  <2>1. out[r] = Append(old, end)
    BY <1>1, <1>4
  <2>2. /\ DOMAIN old = 1 .. Len(old) /\ DOMAIN Append(old, end) = 1 .. Len(old) + 1 /\ Len(old) \in Nat
        /\ \A p \in DOMAIN old : Append(old, end)[p] = old[p]
        /\ Append(old, end)[Len(old) + 1] = end
    BY <1>3
  <2>. QED
    BY <1>2, <1>3, <1>4, <2>1, <2>2 DEF HasGrown, old, end
<1>5. CASE r \notin f + 2 .. f + m + 1
  <2>1. out[r] = old
    BY <1>1, <1>5
  <2>2. HasGrown(W, old, f, n, m, r, old)
    BY <1>2, <1>3, <1>5 DEF HasGrown
  <2>. QED
    BY <2>1, <2>2 DEF old
<1>. QED
  BY <1>4, <1>5

LEMMA StepPlaces == Core /\ PlacesInv /\ [Next]_vars => PlacesInv'
<1>. SUFFICES ASSUME Core, PlacesInv, [Next]_vars
              PROVE  PlacesInv'
  OBVIOUS
<1>0. GivenConsistent' <=> GivenConsistent
  BY InputIsKept DEF GivenConsistent
<1>1. /\ layers \in Seq(Seq(DOMAIN rank)) /\ DOMAIN order = DOMAIN rank
      /\ Kept \in SUBSET DOMAIN rank
      /\ \A v \in Kept : /\ rank[v] \in Nat /\ rank[v] + 1 \in DOMAIN layers
                         /\ \E p \in DOMAIN layers[rank[v] + 1] : layers[rank[v] + 1][p] = v
      /\ \A k \in DOMAIN layers : \A p \in DOMAIN layers[k] : layers[k][p] \in DOMAIN rank
      /\ \A k \in DOMAIN layers : \A p \in DOMAIN layers[k] : layers[k][p] \in Kept =>
            /\ rank[layers[k][p]] = k - 1
            /\ \A q \in DOMAIN layers[k] : layers[k][p] = layers[k][q] => p = q
            /\ result = "Ok" => order[layers[k][p]] = p - 1
  <2>1. layers \in Seq(Seq(DOMAIN rank)) /\ DOMAIN order = DOMAIN rank /\ Kept \in SUBSET DOMAIN rank
    BY DEF Core, LayersInv, NodesInv, Kept
  <2>2. ASSUME NEW k \in DOMAIN layers, NEW p \in DOMAIN layers[k]
        PROVE  layers[k][p] \in DOMAIN rank
    <3>. DEFINE V == DOMAIN rank
    <3>1. layers \in Seq(Seq(V))
      BY <2>1
    <3>. HIDE DEF V
    <3>2. layers[k] \in Seq(V)
      BY <3>1
    <3>3. layers[k][p] \in V
      BY <3>2
    <3>. QED
      BY <3>3 DEF V
  <2>. QED
    BY <2>1, <2>2 DEF PlacesInv
<1>2. CASE ~LongEdge /\ ~Finish
  <2>1. UNCHANGED <<rank, order, layers>>
    BY <1>2, ShortFacts
  <2>2. result' = "Ok" => result = "Ok"
    BY <1>2 DEF Next, Step, DanglingEdge, MissingRank, Fail, SelfLoop, KeepEdge, Returned, AtEdge, vars
  <2>3. Kept' = Kept
    BY <1>0, <1>2, <2>1, OtherSteps, ShortFacts DEF Kept
  <2>. QED
    BY <1>1, <2>1, <2>2, <2>3 DEF PlacesInv
<1>3. CASE Finish
  <2>1. /\ UNCHANGED <<rank, layers>>
        /\ order' = [v \in DOMAIN order |-> IF Listed(v) = {} THEN order[v] ELSE Place(v)]
    BY <1>3 DEF Finish
  <2>0. Kept' = Kept
    BY <1>0, <1>3 DEF Kept, Finish
  <2>2. ASSUME NEW k \in DOMAIN layers, NEW p \in DOMAIN layers[k], layers[k][p] \in Kept
        PROVE  order'[layers[k][p]] = p - 1
    <3>. DEFINE v == layers[k][p]
    <3>1. v \in Kept /\ v \in DOMAIN rank /\ v \in Range(layers[k]) /\ rank[v] = k - 1 /\ k \in Nat
      BY <1>1, <2>2 DEF Range
    <3>. HIDE DEF v
    <3>2. Listed(v) # {}
      BY <3>1 DEF Listed
    <3>3. PICK k2 \in DOMAIN layers : \E p2 \in DOMAIN layers[k2] : layers[k2][p2] = v /\ Place(v) = p2 - 1
      BY <3>1, <3>2, PlaceIsThere DEF Core
    <3>4. PICK p2 \in DOMAIN layers[k2] : layers[k2][p2] = v /\ Place(v) = p2 - 1
      BY <3>3
    <3>5. k2 = k
      <4>1. rank[layers[k2][p2]] = k2 - 1
        BY <1>1, <3>1, <3>4
      <4>2. rank[v] = k2 - 1 /\ k2 \in Int
        BY <1>1, <3>4, <4>1
      <4>. QED
        BY <3>1, <4>2
    <3>6. p2 = p
      BY <1>1, <3>1, <3>4, <3>5 DEF v
    <3>. QED
      BY <1>1, <2>1, <3>1, <3>2, <3>4, <3>6 DEF v
  <2>3. rank' = rank /\ layers' = layers
    BY <2>1
  <2>4. /\ \A v \in Kept' : /\ rank'[v] \in Nat /\ rank'[v] + 1 \in DOMAIN layers'
                            /\ \E p \in DOMAIN layers'[rank'[v] + 1] : layers'[rank'[v] + 1][p] = v
        /\ \A k \in DOMAIN layers' : \A p \in DOMAIN layers'[k] : layers'[k][p] \in Kept' =>
              /\ rank'[layers'[k][p]] = k - 1
              /\ \A q \in DOMAIN layers'[k] : layers'[k][p] = layers'[k][q] => p = q
    BY <1>1, <2>0, <2>3
  <2>5. \A k \in DOMAIN layers' : \A p \in DOMAIN layers'[k] : layers'[k][p] \in Kept' => order'[layers'[k][p]] = p - 1
    BY <2>0, <2>2, <2>3
  <2>. QED
    BY <2>4, <2>5 DEF PlacesInv
<1>4. CASE LongEdge
  <2>. DEFINE n == NodeCount
              m == Span - 1
              f == rank[E.from]
              V == NodeIds(n + m)
  <2>1. /\ n \in Nat /\ m \in Nat \ {0} /\ f \in Nat
        /\ DOMAIN rank' = V /\ DOMAIN rank = NodeIds(n)
        /\ \A v \in DOMAIN rank : rank'[v] = rank[v]
        /\ \A k \in 1 .. m : rank'[n + k - 1] = f + k
        /\ PushedBelow(V, layers, f, n, m, layers')
        /\ result' = result
    BY <1>4, LongFacts
  <2>0. /\ Kept' \in SUBSET V
        /\ \A v \in DOMAIN rank : v \in Kept' => v \in Kept
    <3>1. dummies' = dummies \union (V \ DOMAIN rank) /\ dummies \in SUBSET DOMAIN rank /\ DOMAIN rank \in SUBSET V
      <4>1. dummies' = dummies \union Range(NewDummies) /\ Range(NewDummies) = V \ DOMAIN rank
        BY <1>4, LongFacts
      <4>2. dummies \in SUBSET DOMAIN rank
        BY DEF Core, NodesInv
      <4>. QED
        BY <4>1, <4>2, <2>1 DEF NodeIds
    <3>. HIDE DEF V
    <3>. QED
      BY <1>0, <2>1, <3>1 DEF Kept
  <2>2. result' = "none"
    BY <2>1, <1>4 DEF LongEdge, AtEdge
  <2>. HIDE DEF n, m, f
  <2>3. DOMAIN rank \in SUBSET V
    BY <2>1 DEF NodeIds
  <2>4. V = DOMAIN rank'
    BY <2>1
  <2>. HIDE DEF V
  <2>5. ASSUME NEW r \in DOMAIN layers'
        PROVE  HasGrown(DOMAIN rank, LayerOf(layers, r), f, n, m, r, layers'[r])
    <3>. DEFINE W == DOMAIN rank
    <3>1. W \in SUBSET V /\ layers \in Seq(Seq(W)) /\ m \in Nat
      BY <2>1, <2>3, <1>1
    <3>. HIDE DEF W
    <3>2. HasGrown(W, LayerOf(layers, r), f, n, m, r, layers'[r])
      BY <2>1, <3>1, PushedLayer
    <3>. QED
      BY <3>2 DEF W
  <2>6. layers' \in Seq(Seq(V)) /\ Len(layers') \in Nat /\ Len(layers') >= Len(layers) /\ Len(layers') >= f + m + 1
    BY <2>1 DEF PushedBelow
  <2>7. DOMAIN layers' = 1 .. Len(layers') /\ \A r \in DOMAIN layers : r \in DOMAIN layers'
    BY <2>6, <1>1
  <2>8. ASSUME NEW v \in Kept'
        PROVE  /\ rank'[v] \in Nat /\ rank'[v] + 1 \in DOMAIN layers'
               /\ \E p \in DOMAIN layers'[rank'[v] + 1] : layers'[rank'[v] + 1][p] = v
    <3>1. CASE v \in DOMAIN rank
      <4>. DEFINE r == rank[v] + 1
      <4>1. rank[v] \in Nat /\ r \in DOMAIN layers /\ r \in DOMAIN layers'
        BY <1>1, <2>0, <2>7, <3>1
      <4>2. PICK p \in DOMAIN layers[r] : layers[r][p] = v
        BY <1>1, <2>0, <3>1
      <4>3. LayerOf(layers, r) = layers[r]
        BY <4>1 DEF LayerOf
      <4>4. rank'[v] = rank[v]
        BY <2>1, <3>1
      <4>. HIDE DEF r
      <4>5. p \in DOMAIN layers'[r] /\ layers'[r][p] = v
        BY <2>5, <4>1, <4>2, <4>3 DEF HasGrown
      <4>6. r = rank'[v] + 1
        BY <4>4 DEF r
      <4>. QED
        BY <4>1, <4>4, <4>5, <4>6
    <3>2. CASE v \notin DOMAIN rank
      <4>. DEFINE r == f + (v - n + 1) + 1
                  p == Len(LayerOf(layers, r)) + 1
      <4>1. v \in Int /\ v - n + 1 \in 1 .. m /\ n + (v - n + 1) - 1 = v
        BY <2>0, <2>1, <3>2 DEF NodeIds, V
      <4>2. rank'[v] = f + (v - n + 1)
        <5>1. rank'[n + (v - n + 1) - 1] = f + (v - n + 1)
          BY <2>1, <4>1
        <5>. QED
          BY <5>1, <4>1
      <4>3. r \in f + 2 .. f + m + 1 /\ r \in DOMAIN layers' /\ n + r - f - 2 = v
        <5>1. r = f + v - n + 2 /\ r >= f + 2 /\ r <= f + m + 1 /\ r \in Nat \ {0} /\ f + m + 1 \in Nat
          BY <4>1, <2>1
        <5>2. r \in 1 .. Len(layers')
          <6>. HIDE DEF r
          <6>1. r <= Len(layers')
            BY <5>1, <2>6
          <6>. QED
            BY <5>1, <6>1, <2>6
        <5>3. r \in f + 2 .. f + m + 1 /\ n + r - f - 2 = v
          BY <4>1, <5>1, <2>1
        <5>4. r \in DOMAIN layers'
          BY <5>2, <2>7
        <5>. QED
          BY <5>3, <5>4
      <4>4. p \in DOMAIN layers'[r] /\ layers'[r][p] = v
        <5>. HIDE DEF r
        <5>. QED
          BY <2>5, <4>3 DEF HasGrown
      <4>5. f + (v - n + 1) \in Nat
        BY <2>1, <4>1
      <4>. HIDE DEF p
      <4>. QED
        BY <4>2, <4>3, <4>4, <4>5
    <3>. QED
      BY <3>1, <3>2
  <2>9. ASSUME NEW r \in DOMAIN layers', NEW p \in DOMAIN layers'[r], layers'[r][p] \in Kept'
        PROVE  /\ rank'[layers'[r][p]] = r - 1
               /\ \A q \in DOMAIN layers'[r] : layers'[r][p] = layers'[r][q] => p = q
    <3>. DEFINE old == LayerOf(layers, r)
                end == n + r - f - 2
    <3>1. /\ r \in Nat \ {0} /\ old \in Seq(DOMAIN rank)
          /\ \A q \in DOMAIN old : q \in DOMAIN layers'[r] /\ layers'[r][q] = old[q]
          /\ \A q \in DOMAIN layers'[r] : q \in DOMAIN old \/ (q = Len(old) + 1 /\ r \in f + 2 .. f + m + 1)
          /\ r \in f + 2 .. f + m + 1 => Len(old) + 1 \in DOMAIN layers'[r] /\ layers'[r][Len(old) + 1] = end
      BY <2>5 DEF HasGrown
    <3>2. \A q \in DOMAIN old : r \in DOMAIN layers /\ old = layers[r]
      BY DEF LayerOf
    <3>3. \A q \in DOMAIN old : /\ old[q] \in DOMAIN rank
                                /\ old[q] \in Kept' => /\ rank[old[q]] = r - 1
                                                       /\ \A q2 \in DOMAIN old : old[q] = old[q2] => q = q2
      BY <3>2, <1>1, <2>0
    <3>4. r \in f + 2 .. f + m + 1 => end \notin DOMAIN rank /\ rank'[end] = r - 1
      <4>. SUFFICES ASSUME r \in f + 2 .. f + m + 1 PROVE end \notin DOMAIN rank /\ rank'[end] = r - 1
        OBVIOUS
      <4>1. r - f - 1 \in 1 .. m /\ n + (r - f - 1) - 1 = end /\ f + (r - f - 1) = r - 1
        BY <2>1
      <4>2. end \notin DOMAIN rank
        BY <2>1 DEF NodeIds
      <4>3. rank'[n + (r - f - 1) - 1] = f + (r - f - 1)
        BY <2>1, <4>1
      <4>. QED
        BY <4>1, <4>2, <4>3
    <3>. HIDE DEF old, end
    <3>5. ASSUME NEW q \in DOMAIN layers'[r]
          PROVE  \/ q \in DOMAIN old /\ layers'[r][q] = old[q] /\ old[q] \in DOMAIN rank /\ rank'[old[q]] = rank[old[q]]
                 \/ q = Len(old) + 1 /\ layers'[r][q] = end /\ end \notin DOMAIN rank /\ rank'[end] = r - 1
      BY <2>1, <3>1, <3>3, <3>4
    <3>6. rank'[layers'[r][p]] = r - 1
      BY <2>9, <3>3, <3>5
    <3>7. ASSUME NEW q \in DOMAIN layers'[r], layers'[r][p] = layers'[r][q]
          PROVE  p = q
      BY <2>9, <3>3, <3>5, <3>7
    <3>. QED
      BY <3>6, <3>7
  <2>. QED
    BY <2>2, <2>8, <2>9 DEF PlacesInv
<1>. QED
  BY <1>2, <1>3, <1>4

\* The layers have grown only to the last dummy pushed.
LEMMA InitHeight == Init => GrownForDummies
  BY DEF Init, GrownForDummies

LEMMA StepHeight == Core /\ GrownForDummies /\ [Next]_vars => GrownForDummies'
<1>. SUFFICES ASSUME Core, GrownForDummies, [Next]_vars
              PROVE  GrownForDummies'
  OBVIOUS
<1>1. CASE ~LongEdge
  <2>1. UNCHANGED <<input, rank, dummies, layers>>
    BY <1>1, ShortFacts, InputIsKept DEF Finish
  <2>. QED
    BY <2>1 DEF GrownForDummies
<1>2. CASE LongEdge
  <2>. DEFINE n == NodeCount
              m == Span - 1
              f == rank[E.from]
  <2>1. /\ n \in Nat /\ m \in Nat \ {0} /\ f \in Nat /\ DOMAIN rank = NodeIds(n)
        /\ \A v \in DOMAIN rank : rank'[v] = rank[v]
        /\ \A k \in 1 .. m : rank'[n + k - 1] = f + k
        /\ Range(NewDummies) = NodeIds(n + m) \ NodeIds(n)
        /\ dummies' = dummies \union Range(NewDummies) /\ input' = input
        /\ Len(layers') \in {Len(layers), f + m + 1}
    BY <1>2, LongFacts DEF PushedBelow
  <2>. HIDE DEF n, m, f
  <2>2. dummies \in SUBSET DOMAIN rank
    BY DEF Core, NodesInv
  <2>3. CASE Len(layers') = Len(layers)
    <3>1. \A d \in dummies : d \in dummies' /\ rank'[d] = rank[d]
      BY <2>1, <2>2
    <3>. QED
      BY <2>1, <2>3, <3>1 DEF GrownForDummies
  <2>4. CASE Len(layers') = f + m + 1
    <3>1. n + m - 1 \in dummies'
      BY <2>1 DEF NodeIds
    <3>2. rank'[n + m - 1] = f + m
      <4>1. m \in 1 .. m
        BY <2>1
      <4>. QED
        BY <2>1, <4>1
    <3>. QED
      BY <2>4, <3>1, <3>2 DEF GrownForDummies
  <2>. QED
    BY <2>1, <2>3, <2>4
<1>. QED
  BY <1>1, <1>2

\* Whatever layers are handed over, they grow as far as the dummies take it, and
\* every dummy has its place in them; given consistent ranks, orders and layers,
\* the phase leaves consistent ones, and no node of the caller loses its place.
THEOREM ConsistencyIsKept == Spec => []LayersStayConsistent
<1>1. ASSUME Core, PlacesInv, GrownForDummies
      PROVE  LayersStayConsistent
  <2>. SUFFICES ASSUME result = "Ok"
                PROVE  /\ Placed(dummies, rank, order, layers) /\ GrownForDummies
                       /\ GivenConsistent => /\ Consistent(rank, order, layers)
                                             /\ \A v \in Originals : order[v] = input.ranks.order[v]
    BY DEF LayersStayConsistent, Success, GivenConsistent
  <2>1. /\ layers \in Seq(Seq(DOMAIN rank)) /\ Originals \in SUBSET DOMAIN rank
        /\ dummies \in SUBSET Kept
        /\ \A v \in Kept : /\ rank[v] \in Nat /\ rank[v] + 1 \in DOMAIN layers
                           /\ \E p \in DOMAIN layers[rank[v] + 1] : layers[rank[v] + 1][p] = v
        /\ \A k \in DOMAIN layers : \A p \in DOMAIN layers[k] : layers[k][p] \in Kept =>
              rank[layers[k][p]] = k - 1 /\ order[layers[k][p]] = p - 1
    <3>1. Originals \in SUBSET DOMAIN rank /\ dummies \in SUBSET DOMAIN rank
      BY <1>1 DEF Core, InputInv, NodesInv, NodeIds
    <3>2. dummies \in SUBSET Kept
      BY <3>1 DEF Kept
    <3>. QED
      BY <1>1, <3>1, <3>2 DEF PlacesInv, Core, LayersInv
  <2>2. ASSUME NEW v \in Kept
        PROVE  /\ order[v] + 1 \in DOMAIN layers[rank[v] + 1]
               /\ layers[rank[v] + 1][order[v] + 1] = v
    <3>. DEFINE k == rank[v] + 1
    <3>1. k \in DOMAIN layers
      BY <2>1
    <3>2. PICK p \in DOMAIN layers[k] : layers[k][p] = v
      BY <2>1
    <3>. HIDE DEF k
    <3>3. order[v] = p - 1 /\ p \in Int
      BY <2>1, <3>1, <3>2
    <3>4. order[v] + 1 = p
      BY <3>3
    <3>. QED
      BY <3>2, <3>4 DEF k
  <2>3. Placed(Kept, rank, order, layers) /\ Placed(dummies, rank, order, layers)
    BY <2>1, <2>2 DEF Placed
  <2>4. ASSUME GivenConsistent
        PROVE  Consistent(rank, order, layers)
    BY <2>3, <2>4 DEF Consistent, Kept
  <2>5. ASSUME GivenConsistent, NEW v \in Originals
        PROVE  order[v] = input.ranks.order[v]
    <3>. DEFINE k == input.ranks.rank[v] + 1
                p == input.ranks.order[v] + 1
    <3>1. k \in DOMAIN input.ranks.layers /\ p \in DOMAIN input.ranks.layers[k] /\ input.ranks.layers[k][p] = v
      BY <2>5 DEF GivenConsistent, Consistent, Placed, Originals
    <3>2. input.ranks.order[v] \in Int
      BY <1>1 DEF Core, InputInv, NoRank
    <3>. HIDE DEF k
    <3>3. /\ InputLayer(k) = input.ranks.layers[k]
          /\ input.ranks.layers \in Seq(Seq(Originals)) /\ Len(input.ranks.layers) <= Len(layers)
      BY <3>1, <1>1 DEF InputLayer, LayerOf, Core, InputInv, LayersInv
    <3>4. k \in DOMAIN layers
      BY <3>1, <3>3, <2>1
    <3>5. Len(InputLayer(k)) <= Len(layers[k])
          /\ \A q \in DOMAIN layers[k] : q <= Len(InputLayer(k)) => layers[k][q] = InputLayer(k)[q]
      BY <3>4, <1>1 DEF Core, LayersInv
    <3>6. InputLayer(k) \in Seq(Originals) /\ layers[k] \in Seq(DOMAIN rank)
      BY <3>1, <3>3, <3>4, <2>1
    <3>. HIDE DEF p
    <3>7. p \in DOMAIN layers[k] /\ layers[k][p] = v /\ p \in Int
      <4>. DEFINE s == InputLayer(k)
                  t == layers[k]
      <4>1. /\ s \in Seq(Originals) /\ t \in Seq(DOMAIN rank) /\ p \in DOMAIN s /\ s[p] = v
            /\ Len(s) <= Len(t) /\ \A q \in DOMAIN t : q <= Len(s) => t[q] = s[q]
        BY <3>1, <3>3, <3>5, <3>6
      <4>. HIDE DEF s, t
      <4>2. p \in DOMAIN t /\ t[p] = v /\ p \in Int
        BY <4>1
      <4>. QED
        BY <4>2 DEF t
    <3>8. order[v] = p - 1
      BY <2>1, <2>5, <3>4, <3>7 DEF Kept
    <3>. QED
      BY <3>2, <3>8 DEF p
  <2>. QED
    BY <1>1, <2>3, <2>4, <2>5
<1>. QED
  BY <1>1, InitPlaces, StepPlaces, InitHeight, StepHeight, CoreInvariant, PTL DEF Spec

-----------------------------------------------------------------------------
(* The chains cover the edges.                                              *)

\* The arcs of a list of edges.
ArcsAlong(es) == [i \in DOMAIN es |-> Arc(es[i])]

\* The arcs of a path are pairs of ids, in their order.
LEMMA ArcsTyped ==
    /\ \A es \in Seq(LabelledEdge(Labels)) : ArcsAlong(es) \in Seq(Nat \X Nat)
    /\ \A path \in Seq(Nat) : path # <<>> => PathArcs(path) \in Seq(Nat \X Nat)
<1>1. ASSUME NEW es \in Seq(LabelledEdge(Labels))
      PROVE  ArcsAlong(es) \in Seq(Nat \X Nat)
  <2>1. \A i \in 1 .. Len(es) : Arc(es[i]) \in Nat \X Nat
    <3>1. \A i \in 1 .. Len(es) : es[i] \in LabelledEdge(Labels)
      OBVIOUS
    <3>2. \A e \in LabelledEdge(Labels) : Arc(e) \in Nat \X Nat
      BY DEF Arc, LabelledEdge
    <3>. QED
      BY <3>1, <3>2
  <2>2. ArcsAlong(es) \in [1 .. Len(es) -> Nat \X Nat]
    BY <2>1 DEF ArcsAlong
  <2>. QED
    BY <2>2
<1>2. ASSUME NEW path \in Seq(Nat), path # <<>>
      PROVE  PathArcs(path) \in Seq(Nat \X Nat)
  <2>1. Len(path) \in Nat \ {0} /\ \A k \in 1 .. Len(path) : path[k] \in Nat
    BY <1>2
  <2>2. CASE Len(path) = 1
    <3>1. path[1] \in Nat
      BY <2>1, <2>2
    <3>. QED
      BY <2>2, <3>1 DEF PathArcs
  <2>3. CASE Len(path) # 1
    <3>. DEFINE n == Len(path) - 1
    <3>1. n \in Nat /\ \A k \in 1 .. n : <<path[k], path[k + 1]>> \in Nat \X Nat
      BY <2>1, <2>3
    <3>2. PathArcs(path) = [k \in 1 .. n |-> <<path[k], path[k + 1]>>]
      BY <2>3 DEF PathArcs
    <3>. HIDE DEF n
    <3>3. PathArcs(path) \in [1 .. n -> Nat \X Nat]
      BY <3>1, <3>2
    <3>. QED
      BY <3>1, <3>3
  <2>. QED
    BY <2>2, <2>3
<1>. QED
  BY <1>1, <1>2

\* Joined edges have joined arcs.
LEMMA ArcsJoined ==
    ASSUME NEW es \in Seq(LabelledEdge(Labels)), NEW more \in Seq(LabelledEdge(Labels))
    PROVE  ArcsAlong(es \o more) = ArcsAlong(es) \o ArcsAlong(more)
<1>. DEFINE both == es \o more
            a == ArcsAlong(es)
            b == ArcsAlong(more)
<1>1. a \in Seq(Nat \X Nat) /\ b \in Seq(Nat \X Nat) /\ Len(a) = Len(es) /\ Len(b) = Len(more)
      /\ both \in Seq(LabelledEdge(Labels)) /\ Len(both) = Len(es) + Len(more)
  <2>1. a \in Seq(Nat \X Nat) /\ b \in Seq(Nat \X Nat)
    BY ArcsTyped
  <2>2. DOMAIN a = 1 .. Len(es) /\ DOMAIN b = 1 .. Len(more)
    BY DEF ArcsAlong
  <2>. QED
    BY <2>1, <2>2
<1>2. /\ \A i \in 1 .. Len(es) : a[i] = Arc(es[i]) /\ both[i] = es[i]
      /\ \A k \in 1 .. Len(more) : b[k] = Arc(more[k]) /\ both[Len(es) + k] = more[k]
  BY DEF ArcsAlong
<1>3. DOMAIN ArcsAlong(both) = 1 .. Len(es) + Len(more) /\ \A i \in 1 .. Len(es) + Len(more) : ArcsAlong(both)[i] = Arc(both[i])
  BY <1>1 DEF ArcsAlong
<1>4. ArcsAlong(both) \in Seq(Nat \X Nat) /\ Len(ArcsAlong(both)) = Len(es) + Len(more)
  <2>1. ArcsAlong(both) \in Seq(Nat \X Nat)
    <3>. HIDE DEF both
    <3>. QED
      BY <1>1, ArcsTyped
  <2>. QED
    BY <1>3, <2>1
<1>. HIDE DEF both, a, b
<1>5. a \o b \in Seq(Nat \X Nat) /\ Len(a \o b) = Len(es) + Len(more)
  <2>. DEFINE S == Nat \X Nat
  <2>1. a \in Seq(S) /\ b \in Seq(S) /\ Len(a) = Len(es) /\ Len(b) = Len(more)
    BY <1>1
  <2>. HIDE DEF S
  <2>2. a \o b \in Seq(S) /\ Len(a \o b) = Len(es) + Len(more)
    BY <2>1
  <2>. QED
    BY <2>2 DEF S
<1>6. ASSUME NEW i \in 1 .. Len(es) + Len(more)
      PROVE  ArcsAlong(both)[i] = (a \o b)[i]
  <2>1. CASE i <= Len(es)
    BY <1>1, <1>2, <1>3, <2>1
  <2>2. CASE ~(i <= Len(es))
    <3>1. i - Len(es) \in 1 .. Len(more) /\ Len(es) + (i - Len(es)) = i
      BY <2>2
    <3>2. (a \o b)[i] = b[i - Len(es)]
      BY <1>1, <2>2, <3>1
    <3>3. ArcsAlong(both)[i] = Arc(both[Len(es) + (i - Len(es))])
      BY <1>3, <3>1
    <3>. QED
      BY <1>2, <3>1, <3>2, <3>3
  <2>. QED
    BY <2>1, <2>2
<1>7. ArcsAlong(both) = a \o b
  <2>. DEFINE S == Nat \X Nat
              u == ArcsAlong(both)
              v == a \o b
              n == Len(es) + Len(more)
  <2>1. u \in Seq(S) /\ v \in Seq(S) /\ Len(u) = n /\ Len(v) = n /\ \A i \in 1 .. n : u[i] = v[i]
    BY <1>4, <1>5, <1>6
  <2>. HIDE DEF S, u, v, n
  <2>2. u = v
    BY <2>1
  <2>. QED
    BY <2>2 DEF u, v
<1>. QED
  BY <1>7 DEF both, a, b

\* The arcs along each chain.
ChainArcs(cs) == [k \in DOMAIN cs |-> PathArcs(cs[k].chain)]

\* The chain of the k-th edge is the one the contract gives it.
CoversEdge(c, e, k) ==
    /\ c.chain = PathOf(Count0, input.edges, input.ranks.rank, k) /\ c.chain # <<>>
    /\ <<c.source, c.target>> = IF e.reversed THEN <<e.to, e.from>> ELSE <<e.from, e.to>>
    /\ c.label = e.label

\* The loop has added as many nodes as the edges it passed take dummies, each of
\* these edges has its chain, and the new edges are the chains laid end to end.
ChainsInv ==
    NoDangling =>
        /\ NodeCount = Count0 + DummiesBefore(input.edges, input.ranks.rank, next)
        /\ \A k \in DOMAIN chains : CoversEdge(chains[k], input.edges[k], k)
        /\ ArcsAlong(newEdges) = FlattenSeq(ChainArcs(chains))

LEMMA InitChains == Init => ChainsInv
<1>. SUFFICES ASSUME Init PROVE ChainsInv
  OBVIOUS
<1>1. /\ NodeCount = Count0 /\ Count0 \in Nat /\ next = 1 /\ chains = <<>> /\ newEdges = <<>>
  BY InitCore DEF Init, NodeCount, Count0, Originals, Core, InputInv
<1>2. DummiesBefore(input.edges, input.ranks.rank, 1) = 0
  <2>1. 1 .. 1 - 1 = {}
    OBVIOUS
  <2>2. \A f : SumFunctionOnSet(f, {}) = 0
    BY SumOfNone
  <2>. QED
    BY <2>1, <2>2 DEF DummiesBefore, SumFunction
<1>3. ArcsAlong(<<>>) = <<>> /\ ChainArcs(<<>>) = <<>> /\ FlattenSeq(<<>>) = <<>>
  BY DEF ArcsAlong, ChainArcs, FlattenSeq
<1>. QED
  BY <1>1, <1>2, <1>3 DEF ChainsInv

\* The path of the pass is the one of the contract.
LEMMA PathIsGiven ==
    ASSUME Core, NoDangling, NEW path, NEW more, NEW c, NEW m, Passes(path, more, c, m), E = input.edges[next],
           NodeCount = Count0 + DummiesBefore(input.edges, input.ranks.rank, next)
    PROVE  path = PathOf(Count0, input.edges, input.ranks.rank, next) /\ path # <<>>
<1>. DEFINE es == input.edges
            rk == input.ranks.rank
            n == Count0 + DummiesBefore(es, rk, next)
<1>1. /\ path \in Seq(Nat) /\ m \in Nat /\ m = DummiesOn(rk, E)
      /\ IsSelfLoop(E) => path = <<E.from>>
      /\ ~IsSelfLoop(E) => /\ Len(path) = m + 2 /\ path[1] = E.from /\ path[m + 2] = E.to
                           /\ \A k \in 2 .. m + 1 : path[k] = n + k - 2
  BY DEF Passes
<1>2. n \in Nat /\ E.from \in Nat /\ E.to \in Nat
  <2>1. n \in Nat
    BY DEF Core, NodesInv
  <2>2. E.from \in Originals /\ E.to \in Originals /\ Originals = NodeIds(Count0) /\ Count0 \in Nat
    BY DEF Passes, Core, InputInv
  <2>. QED
    BY <2>1, <2>2 DEF NodeIds
<1>3. CASE IsSelfLoop(E)
  <2>1. PathOf(Count0, es, rk, next) = <<E.from>>
    BY <1>3 DEF PathOf
  <2>2. Len(path) = 1 /\ path = <<E.from>>
    BY <1>1, <1>3
  <2>3. path # <<>>
    BY <2>2
  <2>. QED
    BY <2>1, <2>2, <2>3
<1>4. CASE ~IsSelfLoop(E)
  <2>. DEFINE laid == <<E.from>> \o [k \in 1 .. m |-> n + k - 1] \o <<E.to>>
  <2>1. PathOf(Count0, es, rk, next) = laid
    BY <1>1, <1>4 DEF PathOf
  <2>. HIDE DEF n
  <2>2. /\ laid \in Seq(Nat) /\ Len(laid) = m + 2
        /\ laid[1] = E.from /\ laid[m + 2] = E.to
        /\ \A k \in 2 .. m + 1 : laid[k] = n + k - 2
    <3>1. m \in Nat
      BY <1>1
    <3>2. LeadsOver(laid, E.from, E.to, n, m)
      BY <1>2, <3>1, PathLaidOut
    <3>. HIDE DEF laid
    <3>. QED
      BY <3>2 DEF LeadsOver
  <2>. HIDE DEF laid
  <2>3. \A k \in 1 .. m + 2 : path[k] = laid[k]
    <3>1. \A k \in 1 .. m + 2 : k = 1 \/ k = m + 2 \/ k \in 2 .. m + 1
      BY <1>1
    <3>2. /\ path[1] = laid[1] /\ path[m + 2] = laid[m + 2]
          /\ \A k \in 2 .. m + 1 : path[k] = laid[k]
      BY <1>1, <1>4, <2>2 DEF n
    <3>. QED
      BY <3>1, <3>2
  <2>4. path = laid /\ path # <<>>
    BY <1>1, <1>4, <2>2, <2>3
  <2>. QED
    BY <2>1, <2>4
<1>. QED
  BY <1>3, <1>4

\* The new edges of the pass are the arcs of its path.
LEMMA PathIsDrawn ==
    ASSUME NEW path, NEW more, NEW c, NEW m, Passes(path, more, c, m)
    PROVE  ArcsAlong(more) = PathArcs(path)
<1>1. /\ path \in Seq(Nat) /\ m \in Nat /\ more \in Seq(LabelledEdge(Labels))
      /\ IsSelfLoop(E) => path = <<E.from>>
      /\ ~IsSelfLoop(E) => Len(path) = m + 2
      /\ Len(more) = IF IsSelfLoop(E) THEN 1 ELSE Len(path) - 1
      /\ \A k \in DOMAIN more : /\ more[k].from = path[k]
                                /\ more[k].to = IF IsSelfLoop(E) THEN path[k] ELSE path[k + 1]
  BY DEF Passes
<1>2. CASE IsSelfLoop(E)
  <2>1. Len(path) = 1 /\ DOMAIN more = {1}
    BY <1>1, <1>2
  <2>2. ArcsAlong(more) = [i \in {1} |-> <<path[1], path[1]>>]
    BY <1>1, <1>2, <2>1 DEF ArcsAlong, Arc
  <2>3. PathArcs(path) = <<<<path[1], path[1]>>>>
    BY <2>1 DEF PathArcs
  <2>. DEFINE x == <<path[1], path[1]>>
  <2>. HIDE DEF x
  <2>4. <<x>> = [i \in {1} |-> x]
    OBVIOUS
  <2>. QED
    BY <2>2, <2>3, <2>4 DEF x
<1>3. CASE ~IsSelfLoop(E)
  <2>1. Len(path) # 1 /\ DOMAIN more = 1 .. Len(path) - 1
    BY <1>1, <1>3
  <2>. QED
    BY <1>1, <1>3, <2>1 DEF ArcsAlong, Arc, PathArcs
<1>. QED
  BY <1>2, <1>3

LEMMA StepChains == Core /\ ChainsInv /\ [Next]_vars => ChainsInv'
<1>. SUFFICES ASSUME Core, ChainsInv, [Next]_vars, NoDangling
              PROVE  ChainsInv'
  BY DanglingIsGiven DEF ChainsInv
<1>0. input' = input /\ Count0' = Count0
  BY InputIsKept DEF Count0, Originals
<1>1. CASE ~Pass
  <2>1. UNCHANGED <<rank, newEdges, chains, next>>
    BY <1>1, OtherSteps
  <2>. QED
    BY <1>0, <2>1 DEF ChainsInv, NodeCount, CoversEdge
<1>2. CASE Pass
  <2>. DEFINE es == input.edges
              rk == input.ranks.rank
  <2>1. PICK path, more, c, m : Passes(path, more, c, m)
    BY <1>2, EdgePasses DEF Pass
  <2>2. /\ path \in Seq(Nat) /\ more \in Seq(LabelledEdge(Labels)) /\ c \in Chain /\ m = DummiesOn(rk, E)
        /\ newEdges' = newEdges \o more /\ chains' = Append(chains, c) /\ next' = next + 1
        /\ c.chain = path /\ c.label = E.label
        /\ <<c.source, c.target>> = IF E.reversed THEN <<E.to, E.from>> ELSE <<E.from, E.to>>
        /\ NodeCount' = NodeCount + m
    BY <2>1 DEF Passes
  <2>3. /\ newEdges \in Seq(LabelledEdge(Labels)) /\ chains \in Seq(Chain) /\ Len(chains) = next - 1
        /\ next \in DOMAIN es /\ E = es[next] /\ next \in Nat \ {0}
        /\ es \in Seq(LabelledEdge(Labels))
    <3>1. AtEdge /\ InputInv /\ LoopInv
      BY <1>2 DEF Pass, SelfLoop, KeepEdge, LongEdge, Core
    <3>. QED
      BY <3>1, EdgeFacts DEF LoopInv, InputInv
  <2>4. ASSUME NEW j \in 1 .. next
        PROVE  DummiesOn(rk, es[j]) \in Nat
    <3>1. j \in DOMAIN es
      BY <2>3
    <3>2. es[j].from \in Originals /\ es[j].to \in Originals
      BY <3>1 DEF NoDangling
    <3>3. rk[es[j].from] \in Int /\ rk[es[j].to] \in Int
      BY <3>2 DEF Core, InputInv, NoRank
    <3>. QED
      BY <3>3 DEF DummiesOn
  <2>5. /\ DummiesBefore(es, rk, next) \in Nat
        /\ DummiesBefore(es, rk, next + 1) = DummiesBefore(es, rk, next) + DummiesOn(rk, es[next])
    <3>. HIDE DEF es, rk
    <3>. QED
      BY <2>3, <2>4, DummiesAdd
  <2>6. NodeCount = Count0 + DummiesBefore(es, rk, next) /\ Count0 \in Nat
    BY DEF ChainsInv, Core, InputInv
  <2>7. NodeCount' = Count0 + DummiesBefore(es, rk, next')
    <3>1. NodeCount' = NodeCount + m /\ m = DummiesOn(rk, es[next]) /\ next' = next + 1
      BY <2>2, <2>3
    <3>2. m \in Nat
      BY <2>3, <2>4, <3>1
    <3>. HIDE DEF es, rk
    <3>3. DummiesBefore(es, rk, next') = DummiesBefore(es, rk, next) + m
      BY <2>5, <3>1
    <3>. QED
      BY <2>5, <2>6, <3>1, <3>2, <3>3
  <2>8. path = PathOf(Count0, es, rk, next) /\ path # <<>>
    BY <2>1, <2>3, <2>6, PathIsGiven
  <2>9. CoversEdge(c, es[next], next)
    BY <2>2, <2>3, <2>8 DEF CoversEdge
  <2>10. /\ DOMAIN chains' = DOMAIN chains \union {next} /\ chains'[next] = c /\ next \notin DOMAIN chains
         /\ \A k \in DOMAIN chains : chains'[k] = chains[k]
    BY <2>2, <2>3
  <2>11. \A k \in DOMAIN chains' : CoversEdge(chains'[k], es[k], k)
    BY <2>9, <2>10 DEF ChainsInv
  <2>12. ArcsAlong(newEdges') = ArcsAlong(newEdges) \o PathArcs(path)
    BY <2>1, <2>2, <2>3, ArcsJoined, PathIsDrawn
  <2>13. ChainArcs(chains) \in Seq(Seq(Nat \X Nat)) /\ PathArcs(path) \in Seq(Nat \X Nat)
    <3>1. ASSUME NEW k \in DOMAIN chains
          PROVE  PathArcs(chains[k].chain) \in Seq(Nat \X Nat)
      <4>1. chains[k].chain \in Seq(Nat)
        <5>1. chains[k] \in Chain
          BY <2>3
        <5>. QED
          BY <5>1 DEF Chain
      <4>2. chains[k].chain # <<>>
        BY DEF ChainsInv, CoversEdge
      <4>. QED
        BY <4>1, <4>2, ArcsTyped
    <3>2. PathArcs(path) \in Seq(Nat \X Nat)
      BY <2>2, <2>8, ArcsTyped
    <3>. DEFINE S == Seq(Nat \X Nat)
    <3>3. \A k \in 1 .. Len(chains) : PathArcs(chains[k].chain) \in S
      BY <3>1, <2>3
    <3>. HIDE DEF S
    <3>4. ChainArcs(chains) \in Seq(S)
      BY <3>3, <2>3 DEF ChainArcs
    <3>. QED
      BY <3>2, <3>4 DEF S
  <2>14. ChainArcs(chains') = Append(ChainArcs(chains), PathArcs(path))
    <3>. DEFINE a == ChainArcs(chains)
                x == PathArcs(path)
                b == ChainArcs(chains')
                n == Len(chains)
    <3>1. n \in Nat /\ DOMAIN a = 1 .. n /\ next = n + 1 /\ DOMAIN b = 1 .. n + 1
      <4>1. n \in Nat /\ next = n + 1 /\ Len(chains') = n + 1
        BY <2>2, <2>3
      <4>2. DOMAIN a = DOMAIN chains /\ DOMAIN b = DOMAIN chains'
        BY DEF ChainArcs
      <4>. QED
        BY <4>1, <4>2, <2>2, <2>3
    <3>2. /\ \A k \in 1 .. n : b[k] = a[k]
          /\ b[n + 1] = x
      BY <2>2, <2>3, <2>10, <3>1 DEF ChainArcs
    <3>3. a \in Seq(Seq(Nat \X Nat)) /\ Len(a) = n
      BY <2>13, <3>1
    <3>4. b = [k \in 1 .. n + 1 |-> PathArcs(chains'[k].chain)]
      BY <3>1 DEF ChainArcs
    <3>. DEFINE T == Seq(Nat \X Nat)
                u == Append(a, x)
    <3>5. a \in Seq(T) /\ Len(a) = n /\ x \in T
      BY <2>13, <3>3
    <3>. HIDE DEF a, x, n, T
    <3>6. u \in Seq(T) /\ Len(u) = n + 1 /\ u[n + 1] = x /\ \A k \in 1 .. n : u[k] = a[k]
      BY <3>1, <3>5
    <3>. HIDE DEF b, u
    <3>8. \A k \in 1 .. n + 1 : b[k] = u[k] /\ u[k] \in T
      BY <3>1, <3>2, <3>6
    <3>9. b \in Seq(T) /\ Len(b) = n + 1
      BY <3>1, <3>4, <3>8 DEF b, ChainArcs
    <3>7. b = Append(a, x)
      <4>1. b = u
        BY <3>1, <3>6, <3>8, <3>9
      <4>. QED
        BY <4>1 DEF u
    <3>. QED
      BY <3>7 DEF a, x, b
  <2>15. ArcsAlong(newEdges') = FlattenSeq(ChainArcs(chains'))
    <3>. DEFINE S == Nat \X Nat
                a == ChainArcs(chains)
                x == PathArcs(path)
    <3>1. a \in Seq(Seq(S)) /\ x \in Seq(S)
      BY <2>13
    <3>. HIDE DEF S, a, x
    <3>2. FlattenSeq(Append(a, x)) = FlattenSeq(a) \o x
      BY <3>1, FlattenAppends
    <3>3. ArcsAlong(newEdges) = FlattenSeq(a)
      BY DEF ChainsInv, a
    <3>. QED
      BY <2>12, <2>14, <3>2, <3>3 DEF a, x
  <2>. QED
    BY <1>0, <2>7, <2>11, <2>15 DEF ChainsInv, CoversEdge
<1>. QED
  BY <1>1, <1>2

\* No edge of the caller is lost and none is made up: each has one chain, along
\* the path the contract gives it, and the edges of the graph are these chains.
THEOREM ChainsAreTheEdges == Spec => []ChainsCoverEdges
<1>1. ASSUME Core, ChainsInv
      PROVE  ChainsCoverEdges
  <2>. SUFFICES ASSUME result = "Ok", NoDangling
                PROVE  /\ Len(chains) = Len(input.edges)
                       /\ \A k \in DOMAIN chains : CoversEdge(chains[k], input.edges[k], k)
                       /\ ArcsAlong(edges) = FlattenSeq(ChainArcs(chains))
    BY DEF ChainsCoverEdges, Success, CoversEdge, ArcsAlong, ChainArcs, Count0
  <2>1. Len(chains) = Len(input.edges) /\ edges = newEdges
    <3>1. /\ next > Len(input.edges) /\ next \in 1 .. Len(input.edges) + 1 /\ Len(chains) = next - 1
          /\ edges = newEdges /\ Len(input.edges) \in Nat
      BY <1>1 DEF Core, LoopInv, InputInv
    <3>. QED
      BY <3>1
  <2>. QED
    BY <1>1, <2>1 DEF ChainsInv
<1>. QED
  BY <1>1, InitChains, StepChains, CoreInvariant, PTL DEF Spec

=============================================================================
