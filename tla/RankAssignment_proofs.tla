------------------------ MODULE RankAssignment_proofs ------------------------
(****************************************************************************)
(* assign_ranks for every number of nodes and every edge list: the type     *)
(* invariant with Kahn's bookkeeping, the verdict on cycles, the earliest   *)
(* ranks, the layers, and that a refused graph is left as it was.           *)
(*                                                                          *)
(* The properties are not inductive by themselves. Kahn's counts rest on    *)
(* what validation established and on which loop `released` belongs to      *)
(* (StageInv); the ranks rest on what the relaxation has done for the part  *)
(* of topo_order it has passed (RelaxInv).                                  *)
(****************************************************************************)
EXTENDS RankAssignment, LayoutTheorems

-----------------------------------------------------------------------------
(* The inductive invariant.                                                 *)

\* Every node has been taken: the test that lets the relaxation start.
AllTaken == Len(topoOrder) = N /\ queue = <<>> /\ InnerDone

\* What each stage of the call has established, and what it has yet to touch.
StageInv ==
    /\ pc # "returned" => result = "none" /\ layers = <<>>
    /\ pc = "returned" => result # "none"
    /\ pc = "validate" => topoOrder = <<>> /\ queue = <<>>
    /\ pc \in {"validate", "kahn"} => relaxed = 0 /\ maxRank = 0
    /\ released \subseteq IF topoOrder = <<>> THEN {} ELSE OutEdges(Current)
    /\ Accepted => NoDangling /\ NoSelfLoop
    /\ pc = "relax" \/ result = "Ok" => AllTaken
    /\ result = "Ok" => relaxed = N
    /\ result = "CyclicGraph" => Len(topoOrder) # N /\ queue = <<>> /\ InnerDone

\* The relaxation so far: the edges out of the nodes it has passed descend, no
\* node is lower than any descending assignment has it, a node below the top
\* layer is one below a node already passed, and maxRank is the lowest layer.
RelaxInv ==
    pc = "relax" \/ result = "Ok" =>
        /\ rank \in [Nodes -> Nat]
        /\ \A k \in 1 .. relaxed : \A i \in OutEdges(topoOrder[k]) :
              rank[topoOrder[k]] < rank[edges[i].to]
        /\ \A other \in [Nodes -> 0 .. N - 1] :
              Descends(edges, other) => \A v \in Nodes : rank[v] <= other[v]
        /\ \A v \in Nodes :
              rank[v] > 0 => \E k \in 1 .. relaxed : rank[topoOrder[k]] = rank[v] - 1
        /\ \A v \in Nodes : rank[v] <= maxRank
        /\ maxRank > 0 => \E v \in Nodes : rank[v] = maxRank

IInv == TypeOK /\ StageInv /\ KahnInv /\ RelaxInv /\ LayersMatchNodes


-----------------------------------------------------------------------------
(* Facts about one state.                                                   *)

\* The edges and the nodes they join, once the graph is accepted.
LEMMA AcceptedEdges ==
    ASSUME TypeOK, StageInv, Accepted
    PROVE  /\ edges \in Seq(Edge) /\ DOMAIN edges = 1 .. Len(edges) /\ IsFiniteSet(DOMAIN edges)
           /\ \A i \in DOMAIN edges : /\ edges[i].from \in Nodes /\ edges[i].to \in Nodes
                                      /\ edges[i].from # edges[i].to
<1>1. edges \in Seq(Edge)
  BY InputsAssumption DEF TypeOK
<1>2. DOMAIN edges = 1 .. Len(edges) /\ Len(edges) \in Nat
  BY <1>1
<1>3. IsFiniteSet(DOMAIN edges)
  BY <1>2, FS_Interval
<1>4. ASSUME NEW i \in DOMAIN edges
      PROVE  /\ edges[i].from \in Nodes /\ edges[i].to \in Nodes
             /\ edges[i].from # edges[i].to
  <2>1. edges[i] \in Edge
    BY <1>1
  <2>2. InBounds(N, edges[i]) /\ ~IsSelfLoop(edges[i])
    BY DEF StageInv, NoDangling, NoSelfLoop
  <2>. QED
    BY <2>1, <2>2, NAssumption DEF Edge, InBounds, IsSelfLoop, Nodes, NodeIds
<1>. QED
  BY <1>1, <1>2, <1>3, <1>4

\* The nodes seen are those taken and then those waiting.
LEMMA SeenIs ==
    ASSUME TypeOK
    PROVE  /\ Seen \in Seq(Nodes)
           /\ Len(topoOrder) \in Nat /\ Len(queue) \in Nat
           /\ DOMAIN Seen = 1 .. Len(topoOrder) + Len(queue)
           /\ \A k \in 1 .. Len(topoOrder) : Seen[k] = topoOrder[k] /\ topoOrder[k] \in Nodes
           /\ \A k \in 1 .. Len(queue) : Seen[Len(topoOrder) + k] = queue[k] /\ queue[k] \in Nodes
  BY DEF TypeOK, Seen

\* An edge has been passed exactly when the node it leaves was taken and, if that
\* is the node taken last, the inner loop has come past it.
LEMMA PassedIs ==
    ASSUME TypeOK, StageInv, NEW i \in DOMAIN edges
    PROVE  i \in Passed <=> \/ i \in released
                            \/ \E k \in 1 .. Len(topoOrder) - 1 : topoOrder[k] = edges[i].from
  BY DEF Passed, OutEdges

\* When the inner loop is over, all edges out of the nodes taken have been passed.
LEMMA PassedWhenInnerDone ==
    ASSUME TypeOK, StageInv, InnerDone, NEW i \in DOMAIN edges
    PROVE  i \in Passed <=> \E k \in 1 .. Len(topoOrder) : topoOrder[k] = edges[i].from
<1>1. CASE topoOrder = <<>>
  BY <1>1, PassedIs DEF StageInv
<1>2. CASE topoOrder # <<>>
  <2>1. Len(topoOrder) \in Nat \ {0}
    BY <1>2 DEF TypeOK
  <2>2. i \in released <=> Current = edges[i].from
    BY <1>2 DEF InnerDone, Owed, StageInv, OutEdges
  <2>. QED
    BY <2>1, <2>2, PassedIs DEF Current
<1>. QED
  BY <1>1, <1>2

\* The edges into a node are finitely many, so that a count of 0 says there are none.
LEMMA CountOfInto ==
    ASSUME TypeOK, StageInv, Accepted, NEW v \in Nodes, NEW P
    PROVE  /\ IsFiniteSet(Into(v) \ P)
           /\ Cardinality(Into(v) \ P) \in Nat
           /\ Cardinality(Into(v) \ P) = 0 <=> Into(v) \subseteq P
<1>1. IsFiniteSet(DOMAIN edges)
  BY AcceptedEdges
<1>2. IsFiniteSet(Into(v) \ P)
  BY <1>1, FS_Subset DEF Into
<1>. QED
  BY <1>2, FS_CardinalityType, FS_EmptySet

\* While the relaxation runs every node is in topo_order once, after its
\* predecessors.
LEMMA OrderIsComplete ==
    ASSUME TypeOK, StageInv, KahnInv, pc = "relax" \/ result = "Ok"
    PROVE  /\ Accepted
           /\ topoOrder \in [1 .. N -> Nodes]
           /\ \A v \in Nodes : \E k \in 1 .. N : topoOrder[k] = v
           /\ \A j, k \in 1 .. N : topoOrder[j] = topoOrder[k] => j = k
           /\ \A j, k \in 1 .. N : \A i \in DOMAIN edges :
                 edges[i].from = topoOrder[j] /\ edges[i].to = topoOrder[k] => j < k
<1>1. Accepted /\ AllTaken
  BY DEF Accepted, StageInv
<1>2. topoOrder \in [1 .. N -> Nodes]
  BY <1>1 DEF TypeOK, AllTaken
<1>3. Seen = topoOrder /\ DOMAIN Seen = 1 .. N
  BY <1>1 DEF TypeOK, AllTaken, Seen
<1>4. \A j, k \in 1 .. N : topoOrder[j] = topoOrder[k] => j = k
  BY <1>1, <1>3 DEF KahnInv
<1>5. \A v \in Nodes : \E k \in 1 .. N : topoOrder[k] = v
  <2>. DEFINE T == 1 .. N
  <2>1. IsFiniteSet(Nodes) /\ Cardinality(Nodes) = N /\ Cardinality(T) = N
    BY FS_Interval, NAssumption DEF Nodes, NodeIds
  <2>2. topoOrder \in [T -> Nodes] /\ \A j, k \in T : topoOrder[j] = topoOrder[k] => j = k
    BY <1>2, <1>4
  <2>. HIDE DEF T
  <2>3. \A v \in Nodes : \E k \in T : topoOrder[k] = v
    BY <2>1, <2>2, OneToOneIsOnto
  <2>. QED
    BY <2>3 DEF T
<1>6. ASSUME NEW j \in 1 .. N, NEW k \in 1 .. N, NEW i \in DOMAIN edges,
             edges[i].from = topoOrder[j], edges[i].to = topoOrder[k]
      PROVE  j < k
  <2>1. i \in Into(Seen[k])
    BY <1>3, <1>6 DEF Into
  <2>2. PICK l \in 1 .. k - 1 : Seen[l] = edges[i].from
    BY <2>1, <1>1, <1>3 DEF KahnInv, TopologicalOrder
  <2>3. l \in 1 .. N /\ l < k
    BY NAssumption
  <2>. QED
    BY <2>2, <2>3, <1>3, <1>4, <1>6
<1>. QED
  BY <1>1, <1>2, <1>4, <1>5, <1>6

-----------------------------------------------------------------------------
(* Kahn's algorithm.                                                        *)

\* The edge that the inner loop passes next was not passed before.
LEMMA NextEdge ==
    ASSUME TypeOK, StageInv, KahnInv, pc = "kahn", NEW i \in DOMAIN edges, IsNext(i)
    PROVE  /\ Accepted
           /\ topoOrder # <<>> /\ edges[i].from = Current
           /\ edges[i].to \in Nodes
           /\ i \notin Passed
           /\ inDegree[edges[i].to] \in Nat \ {0}
<1>1. Accepted
  BY DEF Accepted
<1>2. topoOrder # <<>> /\ i \in OutEdges(Current) /\ i \notin released
  BY DEF IsNext, Owed
<1>3. edges[i].from = Current /\ edges[i].to \in Nodes
  BY <1>1, <1>2, AcceptedEdges DEF OutEdges
<1>4. Len(topoOrder) \in Nat \ {0}
  BY <1>2 DEF TypeOK
<1>5. \A k \in 1 .. Len(topoOrder) - 1 : topoOrder[k] # Current
  <2>. SUFFICES ASSUME NEW k \in 1 .. Len(topoOrder) - 1 PROVE topoOrder[k] # Current
    OBVIOUS
  <2>1. k \in DOMAIN Seen /\ Len(topoOrder) \in DOMAIN Seen /\ k # Len(topoOrder)
    BY <1>4, SeenIs
  <2>2. Seen[k] = topoOrder[k] /\ Seen[Len(topoOrder)] = Current
    BY <1>4, SeenIs DEF Current
  <2>. QED
    BY <1>1, <2>1, <2>2 DEF KahnInv
<1>6. i \notin Passed
  BY <1>2, <1>3, <1>5, PassedIs
<1>7. inDegree[edges[i].to] # 0
  <2>1. i \in Into(edges[i].to) /\ ~(Into(edges[i].to) \subseteq Passed)
    BY <1>6 DEF Into
  <2>. QED
    BY <2>1, <1>1, <1>3, CountOfInto DEF KahnInv
<1>. QED
  BY <1>1, <1>2, <1>3, <1>6, <1>7 DEF TypeOK

\* The sources are queued in the order of their ids.
LEMMA SourcesQueued ==
    LET q == InIdOrder({v \in Nodes : Into(v) = {}}) IN
    /\ q \in Seq(Nodes)
    /\ \A v \in Nodes : Into(v) = {} <=> \E k \in DOMAIN q : q[k] = v
    /\ \A j, k \in DOMAIN q : q[j] = q[k] => j = k
<1>. DEFINE S == {v \in Nodes : Into(v) = {}}
            q == InIdOrder(S)
            c == Cardinality(S)
<1>1. S \in SUBSET NodeIds(N)
  BY DEF Nodes
<1>. HIDE DEF S
<1>2. /\ c \in Nat /\ q \in [1 .. c -> S] /\ q \in Seq(S)
      /\ \A j, k \in 1 .. c : j < k => q[j] < q[k]
      /\ \A v \in S : \E k \in 1 .. c : q[k] = v
  BY <1>1, NAssumption, InIdOrderLists
<1>. HIDE DEF q, c
<1>3. S \subseteq Nodes /\ \A v \in Nodes : Into(v) = {} <=> v \in S
  BY DEF S
<1>4. \A j, k \in 1 .. c : q[j] = q[k] => j = k
  <2>1. \A v \in S : v \in Int
    BY <1>3 DEF Nodes, NodeIds
  <2>2. \A j \in 1 .. c : q[j] \in Int
    BY <2>1, <1>2
  <2>. QED
    BY <2>2, <1>2
<1>5. q \in Seq(Nodes)
  BY <1>2, <1>3
<1>6. \A v \in Nodes : Into(v) = {} <=> \E k \in DOMAIN q : q[k] = v
  BY <1>2, <1>3
<1>. QED
  BY <1>2, <1>4, <1>5, <1>6 DEF q, S

\* Kahn's bookkeeping starts right.
LEMMA AcceptKahn ==
    ASSUME TypeOK, StageInv, Accept
    PROVE  TypeOK' /\ KahnInv'
<1>. DEFINE q == InIdOrder({v \in Nodes : Into(v) = {}})
<1>1. /\ q \in Seq(Nodes)
      /\ \A v \in Nodes : Into(v) = {} <=> \E k \in DOMAIN q : q[k] = v
      /\ \A j, k \in DOMAIN q : q[j] = q[k] => j = k
  BY SourcesQueued
<1>2. queue' = q
  BY DEF Accept
<1>. HIDE DEF q
<1>3. topoOrder = <<>> /\ released = {} /\ result = "none" /\ layers = <<>>
  BY DEF StageInv, Accept
<1>4. /\ edges \in Seq(Edge) /\ edges' = edges /\ topoOrder' = topoOrder /\ released' = released
      /\ inDegree' = [v \in Nodes |-> Cardinality(Into(v))]
  BY InputsAssumption DEF TypeOK, Accept, graph
<1>5. \A v \in Nodes : /\ Cardinality(Into(v)) \in Nat
                       /\ Cardinality(Into(v)) = 0 <=> Into(v) = {}
  <2>1. IsFiniteSet(DOMAIN edges)
    BY <1>4, FS_Interval
  <2>. QED
    BY <2>1, FS_Subset, FS_CardinalityType, FS_EmptySet DEF Into
<1>6. TypeOK'
  BY <1>1, <1>2, <1>4, <1>5 DEF TypeOK, Accept, graph
<1>7. Seen' = q
  BY <1>1, <1>2, <1>3, <1>4 DEF Seen
<1>8. Passed' = {} /\ \A v : Into(v)' = Into(v)
  BY <1>3, <1>4 DEF Passed, Into
<1>9. \A v \in Nodes : /\ inDegree'[v] = Cardinality(Into(v)' \ Passed')
                       /\ inDegree'[v] = 0 <=> Into(v) = {}
  BY <1>4, <1>5, <1>8
<1>10. TopologicalOrder'
  <2>1. \A k \in DOMAIN q : q[k] \in Nodes
    BY <1>1
  <2>. QED
    BY <2>1, <1>1, <1>7, <1>8 DEF TopologicalOrder
<1>11. \A v \in Nodes : inDegree'[v] = 0 <=> \E k \in DOMAIN Seen' : Seen'[k] = v
  <2>. SUFFICES ASSUME NEW v \in Nodes
                PROVE  inDegree'[v] = 0 <=> \E k \in DOMAIN Seen' : Seen'[k] = v
    OBVIOUS
  <2>1. inDegree'[v] = 0 <=> Into(v) = {}
    BY <1>9
  <2>2. Into(v) = {} <=> \E k \in DOMAIN q : q[k] = v
    BY <1>1
  <2>. QED
    BY <2>1, <2>2, <1>7
<1>12. \A j, k \in DOMAIN Seen' : Seen'[j] = Seen'[k] => j = k
  BY <1>1, <1>7
<1>. QED
  <2>1. \A v \in Nodes : inDegree'[v] = Cardinality(Into(v)' \ Passed')
    BY <1>9
  <2>. QED
    BY <2>1, <1>6, <1>10, <1>11, <1>12 DEF KahnInv

\* Taking a node from the queue changes neither the nodes seen nor the edges passed.
LEMMA DequeueKahn ==
    ASSUME TypeOK, StageInv, KahnInv, Dequeue
    PROVE  TypeOK' /\ StageInv' /\ KahnInv'
<1>1. Accepted /\ InnerDone /\ queue # <<>> /\ pc = "kahn" /\ result = "none"
  BY DEF Accepted, Dequeue, StageInv
<1>2. /\ edges' = edges /\ topoOrder' = Append(topoOrder, Head(queue)) /\ released' = {}
      /\ queue' = Tail(queue) /\ inDegree' = inDegree /\ pc' = pc /\ result' = result
  BY DEF Dequeue, graph
<1>3. topoOrder \in Seq(Nodes) /\ queue \in Seq(Nodes) /\ Head(queue) \in Nodes
  BY <1>1 DEF TypeOK
<1>4. TypeOK'
  BY <1>1, <1>2, <1>3 DEF TypeOK, Dequeue, graph
<1>5. StageInv'
  BY <1>1, <1>2, <1>3 DEF StageInv, Dequeue, graph, Accepted, NoDangling, NoSelfLoop, Current
<1>6. Seen' = Seen
  BY <1>1, <1>2, <1>3 DEF Seen
<1>7. \A i \in DOMAIN edges : i \in Passed' <=> i \in Passed
  <2>. SUFFICES ASSUME NEW i \in DOMAIN edges PROVE i \in Passed' <=> i \in Passed
    OBVIOUS
  <2>1. i \in Passed' <=> \E k \in 1 .. Len(topoOrder') - 1 : topoOrder'[k] = edges[i].from
    BY <1>2 DEF Passed, OutEdges
  <2>2. \A k \in 1 .. Len(topoOrder) : topoOrder'[k] = topoOrder[k]
    BY <1>2, <1>3
  <2>3. Len(topoOrder') - 1 = Len(topoOrder)
    BY <1>2, <1>3
  <2>. QED
    BY <2>1, <2>2, <2>3, <1>1, PassedWhenInnerDone
<1>8. \A v : Into(v)' = Into(v) /\ Into(v) \ Passed' = Into(v) \ Passed
  BY <1>2, <1>7 DEF Into
<1>9. TopologicalOrder'
  BY <1>1, <1>2, <1>6, <1>8 DEF KahnInv, TopologicalOrder
<1>. QED
  BY <1>1, <1>2, <1>4, <1>5, <1>6, <1>8, <1>9 DEF KahnInv

\* Passing an edge keeps the count of its head, and queues it once its last edge is passed.
LEMMA ReleaseKahn ==
    ASSUME TypeOK, StageInv, KahnInv, Release
    PROVE  TypeOK' /\ StageInv' /\ KahnInv'
<1>1. pc = "kahn" /\ Accepted /\ result = "none"
  BY DEF Release, Accepted, StageInv
<1>2. PICK i \in DOMAIN edges :
          /\ IsNext(i)
          /\ inDegree' = [inDegree EXCEPT ![edges[i].to] = @ - 1]
          /\ queue' = IF inDegree[edges[i].to] - 1 = 0 THEN Append(queue, edges[i].to) ELSE queue
          /\ released' = released \union {i}
  BY DEF Release
<1>. DEFINE v == edges[i].to
<1>3. /\ topoOrder # <<>> /\ edges[i].from = Current /\ v \in Nodes /\ i \notin Passed
      /\ inDegree[v] \in Nat \ {0}
  BY <1>1, <1>2, NextEdge
<1>4. /\ edges' = edges /\ topoOrder' = topoOrder /\ pc' = pc /\ result' = result
      /\ inDegree \in [Nodes -> Nat] /\ queue \in Seq(Nodes) /\ topoOrder \in Seq(Nodes)
  BY DEF Release, graph, TypeOK
<1>5. TypeOK'
  <2>1. queue' \in Seq(Nodes) /\ inDegree' \in [Nodes -> Nat] /\ released' \subseteq DOMAIN edges
    BY <1>2, <1>3, <1>4 DEF TypeOK
  <2>. QED
    BY <2>1, <1>4 DEF TypeOK, Release, graph
<1>6. StageInv'
  <2>1. i \in OutEdges(Current)
    BY <1>3 DEF OutEdges
  <2>2. OutEdges(Current)' = OutEdges(Current)
    BY <1>4 DEF OutEdges, Current
  <2>. QED
    BY <2>1, <2>2, <1>1, <1>2, <1>3, <1>4
       DEF StageInv, Release, graph, Accepted, NoDangling, NoSelfLoop
<1>7. \A j \in DOMAIN edges : j \in Passed' <=> j \in Passed \/ j = i
  <2>1. \A j : j \in Passed' <=> j \in Passed \/ j = i
    BY <1>2, <1>4 DEF Passed, OutEdges
  <2>. QED
    BY <2>1
<1>8. \A w : Into(w)' = Into(w)
  BY <1>4 DEF Into
<1>9. \A w \in Nodes : inDegree'[w] = Cardinality(Into(w) \ Passed')
  <2>. SUFFICES ASSUME NEW w \in Nodes PROVE inDegree'[w] = Cardinality(Into(w) \ Passed')
    OBVIOUS
  <2>1. CASE w = v
    <3>1. Into(w) \ Passed' = (Into(w) \ Passed) \ {i} /\ i \in Into(w) \ Passed
      BY <2>1, <1>3, <1>7 DEF Into
    <3>2. IsFiniteSet(Into(w) \ Passed)
      BY <1>1, CountOfInto
    <3>3. Cardinality((Into(w) \ Passed) \ {i}) = Cardinality(Into(w) \ Passed) - 1
      BY <3>1, <3>2, FS_RemoveElement
    <3>. QED
      BY <3>1, <3>3, <2>1, <1>1, <1>2, <1>4 DEF KahnInv
  <2>2. CASE w # v
    <3>1. Into(w) \ Passed' = Into(w) \ Passed
      BY <2>2, <1>7 DEF Into
    <3>. QED
      BY <3>1, <2>2, <1>1, <1>2, <1>4 DEF KahnInv
  <2>. QED
    BY <2>1, <2>2
<1>. DEFINE last == Len(topoOrder) + Len(queue)
<1>10. last \in Nat /\ DOMAIN Seen = 1 .. last /\ Seen \in Seq(Nodes)
  BY SeenIs
<1>11. CASE inDegree[v] - 1 # 0
  <2>1. Seen' = Seen
    BY <1>2, <1>4, <1>11 DEF Seen
  <2>2. \A w \in Nodes : inDegree'[w] = 0 <=> inDegree[w] = 0
    BY <1>2, <1>3, <1>4, <1>11
  <2>3. TopologicalOrder'
    BY <2>1, <1>1, <1>4, <1>8 DEF KahnInv, TopologicalOrder
  <2>. QED
    BY <2>1, <2>2, <2>3, <1>1, <1>5, <1>6, <1>8, <1>9 DEF KahnInv
<1>12. CASE inDegree[v] - 1 = 0
  <2>1. Seen' = Append(Seen, v)
    <3>1. queue' = Append(queue, v)
      BY <1>2, <1>12
    <3>. QED
      BY <3>1, <1>3, <1>4 DEF Seen
  <2>2. /\ DOMAIN Seen' = 1 .. last + 1
        /\ Seen'[last + 1] = v
        /\ \A k \in 1 .. last : Seen'[k] = Seen[k]
    BY <2>1, <1>3, <1>10
  <2>3. \A k \in 1 .. last : Seen[k] # v
    BY <1>1, <1>3, <1>10 DEF KahnInv
  <2>4. \A w \in Nodes : inDegree'[w] = 0 <=> inDegree[w] = 0 \/ w = v
    BY <1>2, <1>3, <1>4, <1>12
  <2>5. \A w \in Nodes : inDegree'[w] = 0 <=> \E k \in DOMAIN Seen' : Seen'[k] = w
    BY <2>2, <2>4, <1>1, <1>3, <1>10 DEF KahnInv
  <2>6. \A j, k \in DOMAIN Seen' : Seen'[j] = Seen'[k] => j = k
    BY <2>2, <2>3, <1>1, <1>10 DEF KahnInv
  <2>7. TopologicalOrder'
    <3>. SUFFICES ASSUME NEW k \in 1 .. last + 1, NEW h \in Into(Seen'[k])
                  PROVE  \E j \in 1 .. k - 1 : Seen'[j] = edges[h].from
      BY <2>2, <1>4, <1>8 DEF TopologicalOrder
    <3>1. CASE k \in 1 .. last
      <4>1. PICK j \in 1 .. k - 1 : Seen[j] = edges[h].from
        BY <3>1, <2>2, <1>1, <1>10 DEF KahnInv, TopologicalOrder
      <4>. QED
        BY <4>1, <3>1, <2>2, <1>10
    <3>2. CASE k = last + 1
      <4>1. h \in Into(v) /\ h \in DOMAIN edges
        BY <3>2, <2>2 DEF Into
      <4>2. h \in Passed'
        <5>1. inDegree'[v] = 0
          BY <2>4, <1>3
        <5>2. Cardinality(Into(v) \ Passed') = 0
          BY <5>1, <1>3, <1>9
        <5>3. Into(v) \subseteq Passed'
          BY <5>2, <1>1, <1>3, CountOfInto
        <5>. QED
          BY <5>3, <4>1
      <4>3. \E j \in 1 .. Len(topoOrder) : topoOrder[j] = edges[h].from
        <5>1. CASE h = i
          BY <5>1, <1>3, <1>4 DEF Current
        <5>2. CASE h \in released
          <6>1. edges[h].from = Current
            BY <5>2, <1>3 DEF StageInv, OutEdges
          <6>. QED
            BY <6>1, <1>3, <1>4 DEF Current
        <5>3. CASE \E j \in 1 .. Len(topoOrder) - 1 : topoOrder[j] = edges[h].from
          BY <5>3, <1>4
        <5>. QED
          BY <5>1, <5>2, <5>3, <4>1, <4>2, <1>7, PassedIs
      <4>. QED
        BY <4>3, <3>2, <2>2, <1>4, SeenIs
    <3>. QED
      BY <3>1, <3>2, <1>10
  <2>. QED
    BY <2>5, <2>6, <2>7, <1>1, <1>5, <1>6, <1>8, <1>9 DEF KahnInv
<1>. QED
  BY <1>11, <1>12

-----------------------------------------------------------------------------
(* The relaxation.                                                          *)

\* The zeros that the relaxation starts from are no lower than any assignment.
LEMMA StartRelaxationStep ==
    ASSUME TypeOK, StageInv, KahnInv, StartRelaxation
    PROVE  TypeOK' /\ StageInv' /\ KahnInv' /\ RelaxInv'
<1>1. Accepted /\ pc = "kahn" /\ result = "none" /\ InnerDone /\ queue = <<>> /\ Len(topoOrder) = N
  BY DEF Accepted, StartRelaxation, StageInv
<1>2. /\ UNCHANGED <<ids, edges, order, inDegree, released, queue, topoOrder, relaxed,
                     maxRank, layers, result>>
      /\ pc' = "relax" /\ rank' = [v \in Nodes |-> 0]
  BY DEF StartRelaxation, graph
<1>3. TypeOK'
  BY <1>2 DEF TypeOK
<1>4. StageInv'
  BY <1>1, <1>2 DEF StageInv, AllTaken, Accepted, NoDangling, NoSelfLoop, Current, InnerDone,
                    Owed, OutEdges
<1>5. KahnInv'
  BY <1>1, <1>2 DEF KahnInv, Accepted, Into, Passed, OutEdges, Seen, TopologicalOrder
<1>6. RelaxInv'
  <2>1. relaxed = 0 /\ maxRank = 0
    BY <1>1 DEF StageInv
  <2>2. ASSUME NEW other \in [Nodes -> 0 .. N - 1], NEW v \in Nodes
        PROVE  rank'[v] <= other[v]
    BY <1>2
  <2>. QED
    BY <2>1, <2>2, <1>2 DEF RelaxInv
<1>. QED
  BY <1>3, <1>4, <1>5, <1>6

\* Passing a node moves its successors, and only these, below it; nodes already
\* passed stay where they are.
LEMMA RelaxMoves ==
    ASSUME TypeOK, StageInv, KahnInv, RelaxInv, Relax
    PROVE  LET u == topoOrder[relaxed + 1] IN
           /\ relaxed + 1 \in 1 .. N /\ relaxed \in Nat /\ u \in Nodes
           /\ rank \in [Nodes -> Nat] /\ rank' \in [Nodes -> Nat]
           /\ \A v \in Nodes :
                /\ rank'[v] = IF v \in Successors(u) /\ rank[u] + 1 > rank[v]
                              THEN rank[u] + 1 ELSE rank[v]
                /\ rank[v] <= rank'[v]
           /\ \A k \in 1 .. relaxed + 1 : rank'[topoOrder[k]] = rank[topoOrder[k]]
           /\ Successors(u) \subseteq Nodes
<1>. DEFINE u == topoOrder[relaxed + 1]
<1>1. pc = "relax" /\ relaxed \in Nat /\ relaxed + 1 \in 1 .. N
  BY NAssumption DEF Relax, TypeOK
<1>2. Accepted /\ topoOrder \in [1 .. N -> Nodes]
  BY <1>1, OrderIsComplete
<1>3. u \in Nodes
  BY <1>1, <1>2
<1>4. rank \in [Nodes -> Nat]
  BY <1>1 DEF RelaxInv
<1>5. rank' = [v \in Nodes |-> IF v \in Successors(u) /\ rank[u] + 1 > rank[v]
                               THEN rank[u] + 1 ELSE rank[v]]
  BY DEF Relax
<1>6. rank[u] \in Nat
  BY <1>3, <1>4
<1>. HIDE DEF u
<1>7. rank' \in [Nodes -> Nat] /\ \A v \in Nodes : rank[v] <= rank'[v]
  BY <1>4, <1>5, <1>6
<1>8. Successors(u) \subseteq Nodes
  BY <1>2, AcceptedEdges DEF Successors, OutEdges
<1>9. ASSUME NEW k \in 1 .. relaxed + 1
      PROVE  topoOrder[k] \in Nodes /\ topoOrder[k] \notin Successors(u)
  <2>1. k \in 1 .. N
    BY <1>1, NAssumption
  <2>2. ASSUME NEW i \in DOMAIN edges, edges[i].from = u, edges[i].to = topoOrder[k]
        PROVE  FALSE
    <3>1. relaxed + 1 < k
      BY <2>1, <2>2, <1>1, OrderIsComplete DEF u
    <3>. QED
      BY <3>1, <1>1
  <2>. QED
    BY <2>1, <2>2, <1>2 DEF Successors, OutEdges
<1>10. \A k \in 1 .. relaxed + 1 : rank'[topoOrder[k]] = rank[topoOrder[k]]
  BY <1>5, <1>9
<1>. QED
  BY <1>1, <1>3, <1>4, <1>5, <1>7, <1>8, <1>10 DEF u

\* Passing a node keeps what the relaxation has established.
LEMMA RelaxStep ==
    ASSUME TypeOK, StageInv, KahnInv, RelaxInv, Relax
    PROVE  TypeOK' /\ StageInv' /\ KahnInv' /\ RelaxInv'
<1>. DEFINE u == topoOrder[relaxed + 1]
            candidate == rank[u] + 1
<1>1. /\ relaxed + 1 \in 1 .. N /\ relaxed \in Nat /\ u \in Nodes
      /\ rank \in [Nodes -> Nat] /\ rank' \in [Nodes -> Nat]
      /\ \A v \in Nodes :
           /\ rank'[v] = IF v \in Successors(u) /\ candidate > rank[v] THEN candidate ELSE rank[v]
           /\ rank[v] <= rank'[v]
      /\ \A k \in 1 .. relaxed + 1 : rank'[topoOrder[k]] = rank[topoOrder[k]]
      /\ Successors(u) \subseteq Nodes
  BY RelaxMoves
<1>2. /\ UNCHANGED <<ids, edges, order, inDegree, released, queue, topoOrder, layers, result, pc>>
      /\ relaxed' = relaxed + 1
      /\ maxRank' = IF Successors(u) # {} /\ candidate > maxRank THEN candidate ELSE maxRank
  BY DEF Relax, graph
<1>3. pc = "relax" /\ Accepted /\ maxRank \in Nat /\ layers = <<>> /\ result = "none"
  BY DEF Relax, Accepted, TypeOK, StageInv
<1>4. topoOrder \in [1 .. N -> Nodes]
  BY <1>3, OrderIsComplete
<1>5. candidate \in Nat
  BY <1>1
<1>. HIDE DEF u, candidate
<1>6. maxRank' \in Nat /\ maxRank <= maxRank'
  BY <1>2, <1>3, <1>5
<1>7. TypeOK'
  BY <1>1, <1>2, <1>3, <1>6 DEF TypeOK
<1>8. StageInv'
  BY <1>2, <1>3 DEF StageInv, AllTaken, Accepted, NoDangling, NoSelfLoop, Current, InnerDone,
                    Owed, OutEdges
<1>9. KahnInv'
  BY <1>2 DEF KahnInv, Accepted, Into, Passed, OutEdges, Seen, TopologicalOrder
<1>10. RelaxInv'
  <2>1. ASSUME NEW k \in 1 .. relaxed', NEW i \in OutEdges(topoOrder[k])
        PROVE  rank'[topoOrder[k]] < rank'[edges[i].to]
    <3>1. /\ k \in 1 .. N /\ topoOrder[k] \in Nodes /\ edges[i].to \in Nodes
          /\ rank'[topoOrder[k]] = rank[topoOrder[k]]
          /\ rank[topoOrder[k]] \in Nat /\ rank[edges[i].to] \in Nat
      <4>1. k \in 1 .. N /\ k \in 1 .. relaxed + 1
        BY <1>1, <1>2, NAssumption
      <4>2. i \in DOMAIN edges /\ edges[i].to \in Nodes
        BY <1>3, AcceptedEdges DEF OutEdges
      <4>. QED
        BY <4>1, <4>2, <1>1, <1>4
    <3>2. CASE k \in 1 .. relaxed
      <4>1. rank[topoOrder[k]] < rank[edges[i].to]
        BY <3>2, <1>3 DEF RelaxInv
      <4>. QED
        BY <4>1, <3>1, <1>1
    <3>3. CASE k = relaxed + 1
      <4>1. topoOrder[k] = u /\ edges[i].to \in Successors(u)
        BY <3>3 DEF u, Successors
      <4>. QED
        BY <4>1, <3>1, <1>1 DEF candidate
    <3>. QED
      BY <3>2, <3>3, <1>1, <1>2
  <2>2. ASSUME NEW other \in [Nodes -> 0 .. N - 1], Descends(edges, other), NEW v \in Nodes
        PROVE  rank'[v] <= other[v]
    <3>1. rank[v] <= other[v] /\ rank[u] <= other[u]
      BY <2>2, <1>1, <1>3 DEF RelaxInv
    <3>2. ASSUME v \in Successors(u)
          PROVE  other[u] < other[v]
      BY <2>2, <3>2 DEF Descends, Successors, OutEdges
    <3>3. other[u] \in Int /\ other[v] \in Int /\ rank[u] \in Int
      BY <1>1
    <3>. QED
      BY <3>1, <3>2, <3>3, <1>1 DEF candidate
  <2>3. ASSUME NEW v \in Nodes, rank'[v] > 0
        PROVE  \E k \in 1 .. relaxed' : rank'[topoOrder[k]] = rank'[v] - 1
    <3>1. CASE rank'[v] = rank[v]
      <4>1. PICK k \in 1 .. relaxed : rank[topoOrder[k]] = rank[v] - 1
        BY <2>3, <3>1, <1>3 DEF RelaxInv
      <4>2. k \in 1 .. relaxed' /\ rank'[topoOrder[k]] = rank'[v] - 1
        BY <4>1, <3>1, <1>1, <1>2
      <4>. QED
        BY <4>2
    <3>2. CASE rank'[v] # rank[v]
      <4>1. rank'[v] = candidate
        BY <3>2, <1>1
      <4>2. relaxed + 1 \in 1 .. relaxed' /\ rank'[topoOrder[relaxed + 1]] = rank[u]
        BY <1>1, <1>2 DEF u
      <4>3. rank[u] = candidate - 1
        BY <1>1 DEF candidate
      <4>. QED
        BY <4>1, <4>2, <4>3
    <3>. QED
      BY <3>1, <3>2
  <2>4. ASSUME NEW v \in Nodes
        PROVE  rank'[v] <= maxRank'
    <3>1. rank[v] <= maxRank /\ rank[v] \in Nat
      BY <1>1, <1>3 DEF RelaxInv
    <3>2. v \in Successors(u) => Successors(u) # {}
      OBVIOUS
    <3>. QED
      BY <3>1, <3>2, <1>1, <1>2, <1>3, <1>5
  <2>5. ASSUME maxRank' > 0
        PROVE  \E v \in Nodes : rank'[v] = maxRank'
    <3>1. CASE Successors(u) # {} /\ candidate > maxRank
      <4>1. PICK v \in Successors(u) : TRUE
        BY <3>1
      <4>2. v \in Nodes /\ rank[v] <= maxRank /\ rank[v] \in Nat
        BY <1>1, <1>3 DEF RelaxInv
      <4>3. rank'[v] = candidate
        BY <3>1, <4>2, <1>1, <1>3, <1>5
      <4>. QED
        BY <4>2, <4>3, <3>1, <1>2
    <3>2. CASE ~(Successors(u) # {} /\ candidate > maxRank)
      <4>1. maxRank' = maxRank
        BY <3>2, <1>2
      <4>2. PICK v \in Nodes : rank[v] = maxRank
        BY <2>5, <4>1, <1>3 DEF RelaxInv
      <4>3. rank'[v] = rank[v]
        BY <4>2, <3>2, <1>1
      <4>. QED
        BY <4>1, <4>2, <4>3
    <3>. QED
      BY <3>1, <3>2
  <2>. QED
    BY <2>1, <2>2, <2>3, <2>4, <2>5, <1>1, <1>2 DEF RelaxInv, OutEdges
<1>. QED
  BY <1>7, <1>8, <1>9, <1>10

-----------------------------------------------------------------------------
(* The layers.                                                              *)

\* The ranks leave no gap: below the lowest layer every rank is that of a node.
LEMMA RanksLeaveNoGap ==
    ASSUME TypeOK, StageInv, KahnInv, RelaxInv, pc = "relax", N > 0,
           NEW r \in 0 .. maxRank
    PROVE  \E v \in Nodes : rank[v] = r
<1>1. /\ rank \in [Nodes -> Nat] /\ maxRank \in Nat /\ relaxed \in 0 .. N
      /\ topoOrder \in [1 .. N -> Nodes]
  BY OrderIsComplete DEF RelaxInv, TypeOK
<1>. DEFINE Empty == {q \in 0 .. maxRank : \A v \in Nodes : rank[v] # q}
<1>. SUFFICES ASSUME Empty # {} PROVE FALSE
  OBVIOUS
<1>2. Empty \in SUBSET (0 .. maxRank)
  OBVIOUS
<1>. HIDE DEF Empty
<1>3. PICK q \in Empty : \A p \in Empty : p <= q
  BY <1>1, <1>2, GreatestNatural
<1>4. q \in 0 .. maxRank /\ \A v \in Nodes : rank[v] # q
  BY <1>3 DEF Empty
<1>5. \E v \in Nodes : rank[v] = maxRank
  <2>1. CASE maxRank > 0
    BY <2>1 DEF RelaxInv
  <2>2. CASE maxRank = 0
    <3>1. 0 \in Nodes
      BY NAssumption DEF Nodes, NodeIds
    <3>2. rank[0] <= maxRank /\ rank[0] \in Nat
      BY <3>1, <1>1 DEF RelaxInv
    <3>. QED
      BY <3>1, <3>2, <2>2
  <2>. QED
    BY <2>1, <2>2, <1>1
<1>6. q + 1 \in 0 .. maxRank
  BY <1>1, <1>4, <1>5
<1>7. PICK v \in Nodes : rank[v] = q + 1
  <2>1. q + 1 \notin Empty
    BY <1>3, <1>4
  <2>. QED
    BY <2>1, <1>6 DEF Empty
<1>8. PICK k \in 1 .. relaxed : rank[topoOrder[k]] = rank[v] - 1
  BY <1>4, <1>7 DEF RelaxInv
<1>9. topoOrder[k] \in Nodes /\ rank[topoOrder[k]] = q
  BY <1>1, <1>4, <1>7, <1>8, NAssumption
<1>. QED
  BY <1>4, <1>9

\* The nodes of a rank, in their order, and where each of them stands.
LEMMA LayerLists ==
    ASSUME TypeOK, NEW r \in Nat
    PROVE  LET q == InIdOrder({v \in Nodes : rank[v] = r}) IN
           /\ q \in Seq(Nodes)
           /\ \A v \in Nodes : rank[v] = r =>
                /\ Cardinality({w \in Nodes : rank[w] = rank[v] /\ w < v}) \in Nat
                /\ Cardinality({w \in Nodes : rank[w] = rank[v] /\ w < v}) + 1 \in DOMAIN q
                /\ q[Cardinality({w \in Nodes : rank[w] = rank[v] /\ w < v}) + 1] = v
           /\ \A k \in DOMAIN q : k \in Nat /\ q[k] \in Nodes /\ rank[q[k]] = r
           /\ \A j, k \in DOMAIN q : q[j] = q[k] => j = k
<1>. DEFINE S == {v \in Nodes : rank[v] = r}
            q == InIdOrder(S)
            c == Cardinality(S)
            place(v) == Cardinality({w \in S : w < v})
<1>1. S \in SUBSET NodeIds(N)
  BY DEF Nodes
<1>2. IsFiniteSet(S)
  <2>1. IsFiniteSet(NodeIds(N))
    BY FS_Interval, NAssumption DEF NodeIds
  <2>. QED
    BY <2>1, <1>1, FS_Subset
<1>3. ASSUME NEW v \in Nodes, rank[v] = r
      PROVE  v \in S /\ {w \in Nodes : rank[w] = rank[v] /\ w < v} = {w \in S : w < v}
  BY <1>3
<1>4. \A v \in S : v \in Nodes /\ v \in Int /\ rank[v] = r
  BY DEF Nodes, NodeIds
<1>. HIDE DEF S
<1>5. \A v \in Nodes : place(v) \in Nat
  <2>. SUFFICES ASSUME NEW v \in Nodes PROVE place(v) \in Nat
    OBVIOUS
  <2>1. {w \in S : w < v} \in SUBSET S
    OBVIOUS
  <2>. QED
    BY <2>1, <1>2, FS_Subset, FS_CardinalityType
<1>6. /\ c \in Nat /\ q \in [1 .. c -> S] /\ q \in Seq(S)
      /\ \A j, k \in 1 .. c : j < k => q[j] < q[k]
      /\ \A v \in S : place(v) + 1 \in 1 .. c /\ q[place(v) + 1] = v
  BY <1>1, NAssumption, InIdOrderLists
<1>. HIDE DEF q, c
<1>7. \A k \in DOMAIN q : k \in Nat /\ q[k] \in Nodes /\ rank[q[k]] = r
  BY <1>4, <1>6
<1>8. \A j, k \in DOMAIN q : q[j] = q[k] => j = k
  <2>1. \A j \in DOMAIN q : j \in 1 .. c /\ q[j] \in Int
    BY <1>4, <1>6
  <2>. QED
    BY <2>1, <1>6
<1>9. q \in Seq(Nodes)
  BY <1>4, <1>6
<1>10. ASSUME NEW v \in Nodes, rank[v] = r
       PROVE  /\ Cardinality({w \in Nodes : rank[w] = rank[v] /\ w < v}) \in Nat
              /\ Cardinality({w \in Nodes : rank[w] = rank[v] /\ w < v}) + 1 \in DOMAIN q
              /\ q[Cardinality({w \in Nodes : rank[w] = rank[v] /\ w < v}) + 1] = v
  <2>1. v \in S /\ Cardinality({w \in Nodes : rank[w] = rank[v] /\ w < v}) = place(v)
    BY <1>3, <1>10
  <2>. HIDE DEF place
  <2>. QED
    BY <2>1, <1>5, <1>6
<1>. QED
  BY <1>7, <1>8, <1>9, <1>10 DEF q, S

\* The layers hold each node at the index of its rank and the place of its order.
LEMMA BuildLayersStep ==
    ASSUME TypeOK, StageInv, KahnInv, RelaxInv, BuildLayers
    PROVE  TypeOK' /\ StageInv' /\ KahnInv' /\ RelaxInv' /\ LayersMatchNodes'
<1>. DEFINE layer(r) == InIdOrder({v \in Nodes : rank[v] = r})
            place(v) == Cardinality({w \in Nodes : rank[w] = rank[v] /\ w < v})
<1>1. /\ UNCHANGED <<ids, edges, rank, inDegree, released, queue, topoOrder, relaxed, maxRank>>
      /\ layers' = [r \in 0 .. maxRank |-> layer(r)]
      /\ order' = [v \in Nodes |-> place(v)]
      /\ result' = "Ok" /\ pc' = "returned" /\ pc = "relax" /\ relaxed = N
  BY DEF BuildLayers, graph
<1>2. Accepted /\ rank \in [Nodes -> Nat] /\ maxRank \in Nat /\ \A v \in Nodes : rank[v] <= maxRank
  BY <1>1 DEF Accepted, RelaxInv, TypeOK
<1>3. ASSUME NEW r \in Nat
      PROVE  /\ layer(r) \in Seq(Nodes)
             /\ \A v \in Nodes : rank[v] = r => /\ place(v) \in Nat /\ place(v) + 1 \in DOMAIN layer(r)
                                                /\ layer(r)[place(v) + 1] = v
             /\ \A k \in DOMAIN layer(r) :
                   k \in Nat /\ layer(r)[k] \in Nodes /\ rank[layer(r)[k]] = r
             /\ \A j, k \in DOMAIN layer(r) : layer(r)[j] = layer(r)[k] => j = k
  BY LayerLists
<1>. HIDE DEF layer, place
<1>4. \A v \in Nodes : place(v) \in Nat
  BY <1>2, <1>3
<1>5. TypeOK'
  <2>1. layers' \in [0 .. maxRank -> Seq(Nodes)]
    BY <1>1, <1>2, <1>3
  <2>2. order' \in [Nodes -> Nat \union {NoRank}]
    BY <1>1, <1>4
  <2>. QED
    BY <2>1, <2>2, <1>1 DEF TypeOK, Results
<1>6. StageInv'
  BY <1>1, <1>2 DEF StageInv, AllTaken, Accepted, NoDangling, NoSelfLoop, Current, InnerDone,
                    Owed, OutEdges
<1>7. KahnInv'
  BY <1>1, <1>2 DEF KahnInv, Accepted, Into, Passed, OutEdges, Seen, TopologicalOrder
<1>8. RelaxInv'
  BY <1>1 DEF RelaxInv, OutEdges
<1>9. LayersMatchNodes'
  <2>1. DOMAIN layers' = 0 .. maxRank /\ \A r \in 0 .. maxRank : r \in Nat /\ layers'[r] = layer(r)
    BY <1>1, <1>2
  <2>2. ASSUME NEW v \in Nodes
        PROVE  /\ rank[v] \in 0 .. maxRank
               /\ order'[v] = place(v)
               /\ place(v) + 1 \in DOMAIN layer(rank[v])
               /\ layer(rank[v])[place(v) + 1] = v
    BY <1>1, <1>2, <1>3
  <2>3. ASSUME NEW r \in 0 .. maxRank, N > 0
        PROVE  layers'[r] # <<>>
    <3>1. PICK v \in Nodes : rank[v] = r
      BY <2>3, <1>1, RanksLeaveNoGap
    <3>2. place(v) + 1 \in DOMAIN layers'[r]
      BY <3>1, <2>1, <2>2
    <3>. QED
      BY <3>2
  <2>4. ASSUME NEW r \in 0 .. maxRank, NEW k \in DOMAIN layers'[r]
        PROVE  rank[layers'[r][k]] = r /\ order'[layers'[r][k]] = k - 1
    <3>. DEFINE v == layer(r)[k]
    <3>1. r \in Nat /\ layers'[r] = layer(r) /\ k \in DOMAIN layer(r) /\ k \in Nat
      BY <2>1, <2>4, <1>3
    <3>2. v \in Nodes /\ rank[v] = r
      BY <3>1, <1>3
    <3>. HIDE DEF v
    <3>3. place(v) + 1 = k
      BY <3>1, <3>2, <2>2, <1>3 DEF v
    <3>4. order'[v] = k - 1
      BY <3>1, <3>2, <3>3, <2>2, <1>4
    <3>. QED
      BY <3>1, <3>2, <3>4 DEF v
  <2>5. \A v \in Nodes : /\ rank[v] \in DOMAIN layers'
                         /\ order'[v] + 1 \in DOMAIN layers'[rank[v]]
                         /\ layers'[rank[v]][order'[v] + 1] = v
    BY <2>1, <2>2
  <2>6. rank' = rank
    BY <1>1
  <2>. QED
    BY <2>1, <2>3, <2>4, <2>5, <2>6 DEF LayersMatchNodes
<1>. QED
  BY <1>5, <1>6, <1>7, <1>8, <1>9

-----------------------------------------------------------------------------
(* The invariant.                                                           *)

\* The invariant holds of every graph that is handed over.
LEMMA InitInv == Init => IInv
<1>. SUFFICES ASSUME Init PROVE IInv
  OBVIOUS
<1>. USE DEF Init
<1>1. TypeOK
  BY NAssumption, InitialFieldsAssumption DEF TypeOK, Results
<1>2. StageInv
  BY DEF StageInv, Accepted
<1>. QED
  BY <1>1, <1>2 DEF IInv, KahnInv, RelaxInv, LayersMatchNodes, Accepted

\* A call that returns an error writes to nothing but its result.
LEMMA RejectStep ==
    ASSUME IInv, NEW error \in Results \ {"none", "Ok", "CyclicGraph"}, pc = "validate",
           Reject(error)
    PROVE  IInv'
<1>. USE DEF IInv
<1>1. TypeOK'
  BY DEF TypeOK, Reject, graph, Results
<1>2. StageInv'
  BY DEF StageInv, Reject, graph, Accepted
<1>. QED
  BY <1>1, <1>2 DEF Reject, KahnInv, RelaxInv, LayersMatchNodes, Accepted

\* A cycle is reported only when the queue is empty and nodes are left.
LEMMA ReportCycleStep ==
    ASSUME IInv, ReportCycle
    PROVE  IInv'
<1>. USE DEF IInv
<1>1. /\ pc = "kahn" /\ result = "none" /\ InnerDone /\ queue = <<>> /\ Len(topoOrder) # N
      /\ Accepted
  BY DEF ReportCycle, StageInv, Accepted
<1>2. /\ UNCHANGED <<ids, edges, rank, order, inDegree, released, queue, topoOrder, relaxed,
                     maxRank, layers>>
      /\ result' = "CyclicGraph" /\ pc' = "returned"
  BY DEF ReportCycle, Reject, graph
<1>3. TypeOK'
  BY <1>2 DEF TypeOK, Results
<1>4. StageInv'
  BY <1>1, <1>2 DEF StageInv, Accepted, NoDangling, NoSelfLoop, Current, InnerDone, Owed, OutEdges
<1>5. KahnInv'
  BY <1>1, <1>2 DEF KahnInv, Into, Passed, OutEdges, Seen, TopologicalOrder
<1>. QED
  BY <1>2, <1>3, <1>4, <1>5 DEF RelaxInv, LayersMatchNodes

\* Every step keeps the invariant.
LEMMA StepInv == IInv /\ [Next]_vars => IInv'
<1>. SUFFICES ASSUME IInv, [Next]_vars PROVE IInv'
  OBVIOUS
<1>0. TypeOK /\ StageInv /\ KahnInv /\ RelaxInv /\ LayersMatchNodes
  BY DEF IInv
<1>1. CASE RejectId
  BY <1>1, RejectStep DEF RejectId, Results
<1>2. CASE RejectDangling
  BY <1>2, RejectStep DEF RejectDangling, Results
<1>3. CASE RejectSelfLoop
  BY <1>3, RejectStep DEF RejectSelfLoop, Results
<1>4. CASE Accept
  <2>1. TypeOK' /\ KahnInv'
    BY <1>0, <1>4, AcceptKahn
  <2>2. StageInv'
    BY <1>0, <1>4 DEF Accept, graph, StageInv, Accepted, NoDangling, NoSelfLoop
  <2>3. RelaxInv' /\ LayersMatchNodes'
    BY <1>0, <1>4 DEF Accept, StageInv, RelaxInv, LayersMatchNodes
  <2>. QED
    BY <2>1, <2>2, <2>3 DEF IInv
<1>5. CASE Dequeue
  <2>1. RelaxInv' /\ LayersMatchNodes'
    BY <1>0, <1>5 DEF Dequeue, StageInv, RelaxInv, LayersMatchNodes
  <2>. QED
    BY <2>1, <1>0, <1>5, DequeueKahn DEF IInv
<1>6. CASE Release
  <2>1. RelaxInv' /\ LayersMatchNodes'
    BY <1>0, <1>6 DEF Release, StageInv, RelaxInv, LayersMatchNodes
  <2>. QED
    BY <2>1, <1>0, <1>6, ReleaseKahn DEF IInv
<1>7. CASE ReportCycle
  BY <1>7, ReportCycleStep
<1>8. CASE StartRelaxation
  <2>1. LayersMatchNodes'
    BY <1>0, <1>8 DEF StartRelaxation, StageInv, LayersMatchNodes
  <2>. QED
    BY <2>1, <1>0, <1>8, StartRelaxationStep DEF IInv
<1>9. CASE Relax
  <2>1. LayersMatchNodes'
    BY <1>0, <1>9 DEF Relax, StageInv, LayersMatchNodes
  <2>. QED
    BY <2>1, <1>0, <1>9, RelaxStep DEF IInv
<1>10. CASE BuildLayers
  BY <1>0, <1>10, BuildLayersStep DEF IInv
<1>11. CASE UNCHANGED vars
  <2>. USE <1>0, <1>11 DEF vars
  <2>1. TypeOK'
    BY DEF TypeOK
  <2>2. StageInv'
    BY DEF StageInv, AllTaken, Accepted, NoDangling, NoSelfLoop, Current, InnerDone, Owed, OutEdges
  <2>3. KahnInv'
    BY DEF KahnInv, Accepted, Into, Passed, OutEdges, Seen, TopologicalOrder
  <2>4. RelaxInv' /\ LayersMatchNodes'
    BY DEF RelaxInv, OutEdges, LayersMatchNodes
  <2>. QED
    BY <2>1, <2>2, <2>3, <2>4 DEF IInv
<1>. QED
  BY <1>1, <1>2, <1>3, <1>4, <1>5, <1>6, <1>7, <1>8, <1>9, <1>10, <1>11
     DEF Next, Step, Returned

\* The invariant holds throughout every call of assign_ranks.
THEOREM InductiveInvariant == Spec => []IInv
<1>. QED
  BY InitInv, StepInv, PTL DEF Spec

\* Every variable keeps its type; in_degree, a usize, is never taken below 0
\* (ranks.rs:42).
THEOREM RankTypes == Spec => []TypeOK
<1>1. IInv => TypeOK
  BY DEF IInv
<1>. QED
  BY <1>1, InductiveInvariant, PTL

\* in_degree counts the edges not yet passed, and the nodes it shows 0 for were
\* queued, each once and after all its predecessors (ranks.rs:37-47).
THEOREM KahnBookkeeping == Spec => []KahnInv
<1>1. IInv => KahnInv
  BY DEF IInv
<1>. QED
  BY <1>1, InductiveInvariant, PTL

-----------------------------------------------------------------------------
(* What the call returns.                                                   *)

\* A node is left over only on or below a cycle: each of those left has an edge
\* from another of them.
LEMMA LeftOverIsCyclic ==
    ASSUME IInv, result = "CyclicGraph"
    PROVE  ~Acyclic(Nodes, ArcsOf(edges, DOMAIN edges))
<1>. DEFINE left == {v \in Nodes : \A k \in DOMAIN Seen : Seen[k] # v}
            arcs == ArcsOf(edges, DOMAIN edges)
<1>1. /\ TypeOK /\ StageInv /\ KahnInv /\ Accepted
      /\ Len(topoOrder) # N /\ queue = <<>> /\ InnerDone
  BY DEF IInv, Accepted, StageInv
<1>2. Seen = topoOrder /\ DOMAIN Seen = 1 .. Len(topoOrder) /\ Len(topoOrder) \in Nat
  BY <1>1 DEF Seen, TypeOK
<1>3. IsFiniteSet(Nodes) /\ Cardinality(Nodes) = N
  BY FS_Interval, NAssumption DEF Nodes, NodeIds
<1>4. left # {}
  <2>. SUFFICES ASSUME left = {} PROVE FALSE
    OBVIOUS
  <2>. DEFINE T == 1 .. Len(topoOrder)
  <2>1. Cardinality(T) = Len(topoOrder)
    <3>. DEFINE L == Len(topoOrder)
    <3>1. L \in Nat
      BY <1>2
    <3>. HIDE DEF L
    <3>2. Cardinality(1 .. L) = L
      BY <3>1, FS_Interval
    <3>. QED
      BY <3>2 DEF L
  <2>2. topoOrder \in [T -> Nodes]
    BY <1>1 DEF TypeOK
  <2>3. \A j, k \in T : topoOrder[j] = topoOrder[k] => j = k
    BY <1>1, <1>2 DEF KahnInv
  <2>4. \A v \in Nodes : \E k \in T : topoOrder[k] = v
    BY <1>2
  <2>. HIDE DEF T
  <2>5. topoOrder \in Injection(T, Nodes)
    BY <2>2, <2>3, Fun_IsInj
  <2>6. topoOrder \in Surjection(T, Nodes)
    BY <2>2, <2>4, Fun_IsSurj
  <2>. QED
    BY <2>1, <2>5, <2>6, <1>1, <1>3, FS_Injection
<1>5. ASSUME NEW w \in left
      PROVE  \E v \in left : <<v, w>> \in arcs
  <2>1. inDegree[w] # 0
    BY <1>1 DEF KahnInv
  <2>2. PICK i \in Into(w) : i \notin Passed
    BY <2>1, <1>1, CountOfInto DEF KahnInv
  <2>3. i \in DOMAIN edges /\ edges[i].to = w /\ edges[i].from \in Nodes
    BY <2>2, <1>1, AcceptedEdges DEF Into
  <2>4. \A k \in 1 .. Len(topoOrder) : topoOrder[k] # edges[i].from
    BY <2>2, <2>3, <1>1, PassedWhenInnerDone
  <2>5. edges[i].from \in left
    BY <2>3, <2>4, <1>2
  <2>6. <<edges[i].from, w>> \in arcs
    BY <2>3 DEF ArcsOf, Arc
  <2>. QED
    BY <2>5, <2>6
<1>6. left \in SUBSET Nodes
  OBVIOUS
<1>. HIDE DEF left, arcs
<1>7. ~Acyclic(Nodes, arcs)
  BY <1>3, <1>4, <1>5, <1>6, SourcelessSetHasCycle
<1>. QED
  BY <1>7 DEF arcs

\* A graph whose nodes have an order that every edge follows has no cycle: the
\* last member of a set of nodes has no edge into the set.
LEMMA RankedIsAcyclic ==
    ASSUME IInv, result = "Ok"
    PROVE  Acyclic(Nodes, ArcsOf(edges, DOMAIN edges))
<1>1. TypeOK /\ StageInv /\ KahnInv
  BY DEF IInv
<1>2. /\ topoOrder \in [1 .. N -> Nodes]
      /\ \A v \in Nodes : \E k \in 1 .. N : topoOrder[k] = v
      /\ \A j, k \in 1 .. N : \A i \in DOMAIN edges :
            edges[i].from = topoOrder[j] /\ edges[i].to = topoOrder[k] => j < k
  BY <1>1, OrderIsComplete
<1>. SUFFICES ASSUME NEW S \in (SUBSET Nodes) \ {{}}
              PROVE  \E v \in S : \A w \in S : <<v, w>> \notin ArcsOf(edges, DOMAIN edges)
  BY DEF Acyclic
<1>. DEFINE places == {k \in 1 .. N : topoOrder[k] \in S}
<1>3. places \in SUBSET (0 .. N) /\ places # {}
  BY <1>2
<1>. HIDE DEF places
<1>4. PICK k \in places : \A l \in places : l <= k
  BY <1>3, NAssumption, GreatestNatural
<1>5. k \in 1 .. N /\ topoOrder[k] \in S
  BY <1>4 DEF places
<1>6. ASSUME NEW w \in S, <<topoOrder[k], w>> \in ArcsOf(edges, DOMAIN edges)
      PROVE  FALSE
  <2>1. PICK i \in DOMAIN edges : edges[i].from = topoOrder[k] /\ edges[i].to = w
    BY <1>6 DEF ArcsOf, Arc
  <2>2. PICK l \in 1 .. N : topoOrder[l] = w
    BY <1>2
  <2>3. k < l /\ l \in places
    BY <2>1, <2>2, <1>2, <1>5 DEF places
  <2>. QED
    BY <2>3, <1>4, <1>5
<1>. QED
  BY <1>5, <1>6

\* CyclicGraph is returned for exactly the valid graphs that have a cycle
\* (ranks.rs:49-52).
THEOREM VerdictOnCycles == Spec => []VerdictIsRight
<1>1. IInv => VerdictIsRight
  BY LeftOverIsCyclic, RankedIsAcyclic DEF VerdictIsRight
<1>. QED
  BY <1>1, InductiveInvariant, PTL

\* The ranks returned descend along every edge, and no assignment that descends
\* places a node higher up (ranks.rs:17, 59-70).
THEOREM RanksAreEarliest == Spec => []EarliestRanks
<1>1. IInv => EarliestRanks
  <2>. SUFFICES ASSUME IInv, result = "Ok" PROVE IsEarliest(N, edges, rank)
    BY DEF EarliestRanks
  <2>1. TypeOK /\ StageInv /\ KahnInv /\ RelaxInv /\ relaxed = N /\ Accepted
    BY DEF IInv, StageInv, Accepted
  <2>2. Descends(edges, rank)
    <3>. SUFFICES ASSUME NEW i \in DOMAIN edges
                  PROVE  rank[edges[i].from] < rank[edges[i].to]
      BY DEF Descends
    <3>1. edges[i].from \in Nodes
      BY <2>1, AcceptedEdges
    <3>2. PICK k \in 1 .. N : topoOrder[k] = edges[i].from
      BY <2>1, <3>1, OrderIsComplete
    <3>3. i \in OutEdges(topoOrder[k]) /\ k \in 1 .. relaxed
      BY <2>1, <3>2 DEF OutEdges
    <3>4. rank[topoOrder[k]] < rank[edges[i].to]
      BY <2>1, <3>3 DEF RelaxInv
    <3>. QED
      BY <3>2, <3>4
  <2>. QED
    BY <2>1, <2>2 DEF RelaxInv, IsEarliest, Nodes
<1>. QED
  BY <1>1, InductiveInvariant, PTL

\* The layers returned hold each node once, at the index of its rank and the
\* place of its order, and none is empty (ranks.rs:72-86).
THEOREM LayersAreRight == Spec => []LayersMatchNodes
<1>1. IInv => LayersMatchNodes
  BY DEF IInv
<1>. QED
  BY <1>1, InductiveInvariant, PTL

\* Until the relaxation starts, and after an error, the nodes are as the caller
\* left them: RefusedGraphUntouched alone does not say so of the steps that come
\* before the error.
EntryInv ==
    pc \in {"validate", "kahn"} \/ result \notin {"none", "Ok"} =>
        rank = entry.rank /\ order = entry.order /\ layers = <<>>

\* Only StartRelaxation, Relax and BuildLayers write, and no error comes after them.
LEMMA EntryStep == IInv /\ EntryInv /\ [Next]_vars => EntryInv'
<1>. SUFFICES ASSUME IInv, EntryInv, [Next]_vars PROVE EntryInv'
  OBVIOUS
<1>1. pc \in {"validate", "kahn", "relax"} => result = "none"
  BY DEF IInv, StageInv
<1>. USE DEF EntryInv
<1>2. CASE \E error \in Results : pc \in {"validate", "kahn"} /\ Reject(error)
  BY <1>2 DEF Reject, graph
<1>3. CASE Accept \/ Dequeue \/ Release
  BY <1>1, <1>3 DEF Accept, Dequeue, Release, graph
<1>4. CASE StartRelaxation \/ Relax \/ BuildLayers
  BY <1>1, <1>4 DEF StartRelaxation, Relax, BuildLayers
<1>5. CASE UNCHANGED vars
  BY <1>5 DEF vars
<1>. QED
  BY <1>2, <1>3, <1>4, <1>5 DEF Next, Step, Returned, RejectId, RejectDangling, RejectSelfLoop,
                                 ReportCycle, Results

\* A call that is refused has left the caller's ranks, orders and layers alone in
\* every step before the error, Kahn's whole loop included (ranks.rs:22, 49-57).
THEOREM RefusalWritesNothing == Spec => []RefusedGraphUntouched
<1>1. Init => EntryInv
  BY DEF Init, EntryInv
<1>2. EntryInv => RefusedGraphUntouched
  BY DEF EntryInv, RefusedGraphUntouched
<1>. QED
  BY <1>1, <1>2, EntryStep, InductiveInvariant, PTL DEF Spec

=============================================================================
