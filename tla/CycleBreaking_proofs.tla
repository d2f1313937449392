------------------------ MODULE CycleBreaking_proofs -------------------------
(****************************************************************************)
(* break_cycles for every number of nodes and every edge list: the type     *)
(* invariant, the inductive invariant SearchInv, the acyclic result, and    *)
(* the implementation of CycleBreakingSpec.                                 *)
(****************************************************************************)
EXTENDS CycleBreaking, TLAPS

-----------------------------------------------------------------------------
(* Facts about the graph operators.                                         *)

\* Every node reaches itself.
LEMMA ReachesSelf ==
    ASSUME NEW V, NEW R, NEW a
    PROVE  Reaches(V, R, a, a)
  BY DEF Reaches

\* A path may be prolonged by an arc.
LEMMA ReachesArc ==
    ASSUME NEW V, NEW R, NEW a, NEW b, NEW c,
           Reaches(V, R, a, b), <<b, c>> \in R
    PROVE  Reaches(V, R, a, c)
<1>. SUFFICES ASSUME NEW S \in SUBSET V, a \in S, ClosedUnder(R, S)
              PROVE  c \in S
  BY DEF Reaches
<1>1. b \in S
  BY DEF Reaches
<1>. QED
  BY <1>1 DEF ClosedUnder

\* More arcs, more paths.
LEMMA ReachesMonotonic ==
    ASSUME NEW V, NEW R, NEW Q, NEW a, NEW b,
           R \subseteq Q, Reaches(V, R, a, b)
    PROVE  Reaches(V, Q, a, b)
<1>. SUFFICES ASSUME NEW S \in SUBSET V, a \in S, ClosedUnder(Q, S)
              PROVE  b \in S
  BY DEF Reaches
<1>1. ClosedUnder(R, S)
  BY DEF ClosedUnder
<1>. QED
  BY <1>1 DEF Reaches

\* Only the arcs between members of V matter to its cycles.
LEMMA AcyclicRestricted ==
    ASSUME NEW V, NEW R, NEW Q, Acyclic(V, R),
           \A v, w \in V : <<v, w>> \in Q => <<v, w>> \in R
    PROVE  Acyclic(V, Q)
<1>. SUFFICES ASSUME NEW S \in (SUBSET V) \ {{}}
              PROVE  \E v \in S : \A w \in S : <<v, w>> \notin Q
  BY DEF Acyclic
<1>1. PICK v \in S : \A w \in S : <<v, w>> \notin R
  BY DEF Acyclic
<1>. QED
  BY <1>1

\* A node that no member of V points to, and that does not point to itself, closes no cycle.
LEMMA AcyclicWithSource ==
    ASSUME NEW V, NEW R, NEW u, Acyclic(V, R),
           <<u, u>> \notin R, \A v \in V : <<v, u>> \notin R
    PROVE  Acyclic(V \union {u}, R)
<1>. SUFFICES ASSUME NEW S \in (SUBSET (V \union {u})) \ {{}}
              PROVE  \E v \in S : \A w \in S : <<v, w>> \notin R
  BY DEF Acyclic
<1>1. CASE S \subseteq {u}
  <2>1. S = {u}
    BY <1>1
  <2>. QED
    BY <2>1
<1>2. CASE ~(S \subseteq {u})
  <2>1. S \ {u} \in (SUBSET V) \ {{}}
    BY <1>2
  <2>2. PICK v \in S \ {u} : \A w \in S \ {u} : <<v, w>> \notin R
    BY <2>1 DEF Acyclic
  <2>3. \A w \in S : <<v, w>> \notin R
    BY <2>2
  <2>. QED
    BY <2>2, <2>3
<1>. QED
  BY <1>1, <1>2

\* The endpoints of an edge that does not dangle are nodes.
LEMMA BoundedEdge ==
    ASSUME NEW es \in Seq(Edge), NEW i \in Bounded(N, es)
    PROVE  /\ i \in 1 .. Len(es)
           /\ es[i] \in Edge
           /\ es[i].from \in Nodes
           /\ es[i].to \in Nodes
<1>1. i \in 1 .. Len(es) /\ es[i].from < N /\ es[i].to < N
  BY DEF Bounded, InBounds
<1>2. es[i] \in Edge
  BY <1>1
<1>3. es[i].from \in Nat /\ es[i].to \in Nat
  BY <1>2 DEF Edge
<1>. QED
  BY <1>1, <1>2, <1>3, NAssumption DEF Nodes, NodeIds

-----------------------------------------------------------------------------
(* Types.                                                                   *)

\* The edge list handed over is a sequence of edges.
LEMMA InputType == TypeOK => input \in Seq(Edge)
  BY InputsAssumption DEF TypeOK

\* The edge under the cursor leaves the top of the stack and leads to a node.
LEMMA NextEdge ==
    ASSUME TypeOK, NEW i, IsNext(i)
    PROVE  /\ i \in Bounded(N, input) /\ i \in 1 .. Len(input)
           /\ input[i] \in Edge
           /\ i \notin scanned
           /\ input[i].from = Top
           /\ Top \in Nodes
           /\ input[i].to \in Nodes
           /\ Len(stack) \in Nat \ {0}
<1>1. i \in Bounded(N, input) /\ i \notin scanned /\ input[i].from = Top /\ stack # <<>>
  BY DEF IsNext, Pending, Adj
<1>2. input \in Seq(Edge)
  BY InputType
<1>3. /\ i \in 1 .. Len(input) /\ input[i] \in Edge
      /\ input[i].from \in Nodes /\ input[i].to \in Nodes
  BY <1>1, <1>2, BoundedEdge
<1>4. Len(stack) \in Nat \ {0}
  BY <1>1 DEF TypeOK
<1>. QED
  BY <1>1, <1>3, <1>4

\* Every step keeps every variable in its type (cycles.rs:24-66).
LEMMA TypeStep == TypeOK /\ [Next]_vars => TypeOK'
<1>. SUFFICES ASSUME TypeOK, [Next]_vars
              PROVE  TypeOK'
  OBVIOUS
<1>. USE NAssumption DEF TypeOK
<1>0. input \in Seq(Edge)
  BY InputType
<1>1. CASE SkipStart
  BY <1>1 DEF SkipStart
<1>2. CASE BeginTree
  <2>1. start \in Nodes
    BY <1>2 DEF BeginTree, Nodes, NodeIds
  <2>. QED
    BY <1>2, <2>1 DEF BeginTree, Gray
<1>3. CASE TreeEdge
  <2>1. PICK i \in DOMAIN input :
            /\ IsNext(i)
            /\ color' = [color EXCEPT ![input[i].to] = Gray]
            /\ stack' = Append(stack, input[i].to)
            /\ scanned' = scanned \union {i}
    BY <1>3 DEF TreeEdge
  <2>2. i \in Bounded(N, input) /\ input[i].to \in Nodes
    BY <2>1, NextEdge
  <2>3. stack' \in Seq(Nodes)
    BY <2>1, <2>2
  <2>4. color' \in [Nodes -> {White, Gray, Black}]
    BY <2>1, <2>2 DEF Gray
  <2>. QED
    BY <1>3, <2>1, <2>2, <2>3, <2>4 DEF TreeEdge
<1>4. CASE BackEdge
  <2>1. PICK i \in DOMAIN input :
            /\ IsNext(i)
            /\ edges' = [edges EXCEPT ![i] = Swap(edges[i])]
            /\ reversedIndices' = Append(reversedIndices, i)
            /\ scanned' = scanned \union {i}
    BY <1>4 DEF BackEdge
  <2>2. i \in Bounded(N, input) /\ i \in 1 .. Len(edges)
    BY <2>1, NextEdge
  <2>3. Swap(edges[i]) \in Edge
    <3>1. edges[i] \in Edge
      BY <2>2
    <3>2. edges[i].from \in Nat /\ edges[i].to \in Nat
      BY <3>1 DEF Edge
    <3>. QED
      BY <3>2 DEF Swap, Edge
  <2>4. edges' \in Seq(Edge) /\ Len(edges') = Len(edges)
    BY <2>1, <2>2, <2>3
  <2>. QED
    BY <1>4, <2>1, <2>2, <2>4 DEF BackEdge
<1>5. CASE FinishedEdge
  <2>1. PICK i \in DOMAIN input : IsNext(i) /\ scanned' = scanned \union {i}
    BY <1>5 DEF FinishedEdge
  <2>2. i \in Bounded(N, input)
    BY <2>1, NextEdge
  <2>. QED
    BY <1>5, <2>1, <2>2 DEF FinishedEdge
<1>6. CASE Backtrack
  <2>1. Top \in Nodes /\ SubSeq(stack, 1, Len(stack) - 1) \in Seq(Nodes)
    BY <1>6 DEF Backtrack, Top
  <2>. QED
    BY <1>6, <2>1 DEF Backtrack, Black
<1>7. CASE Return
  BY <1>7 DEF Return
<1>8. CASE UNCHANGED vars
  BY <1>8 DEF vars
<1>. QED
  BY <1>1, <1>2, <1>3, <1>4, <1>5, <1>6, <1>7, <1>8 DEF Next, Step, Returned

\* The types hold of the state break_cycles starts from.
LEMMA TypeInit == Init => TypeOK
  BY NAssumption, InputsAssumption DEF Init, TypeOK, Bounded, White

\* The variables of break_cycles keep their types on every graph.
THEOREM TypeCorrect == Spec => []TypeOK
  BY TypeInit, TypeStep, PTL DEF Spec

-----------------------------------------------------------------------------
(* The search.                                                              *)

\* Turning edges round keeps which of them join two different nodes, and
\* every scanned edge joins nodes.
LEMMA TurnedEdges ==
    ASSUME TypeOK, TurnedOnce
    PROVE  /\ Proper(N, edges) = Proper(N, input)
           /\ \A i \in scanned : /\ i \in 1 .. Len(input)
                                 /\ input[i].from \in Nodes /\ input[i].to \in Nodes
                                 /\ edges[i].from \in Nodes /\ edges[i].to \in Nodes
<1>1. input \in Seq(Edge)
  BY InputType
<1>2. DOMAIN edges = DOMAIN input
  BY <1>1 DEF TypeOK
<1>3. \A i \in DOMAIN input :
          \/ edges[i] = input[i]
          \/ edges[i].from = input[i].to /\ edges[i].to = input[i].from
  <2>. SUFFICES ASSUME NEW i \in DOMAIN input
                PROVE  \/ edges[i] = input[i]
                       \/ edges[i].from = input[i].to /\ edges[i].to = input[i].from
    OBVIOUS
  <2>1. edges[i] = input[i] \/ edges[i] = Swap(input[i])
    BY DEF TurnedOnce
  <2>. QED
    BY <2>1 DEF Swap
<1>4. Proper(N, edges) = Proper(N, input)
  BY <1>2, <1>3 DEF Proper, Bounded, InBounds, IsSelfLoop
<1>5. \A i \in scanned : i \in 1 .. Len(input) /\ input[i].from \in Nodes /\ input[i].to \in Nodes
  BY <1>1, BoundedEdge DEF TypeOK
<1>. QED
  BY <1>1, <1>3, <1>4, <1>5

LEMMA SearchInit == Init => SearchInv
<1>. SUFFICES ASSUME Init
              PROVE  SearchInv
  OBVIOUS
<1>. USE DEF Init
<1>1. StackIsGray
  BY DEF StackIsGray, White, Gray
<1>2. Progress
  BY NAssumption DEF Progress, BlackNodes, White, Black, Nodes, NodeIds
<1>3. TurnedOnce
  BY DEF TurnedOnce, Turned
<1>4. PassedEdgesPointOn
  BY DEF PassedEdgesPointOn
<1>5. BlackAcyclic
  BY DEF BlackAcyclic, Acyclic, BlackNodes, White, Black
<1>6. StackIsPath
  BY DEF StackIsPath
<1>7. TurnedCloseCycles
  BY DEF TurnedCloseCycles, Turned
<1>. QED
  BY <1>1, <1>2, <1>3, <1>4, <1>5, <1>6, <1>7 DEF SearchInv

\* A new tree starts at a White node over an empty stack (cycles.rs:36-43).
LEMMA SearchBeginTree == TypeOK /\ SearchInv /\ BeginTree => SearchInv'
<1>. SUFFICES ASSUME TypeOK, SearchInv, BeginTree
              PROVE  SearchInv'
  OBVIOUS
<1>. USE DEF SearchInv
<1>0. /\ start \in Nodes /\ color[start] = White
      /\ color' = [color EXCEPT ![start] = Gray]
      /\ stack = <<>> /\ stack' = <<start>> /\ start' = start + 1
      /\ UNCHANGED <<input, edges, scanned, reversedIndices, pc>>
      /\ pc = "running"
  BY NAssumption DEF BeginTree, TypeOK, Nodes, NodeIds
<1>a. /\ \A v \in Nodes : color'[v] = IF v = start THEN Gray ELSE color[v]
      /\ BlackNodes' = BlackNodes
  BY <1>0 DEF TypeOK, BlackNodes, White, Gray, Black
<1>b. Turned' = Turned /\ KeptArcs' = KeptArcs
  BY <1>0 DEF Turned, KeptArcs
<1>1. StackIsGray'
  BY <1>0, <1>a DEF StackIsGray
<1>2. Progress'
  <2>1. \A v \in Nodes : v < start' => v < start \/ v = start
    BY <1>0, NAssumption DEF Nodes, NodeIds
  <2>2. \A v \in BlackNodes' : Adj(v)' \subseteq scanned'
    BY <1>0, <1>a DEF Progress, Adj
  <2>3. \A i \in scanned' : color'[input'[i].from] # White
    BY <1>0, <1>a, TurnedEdges DEF Progress, White, Gray
  <2>. QED
    BY <1>0, <1>a, <2>1, <2>2, <2>3 DEF Progress, White, Gray
<1>3. TurnedOnce'
  BY <1>0, <1>b DEF TurnedOnce
<1>4. PassedEdgesPointOn'
  BY <1>0, <1>a, TurnedEdges DEF PassedEdgesPointOn, White, Black
<1>5. BlackAcyclic'
  BY <1>0, <1>a DEF BlackAcyclic
<1>6. StackIsPath'
  BY <1>0, ReachesSelf DEF StackIsPath
<1>7. TurnedCloseCycles'
  BY <1>0, <1>b DEF TurnedCloseCycles
<1>. QED
  BY <1>1, <1>2, <1>3, <1>4, <1>5, <1>6, <1>7

\* An edge to a White node extends the stack (cycles.rs:51-53).
LEMMA SearchTreeEdge == TypeOK /\ SearchInv /\ TreeEdge => SearchInv'
<1>. SUFFICES ASSUME TypeOK, SearchInv, TreeEdge
              PROVE  SearchInv'
  OBVIOUS
<1>. USE DEF SearchInv
<1>0. PICK i \in DOMAIN input :
        /\ IsNext(i)
        /\ color[input[i].to] = White
        /\ color' = [color EXCEPT ![input[i].to] = Gray]
        /\ stack' = Append(stack, input[i].to)
        /\ scanned' = scanned \union {i}
        /\ UNCHANGED <<input, edges, start, reversedIndices, pc>>
        /\ pc = "running"
  BY DEF TreeEdge
<1>. DEFINE u == Top
            v == input[i].to
            n == Len(stack)
<1>e. /\ i \in Bounded(N, input) /\ i \in 1 .. Len(input) /\ i \notin scanned
      /\ input[i].from = u /\ u \in Nodes /\ v \in Nodes /\ n \in Nat \ {0}
  BY <1>0, NextEdge
<1>s. /\ u = stack[n] /\ n \in DOMAIN stack /\ DOMAIN stack = 1 .. n
      /\ DOMAIN stack' = 1 .. n + 1
      /\ stack'[n + 1] = v /\ \A k \in 1 .. n : stack'[k] = stack[k]
      /\ \A k \in 1 .. n + 1 : k \in 1 .. n \/ k = n + 1
  BY <1>0, <1>e DEF Top, TypeOK
<1>a. /\ \A w \in Nodes : color'[w] = IF w = v THEN Gray ELSE color[w]
      /\ BlackNodes' = BlackNodes
  BY <1>0, <1>e DEF TypeOK, BlackNodes, White, Gray, Black
<1>g. color[u] = Gray /\ u # v
  BY <1>0, <1>s, <1>e DEF StackIsGray, White, Gray
<1>t. Turned' = Turned /\ i \notin Turned
  BY <1>0, <1>e DEF Turned, TurnedOnce
<1>k. KeptArcs \subseteq KeptArcs' /\ <<u, v>> \in KeptArcs'
  BY <1>0, <1>t, <1>e DEF KeptArcs, ArcsOf, Arc
<1>1. StackIsGray'
  <2>1. \A k \in 1 .. n : stack[k] # v
    BY <1>0, <1>s, <1>e DEF StackIsGray, White, Gray
  <2>2. \A j, k \in 1 .. n + 1 : stack'[j] = stack'[k] => j = k
    BY <2>1, <1>s DEF StackIsGray
  <2>3. \A w \in Nodes : color'[w] = Gray <=> \E k \in 1 .. n + 1 : stack'[k] = w
    <3>. SUFFICES ASSUME NEW w \in Nodes
                  PROVE  color'[w] = Gray <=> \E k \in 1 .. n + 1 : stack'[k] = w
      OBVIOUS
    <3>1. CASE w = v
      BY <3>1, <1>a, <1>s, <1>e
    <3>2. CASE w # v
      <4>1. color[w] = Gray <=> \E k \in 1 .. n : stack[k] = w
        BY <1>s DEF StackIsGray
      <4>. QED
        BY <3>2, <4>1, <1>a, <1>s, <1>e
    <3>. QED
      BY <3>1, <3>2
  <2>. QED
    BY <2>2, <2>3, <1>s DEF StackIsGray
<1>2. Progress'
  <2>1. \A w \in BlackNodes' : Adj(w)' \subseteq scanned'
    BY <1>0, <1>a DEF Progress, Adj
  <2>2. \A j \in scanned' : color'[input'[j].from] # White
    BY <1>0, <1>a, <1>e, <1>g, TurnedEdges DEF Progress, White, Gray
  <2>. QED
    BY <1>0, <1>a, <2>1, <2>2 DEF Progress, White, Gray
<1>3. TurnedOnce'
  <2>1. i \in Proper(N, input)
    BY <1>e, <1>g DEF Proper, IsSelfLoop
  <2>. QED
    BY <1>0, <1>t, <2>1 DEF TurnedOnce
<1>4. PassedEdgesPointOn'
  <2>. SUFFICES ASSUME NEW m \in scanned' \cap Proper(N, edges)
                PROVE  \/ color'[edges[m].to] = Black
                       \/ \E j, k \in 1 .. n + 1 :
                             j < k /\ stack'[j] = edges[m].from /\ stack'[k] = edges[m].to
    BY <1>0, <1>s DEF PassedEdgesPointOn
  <2>1. CASE m = i
    <3>1. edges[i] = input[i]
      BY <1>t, <1>e DEF TurnedOnce
    <3>. QED
      BY <2>1, <3>1, <1>s, <1>e
  <2>2. CASE m \in scanned
    <3>1. edges[m].to \in Nodes
      BY <2>2, TurnedEdges
    <3>2. CASE color[edges[m].to] = Black
      BY <3>1, <3>2, <1>a, <1>0 DEF White, Black
    <3>3. CASE \E j, k \in DOMAIN stack :
                 j < k /\ stack[j] = edges[m].from /\ stack[k] = edges[m].to
      BY <3>3, <1>s, <1>e
    <3>. QED
      BY <2>2, <3>2, <3>3 DEF PassedEdgesPointOn
  <2>. QED
    BY <2>1, <2>2, <1>0
<1>5. BlackAcyclic'
  <2>1. edges[i] = input[i] /\ u \notin BlackNodes
    BY <1>t, <1>e, <1>g DEF TurnedOnce, BlackNodes, Gray, Black
  <2>2. \A w, x \in BlackNodes :
            <<w, x>> \in ArcsOf(edges, scanned' \cap Proper(N, edges))
              => <<w, x>> \in ArcsOf(edges, scanned \cap Proper(N, edges))
    BY <2>1, <1>0, <1>e DEF ArcsOf, Arc
  <2>3. Acyclic(BlackNodes, ArcsOf(edges, scanned' \cap Proper(N, edges)))
    <3>. DEFINE R == ArcsOf(edges, scanned \cap Proper(N, edges))
                Q == ArcsOf(edges, scanned' \cap Proper(N, edges))
    <3>1. Acyclic(BlackNodes, R)
      BY DEF BlackAcyclic
    <3>2. \A w, x \in BlackNodes : <<w, x>> \in Q => <<w, x>> \in R
      BY <2>2
    <3>. HIDE DEF R, Q
    <3>3. Acyclic(BlackNodes, Q)
      BY ONLY <3>1, <3>2, AcyclicRestricted
    <3>. QED
      BY <3>3 DEF Q
  <2>. QED
    BY <2>3, <1>0, <1>a DEF BlackAcyclic
<1>6. StackIsPath'
  <2>. SUFFICES ASSUME NEW j \in 1 .. n + 1, NEW k \in 1 .. n + 1, j <= k
                PROVE  Reaches(Nodes, KeptArcs', stack'[j], stack'[k])
    BY <1>s DEF StackIsPath
  <2>1. CASE k \in 1 .. n
    <3>1. j \in 1 .. n
      BY <2>1, <1>e
    <3>2. Reaches(Nodes, KeptArcs, stack[j], stack[k])
      BY <2>1, <3>1, <1>s DEF StackIsPath
    <3>. QED
      BY <2>1, <3>1, <3>2, <1>s, <1>k, ReachesMonotonic
  <2>2. CASE k = n + 1 /\ j \in 1 .. n
    <3>1. Reaches(Nodes, KeptArcs, stack[j], u)
      BY <2>2, <1>s, <1>e DEF StackIsPath
    <3>2. Reaches(Nodes, KeptArcs', stack[j], u)
      BY <3>1, <1>k, ReachesMonotonic
    <3>3. Reaches(Nodes, KeptArcs', stack[j], v)
      BY <3>2, <1>k, ReachesArc
    <3>. QED
      BY <2>2, <3>3, <1>s
  <2>3. CASE k = n + 1 /\ j = n + 1
    BY <2>3, ReachesSelf
  <2>. QED
    BY <2>1, <2>2, <2>3, <1>s
<1>7. TurnedCloseCycles'
  BY <1>0, <1>t, <1>k, ReachesMonotonic DEF TurnedCloseCycles
<1>. QED
  BY <1>1, <1>2, <1>3, <1>4, <1>5, <1>6, <1>7

\* An edge to a Gray node is turned round (cycles.rs:54-60).
LEMMA SearchBackEdge == TypeOK /\ SearchInv /\ BackEdge => SearchInv'
<1>. SUFFICES ASSUME TypeOK, SearchInv, BackEdge
              PROVE  SearchInv'
  OBVIOUS
<1>. USE DEF SearchInv
<1>0. PICK i \in DOMAIN input :
        /\ IsNext(i)
        /\ color[input[i].to] = Gray
        /\ edges' = [edges EXCEPT ![i] = Swap(edges[i])]
        /\ reversedIndices' = Append(reversedIndices, i)
        /\ scanned' = scanned \union {i}
        /\ UNCHANGED <<input, color, start, stack, pc>>
        /\ pc = "running"
  BY DEF BackEdge
<1>. DEFINE u == Top
            v == input[i].to
            n == Len(stack)
            m == Len(reversedIndices)
<1>e. /\ i \in Bounded(N, input) /\ i \in 1 .. Len(input) /\ i \notin scanned
      /\ input[i].from = u /\ u \in Nodes /\ v \in Nodes /\ n \in Nat \ {0}
  BY <1>0, NextEdge
<1>s. u = stack[n] /\ n \in DOMAIN stack /\ DOMAIN stack = 1 .. n
  BY <1>0, <1>e DEF Top, TypeOK
<1>p. PICK p \in DOMAIN stack : stack[p] = v
  BY <1>0, <1>e DEF StackIsGray
<1>g. color[u] = Gray
  BY <1>s, <1>e DEF StackIsGray
<1>r. /\ m \in Nat /\ DOMAIN reversedIndices = 1 .. m
      /\ DOMAIN reversedIndices' = 1 .. m + 1
      /\ reversedIndices'[m + 1] = i
      /\ \A k \in 1 .. m : reversedIndices'[k] = reversedIndices[k]
      /\ \A k \in 1 .. m + 1 : k \in 1 .. m \/ k = m + 1
      /\ \A k \in 1 .. m : k \in 1 .. m + 1
      /\ m + 1 \in 1 .. m + 1
  BY <1>0 DEF TypeOK
<1>t. Turned' = Turned \union {i} /\ i \notin Turned
  <2>1. i \notin Turned
    BY <1>e DEF TurnedOnce
  <2>2. Turned' = {reversedIndices'[k] : k \in 1 .. m + 1}
    BY <1>r DEF Turned
  <2>3. Turned = {reversedIndices[k] : k \in 1 .. m}
    BY <1>r DEF Turned
  <2>4. Turned' \subseteq Turned \union {i}
    BY <2>2, <2>3, <1>r
  <2>5. Turned \union {i} \subseteq Turned'
    BY <2>2, <2>3, <1>r
  <2>. QED
    BY <2>1, <2>4, <2>5
<1>k. KeptArcs' = KeptArcs
  <2>1. scanned' \ Turned' = scanned \ Turned
    BY <1>0, <1>t, <1>e
  <2>. QED
    BY <2>1, <1>0 DEF KeptArcs
<1>d. edges[i] = input[i] /\ DOMAIN edges = DOMAIN input
  BY <1>t, <1>0, InputType DEF TurnedOnce, TypeOK
<1>w. /\ edges'[i] = Swap(input[i])
      /\ edges'[i].from = v /\ edges'[i].to = u
      /\ \A j \in DOMAIN input : j # i => edges'[j] = edges[j]
  <2>1. edges'[i] = Swap(edges[i])
    BY <1>0, <1>d
  <2>. QED
    BY <2>1, <1>0, <1>d, <1>e DEF Swap
<1>1. StackIsGray'
  BY <1>0 DEF StackIsGray
<1>2. Progress'
  <2>1. \A w \in BlackNodes' : Adj(w)' \subseteq scanned'
    BY <1>0 DEF Progress, Adj, BlackNodes
  <2>2. \A j \in scanned' : color'[input'[j].from] # White
    BY <1>0, <1>e, <1>g DEF Progress, White, Gray
  <2>. QED
    BY <1>0, <2>1, <2>2 DEF Progress
<1>3. TurnedOnce'
  <2>1. \A k, l \in 1 .. m + 1 : reversedIndices'[k] = reversedIndices'[l] => k = l
    <3>1. \A k \in 1 .. m : reversedIndices[k] # i
      BY <1>r, <1>t DEF Turned
    <3>. QED
      BY <1>r, <3>1 DEF TurnedOnce
  <2>2. Turned' \subseteq scanned' /\ scanned' \ Proper(N, input) \subseteq Turned'
    BY <1>0, <1>t DEF TurnedOnce
  <2>3. \A j \in DOMAIN input :
            edges'[j] = IF j \in Turned' THEN Swap(input[j]) ELSE input[j]
    BY <1>w, <1>t DEF TurnedOnce
  <2>. QED
    BY <2>1, <2>2, <2>3, <1>0, <1>r DEF TurnedOnce
<1>f. Proper(N, edges)' = Proper(N, edges)
  <2>1. DOMAIN edges' = DOMAIN input
    BY <1>0, <1>d
  <2>2. edges'[i].from = edges[i].to /\ edges'[i].to = edges[i].from
    BY <1>w, <1>d, <1>e
  <2>3. \A j \in DOMAIN input :
            \/ edges'[j] = edges[j]
            \/ edges'[j].from = edges[j].to /\ edges'[j].to = edges[j].from
    BY <1>w, <2>2
  <2>. QED
    BY <2>1, <2>3, <1>d DEF Proper, Bounded, InBounds, IsSelfLoop
<1>4. PassedEdgesPointOn'
  <2>. SUFFICES ASSUME NEW l \in scanned' \cap Proper(N, edges)
                PROVE  \/ color[edges'[l].to] = Black
                       \/ \E j, k \in DOMAIN stack :
                             j < k /\ stack[j] = edges'[l].from /\ stack[k] = edges'[l].to
    BY <1>0, <1>f DEF PassedEdgesPointOn
  <2>1. CASE l = i
    <3>1. u # v
      BY <2>1, <1>e, <1>d DEF Proper, IsSelfLoop
    <3>2. p < n
      BY <3>1, <1>p, <1>s, <1>e
    <3>. QED
      BY <2>1, <3>2, <1>p, <1>s, <1>w
  <2>2. CASE l # i
    <3>1. l \in scanned \cap Proper(N, edges) /\ edges'[l] = edges[l]
      BY <2>2, <1>0, <1>w, <1>d DEF Proper, Bounded
    <3>. QED
      BY <3>1 DEF PassedEdgesPointOn
  <2>. QED
    BY <2>1, <2>2
<1>5. BlackAcyclic'
  <2>1. v \notin BlackNodes
    BY <1>0 DEF BlackNodes, Gray, Black
  <2>2. \A w, x \in BlackNodes :
            <<w, x>> \in ArcsOf(edges', scanned' \cap Proper(N, edges))
              => <<w, x>> \in ArcsOf(edges, scanned \cap Proper(N, edges))
    <3>. SUFFICES ASSUME NEW w \in BlackNodes, NEW x \in BlackNodes,
                         NEW l \in scanned' \cap Proper(N, edges),
                         <<w, x>> = Arc(edges'[l])
                  PROVE  <<w, x>> \in ArcsOf(edges, scanned \cap Proper(N, edges))
      BY DEF ArcsOf
    <3>1. l # i
      BY <2>1, <1>w DEF Arc
    <3>2. l \in scanned \cap Proper(N, edges) /\ edges'[l] = edges[l]
      BY <3>1, <1>0, <1>w, <1>d DEF Proper, Bounded
    <3>. QED
      BY <3>2 DEF ArcsOf
  <2>3. Acyclic(BlackNodes, ArcsOf(edges', scanned' \cap Proper(N, edges)))
    <3>. DEFINE R == ArcsOf(edges, scanned \cap Proper(N, edges))
                Q == ArcsOf(edges', scanned' \cap Proper(N, edges))
    <3>1. Acyclic(BlackNodes, R)
      BY DEF BlackAcyclic
    <3>2. \A w, x \in BlackNodes : <<w, x>> \in Q => <<w, x>> \in R
      BY <2>2
    <3>. HIDE DEF R, Q
    <3>3. Acyclic(BlackNodes, Q)
      BY ONLY <3>1, <3>2, AcyclicRestricted
    <3>. QED
      BY <3>3 DEF Q
  <2>4. BlackNodes' = BlackNodes
    BY <1>0 DEF BlackNodes
  <2>. QED
    BY <2>3, <2>4, <1>f DEF BlackAcyclic
<1>6. StackIsPath'
  BY <1>0, <1>k DEF StackIsPath
<1>7. TurnedCloseCycles'
  <2>1. Reaches(Nodes, KeptArcs, v, u)
    BY <1>p, <1>s, <1>e DEF StackIsPath
  <2>. QED
    BY <2>1, <1>0, <1>t, <1>k, <1>e DEF TurnedCloseCycles
<1>. QED
  BY <1>1, <1>2, <1>3, <1>4, <1>5, <1>6, <1>7

\* An edge to a Black node is passed over (cycles.rs:47-49, no branch taken).
LEMMA SearchFinishedEdge == TypeOK /\ SearchInv /\ FinishedEdge => SearchInv'
<1>. SUFFICES ASSUME TypeOK, SearchInv, FinishedEdge
              PROVE  SearchInv'
  OBVIOUS
<1>. USE DEF SearchInv
<1>0. PICK i \in DOMAIN input :
        /\ IsNext(i)
        /\ color[input[i].to] = Black
        /\ scanned' = scanned \union {i}
        /\ UNCHANGED <<input, edges, color, start, stack, reversedIndices, pc>>
  BY DEF FinishedEdge
<1>. DEFINE u == Top
            v == input[i].to
<1>e. /\ i \in Bounded(N, input) /\ i \in 1 .. Len(input) /\ i \notin scanned
      /\ input[i].from = u /\ u \in Nodes /\ v \in Nodes /\ Len(stack) \in Nat \ {0}
  BY <1>0, NextEdge
<1>g. color[u] = Gray /\ u # v
  <2>1. u = stack[Len(stack)] /\ Len(stack) \in DOMAIN stack
    BY <1>e DEF Top, TypeOK
  <2>2. color[u] = Gray
    BY <2>1, <1>e DEF StackIsGray
  <2>. QED
    BY <2>2, <1>0 DEF Gray, Black
<1>t. Turned' = Turned /\ i \notin Turned
  BY <1>0, <1>e DEF Turned, TurnedOnce
<1>k. KeptArcs \subseteq KeptArcs'
  BY <1>0, <1>t DEF KeptArcs, ArcsOf
<1>d. edges[i] = input[i]
  BY <1>t DEF TurnedOnce
<1>1. StackIsGray'
  BY <1>0 DEF StackIsGray
<1>2. Progress'
  <2>1. \A w \in BlackNodes' : Adj(w)' \subseteq scanned'
    BY <1>0 DEF Progress, Adj, BlackNodes
  <2>2. \A j \in scanned' : color'[input'[j].from] # White
    BY <1>0, <1>e, <1>g DEF Progress, White, Gray
  <2>. QED
    BY <1>0, <2>1, <2>2 DEF Progress
<1>3. TurnedOnce'
  <2>1. i \in Proper(N, input)
    BY <1>e, <1>g DEF Proper, IsSelfLoop
  <2>. QED
    BY <1>0, <1>t, <2>1 DEF TurnedOnce
<1>4. PassedEdgesPointOn'
  BY <1>0, <1>d DEF PassedEdgesPointOn
<1>5. BlackAcyclic'
  <2>1. u \notin BlackNodes
    BY <1>g DEF BlackNodes, Gray, Black
  <2>2. \A w, x \in BlackNodes :
            <<w, x>> \in ArcsOf(edges, scanned' \cap Proper(N, edges))
              => <<w, x>> \in ArcsOf(edges, scanned \cap Proper(N, edges))
    BY <2>1, <1>0, <1>d, <1>e DEF ArcsOf, Arc
  <2>3. Acyclic(BlackNodes, ArcsOf(edges, scanned' \cap Proper(N, edges)))
    <3>. DEFINE R == ArcsOf(edges, scanned \cap Proper(N, edges))
                Q == ArcsOf(edges, scanned' \cap Proper(N, edges))
    <3>1. Acyclic(BlackNodes, R)
      BY DEF BlackAcyclic
    <3>2. \A w, x \in BlackNodes : <<w, x>> \in Q => <<w, x>> \in R
      BY <2>2
    <3>. HIDE DEF R, Q
    <3>3. Acyclic(BlackNodes, Q)
      BY ONLY <3>1, <3>2, AcyclicRestricted
    <3>. QED
      BY <3>3 DEF Q
  <2>4. BlackNodes' = BlackNodes
    BY <1>0 DEF BlackNodes
  <2>. QED
    BY <2>3, <2>4, <1>0 DEF BlackAcyclic
<1>6. StackIsPath'
  BY <1>0, <1>k, ReachesMonotonic DEF StackIsPath
<1>7. TurnedCloseCycles'
  BY <1>0, <1>t, <1>k, ReachesMonotonic DEF TurnedCloseCycles
<1>. QED
  BY <1>1, <1>2, <1>3, <1>4, <1>5, <1>6, <1>7

\* The top node is finished (cycles.rs:61-64): it points to finished nodes only,
\* and none of them points back to it.
LEMMA SearchBacktrack == TypeOK /\ SearchInv /\ Backtrack => SearchInv'
<1>. SUFFICES ASSUME TypeOK, SearchInv, Backtrack
              PROVE  SearchInv'
  OBVIOUS
<1>. USE DEF SearchInv
<1>. DEFINE u == Top
            n == Len(stack)
<1>0. /\ stack # <<>> /\ Pending(u) = {}
      /\ color' = [color EXCEPT ![u] = Black]
      /\ stack' = SubSeq(stack, 1, n - 1)
      /\ UNCHANGED <<input, edges, start, scanned, reversedIndices, pc>>
      /\ pc = "running"
  BY DEF Backtrack
<1>s. /\ n \in Nat \ {0} /\ DOMAIN stack = 1 .. n
      /\ u = stack[n] /\ u \in Nodes /\ n \in 1 .. n
      /\ DOMAIN stack' = 1 .. n - 1
      /\ \A k \in 1 .. n - 1 : k \in 1 .. n /\ k # n /\ stack'[k] = stack[k]
      /\ \A k \in 1 .. n : k \in 1 .. n - 1 \/ k = n
  BY <1>0, SMTT(30) DEF Top, TypeOK
<1>g. color[u] = Gray
  BY <1>s DEF StackIsGray
<1>a. /\ \A w \in Nodes : color'[w] = IF w = u THEN Black ELSE color[w]
      /\ BlackNodes' = BlackNodes \union {u}
      /\ u \notin BlackNodes
  <2>1. \A w \in Nodes : color'[w] = IF w = u THEN Black ELSE color[w]
    BY <1>0, <1>s DEF TypeOK
  <2>2. BlackNodes' = BlackNodes \union {u}
    BY <2>1, <1>s DEF BlackNodes
  <2>. QED
    BY <2>1, <2>2, <1>g, SMTT(30) DEF BlackNodes, Gray, Black
<1>u. \A k \in 1 .. n - 1 : stack[k] # u
  <2>1. \A k \in 1 .. n : k # n => stack[k] # stack[n]
    BY <1>s DEF StackIsGray
  <2>. QED
    BY <2>1, <1>s
<1>t. Turned' = Turned /\ KeptArcs' = KeptArcs
  BY <1>0 DEF Turned, KeptArcs
<1>1. StackIsGray'
  <2>1. \A j, k \in 1 .. n - 1 : stack'[j] = stack'[k] => j = k
    BY <1>s DEF StackIsGray
  <2>2. \A w \in Nodes : color'[w] = Gray <=> \E k \in 1 .. n - 1 : stack'[k] = w
    <3>. SUFFICES ASSUME NEW w \in Nodes
                  PROVE  color'[w] = Gray <=> \E k \in 1 .. n - 1 : stack'[k] = w
      OBVIOUS
    <3>1. CASE w = u
      <4>1. color'[w] # Gray
        BY <3>1, <1>a DEF Gray, Black
      <4>2. \A k \in 1 .. n - 1 : stack'[k] # w
        BY <3>1, <1>u, <1>s
      <4>. QED
        BY <4>1, <4>2
    <3>2. CASE w # u
      <4>1. color[w] = Gray <=> \E k \in 1 .. n : stack[k] = w
        BY <1>s DEF StackIsGray
      <4>. QED
        BY <3>2, <4>1, <1>a, <1>s
    <3>. QED
      BY <3>1, <3>2
  <2>. QED
    BY <2>1, <2>2, <1>s DEF StackIsGray
<1>2. Progress'
  <2>1. Adj(u) \subseteq scanned
    BY <1>0 DEF Pending
  <2>2. \A w \in BlackNodes' : Adj(w)' \subseteq scanned'
    BY <2>1, <1>0, <1>a DEF Progress, Adj
  <2>3. \A j \in scanned' : color'[input'[j].from] # White
    BY <1>0, <1>a, TurnedEdges DEF Progress, White, Black
  <2>. QED
    BY <1>0, <1>a, <2>2, <2>3 DEF Progress, White, Black
<1>3. TurnedOnce'
  BY <1>0, <1>t DEF TurnedOnce
<1>4. PassedEdgesPointOn'
  <2>. SUFFICES ASSUME NEW m \in scanned \cap Proper(N, edges)
                PROVE  \/ color'[edges[m].to] = Black
                       \/ \E j, k \in DOMAIN stack' :
                             j < k /\ stack'[j] = edges[m].from /\ stack'[k] = edges[m].to
    BY <1>0 DEF PassedEdgesPointOn
  <2>1. CASE color[edges[m].to] = Black
    BY <2>1, <1>a, TurnedEdges
  <2>2. CASE color[edges[m].to] # Black
    <3>1. PICK j \in 1 .. n, k \in 1 .. n :
              j < k /\ stack[j] = edges[m].from /\ stack[k] = edges[m].to
      BY <2>2, <1>s DEF PassedEdgesPointOn
    <3>2. CASE k = n
      BY <3>1, <3>2, <1>a, <1>s, SMTT(30)
    <3>3. CASE k # n
      <4>0. n \in Nat /\ j < k
        BY <3>1, <1>s
      <4>1. j \in 1 .. n - 1 /\ k \in 1 .. n - 1
        BY <3>3, <4>0
      <4>. QED
        BY <3>1, <4>1, <1>s
    <3>. QED
      BY <3>2, <3>3, SMTT(30)
  <2>. QED
    BY <2>1, <2>2
<1>5. BlackAcyclic'
  <2>. DEFINE R == ArcsOf(edges, scanned \cap Proper(N, edges))
  <2>1. <<u, u>> \notin R
    BY DEF ArcsOf, Arc, Proper, IsSelfLoop
  <2>2. ASSUME NEW w \in BlackNodes, <<w, u>> \in R
        PROVE  FALSE
    <3>1. PICK m \in scanned \cap Proper(N, edges) : edges[m].from = w /\ edges[m].to = u
      BY <2>2 DEF ArcsOf, Arc
    <3>2. PICK j \in DOMAIN stack : stack[j] = w
      BY <3>1, <1>g DEF PassedEdgesPointOn, Gray, Black
    <3>3. color[w] = Gray
      BY <3>2 DEF StackIsGray, BlackNodes
    <3>. QED
      BY <3>3 DEF BlackNodes, Gray, Black
  <2>3. Acyclic(BlackNodes, R)
    BY DEF BlackAcyclic
  <2>4. Acyclic(BlackNodes \union {u}, R)
    BY <2>1, <2>2, <2>3, AcyclicWithSource
  <2>. QED
    BY <2>4, <1>0, <1>a DEF BlackAcyclic
<1>6. StackIsPath'
  <2>1. \A j, k \in 1 .. n - 1 : j <= k => Reaches(Nodes, KeptArcs, stack[j], stack[k])
    BY <1>s DEF StackIsPath
  <2>. QED
    BY <2>1, <1>s, <1>t DEF StackIsPath
<1>7. TurnedCloseCycles'
  BY <1>0, <1>t DEF TurnedCloseCycles
<1>. QED
  BY <1>1, <1>2, <1>3, <1>4, <1>5, <1>6, <1>7

\* The outer loop moves on, or ends.
LEMMA SearchOuterLoop ==
    TypeOK /\ SearchInv /\ (SkipStart \/ Return \/ UNCHANGED vars) => SearchInv'
<1>. SUFFICES ASSUME TypeOK, SearchInv, SkipStart \/ Return \/ UNCHANGED vars
              PROVE  SearchInv'
  OBVIOUS
<1>0. /\ UNCHANGED <<input, edges, color, stack, scanned, reversedIndices>>
      /\ \/ UNCHANGED <<start, pc>>
         \/ UNCHANGED start /\ stack = <<>> /\ start = N
         \/ UNCHANGED pc /\ pc = "running" /\ start' = start + 1 /\ color[start] # White
  BY DEF SkipStart, Return, vars
<1>. USE DEF SearchInv
<1>1. StackIsGray' /\ TurnedOnce' /\ PassedEdgesPointOn'
  BY <1>0 DEF StackIsGray, TurnedOnce, Turned, PassedEdgesPointOn
<1>2. Progress'
  <2>1. \A w \in BlackNodes' : Adj(w)' \subseteq scanned'
    BY <1>0 DEF Progress, Adj, BlackNodes
  <2>2. \A v \in Nodes : v < start' => color[v] # White
    BY <1>0, NAssumption DEF Progress, TypeOK, Nodes, NodeIds
  <2>. QED
    BY <2>1, <2>2, <1>0 DEF Progress
<1>3. BlackAcyclic' /\ StackIsPath' /\ TurnedCloseCycles'
  BY <1>0 DEF BlackAcyclic, BlackNodes, StackIsPath, TurnedCloseCycles, KeptArcs, Turned
<1>. QED
  BY <1>1, <1>2, <1>3

LEMMA SearchStep == TypeOK /\ SearchInv /\ [Next]_vars => SearchInv'
  BY SearchBeginTree, SearchTreeEdge, SearchBackEdge, SearchFinishedEdge,
     SearchBacktrack, SearchOuterLoop DEF Next, Step, Returned

\* The search keeps its inductive invariant on every graph.
THEOREM SearchCorrect == Spec => []SearchInv
  BY TypeCorrect, SearchInit, SearchStep, PTL DEF Spec

-----------------------------------------------------------------------------
(* What the caller gets.                                                    *)

\* When the search has returned, every node is finished and every edge passed.
LEMMA AllPassed ==
    ASSUME TypeOK, SearchInv, pc = "returned"
    PROVE  BlackNodes = Nodes /\ scanned = Bounded(N, input)
<1>1. stack = <<>> /\ start = N
  BY DEF SearchInv, Progress
<1>2. \A v \in Nodes : color[v] # White /\ color[v] # Gray
  BY <1>1, NAssumption DEF SearchInv, Progress, StackIsGray, Nodes, NodeIds
<1>3. BlackNodes = Nodes
  BY <1>2 DEF TypeOK, BlackNodes
<1>4. ASSUME NEW i \in Bounded(N, input)
      PROVE  i \in scanned
  <2>1. i \in Adj(input[i].from) /\ input[i].from \in Nodes
    BY InputType, BoundedEdge DEF Adj
  <2>. QED
    BY <2>1, <1>3 DEF SearchInv, Progress
<1>. QED
  BY <1>3, <1>4 DEF TypeOK

LEMMA ResultStep == TypeOK /\ SearchInv => ResultAcyclic
<1>. SUFFICES ASSUME TypeOK, SearchInv, pc = "returned"
              PROVE  Acyclic(Nodes, ArcsOf(edges, Proper(N, edges)))
  BY DEF ResultAcyclic
<1>1. BlackNodes = Nodes /\ scanned = Bounded(N, input)
  BY AllPassed
<1>2. Proper(N, edges) = Proper(N, input)
  BY TurnedEdges DEF SearchInv
<1>3. scanned \cap Proper(N, edges) = Proper(N, edges)
  BY <1>1, <1>2 DEF Proper
<1>. QED
  BY <1>1, <1>3 DEF SearchInv, BlackAcyclic

\* break_cycles returns a graph without a cycle, whatever the graph it was given.
THEOREM ResultIsAcyclic == Spec => []ResultAcyclic
  BY TypeCorrect, SearchCorrect, ResultStep, PTL

\* No reversal is superfluous, on any graph: only edges that closed a cycle with
\* edges left alone are turned.
THEOREM ReversalsAreNeeded == Spec => []TurnedCloseCycles
<1>1. SearchInv => TurnedCloseCycles
  BY DEF SearchInv
<1>. QED
  BY <1>1, SearchCorrect, PTL

\* What the caller sees on return is what CycleBreakingSpec promises.
ReturnsBroken == pc = "returned" => Abstract!Broken

LEMMA ContractStep == TypeOK /\ SearchInv => ReturnsBroken
<1>. SUFFICES ASSUME TypeOK, SearchInv, pc = "returned"
              PROVE  Abstract!BreaksCycles(N, input, edges, reversedIndices)
  BY DEF ReturnsBroken, Abstract!Broken
<1>0. /\ \A e : Abstract!Swap(e) = Swap(e)
      /\ \A n, es : Abstract!Bounded(n, es) = Bounded(n, es)
      /\ \A n, es : Abstract!Proper(n, es) = Proper(n, es)
      /\ \A es, I : Abstract!ArcsOf(es, I) = ArcsOf(es, I)
      /\ \A n : Abstract!NodeIds(n) = NodeIds(n)
      /\ \A V, R : Abstract!Acyclic(V, R) <=> Acyclic(V, R)
      /\ \A V, R, a, b : Abstract!Reaches(V, R, a, b) <=> Reaches(V, R, a, b)
  BY DEF Abstract!Swap, Swap, Abstract!Bounded, Bounded, Abstract!InBounds, InBounds,
         Abstract!Proper, Proper, Abstract!IsSelfLoop, IsSelfLoop,
         Abstract!ArcsOf, ArcsOf, Abstract!Arc, Arc, Abstract!NodeIds, NodeIds,
         Abstract!Acyclic, Acyclic, Abstract!Reaches, Reaches,
         Abstract!ClosedUnder, ClosedUnder
<1>1. Abstract!Named(reversedIndices) = Turned
  BY DEF Abstract!Named, Turned
<1>2. scanned = Bounded(N, input)
  BY AllPassed
<1>3. Abstract!TurnsExactly(input, edges, reversedIndices)
  <2>1. DOMAIN edges = DOMAIN input
    BY InputType DEF TypeOK
  <2>2. Turned \subseteq DOMAIN input
    BY TurnedEdges, InputType DEF SearchInv, TurnedOnce
  <2>. QED
    BY <1>0, <1>1, <2>1, <2>2 DEF SearchInv, TurnedOnce, Abstract!TurnsExactly
<1>4. Abstract!TurnsLoops(N, input, reversedIndices)
  BY <1>0, <1>1, <1>2 DEF SearchInv, TurnedOnce, Abstract!TurnsLoops
<1>5. Abstract!TurnsOnlyBackEdges(N, input, reversedIndices)
  BY <1>0, <1>1, <1>2 DEF SearchInv, TurnedCloseCycles, KeptArcs, Nodes, Abstract!TurnsOnlyBackEdges
<1>6. Acyclic(NodeIds(N), ArcsOf(edges, Proper(N, edges)))
  BY ResultStep DEF ResultAcyclic, Nodes
<1>. QED
  BY <1>0, <1>3, <1>4, <1>5, <1>6 DEF Abstract!BreaksCycles

\* Every step of the search is a step of the abstract specification or none.
LEMMA AbstractStep ==
    TypeOK /\ ReturnsBroken' /\ [Next]_vars => [Abstract!Next]_Abstract!vars
<1>. SUFFICES ASSUME TypeOK, ReturnsBroken', [Next]_vars
              PROVE  [Abstract!Next]_Abstract!vars
  OBVIOUS
<1>1. CASE Return
  <2>1. /\ pc = "running" /\ pc' = "returned"
        /\ UNCHANGED <<input, edges, reversedIndices>>
    BY <1>1 DEF Return
  <2>2. Abstract!Broken'
    BY <2>1 DEF ReturnsBroken
  <2>. QED
    BY <2>1, <2>2 DEF Abstract!Next, Abstract!BreakCycles
<1>2. CASE SkipStart \/ BeginTree \/ TreeEdge \/ BackEdge \/ FinishedEdge \/ Backtrack
  <2>1. pc = "running" /\ UNCHANGED <<input, pc>>
    BY <1>2 DEF SkipStart, BeginTree, TreeEdge, BackEdge, FinishedEdge, Backtrack
  <2>. QED
    BY <2>1 DEF Abstract!vars
<1>3. CASE UNCHANGED vars
  BY <1>3 DEF vars, Abstract!vars
<1>. QED
  BY <1>1, <1>2, <1>3 DEF Next, Step, Returned

\* break_cycles implements its contract: to its caller it is one step from the
\* edges it was given to edges and a list that satisfy BreaksCycles.
THEOREM Implementation == Spec => ImplementsSpec
<1>1. Init => Abstract!Init
  BY DEF Init, Abstract!Init
<1>2. TypeOK /\ SearchInv => ReturnsBroken
  BY ContractStep
<1>. QED
  BY <1>1, <1>2, AbstractStep, TypeCorrect, SearchCorrect, PTL
     DEF Spec, ImplementsSpec, Abstract!Spec

=============================================================================
