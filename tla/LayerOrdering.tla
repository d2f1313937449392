--------------------------- MODULE LayerOrdering -----------------------------
(****************************************************************************)
(* order_layers (crossings.rs): barycenter sweeps in alternating directions *)
(* with a transpose pass after each, one action per layer that is sorted    *)
(* and per adjacent pair that is compared.                                  *)
(*                                                                          *)
(* layers[k] is the code's ranks.layers[k - 1]. The edges and the ranks do  *)
(* not change here, and a layer only changes its order, so the neighbour    *)
(* lists the code builds on entry are operators over the edges: an index of *)
(* the edge list stands for one entry of the lists at both its ends. A      *)
(* barycenter is the pair of its numerator and denominator, compared        *)
(* exactly: the f32 quotients of the code keep that order.                  *)
(****************************************************************************)
EXTENDS LayoutGraph, Sorting, SequencesExt

NoRank == -1

CONSTANTS Inputs,              \* the graphs: [edges, rank, layers]
          Sweeps,              \* the argument `sweeps`
          MaxTransposePasses   \* MAX_TRANSPOSE_PASSES

\* What the earlier phases leave: a ranked node stands once in the layer of its
\* rank, and nothing else stands in a layer.
Layered(rk, ls) ==
    /\ \A k \in DOMAIN ls : \A p \in DOMAIN ls[k] : rk[ls[k][p]] = k - 1
    /\ \A k \in DOMAIN ls : \A p, q \in DOMAIN ls[k] : ls[k][p] = ls[k][q] => p = q
    /\ \A v \in DOMAIN rk : rk[v] # NoRank =>
          rk[v] + 1 \in DOMAIN ls /\ \E p \in DOMAIN ls[rk[v] + 1] : ls[rk[v] + 1][p] = v

ASSUME InputsAssumption ==
    \A g \in Inputs :
        /\ g.edges \in Seq(Edge)
        /\ IsFiniteSet(DOMAIN g.rank)
        /\ g.rank \in [NodeIds(Cardinality(DOMAIN g.rank)) -> Nat \union {NoRank}]
        /\ g.layers \in Seq(Seq(DOMAIN g.rank))
        /\ Layered(g.rank, g.layers)
ASSUME SweepsAssumption == Sweeps \in Nat /\ MaxTransposePasses \in Nat

VARIABLES edges, rank,      \* of the graph; never written
          layers,           \* ranks.layers
          order,            \* node.order
          sweep,            \* how many sweeps are over
          todo,             \* the layers the current sweep has still to sort
          improved, pass,   \* of transpose_pass
          at,               \* the layer and the left place of the pair the pass is at
          pc, result

graph == <<edges, rank>>
vars == <<edges, rank, layers, order, sweep, todo, improved, pass, at, pc, result>>

\* An edge between adjacent layers, either way up (crossings.rs:49-56).
Adjacent(i) == rank[edges[i].to] - rank[edges[i].from] \in {1, -1}
Upper(i) == IF rank[edges[i].to] > rank[edges[i].from] THEN edges[i].from ELSE edges[i].to
Lower(i) == IF rank[edges[i].to] > rank[edges[i].from] THEN edges[i].to ELSE edges[i].from

\* The orders of v's neighbours in the layer above or below, by edge.
UpNeighbors(v)   == [i \in {j \in DOMAIN edges : Adjacent(j) /\ Lower(j) = v} |-> order[Upper(i)]]
DownNeighbors(v) == [i \in {j \in DOMAIN edges : Adjacent(j) /\ Upper(j) = v} |-> order[Lower(i)]]

Init ==
    /\ \E g \in Inputs :
        /\ edges = g.edges /\ rank = g.rank /\ layers = g.layers
        /\ order = [v \in DOMAIN g.rank |->
                      IF \E k \in DOMAIN g.layers : v \in Range(g.layers[k])
                      THEN CHOOSE p \in 0 .. Cardinality(DOMAIN g.rank) :
                             \E k \in DOMAIN g.layers :
                                p + 1 \in DOMAIN g.layers[k] /\ g.layers[k][p + 1] = v
                      ELSE NoRank]
    /\ sweep = 0 /\ todo = <<>>
    /\ improved = FALSE /\ pass = 0 /\ at = <<1, 1>>
    /\ pc = "check" /\ result = "none"

-----------------------------------------------------------------------------
(* The neighbour lists are built first, and report the first bad edge.      *)

Found(i) == edges[i].from \in DOMAIN rank /\ edges[i].to \in DOMAIN rank
Ranked(i) == rank[edges[i].from] # NoRank /\ rank[edges[i].to] # NoRank
Good(i) == Found(i) /\ Ranked(i)
FirstBad(i) == ~Good(i) /\ \A j \in 1 .. i - 1 : Good(j)

Reject ==
    /\ pc = "check"
    /\ \E i \in DOMAIN edges :
        /\ FirstBad(i)
        /\ result' = IF Found(i) THEN "MissingRank" ELSE "DanglingEdge"
    /\ pc' = "returned"
    /\ UNCHANGED <<graph, layers, order, sweep, todo, improved, pass, at>>

Accept ==
    /\ pc = "check" /\ \A i \in DOMAIN edges : Good(i)
    /\ pc' = "sweep"
    /\ UNCHANGED <<graph, layers, order, sweep, todo, improved, pass, at, result>>

-----------------------------------------------------------------------------
(* A sweep: every layer but the first downwards, all but the last upwards.  *)

\* MUTANT of BeginSweep: the loop runs one layer too far.
BeginSweepOffByOne ==
    /\ pc = "sweep" /\ sweep < Sweeps
    /\ LET down == [k \in 1 .. Len(layers) |-> k + 1] IN
       todo' = IF sweep % 2 = 0 THEN down ELSE [k \in DOMAIN down |-> Len(layers) - k]
    /\ pc' = "barycenter"
    /\ UNCHANGED <<graph, layers, order, sweep, improved, pass, at, result>>

BeginSweep ==
    /\ pc = "sweep" /\ sweep < Sweeps
    /\ LET down == [k \in 1 .. Len(layers) - 1 |-> k + 1] IN
       todo' = IF sweep % 2 = 0 THEN down ELSE [k \in DOMAIN down |-> Len(layers) - k]
    /\ pc' = "barycenter"
    /\ UNCHANGED <<graph, layers, order, sweep, improved, pass, at, result>>

\* The mean order of the neighbours, or the node's own when it has none.
Barycenter(v, orders) ==
    IF DOMAIN orders = {} THEN [sum |-> order[v], count |-> 1]
    ELSE [sum |-> SumFunction(orders), count |-> Cardinality(DOMAIN orders)]

Below(s, t) == s.sum * t.count < t.sum * s.count

Neighbors(v) == IF sweep % 2 = 0 THEN UpNeighbors(v) ELSE DownNeighbors(v)

\* The layers after one of them was sorted.
Reordered(l) ==
    [layers EXCEPT ![l] =
        StableSort(@, [k \in DOMAIN @ |-> Barycenter(@[k], Neighbors(@[k]))], Below)]

ReorderLayer ==
    /\ pc = "barycenter" /\ todo # <<>>
    /\ layers' = Reordered(Head(todo))
    /\ LET sorted == layers'[Head(todo)] IN
       order' = [v \in DOMAIN order |->
                   IF v \in Range(sorted) THEN (CHOOSE p \in DOMAIN sorted : sorted[p] = v) - 1
                   ELSE order[v]]
    /\ todo' = Tail(todo)
    /\ UNCHANGED <<graph, sweep, improved, pass, at, pc, result>>

-----------------------------------------------------------------------------
(* The transpose pass: adjacent pairs, layer by layer, until none improves. *)

Crossings(left, right) ==
    Cardinality({ij \in (DOMAIN left) \X (DOMAIN right) : left[ij[1]] > right[ij[2]]})

\* MUTANT of LocalCrossings: only the layer above is looked at.
CrossingsAbove(a, b) == Crossings(UpNeighbors(a), UpNeighbors(b))

\* Crossings of the edges of a with those of b, with a on the left.
LocalCrossings(a, b) ==
    Crossings(UpNeighbors(a), UpNeighbors(b)) + Crossings(DownNeighbors(a), DownNeighbors(b))

BeginTranspose ==
    /\ pc = "barycenter" /\ todo = <<>>
    /\ improved' = TRUE /\ pass' = 0 /\ at' = <<Len(layers) + 1, 1>>
    /\ pc' = "transpose"
    /\ UNCHANGED <<graph, layers, order, sweep, todo, result>>

PassDone == at[1] > Len(layers)
AtPair == ~PassDone /\ at[2] < Len(layers[at[1]])
LeftOfPair  == layers[at[1]][at[2]]
RightOfPair == layers[at[1]][at[2] + 1]

\* MUTANT of SwapSaves: a swap that changes nothing counts as an improvement.
SwapDoesNotCost(a, b) == LocalCrossings(b, a) <= LocalCrossings(a, b)

SwapSaves(a, b) == LocalCrossings(b, a) < LocalCrossings(a, b)

BeginPass ==
    /\ pc = "transpose" /\ PassDone
    /\ improved /\ pass < MaxTransposePasses
    /\ improved' = FALSE /\ pass' = pass + 1 /\ at' = <<1, 1>>
    /\ UNCHANGED <<graph, layers, order, sweep, todo, pc, result>>

\* MUTANT of SwapPair: the order of the node that moves right is not updated.
SwapPairOneOrder ==
    /\ pc = "transpose" /\ AtPair
    /\ SwapSaves(LeftOfPair, RightOfPair)
    /\ layers' = [layers EXCEPT ![at[1]][at[2]] = RightOfPair,
                               ![at[1]][at[2] + 1] = LeftOfPair]
    /\ order' = [order EXCEPT ![RightOfPair] = at[2] - 1]
    /\ improved' = TRUE /\ at' = <<at[1], at[2] + 1>>
    /\ UNCHANGED <<graph, sweep, todo, pass, pc, result>>

\* MUTANT of SwapPair: the pass does not remember that it swapped.
SwapPairUnnoticed ==
    /\ pc = "transpose" /\ AtPair
    /\ SwapSaves(LeftOfPair, RightOfPair)
    /\ layers' = [layers EXCEPT ![at[1]][at[2]] = RightOfPair,
                               ![at[1]][at[2] + 1] = LeftOfPair]
    /\ order' = [order EXCEPT ![LeftOfPair] = at[2], ![RightOfPair] = at[2] - 1]
    /\ at' = <<at[1], at[2] + 1>>
    /\ UNCHANGED <<graph, sweep, todo, improved, pass, pc, result>>

SwapPair ==
    /\ pc = "transpose" /\ AtPair
    /\ SwapSaves(LeftOfPair, RightOfPair)
    /\ layers' = [layers EXCEPT ![at[1]][at[2]] = RightOfPair,
                               ![at[1]][at[2] + 1] = LeftOfPair]
    /\ order' = [order EXCEPT ![LeftOfPair] = at[2], ![RightOfPair] = at[2] - 1]
    /\ improved' = TRUE /\ at' = <<at[1], at[2] + 1>>
    /\ UNCHANGED <<graph, sweep, todo, pass, pc, result>>

KeepPair ==
    /\ pc = "transpose" /\ AtPair
    /\ ~SwapSaves(LeftOfPair, RightOfPair)
    /\ at' = <<at[1], at[2] + 1>>
    /\ UNCHANGED <<graph, layers, order, sweep, todo, improved, pass, pc, result>>

NextLayer ==
    /\ pc = "transpose" /\ ~PassDone /\ ~AtPair
    /\ at' = <<at[1] + 1, 1>>
    /\ UNCHANGED <<graph, layers, order, sweep, todo, improved, pass, pc, result>>

EndTranspose ==
    /\ pc = "transpose" /\ PassDone
    /\ ~(improved /\ pass < MaxTransposePasses)
    /\ sweep' = sweep + 1
    /\ pc' = "sweep"
    /\ UNCHANGED <<graph, layers, order, todo, improved, pass, at, result>>

Return ==
    /\ pc = "sweep" /\ sweep = Sweeps
    /\ pc' = "returned" /\ result' = "Ok"
    /\ UNCHANGED <<graph, layers, order, sweep, todo, improved, pass, at>>

Step == \/ Reject \/ Accept
        \/ BeginSweep \/ ReorderLayer
        \/ BeginTranspose \/ BeginPass \/ SwapPair \/ KeepPair \/ NextLayer
        \/ EndTranspose
        \/ Return

\* After the return nothing happens: TLC reports a state where the code is stuck.
Returned == pc = "returned" /\ UNCHANGED vars

Next == Step \/ Returned

Spec == Init /\ [][Next]_vars

-----------------------------------------------------------------------------
(* The crossings of the whole drawing: the pairs of edges between the same  *)
(* two layers whose ends are in opposite orders. Places are read from ls,   *)
(* not from `order`, as in count_total_crossings (crossings.rs:170-197),    *)
(* which the tests use and which knows edges that lead downwards only.      *)
TotalCrossings(ls) ==
    LET segments == {i \in DOMAIN edges : Adjacent(i)}
        Place(v) == CHOOSE p \in DOMAIN ls[rank[v] + 1] : ls[rank[v] + 1][p] = v
        place == [v \in DOMAIN rank |-> Place(v)]
    IN Cardinality({ij \in segments \X segments :
          /\ rank[Upper(ij[1])] = rank[Upper(ij[2])]
          /\ place[Upper(ij[1])] < place[Upper(ij[2])]
          /\ place[Lower(ij[1])] > place[Lower(ij[2])]})

(* The type invariant. *)
TypeOK ==
    /\ \A k \in DOMAIN layers : Range(layers[k]) \subseteq DOMAIN rank
    /\ DOMAIN order = DOMAIN rank /\ Range(order) \subseteq Nat \union {NoRank}
    /\ sweep \in 0 .. Sweeps /\ pass \in 0 .. MaxTransposePasses
    /\ Range(todo) \subseteq DOMAIN layers
    /\ improved \in BOOLEAN /\ at[1] \in 1 .. Len(layers) + 1 /\ at[2] \in Nat \ {0}
    /\ pc \in {"check", "sweep", "barycenter", "transpose", "returned"}
    /\ result \in {"none", "Ok", "DanglingEdge", "MissingRank"}

\* Two copies of one fact stay equal through every sort and swap: a node's order
\* is its place in the layer of its rank, and each ranked node has exactly one
\* (crossings.rs:107-110, 136-138).
OrderMatchesLayers ==
    \A v \in DOMAIN rank : rank[v] # NoRank =>
        /\ order[v] + 1 \in DOMAIN layers[rank[v] + 1]
        /\ layers[rank[v] + 1][order[v] + 1] = v
        /\ \A k \in DOMAIN layers : \A p \in DOMAIN layers[k] :
              layers[k][p] = v => k = rank[v] + 1 /\ p = order[v] + 1

\* The local count around one pair is the change of the whole drawing: every swap
\* of the transpose pass lowers the total, the layers on both sides included
\* (crossings.rs:8-9 "strictly decreases the crossing count when it makes any swap").
SwapsReduceCrossings ==
    [][pc = "transpose" /\ layers' # layers
         => TotalCrossings(layers') < TotalCrossings(layers)]_vars

\* A transpose that ended by itself leaves no adjacent pair whose swap would save
\* a crossing, in any layer (crossings.rs:122-145).
NoPairLeftToSwap ==
    pc \in {"sweep", "returned"} /\ sweep > 0 /\ ~improved =>
        \A l \in DOMAIN layers : \A p \in 1 .. Len(layers[l]) - 1 :
            ~SwapSaves(layers[l][p], layers[l][p + 1])

\* A transpose ends by itself, long before the cap: a pass that swapped something
\* is followed by fewer crossings, so there is at most one pass more than there
\* are pairs of edges to cross (crossings.rs:9-10 "guaranteed to terminate on its own").
CapIsNotReached ==
    pc = "transpose" => pass <= 1 + (Len(edges) * (Len(edges) - 1)) \div 2

=============================================================================
