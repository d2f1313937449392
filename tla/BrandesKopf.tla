----------------------------- MODULE BrandesKopf -----------------------------
(****************************************************************************)
(* brandes_kopf_x_coords (coordinates.rs): four alignments, one action per  *)
(* layer of each, their average, and the rounds that blend in the places of *)
(* the neighbours; after the average and after each round the spacing of    *)
(* every layer is repaired, one action per layer.                           *)
(****************************************************************************)
EXTENDS CoordinateState, IsotonicRegression

\* The order that a layer is processed in; a node without one comes first.
Ordered(layer) ==
    StableSort(layer, [k \in DOMAIN layer |-> IF order[layer[k]] = NoOrder THEN 0 ELSE order[layer[k]]], <)

\* The sum of the coordinates, in f, of the neighbours nbs.
SumOf(f, nbs) == SumFunction([i \in DOMAIN nbs |-> f[nbs[i]]])

\* The alignments come as TopLeft, TopRight, BottomLeft and BottomRight.
TopDown(a) == a <= 2
AlignLeft(a) == a % 2 = 1

BeginAlignment ==
    /\ \/ pc = "place" /\ algorithm = "BrandesKopf" /\ \A i \in DOMAIN edges : Good(i)
       \/ pc = "align" /\ todo = <<>> /\ Len(aligned) < 4
    /\ aligned' = Append(aligned, [v \in Nodes |-> 0])
    /\ LET all == [k \in DOMAIN layers |-> k] IN
       todo' = IF TopDown(Len(aligned) + 1) THEN all ELSE Reverse(all)
    /\ pc' = "align"
    /\ UNCHANGED <<graph, rankCoords, x, preferred, pass, pos, result>>

\* The nodes of a layer, the alignment's far side last: each at the mean of its
\* neighbours in the layer before, or as near to it as the gap allows. Sign is 1
\* when the nodes are placed from left to right, -1 from right to left.
Lined(f, nodes, useUp, sign) ==
    LET Wish(v, bound) ==
            LET nbs == Neighbors(v, useUp) IN
            IF DOMAIN nbs = {} THEN bound ELSE SumOf(f, nbs) \div Cardinality(DOMAIN nbs)
        at[k \in DOMAIN nodes] ==
            IF k = 1 THEN Wish(nodes[1], Across(nodes[1]))
            ELSE LET bound == at[k - 1] + sign * Distance(nodes[k - 1], nodes[k])
                     wish == Wish(nodes[k], bound)
                 IN IF sign * wish > sign * bound THEN wish ELSE bound
    IN at

\* MUTANT of AlignLayer: the layer is taken as it is listed.
AlignLayerAsListed ==
    /\ pc = "align" /\ todo # <<>>
    /\ LET a == Len(aligned)
           layer == layers[Head(todo)]
           nodes == IF AlignLeft(a) THEN layer ELSE Reverse(layer)
           at == Lined(aligned[a], nodes, TopDown(a), IF AlignLeft(a) THEN 1 ELSE -1)
       IN aligned' = [aligned EXCEPT ![a] = Placed(@, nodes, at)]
    /\ todo' = Tail(todo)
    /\ UNCHANGED <<graph, rankCoords, x, preferred, pass, pos, pc, result>>

AlignLayer ==
    /\ pc = "align" /\ todo # <<>>
    /\ LET a == Len(aligned)
           ordered == Ordered(layers[Head(todo)])
           nodes == IF AlignLeft(a) THEN ordered ELSE Reverse(ordered)
           at == Lined(aligned[a], nodes, TopDown(a), IF AlignLeft(a) THEN 1 ELSE -1)
       IN aligned' = [aligned EXCEPT ![a] = Placed(@, nodes, at)]
    /\ todo' = Tail(todo)
    /\ UNCHANGED <<graph, rankCoords, x, preferred, pass, pos, pc, result>>

Average ==
    /\ pc = "align" /\ todo = <<>> /\ Len(aligned) = 4
    /\ x' = [v \in Nodes |-> (aligned[1][v] + aligned[2][v] + aligned[3][v] + aligned[4][v]) \div 4]
    /\ todo' = [k \in DOMAIN layers |-> k] /\ pc' = "repair"
    /\ UNCHANGED <<graph, rankCoords, preferred, aligned, pass, pos, result>>

\* How far from the first node of a layer each node is when they stand side by side.
Offsets(ordered) ==
    [k \in DOMAIN ordered |->
        SumFunction([j \in 2 .. k |-> Distance(ordered[j - 1], ordered[j])])]

\* What the offsets leave of the coordinates: nondecreasing when the gaps are kept.
Adjusted(f, ordered) == [k \in DOMAIN ordered |-> f[ordered[k]] - Offsets(ordered)[k]]

\* MUTANT of RepairLayer: nodes are pushed to the right, as a compaction does.
RepairLayerPushes ==
    /\ pc = "repair" /\ todo # <<>>
    /\ LET ordered == Ordered(layers[Head(todo)])
           at[k \in DOMAIN ordered] ==
               IF k = 1 THEN x[ordered[1]]
               ELSE Max({x[ordered[k]], at[k - 1] + Distance(ordered[k - 1], ordered[k])})
       IN x' = Placed(x, ordered, at)
    /\ todo' = Tail(todo)
    /\ UNCHANGED <<graph, rankCoords, preferred, aligned, pass, pos, pc, result>>

RepairLayer ==
    /\ pc = "repair" /\ todo # <<>>
    /\ LET ordered == Ordered(layers[Head(todo)])
           solved == Regression(Adjusted(x, ordered))
       IN x' = Placed(x, ordered, [k \in DOMAIN ordered |-> solved[k] + Offsets(ordered)[k]])
    /\ todo' = Tail(todo)
    /\ UNCHANGED <<graph, rankCoords, preferred, aligned, pass, pos, pc, result>>

\* A round: every node half-way to the mean of its neighbours, above and below.
Blend ==
    /\ pc = "repair" /\ todo = <<>> /\ pass < BlendRounds
    /\ x' = [v \in Nodes |->
               LET nbs == AllNeighbors(v)
                   n == Cardinality(DOMAIN nbs)
               IN IF n = 0 THEN x[v] ELSE (n * x[v] + SumOf(x, nbs)) \div (2 * n)]
    /\ todo' = [k \in DOMAIN layers |-> k] /\ pass' = pass + 1
    /\ UNCHANGED <<graph, rankCoords, preferred, aligned, pos, pc, result>>

BlendStep == BeginAlignment \/ AlignLayer \/ Average \/ RepairLayer \/ Blend
Blended == pc = "repair" /\ todo = <<>> /\ pass = BlendRounds

=============================================================================
