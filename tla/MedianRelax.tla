----------------------------- MODULE MedianRelax -----------------------------
(* median_relax_x_coords (coordinates.rs): the initial places and the       *)
(* relaxation passes, one action per layer that is compacted.               *)
EXTENDS CoordinateState

WidestOf(k) == Max({0} \union {2 * Across(v) : v \in Range(layers[k])})

\* The place of v in its layer, in steps as wide as the layer's widest node.
InitialX(v) ==
    IF \E k \in DOMAIN layers : v \in Range(layers[k])
    THEN LET k == CHOOSE k \in DOMAIN layers : v \in Range(layers[k])
             p == CHOOSE p \in DOMAIN layers[k] : layers[k][p] = v
         IN (p - 1) * (WidestOf(k) + HGap)
    ELSE 0

PlaceInitially ==
    /\ pc = "place" /\ algorithm = "MedianRelax" /\ \A i \in DOMAIN edges : Good(i)
    /\ x' = [v \in Nodes |-> InitialX(v)]
    /\ pc' = "relax"
    /\ UNCHANGED <<graph, rankCoords, preferred, aligned, pass, todo, pos, result>>

\* The middle one of the neighbours' coordinates, the upper one of two.
MedianOf(nbs) ==
    LET listed == Picked(nbs, DOMAIN nbs)
        xs == [k \in DOMAIN listed |-> x[listed[k]]]
    IN StableSort(xs, xs, <)[Len(xs) \div 2 + 1]

\* MUTANT of BeginPass: the loop runs over 0 ..= passes.
BeginPassOnceMore ==
    /\ pc = "relax" /\ todo = <<>> /\ pass <= RelaxPasses
    /\ LET Of(v) == Neighbors(v, pass % 2 = 0) IN
       preferred' = [v \in {u \in Nodes : DOMAIN Of(u) # {}} |-> MedianOf(Of(v))]
    /\ todo' = [k \in DOMAIN layers |-> k]
    /\ pass' = pass + 1
    /\ UNCHANGED <<graph, rankCoords, x, aligned, pos, pc, result>>

\* The preferences of the pass: from the layer above and from the one below in turn.
BeginPass ==
    /\ pc = "relax" /\ todo = <<>> /\ pass < RelaxPasses
    /\ LET Of(v) == Neighbors(v, pass % 2 = 0) IN
       preferred' = [v \in {u \in Nodes : DOMAIN Of(u) # {}} |-> MedianOf(Of(v))]
    /\ todo' = [k \in DOMAIN layers |-> k]
    /\ pass' = pass + 1
    /\ UNCHANGED <<graph, rankCoords, x, aligned, pos, pc, result>>

Preferred(v, default) == IF v \in DOMAIN preferred THEN preferred[v] ELSE default

\* MUTANT of Compacted: a first node without a preference is pushed outwards.
CompactedPushed(sorted) ==
    LET at[k \in DOMAIN sorted] ==
            IF k = 1 THEN Preferred(sorted[1], x[sorted[1]]) - HGap
            ELSE Max({Preferred(sorted[k], x[sorted[k]]),
                      at[k - 1] + Distance(sorted[k - 1], sorted[k])})
    IN at

\* The coordinates of the sorted nodes of a layer: each as preferred, or as near
\* to the one before it as the gap allows.
Compacted(sorted) ==
    LET at[k \in DOMAIN sorted] ==
            IF k = 1 THEN Preferred(sorted[1], 0)
            ELSE Max({Preferred(sorted[k], x[sorted[k]]),
                      at[k - 1] + Distance(sorted[k - 1], sorted[k])})
    IN at

\* MUTANT of ByPreference: nodes with equal preferences change places.
ByPreferenceUnstable(layer) ==
    Reverse(StableSort(layer, [k \in DOMAIN layer |-> Preferred(layer[k], x[layer[k]])], >))

ByPreference(layer) ==
    StableSort(layer, [k \in DOMAIN layer |-> Preferred(layer[k], x[layer[k]])], <)

Compact ==
    /\ pc = "relax" /\ todo # <<>> /\ Len(layers[Head(todo)]) > 1
    /\ LET sorted == ByPreference(layers[Head(todo)]) IN x' = Placed(x, sorted, Compacted(sorted))
    /\ todo' = Tail(todo)
    /\ UNCHANGED <<graph, rankCoords, preferred, aligned, pass, pos, pc, result>>

\* A layer of one node is left where it is.
SkipSmallLayer ==
    /\ pc = "relax" /\ todo # <<>> /\ Len(layers[Head(todo)]) <= 1
    /\ todo' = Tail(todo)
    /\ UNCHANGED <<graph, rankCoords, x, preferred, aligned, pass, pos, pc, result>>

RelaxStep == PlaceInitially \/ BeginPass \/ Compact \/ SkipSmallLayer
Relaxed == pc = "relax" /\ todo = <<>> /\ pass = RelaxPasses

=============================================================================
