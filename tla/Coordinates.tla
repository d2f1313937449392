----------------------------- MODULE Coordinates -----------------------------
(****************************************************************************)
(* assign_coordinates (coordinates.rs): the coordinate of each rank, then   *)
(* the places within the layers by the algorithm of the configuration       *)
(* (MedianRelax or BrandesKopf), then the centering. The centred positions  *)
(* are kept doubled.                                                        *)
(****************************************************************************)
EXTENDS MedianRelax, BrandesKopf

Init ==
    /\ \E g \in Inputs :
        /\ edges = g.edges /\ rank = g.rank /\ order = g.order
        /\ half = g.half /\ layers = g.layers
        /\ rankCoords = [v \in DOMAIN g.rank |-> 0]
        /\ x = [v \in DOMAIN g.rank |-> 0]
        /\ pos = [v \in DOMAIN g.rank |-> [x |-> 0, y |-> 0]]
    /\ direction \in Directions /\ algorithm \in Algorithms
    /\ preferred = <<>> /\ aligned = <<>> /\ pass = 0 /\ todo = <<>>
    /\ pc = "ranks" /\ result = "none"

-----------------------------------------------------------------------------
(* Stage 1: every node of a layer gets the coordinate of its rank.          *)

LayerExtent(k) == Max({0} \union {2 * Along(v) : v \in Range(layers[k])})

\* MUTANT of LayerCoord: only the gaps add up.
LayerCoordWithoutExtents(k) == (k - 1) * VGap

LayerCoord(k) == SumFunction([j \in 1 .. k - 1 |-> LayerExtent(j) + VGap])

AssignRankCoords ==
    /\ pc = "ranks"
    /\ rankCoords' = [v \in Nodes |->
                        IF \E k \in DOMAIN layers : v \in Range(layers[k])
                        THEN LayerCoord(CHOOSE k \in DOMAIN layers : v \in Range(layers[k]))
                        ELSE 0]
    /\ pc' = "place"
    /\ UNCHANGED <<graph, x, preferred, aligned, pass, todo, pos, result>>

-----------------------------------------------------------------------------
(* Stage 3: x and y, shifted so that the box around all nodes is centred.   *)

PlaceX(v) == IF direction = "LeftToRight" THEN rankCoords[v] ELSE x[v]
PlaceY(v) == IF direction = "LeftToRight" THEN x[v] ELSE rankCoords[v]

\* Twice the centre of the intervals [at(v) - h(v), at(v) + h(v)] of all nodes.
TwiceCenter(at, h) == Min({at[v] - h[v] : v \in Nodes}) + Max({at[v] + h[v] : v \in Nodes})

Center ==
    /\ Relaxed \/ Blended
    /\ LET xs == [v \in Nodes |-> PlaceX(v)]
           ys == [v \in Nodes |-> PlaceY(v)]
           cx == TwiceCenter(xs, [v \in Nodes |-> half[v].width])
           cy == TwiceCenter(ys, [v \in Nodes |-> half[v].height])
       IN pos' = [v \in Nodes |-> [x |-> 2 * xs[v] - cx, y |-> 2 * ys[v] - cy]]
    /\ pc' = "returned" /\ result' = "Ok"
    /\ UNCHANGED <<graph, rankCoords, x, preferred, aligned, pass, todo>>

Step == AssignRankCoords \/ Reject \/ RelaxStep \/ BlendStep \/ Center

\* After the return nothing happens: TLC reports a state where the code is stuck.
Returned == pc = "returned" /\ UNCHANGED vars

Next == Step \/ Returned

Spec == Init /\ [][Next]_vars

-----------------------------------------------------------------------------
(* The type invariant. *)
TypeOK ==
    /\ rankCoords \in [Nodes -> Nat]
    /\ x \in [Nodes -> Int]
    /\ DOMAIN preferred \subseteq Nodes /\ \A v \in DOMAIN preferred : preferred[v] \in Int
    /\ Len(aligned) <= 4 /\ \A a \in DOMAIN aligned : aligned[a] \in [Nodes -> Int]
    /\ pass \in 0 .. (IF algorithm = "MedianRelax" THEN RelaxPasses ELSE BlendRounds)
    /\ Range(todo) \subseteq DOMAIN layers
    /\ pos \in [Nodes -> [x : Int, y : Int]]
    /\ pc \in {"ranks", "place", "relax", "align", "repair", "returned"}
    /\ result \in {"none", "Ok", "DanglingEdge", "MissingRank"}

Siblings == {s \in Nodes \X Nodes :
               s[1] # s[2] /\ \E k \in DOMAIN layers : {s[1], s[2]} \subseteq Range(layers[k])}

\* How far apart a and b are in one coordinate, by their facing sides.
Clearance(xa, ha, xb, hb) == (IF xa < xb THEN xb - xa ELSE xa - xb) - ha - hb

\* Two nodes of a layer are never closer than h_gap: from the initial placement
\* on, through every compaction in whatever order it sorts them, and in the
\* result of either algorithm ("siblings_in_same_layer_never_overlap",
\* tests/pipeline_properties.rs:212).
SiblingsKeepGap ==
    /\ pc = "relax" => \A s \in Siblings :
          Clearance(x[s[1]], Across(s[1]), x[s[2]], Across(s[2])) >= HGap
    /\ result = "Ok" => \A s \in Siblings :
          LET At(v) == IF direction = "LeftToRight" THEN pos[v].y ELSE pos[v].x IN
          Clearance(At(s[1]), 2 * Across(s[1]), At(s[2]), 2 * Across(s[2])) >= 2 * HGap

\* What all the nodes of the widest layer take up, side by side.
WidestLayer == Max({0} \union {SumFunction([p \in DOMAIN layers[k] |-> WidestOf(k) + HGap]) :
                                 k \in DOMAIN layers})

\* The relaxation does not drift: no node is ever left of the origin, and one pass
\* moves the right end by at most the widest layer (what keeps the coordinates
\* finite, tests/pipeline_properties.rs:158).
NoDrift ==
    algorithm = "MedianRelax" =>
        \A v \in Nodes : x[v] >= 0 /\ x[v] <= (pass + 1) * WidestLayer

\* A compaction wastes no room, and siblings that prefer the same place stay in
\* their order ("stable, keeping original order for ties", coordinates.rs:220):
\* every node of the layer ends up on its preference, or touches (at the gap) the
\* node to its left, or is the first.
CompactionIsTight ==
    [][pc = "relax" /\ todo # <<>> /\ x' # x =>
        LET layer == layers[Head(todo)]
            Wish(v) == Preferred(v, x[v])
        IN /\ \A v \in Range(layer) :
                \/ x'[v] = Wish(v)
                \/ \A w \in Range(layer) : x'[w] >= x'[v]
                \/ \E w \in Range(layer) : x'[v] = x'[w] + Distance(w, v)
           /\ \A j, k \in DOMAIN layer :
                j < k /\ Wish(layer[j]) = Wish(layer[k]) =>
                    x'[layer[j]] + Distance(layer[j], layer[k]) <= x'[layer[k]]]_vars

\* In f, the nodes of the layer stand in their order and keep the gap.
InOrder(f, layer) ==
    LET ordered == Ordered(layer) IN
    \A k \in 1 .. Len(ordered) - 1 :
        f[ordered[k + 1]] - f[ordered[k]] >= Distance(ordered[k], ordered[k + 1])

\* Brandes-Koepf keeps the order that crossing reduction chose: each alignment
\* does, from whichever side it starts, so does their average, and so does each
\* layer once the round has repaired it (coordinates.rs:354-360, 437-497). The average
\* does so before the first repair (pass = 0), although README.md:76 says of it that it
\* "can otherwise collapse siblings": each of the four keeps the gap, so does the mean.
OrderIsKept ==
    LET visited == DOMAIN layers \ Range(todo) IN
    /\ \A a \in DOMAIN aligned, k \in DOMAIN layers :
          a < Len(aligned) \/ pc # "align" \/ k \in visited => InOrder(aligned[a], layers[k])
    /\ pc = "repair" =>
          \A k \in DOMAIN layers : pass = 0 \/ k \in visited => InOrder(x, layers[k])

\* A repair moves the nodes of a layer as little as the gaps allow: what it leaves
\* of them is the least-squares fit of what it found, so a layer is not pushed to
\* one side, and one that is already spaced is left alone (coordinates.rs:329-389).
RepairIsBestFit ==
    [][pc = "repair" /\ todo # <<>> =>
        LET ordered == Ordered(layers[Head(todo)])
        IN Adjusted(x', ordered) = BestFit(Adjusted(x, ordered))]_vars

\* The coordinate of the result that grows with the rank.
MainCoordinate(v) == IF direction = "LeftToRight" THEN pos[v].x ELSE pos[v].y

\* Lower ranks come later: the centres of two ranks are apart by the whole extent
\* of the upper one, so every edge points forwards (coordinates.rs:81-90).
RanksDescend ==
    result = "Ok" =>
        \A j, k \in DOMAIN layers : j < k =>
            \A a \in Range(layers[j]), b \in Range(layers[k]) :
                MainCoordinate(b) - MainCoordinate(a) >= 2 * (2 * Along(a) + VGap)

-----------------------------------------------------------------------------
(* What the comments say.                                                   *)

\* v_gap is the "minimum gap between adjacent ranks' edges (not centers)"
\* (ffi.rs:117).
RanksKeepGap ==
    result = "Ok" =>
        \A k \in 1 .. Len(layers) - 1 :
            \A a \in Range(layers[k]), b \in Range(layers[k + 1]) :
                (MainCoordinate(b) - 2 * Along(b)) - (MainCoordinate(a) + 2 * Along(a)) >= 2 * VGap

=============================================================================
