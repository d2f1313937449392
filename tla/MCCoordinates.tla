---------------------------- MODULE MCCoordinates ----------------------------
(* Layers of the given sizes with every set of edges that ranks them so,    *)
(* node sizes that differ within and between layers; a wide layer whose     *)
(* nodes hang on the nodes of the one above in every way; and graphs that   *)
(* the call refuses.                                                        *)
EXTENDS Coordinates, LayeredGraphs

CONSTANT Shapes   \* the tuples of layer sizes
MCShapes == {<<3, 3>>, <<3, 1, 2>>, <<2, 2, 2>>, <<2, 3, 2>>}

\* The gap of the configurations: quotients are rounded to a quarter of it.
Unit == 4

Alike(ids) == [v \in ids |-> [width |-> Unit, height |-> Unit]]
Mixed(ids) == [v \in ids |-> [width |-> Unit * (v % 3), height |-> Unit * ((2 * v) % 5)]]

\* The orders after crossing reduction, where dummies inserted since have none.
PlaceIn(ls, v) ==
    LET k == CHOOSE k \in DOMAIN ls : v \in Range(ls[k])
    IN (CHOOSE p \in DOMAIN ls[k] : ls[k][p] = v) - 1
Orders(ls, late) == [v \in DOMAIN RankIn(ls) |-> IF v \in late THEN NoOrder ELSE PlaceIn(ls, v)]

\* The last node of every layer of three.
Late(ls) == {Last(ls[k]) : k \in {j \in DOMAIN ls : Len(ls[j]) > 2}}

\* The graph with the layers ls and the edges A, with and without orders.
Variants(ls, A) ==
    LET rk == RankIn(ls)
        Of(ord, h) == [edges |-> ListOf(ls, A), rank |-> rk, order |-> ord, layers |-> ls, half |-> h]
    IN {Of(Orders(ls, DOMAIN rk), Alike(DOMAIN rk)), Of(Orders(ls, {}), Mixed(DOMAIN rk)),
        Of(Orders(ls, Late(ls)), Mixed(DOMAIN rk))}

Graphs(sizes) == UNION {Variants(DealtTo(sizes), A) : A \in RankingArcs(DealtTo(sizes))}

\* Three nodes above, and four below that each hang on one of them.
Fans ==
    LET ls == DealtTo(<<3, 4>>)
    IN UNION {Variants(ls, {PlainEdge(parent[v], v) : v \in 3 .. 6}) : parent \in [3 .. 6 -> 0 .. 2]}

Refused ==
    LET ls == <<<<0>>, <<1>>>>
        rk == [v \in {0, 1, 2} |-> IF v = 2 THEN NoRank ELSE v]
    IN {[edges |-> <<PlainEdge(0, 1), PlainEdge(a[1], a[2])>>, rank |-> rk,
         order |-> [v \in DOMAIN rk |-> NoOrder], layers |-> ls, half |-> Alike(DOMAIN rk)] :
          a \in {<<1, 2>>, <<2, 0>>, <<0, 3>>, <<3, 2>>}}

MCInputs == UNION {Graphs(sizes) : sizes \in Shapes} \union Fans \union Refused

\* The blocks compute the fit they should for every short sequence, not only for
\* those that come up in a layout.
ASSUME RegressionAssumption ==
    \A n \in 0 .. 5 : \A values \in [1 .. n -> -2 .. 2] : Regression(values) = BestFit(values)

=============================================================================
