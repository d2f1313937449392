--------------------------- MODULE MCLabelPlacement ---------------------------
(* Routes down, up, round corners, over segments without length and of a    *)
(* single point; labels of two sizes or none; the two end nodes of the      *)
(* route and up to three nodes or dummies around it.                        *)
EXTENDS LabelPlacement

P(x, y) == [x |-> x, y |-> y]
Routes == {<<P(0, 0), P(0, 100)>>,
           <<P(0, 100), P(0, 50), P(0, 50), P(0, 0)>>,
           <<P(0, 0), P(0, 50), P(30, 50), P(30, 100)>>,
           <<P(30, 50), P(30, 50), P(0, 50), P(0, 50)>>,
           <<P(0, 50), P(0, 50)>>, <<P(0, 0)>>}

LabelSizes == {None, [width |-> 10, height |-> 5], [width |-> 25, height |-> 20]}

NodeAt(x, y, w, h, normal) == [x |-> x, y |-> y, width |-> w, height |-> h, normal |-> normal]
Ends == <<NodeAt(0, -10, 15, 10, TRUE), NodeAt(0, 110, 15, 10, TRUE)>>

\* A small box off the raster of the candidates, a wall, or a dummy on the route.
Obstacles ==
    {NodeAt(x, y, 6, 8, TRUE) : x \in {-25, 4, 20, 33}, y \in {24, 51, 77}}
      \union {NodeAt(x, 50, 4, 60, TRUE) : x \in {-20, 20}} \union {NodeAt(0, 50, 0, 0, FALSE)}

MCInputs ==
    [waypoints : Routes, labelSize : LabelSizes,
     nodes : {Ends \o SetToSeq(S) : S \in {T \in SUBSET Obstacles : Cardinality(T) <= 3}} \union {<<>>}]

=============================================================================
