--------------------------- MODULE MCLayerOrdering ---------------------------
(* Layers of the given sizes with every set of edges that ranks them so,    *)
(* the first edge as it is, doubled, or drawn upwards (which the code       *)
(* provides for); and graphs that the call refuses.                         *)
EXTENDS LayerOrdering, LayeredGraphs

CONSTANT Shapes   \* the tuples of layer sizes
MCShapes == {<<3, 3>>, <<2, 2, 2>>, <<1, 3, 2>>, <<2, 3, 2>>}

Graphs(sizes) ==
    LET ls == DealtTo(sizes)
        rk == RankIn(ls)
        List(A) == ListOf(ls, A)
        Graph(es) == [edges |-> es, rank |-> rk, layers |-> ls]
    IN {Graph(List(A)) : A \in RankingArcs(ls)}
         \union {Graph(<<Head(List(A))>> \o List(A)) : A \in RankingArcs(ls)}
         \union {Graph(<<Swap(Head(List(A)))>> \o Tail(List(A))) : A \in RankingArcs(ls)}

Refused ==
    LET ls == <<<<0>>, <<1>>>>
        rk == [v \in {0, 1, 2} |-> IF v = 2 THEN NoRank ELSE v]
    IN {[edges |-> <<PlainEdge(0, 1), PlainEdge(a[1], a[2])>>, rank |-> rk, layers |-> ls] :
          a \in {<<1, 2>>, <<2, 0>>, <<0, 3>>, <<3, 2>>}}

MCInputs == UNION {Graphs(sizes) : sizes \in Shapes} \union Refused

=============================================================================
