---------------------------- MODULE LayeredGraphs ----------------------------
(* Graphs in layers, from which the MC modules of the later phases build    *)
(* their inputs.                                                            *)
EXTENDS LayoutGraph, SequencesExt

\* The ids 0, 1, ... dealt out to layers of the given sizes.
DealtTo(sizes) ==
    [k \in DOMAIN sizes |->
        [p \in 1 .. sizes[k] |-> SumFunctionOnSet(sizes, 1 .. k - 1) + p - 1]]

RankIn(ls) ==
    [v \in UNION {Range(ls[k]) : k \in DOMAIN ls} |->
        (CHOOSE k \in DOMAIN ls : v \in Range(ls[k])) - 1]

PlainEdge(from, to) == [from |-> from, to |-> to, reversed |-> FALSE]

\* The edges from each node of a layer to each node of the next.
AllEdges(ls) ==
    FlattenSeq([k \in 1 .. Len(ls) - 1 |->
        FlattenSeq([p \in DOMAIN ls[k] |->
            [q \in DOMAIN ls[k + 1] |-> PlainEdge(ls[k][p], ls[k + 1][q])]])])

\* The sets of those edges that give every node the rank of its layer as its
\* earliest one: each node below the first layer has an edge from the layer above.
RankingArcs(ls) ==
    {A \in SUBSET Range(AllEdges(ls)) :
        \A k \in DOMAIN ls : k > 1 => \A v \in Range(ls[k]) : \E e \in A : e.to = v}

\* The edges of A, in the order of AllEdges.
ListOf(ls, A) == SelectSeq(AllEdges(ls), LAMBDA e : e \in A)

=============================================================================
