--------------------------- MODULE MCLayoutPipeline --------------------------
(* Callers with up to 3 nodes and up to 4 edges. The ids they use are not   *)
(* the dense ids, nor in their order; one of them names no node, and one    *)
(* list of nodes has a duplicate.                                           *)
EXTENDS LayoutPipeline

CONSTANTS MaxAnyEdges, MaxGoodEdges

Ids == {3, 5, 8}
Unknown == 9

MCNodeLists == {<<5, 3, 8>>, <<8, 5>>, <<5, 3, 5>>, <<3>>, <<>>}

EdgesOver(ids) == [from : ids, to : ids]

Code(e) == 10 * e.from + e.to

\* Any short list; longer ones, over good ids, as multisets.
MCEdgeLists ==
    UNION {[1 .. m -> EdgesOver(Ids \union {Unknown})] : m \in 0 .. MaxAnyEdges}
      \union {es \in UNION {[1 .. m -> EdgesOver(Ids)] : m \in MaxAnyEdges + 1 .. MaxGoodEdges} :
                \A k \in 1 .. Len(es) - 1 : Code(es[k]) <= Code(es[k + 1])}

=============================================================================
