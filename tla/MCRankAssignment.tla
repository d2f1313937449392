--------------------------- MODULE MCRankAssignment --------------------------
(* Every list of up to 2 edges over the nodes 0 .. N-1 and one id that      *)
(* dangles, and every list of 3 to MaxEdges edges between different nodes,  *)
(* as a multiset: in the order of the ids.                                  *)
EXTENDS RankAssignment

CONSTANT MaxEdges

MCEdge(from, to) == [from |-> from, to |-> to, reversed |-> FALSE]

AnyEdges == {MCEdge(a, b) : a, b \in 0 .. N}
ProperEdges == {e \in AnyEdges : ~IsSelfLoop(e) /\ InBounds(N, e)}

Code(e) == e.from * N + e.to

MCInputs ==
    UNION {[1 .. m -> AnyEdges] : m \in 0 .. 2}
      \union {es \in UNION {[1 .. m -> ProperEdges] : m \in 3 .. MaxEdges} :
                \A k \in 1 .. Len(es) - 1 : Code(es[k]) <= Code(es[k + 1])}

Identity == [v \in Nodes |-> v]

MCIdLists == {Identity, [Identity EXCEPT ![0] = 1]}

\* None everywhere, or what some earlier call left on every node.
MCInitialFields == {[rank |-> [v \in Nodes |-> NoRank], order |-> [v \in Nodes |-> NoRank]],
                    [rank |-> [v \in Nodes |-> 2], order |-> [v \in Nodes |-> v]]}

=============================================================================
