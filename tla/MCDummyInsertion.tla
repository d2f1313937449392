--------------------------- MODULE MCDummyInsertion --------------------------
(* Graphs of N nodes as assign_ranks leaves them (any ranks up to MaxRank,  *)
(* consistent layers), as a caller who forgot it leaves them (no ranks, no  *)
(* layers), and as one who added node N-1 afterwards does.                  *)
EXTENDS DummyInsertion

CONSTANTS N, MaxRank, MaxEdges

Nodes == NodeIds(N)
Ranks == 0 .. MaxRank

\* The ranks rk with the layers assign_ranks builds from them, by id.
Layered(rk) ==
    LET Layer(r) == SetToSortSeq({v \in Nodes : rk[v] = r}, <)
    IN [rank |-> rk,
        order |-> [v \in Nodes |-> IF rk[v] = NoRank THEN NoRank
                                   ELSE Cardinality({w \in Nodes : rk[w] = rk[v] /\ w < v})],
        layers |-> [k \in 1 .. 1 + Max({0} \union Range(rk)) |-> Layer(k - 1)]]

\* Node 0 has rank 0: the ids are interchangeable but for their order.
RankFunctions == {rk \in [Nodes -> Ranks] : rk[0] = 0}

MCRankSystems ==
    {Layered(rk) : rk \in RankFunctions}
      \union {Layered([rk EXCEPT ![N - 1] = NoRank]) : rk \in RankFunctions}
      \union {Layered([v \in Nodes |-> NoRank])}
      \union {[Layered(rk) EXCEPT !.layers = <<>>] : rk \in RankFunctions}

\* Labels tell the edges of a list apart; the second edge has none.
MCEdgeLists ==
    UNION {{[k \in 1 .. m |-> [from |-> ends[k][1], to |-> ends[k][2],
                               reversed |-> ends[k][3],
                               label |-> IF k = 2 THEN NoLabel ELSE ToString(k)]] :
              ends \in [1 .. m -> (0 .. N) \X (0 .. N) \X BOOLEAN]} : m \in 0 .. MaxEdges}

=============================================================================
