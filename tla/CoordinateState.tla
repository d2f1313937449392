--------------------------- MODULE CoordinateState ---------------------------
(****************************************************************************)
(* What the two ways to place the nodes of the layers, MedianRelax and      *)
(* BrandesKopf, have in common: the graph, the variables of                 *)
(* assign_coordinates (coordinates.rs), the lists of neighbours and the     *)
(* distance between siblings.                                               *)
(*                                                                          *)
(* Sizes are given by their halves, so that a coordinate is an integer      *)
(* until something is divided; a quotient is rounded down to a unit. f32    *)
(* rounds more finely. layers[k] is the code's ranks.layers[k - 1].         *)
(****************************************************************************)
EXTENDS LayoutGraph, Sorting, SequencesExt

NoRank == -1
NoOrder == -1

CONSTANTS Inputs,         \* the graphs: [edges, rank, order, layers, half]
          Directions,     \* config.direction: subset of {"TopToBottom", "LeftToRight"}
          Algorithms,     \* config.algorithm: subset of {"MedianRelax", "BrandesKopf"}
          HGap, VGap,     \* config.h_gap and config.v_gap
          RelaxPasses,    \* config.relax_passes
          BlendRounds     \* rounds of the loop in brandes_kopf_x_coords: 8 in the code

ASSUME ConfigAssumption ==
    /\ HGap \in Nat /\ VGap \in Nat /\ RelaxPasses \in Nat /\ BlendRounds \in Nat
    /\ Directions \subseteq {"TopToBottom", "LeftToRight"}
    /\ Algorithms \subseteq {"MedianRelax", "BrandesKopf"}

\* What the earlier phases leave: no node stands at two places of the layers.
OnePlaceEach(ls) ==
    \A j, k \in DOMAIN ls : \A p \in DOMAIN ls[j], q \in DOMAIN ls[k] :
        ls[j][p] = ls[k][q] => j = k /\ p = q

ASSUME InputsAssumption ==
    \A g \in Inputs :
        LET ids == NodeIds(Cardinality(DOMAIN g.rank)) IN
        /\ g.edges \in Seq(Edge)
        /\ IsFiniteSet(DOMAIN g.rank)
        /\ g.rank \in [ids -> Nat \union {NoRank}]
        /\ g.order \in [ids -> Nat \union {NoOrder}]
        /\ g.half \in [ids -> [width : Nat, height : Nat]]
        /\ g.layers \in Seq(Seq(ids))
        /\ OnePlaceEach(g.layers)

VARIABLES edges, rank, order,  \* of the graph
          half,                \* half the width and half the height of each node
          layers,              \* ranks.layers
          direction, algorithm

VARIABLES rankCoords,     \* rank_coords
          x,              \* x_coords of the median relaxation, avg_x of Brandes-Koepf
          preferred,      \* preferred_x of the current pass, on the nodes where it is Some
          aligned,        \* the alignments begun so far, of the four in x_coords
          pass,           \* how many relaxation passes or blending rounds have begun
          todo,           \* the layers the current loop over layers has still to visit
          pos,            \* twice node.x and node.y
          pc, result

graph == <<edges, rank, order, half, layers, direction, algorithm>>
vars == <<graph, rankCoords, x, preferred, aligned, pass, todo, pos, pc, result>>

Nodes == DOMAIN rank

\* Half the extent of a node across its layer's neighbours, and along the ranks.
Across(v) == IF direction = "LeftToRight" THEN half[v].height ELSE half[v].width
Along(v)  == IF direction = "LeftToRight" THEN half[v].width ELSE half[v].height

Found(i) == edges[i].from \in Nodes /\ edges[i].to \in Nodes
Ranked(i) == rank[edges[i].from] # NoRank /\ rank[edges[i].to] # NoRank
Good(i) == Found(i) /\ Ranked(i)
FirstBad(i) == ~Good(i) /\ \A j \in 1 .. i - 1 : Good(j)

\* The first bad edge met while building the neighbour lists ends the call.
Reject ==
    /\ pc = "place"
    /\ \E i \in DOMAIN edges :
        /\ FirstBad(i)
        /\ result' = IF Found(i) THEN "MissingRank" ELSE "DanglingEdge"
    /\ pc' = "returned"
    /\ UNCHANGED <<graph, rankCoords, x, preferred, aligned, pass, todo, pos>>

\* Only edges that lead one rank down make neighbours.
Down(i) == rank[edges[i].to] - rank[edges[i].from] = 1

\* The neighbours of v in the layer above or below, one per edge.
Neighbors(v, useUp) ==
    IF useUp THEN [i \in {j \in DOMAIN edges : Down(j) /\ edges[j].to = v} |-> edges[i].from]
             ELSE [i \in {j \in DOMAIN edges : Down(j) /\ edges[j].from = v} |-> edges[i].to]

\* combined_neighbors: those in both layers.
AllNeighbors(v) ==
    [i \in {j \in DOMAIN edges : Down(j) /\ v \in {edges[j].from, edges[j].to}} |->
        IF edges[i].from = v THEN edges[i].to ELSE edges[i].from]

\* MUTANT of Distance: the half of one of the nodes is left out (the bug of the
\* regression test median_relax_no_sibling_overlap).
DistanceWithoutOwnHalf(left, v) == Across(left) + HGap

\* The least distance of two siblings that stand side by side.
Distance(left, v) == Across(left) + HGap + Across(v)

\* The coordinates of f, changed to those of the nodes in the sequence s.
Placed(f, s, at) ==
    [v \in DOMAIN f |-> IF v \in Range(s) THEN at[CHOOSE k \in DOMAIN s : s[k] = v] ELSE f[v]]

=============================================================================
