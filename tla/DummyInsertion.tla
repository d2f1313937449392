--------------------------- MODULE DummyInsertion ----------------------------
(****************************************************************************)
(* insert_dummy_nodes (dummy_nodes.rs): the loop over the edges, one action *)
(* per branch of its body, and the replacement of the edges at its end.     *)
(*                                                                          *)
(* A node is its id; what the code keeps in LayoutNode is here the          *)
(* functions rank and order and the set of ids whose node_type is Dummy.    *)
(* layers[r + 1] is the code's ranks.layers[r]. A label size is opaque: the *)
(* code only copies it, and None is NoLabel.                                *)
(****************************************************************************)
EXTENDS PhaseContracts, SequencesExt

NoRank  == -1
NoLabel == "none"

CONSTANTS EdgeLists,    \* the edge lists a caller may hand over
          RankSystems   \* what it may hand over as node ranks, orders and layers

\* LayoutEdge with its label.
LabelledEdge(labels) == [from : Nat, to : Nat, reversed : BOOLEAN, label : labels]

IsRankSystem(s) ==
    LET ids == NodeIds(Cardinality(DOMAIN s.rank)) IN
    /\ IsFiniteSet(DOMAIN s.rank)
    /\ s.rank \in [ids -> Nat \union {NoRank}]
    /\ s.order \in [ids -> Nat \union {NoRank}]
    /\ s.layers \in Seq(Seq(ids))

ASSUME EdgeListsAssumption ==
    \A es \in EdgeLists : es \in Seq(LabelledEdge({es[i].label : i \in DOMAIN es}))
ASSUME RankSystemsAssumption == \A s \in RankSystems : IsRankSystem(s)

VARIABLES input,         \* the edges and ranks on entry
          edges,         \* graph.edges
          rank, order,   \* of graph.nodes: this phase appends to them
          dummies,       \* the ids whose node_type is Dummy
          layers,        \* ranks.layers
          next,          \* the edge the loop is at
          newEdges, chains,
          result         \* "none" until the call returns, then Ok or the error

vars == <<input, edges, rank, order, dummies, layers, next, newEdges, chains, result>>

NodeCount == Cardinality(DOMAIN rank)

Init ==
    /\ input \in [edges : EdgeLists, ranks : RankSystems]
    /\ edges = input.edges /\ layers = input.ranks.layers
    /\ rank = input.ranks.rank /\ order = input.ranks.order
    /\ dummies = {} /\ next = 1
    /\ newEdges = <<>> /\ chains = <<>> /\ result = "none"

-----------------------------------------------------------------------------
(* One iteration: the edge, its checks and its branches.                    *)

AtEdge == result = "none" /\ next <= Len(edges)
E == edges[next]
Found == E.from \in DOMAIN rank /\ E.to \in DOMAIN rank
Ranked == Found /\ rank[E.from] # NoRank /\ rank[E.to] # NoRank
Span == rank[E.to] - rank[E.from]

\* The endpoints before cycle breaking.
OrigSource == IF E.reversed THEN E.to ELSE E.from
OrigTarget == IF E.reversed THEN E.from ELSE E.to

\* The chain of the edge, along path.
ChainOf(path, isSelfLoop) ==
    [source |-> OrigSource, target |-> OrigTarget,
     reversed |-> E.reversed /\ ~isSelfLoop,
     isSelfLoop |-> isSelfLoop, label |-> E.label, chain |-> path]

\* MUTANT of Fail: what the loop has built so far is written back.
FailHalfway(error) ==
    /\ result' = error /\ edges' = newEdges
    /\ UNCHANGED <<input, rank, order, dummies, layers, next, newEdges, chains>>

Fail(error) ==
    /\ result' = error
    /\ UNCHANGED <<input, edges, rank, order, dummies, layers, next, newEdges, chains>>

DanglingEdge == AtEdge /\ ~Found /\ Fail("DanglingEdge")

MissingRank == AtEdge /\ Found /\ ~Ranked /\ Fail("MissingRank")

SelfLoop ==
    /\ AtEdge /\ Ranked /\ IsSelfLoop(E)
    /\ chains' = Append(chains, ChainOf(<<E.from>>, TRUE))
    /\ newEdges' = Append(newEdges, [E EXCEPT !.reversed = FALSE])
    /\ next' = next + 1
    /\ UNCHANGED <<input, edges, rank, order, dummies, layers, result>>

\* MUTANT of KeepEdge: an edge over one layer is taken for a short one.
KeepEdgeOverOneLayer ==
    /\ AtEdge /\ Ranked /\ ~IsSelfLoop(E) /\ Span <= 2
    /\ chains' = Append(chains, ChainOf(<<E.from, E.to>>, FALSE))
    /\ newEdges' = Append(newEdges, E)
    /\ next' = next + 1
    /\ UNCHANGED <<input, edges, rank, order, dummies, layers, result>>

\* Span 1, and the branch for edges that run backwards or within a rank: the
\* edge is kept as it is.
KeepEdge ==
    /\ AtEdge /\ Ranked /\ ~IsSelfLoop(E) /\ Span <= 1
    /\ chains' = Append(chains, ChainOf(<<E.from, E.to>>, FALSE))
    /\ newEdges' = Append(newEdges, E)
    /\ next' = next + 1
    /\ UNCHANGED <<input, edges, rank, order, dummies, layers, result>>

\* MUTANT of NewDummies: the ids are counted from the nodes on entry.
NewDummiesFromEntry == [k \in 1 .. Span - 1 |-> Cardinality(DOMAIN input.ranks.rank) + k - 1]

\* MUTANT of NewDummies: the id is read after the push, not before.
NewDummiesOffByOne == [k \in 1 .. Span - 1 |-> NodeCount + k]

\* The ids of the new dummies, for ranks rank_from + 1 to rank_to - 1.
NewDummies == [k \in 1 .. Span - 1 |-> NodeCount + k - 1]

\* MUTANT of Segments: the final segment to the target is left out.
SegmentsWithoutLast(path) ==
    [k \in 1 .. Len(path) - 2 |->
        [from |-> path[k], to |-> path[k + 1], reversed |-> FALSE, label |-> NoLabel]]

\* The edges along a path: no label, not reversed.
Segments(path) ==
    [k \in 1 .. Len(path) - 1 |->
        [from |-> path[k], to |-> path[k + 1], reversed |-> FALSE, label |-> NoLabel]]

\* MUTANT of PushToLayers: the dummy goes to the front of its layer.
PushToFront(ls, first, ds) ==
    LET height == IF first + Len(ds) + 1 > Len(ls) THEN first + Len(ds) + 1 ELSE Len(ls)
        At(r) == IF r \in DOMAIN ls THEN ls[r] ELSE <<>>
        Pushed(r) == {k \in DOMAIN ds : first + k + 1 = r}
    IN [r \in 1 .. height |-> IF Pushed(r) = {} THEN At(r)
                              ELSE <<ds[CHOOSE k \in Pushed(r) : TRUE]>> \o At(r)]

\* The layers with ds[k] pushed to the layer of rank first + k, extended
\* by empty layers as far as that takes.
PushToLayers(ls, first, ds) ==
    LET height == IF first + Len(ds) + 1 > Len(ls) THEN first + Len(ds) + 1 ELSE Len(ls)
        At(r) == IF r \in DOMAIN ls THEN ls[r] ELSE <<>>
        Pushed(r) == {k \in DOMAIN ds : first + k + 1 = r}
    IN [r \in 1 .. height |-> IF Pushed(r) = {} THEN At(r)
                              ELSE Append(At(r), ds[CHOOSE k \in Pushed(r) : TRUE])]

LongEdge ==
    /\ AtEdge /\ Ranked /\ Span > 1
    /\ LET path == <<E.from>> \o NewDummies \o <<E.to>>
           grown == NodeIds(NodeCount + Span - 1)
       IN /\ rank' = [v \in grown |-> IF v < NodeCount THEN rank[v]
                                      ELSE rank[E.from] + 1 + v - NodeCount]
          /\ order' = [v \in grown |-> IF v < NodeCount THEN order[v] ELSE NoRank]
          /\ dummies' = dummies \union Range(NewDummies)
          /\ layers' = PushToLayers(layers, rank[E.from], NewDummies)
          /\ newEdges' = newEdges \o Segments(path)
          /\ chains' = Append(chains, ChainOf(path, FALSE))
    /\ next' = next + 1
    /\ UNCHANGED <<input, edges, result>>

\* The place of v in the last layer that lists it, and whether one does.
Listed(v) == {k \in DOMAIN layers : v \in Range(layers[k])}
Place(v) == LET k == Max(Listed(v)) IN Max({p \in DOMAIN layers[k] : layers[k][p] = v}) - 1

\* After the loop: the new edges, and the orders seeded from the layers.
Finish ==
    /\ result = "none" /\ next > Len(edges)
    /\ edges' = newEdges
    /\ order' = [v \in DOMAIN order |-> IF Listed(v) = {} THEN order[v] ELSE Place(v)]
    /\ result' = "Ok"
    /\ UNCHANGED <<input, rank, dummies, layers, next, newEdges, chains>>

Step == \/ DanglingEdge \/ MissingRank
        \/ SelfLoop \/ KeepEdge \/ LongEdge
        \/ Finish

\* After the return nothing happens: TLC reports a state where the code is stuck.
Returned == result # "none" /\ UNCHANGED vars

Next == Step \/ Returned

Spec == Init /\ [][Next]_vars

-----------------------------------------------------------------------------
Originals == DOMAIN input.ranks.rank

(* The type invariant: the dense ids, and which of them are dummies. *)
TypeOK ==
    /\ \A e \in Range(edges) \union Range(newEdges) : e \in LabelledEdge({e.label})
    /\ DOMAIN rank = NodeIds(NodeCount) /\ Range(rank) \subseteq Nat \union {NoRank}
    /\ DOMAIN order = DOMAIN rank /\ Range(order) \subseteq Nat \union {NoRank}
    /\ dummies = DOMAIN rank \ Originals
    /\ \A k \in DOMAIN layers : Range(layers[k]) \subseteq DOMAIN rank
    /\ next \in 1 .. Len(input.edges) + 1 /\ Len(chains) = next - 1
    /\ result \in {"none", "Ok", "DanglingEdge", "MissingRank"}

\* No edge dangles on entry. (graph.nodes grows in the loop, so the check of a
\* later edge may find a dummy of an earlier one under the id that dangles: see
\* DanglingIsRefused.)
NoDangling == \A i \in DOMAIN input.edges :
                  input.edges[i].from \in Originals /\ input.edges[i].to \in Originals

Success == result = "Ok" /\ NoDangling

\* Every edge joins adjacent layers, downwards, but for those that did not
\* descend on entry (dummy_nodes.rs:3-5: crossing reduction "only handles
\* adjacent-layer edges").
EdgesSpanOneRank ==
    Success => \A e \in Range(edges) :
        \/ rank[e.to] = rank[e.from] + 1
        \/ e.to \in Originals /\ rank[e.to] <= rank[e.from]

\* The arcs along a path; the path of a self-loop is its node alone.
PathArcs(path) ==
    IF Len(path) = 1 THEN <<<<path[1], path[1]>>>>
    ELSE [k \in 1 .. Len(path) - 1 |-> <<path[k], path[k + 1]>>]

\* Each edge of the caller has one chain, along the path the contract gives it,
\* with its orientation and its label, and the edges of the graph are the chains
\* laid end to end: none is lost, none is added (dummy_nodes.rs:75-131, 151-152).
ChainsCoverEdges ==
    Success =>
        /\ Len(chains) = Len(input.edges)
        /\ \A k \in DOMAIN chains :
              LET e == input.edges[k]
                  c == chains[k]
              IN /\ c.chain = PathOf(Cardinality(Originals), input.edges, input.ranks.rank, k)
                 /\ <<c.source, c.target>> = IF e.reversed THEN <<e.to, e.from>>
                                              ELSE <<e.from, e.to>>
                 /\ c.label = e.label
        /\ [i \in DOMAIN edges |-> Arc(edges[i])]
              = FlattenSeq([k \in DOMAIN chains |-> PathArcs(chains[k].chain)])

\* A dummy belongs to one chain, once, and has one edge in and one out.
DummiesArePrivate ==
    Success => \A d \in dummies :
        /\ Cardinality({kp \in UNION {{k} \X DOMAIN chains[k].chain : k \in DOMAIN chains} :
                           chains[kp[1]].chain[kp[2]] = d}) = 1
        /\ Cardinality({i \in DOMAIN edges : edges[i].from = d}) = 1
        /\ Cardinality({i \in DOMAIN edges : edges[i].to = d}) = 1

\* The nodes vs are in the layer of their rank, at the place of their order, and
\* nowhere else.
Placed(vs, rk, ord, ls) ==
    /\ \A v \in vs : /\ rk[v] + 1 \in DOMAIN ls
                     /\ ord[v] + 1 \in DOMAIN ls[rk[v] + 1]
                     /\ ls[rk[v] + 1][ord[v] + 1] = v
    /\ \A k \in DOMAIN ls : \A p \in DOMAIN ls[k] :
          ls[k][p] \in vs => rk[ls[k][p]] = k - 1 /\ ord[ls[k][p]] = p - 1

\* What assign_ranks hands over: every node is placed (ranks.rs:72-86).
Consistent(rk, ord, ls) == Placed(DOMAIN rk, rk, ord, ls)

\* The layers have grown, if at all, to the highest dummy and no further.
GrownForDummies ==
    \/ Len(layers) = Len(input.ranks.layers)
    \/ \E d \in dummies : rank[d] + 1 = Len(layers)

\* Whatever layers the caller hands over, too few or none included, they are
\* extended as far as the dummies take it, and every dummy is placed in them
\* (dummy_nodes.rs:95-106). Consistent ranks stay consistent, and no node of the
\* caller loses its place (dummy_nodes.rs:154-161).
LayersStayConsistent ==
    Success =>
        /\ Placed(dummies, rank, order, layers) /\ GrownForDummies
        /\ Consistent(input.ranks.rank, input.ranks.order, input.ranks.layers) =>
              /\ Consistent(rank, order, layers)
              /\ \A v \in Originals : order[v] = input.ranks.order[v]

\* After an error the caller's edges, ranks and orders are as they were; the
\* dummies of the edges before the failing one stay behind, behind the caller's
\* nodes in their layers and without an edge (dummy_nodes.rs:30-35).
FailureKeepsEdges ==
    result \in {"DanglingEdge", "MissingRank"} =>
        /\ edges = input.edges
        /\ \A v \in Originals : rank[v] = input.ranks.rank[v] /\ order[v] = input.ranks.order[v]
        /\ \A k \in DOMAIN layers :
              LET before == IF k \in DOMAIN input.ranks.layers THEN input.ranks.layers[k] ELSE <<>> IN
              /\ IsPrefix(before, layers[k])
              /\ \A p \in Len(before) + 1 .. Len(layers[k]) : layers[k][p] \in dummies

-----------------------------------------------------------------------------
(* What the doc comment of insert_dummy_nodes says of its errors.           *)

\* "Returns LayoutError::DanglingEdge if an edge references a node id outside
\* graph.nodes" (dummy_nodes.rs:15).
DanglingIsRefused == result = "Ok" => NoDangling

=============================================================================
