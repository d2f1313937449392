---------------------------- MODULE LayoutPipeline ----------------------------
(****************************************************************************)
(* run_pipeline (ffi.rs): the caller's graph is translated to dense ids,    *)
(* goes through the phases, and the routes are translated back. Each phase  *)
(* does what its contract (PhaseContracts) allows: any result of it, where  *)
(* it leaves a choice. What the phases write to node.order, node.x and      *)
(* node.y is left out: nothing here depends on it; so are the label sizes,  *)
(* which are only copied.                                                   *)
(****************************************************************************)
EXTENDS PhaseContracts, SequencesExt

CONSTANTS NodeLists,   \* the ids a caller may give its nodes, in order
          EdgeLists    \* the edges it may ask for: [from, to], by its own ids

\* A caller may use any ids (u64), and name one twice, or none for an edge.
ASSUME ListsAssumption ==
    NodeLists \subseteq Seq(Nat) /\ EdgeLists \subseteq Seq([from : Nat, to : Nat])

VARIABLES nodes, wanted,   \* the arguments `nodes` and `edges`
          at,              \* how many of them are translated
          idMap,           \* id_map, from the caller's ids
          externalIds,     \* external_ids; the id of node v is externalIds[v + 1]
          edges,           \* graph.edges
          rank,            \* node.rank, of all nodes of the graph
          selfLoops,       \* raw_self_loops
          chains,
          routes, positions,   \* of the FfiLayoutResult
          pc, result

graph == <<edges, rank>>
vars == <<nodes, wanted, at, idMap, externalIds, graph, selfLoops, chains, routes,
          positions, pc, result>>

\* The nodes of the caller, which are NodeType::Normal, by dense id; and all.
Normal == NodeIds(Len(externalIds))
NodeCount == Len(externalIds) + DummiesBefore(edges, rank, Len(edges) + 1)

Init ==
    /\ nodes \in NodeLists /\ wanted \in EdgeLists
    /\ at = 0 /\ idMap = <<>> /\ externalIds = <<>>
    /\ edges = <<>> /\ rank = <<>> /\ selfLoops = <<>>
    /\ chains = <<>> /\ routes = <<>> /\ positions = <<>>
    /\ pc = "nodes" /\ result = "none"

Fail(error) ==
    /\ result' = error /\ pc' = "returned"
    /\ UNCHANGED <<nodes, wanted, at, idMap, externalIds, graph, selfLoops, chains,
                   routes, positions>>

-----------------------------------------------------------------------------
(* Translation in.                                                          *)

DuplicateId ==
    /\ pc = "nodes" /\ at < Len(nodes) /\ nodes[at + 1] \in DOMAIN idMap
    /\ Fail("InvalidGraph")

AddNode ==
    /\ pc = "nodes" /\ at < Len(nodes) /\ nodes[at + 1] \notin DOMAIN idMap
    /\ idMap' = [id \in DOMAIN idMap \union {nodes[at + 1]} |->
                    IF id = nodes[at + 1] THEN Len(externalIds) ELSE idMap[id]]
    /\ externalIds' = Append(externalIds, nodes[at + 1])
    /\ at' = at + 1
    /\ UNCHANGED <<nodes, wanted, graph, selfLoops, chains, routes, positions, pc, result>>

AllNodesAdded ==
    /\ pc = "nodes" /\ at = Len(nodes)
    /\ pc' = "edges" /\ at' = 0
    /\ UNCHANGED <<nodes, wanted, idMap, externalIds, graph, selfLoops, chains, routes,
                   positions, result>>

Known(e) == e.from \in DOMAIN idMap /\ e.to \in DOMAIN idMap

UnknownId ==
    /\ pc = "edges" /\ at < Len(wanted) /\ ~Known(wanted[at + 1])
    /\ Fail("InvalidGraph")

AddEdge ==
    /\ pc = "edges" /\ at < Len(wanted) /\ Known(wanted[at + 1])
    /\ LET e == wanted[at + 1] IN
       edges' = Append(edges, [from |-> idMap[e.from], to |-> idMap[e.to], reversed |-> FALSE])
    /\ at' = at + 1
    /\ UNCHANGED <<nodes, wanted, idMap, externalIds, rank, selfLoops, chains, routes,
                   positions, pc, result>>

\* The positions of the self-loops of es.
Loops(es) == {i \in DOMAIN es : IsSelfLoop(es[i])}

\* MUTANT of ExtractSelfLoops: the loops are copied, not taken out.
CopySelfLoops ==
    /\ pc = "edges" /\ at = Len(wanted)
    /\ selfLoops' = Picked(edges, Loops(edges))
    /\ pc' = "break"
    /\ UNCHANGED <<nodes, wanted, at, idMap, externalIds, graph, chains, routes, positions, result>>

\* After the last edge: extract_self_loops.
ExtractSelfLoops ==
    /\ pc = "edges" /\ at = Len(wanted)
    /\ selfLoops' = Picked(edges, Loops(edges))
    /\ edges' = Picked(edges, DOMAIN edges \ Loops(edges))
    /\ pc' = "break"
    /\ UNCHANGED <<nodes, wanted, at, idMap, externalIds, rank, chains, routes, positions, result>>

-----------------------------------------------------------------------------
(* The phases.                                                              *)

\* The edges with those of R turned round.
Turned(R) == [i \in DOMAIN edges |-> IF i \in R THEN Swap(edges[i]) ELSE edges[i]]

\* break_cycles; its index list is dropped.
BreakCycles ==
    /\ pc = "break"
    /\ \E R \in SUBSET DOMAIN edges :
        /\ BreaksCycles(Len(externalIds), edges, Turned(R), InIdOrder(R))
        /\ edges' = Turned(R)
    /\ pc' = "rank"
    /\ UNCHANGED <<nodes, wanted, at, idMap, externalIds, rank, selfLoops, chains, routes,
                   positions, result>>

\* What assign_ranks accepts: no edge dangles, no self-loop, no cycle.
Rankable ==
    /\ \A i \in DOMAIN edges : InBounds(Len(externalIds), edges[i]) /\ ~IsSelfLoop(edges[i])
    /\ Acyclic(Normal, ArcsOf(edges, DOMAIN edges))

AssignRanks ==
    /\ pc = "rank"
    /\ IF ~Rankable THEN Fail("InvalidGraph")
       ELSE /\ rank' \in {rk \in [Normal -> 0 .. Len(externalIds) - 1] :
                            IsEarliest(Len(externalIds), edges, rk)}
            /\ pc' = "dummies"
            /\ UNCHANGED <<nodes, wanted, at, idMap, externalIds, edges, selfLoops, chains,
                           routes, positions, result>>

\* MUTANT of ChainOf: source and target are read off the turned edge.
ChainOfTurned(i) ==
    [source |-> edges[i].from, target |-> edges[i].to, reversed |-> edges[i].reversed,
     isSelfLoop |-> FALSE, chain |-> PathOf(Len(externalIds), edges, rank, i)]

\* MUTANT of ChainOf: the flag is lost with the split.
ChainOfUnflagged(i) ==
    [source |-> IF edges[i].reversed THEN edges[i].to ELSE edges[i].from,
     target |-> IF edges[i].reversed THEN edges[i].from ELSE edges[i].to,
     reversed |-> FALSE, isSelfLoop |-> FALSE,
     chain |-> PathOf(Len(externalIds), edges, rank, i)]

\* The chain that insert_dummy_nodes makes of an edge, under its original ends.
ChainOf(i) ==
    [source |-> IF edges[i].reversed THEN edges[i].to ELSE edges[i].from,
     target |-> IF edges[i].reversed THEN edges[i].from ELSE edges[i].to,
     reversed |-> edges[i].reversed, isSelfLoop |-> FALSE,
     chain |-> PathOf(Len(externalIds), edges, rank, i)]

\* A path's edges: labels apart, an edge without dummies stays as it is.
SegmentsOf(i) ==
    LET path == ChainOf(i).chain IN
    IF Len(path) = 2 THEN <<edges[i]>>
    ELSE [k \in 1 .. Len(path) - 1 |->
            [from |-> path[k], to |-> path[k + 1], reversed |-> FALSE]]

\* The rank of a dummy is told by its place on its chain.
RankOf(v) ==
    IF v \in Normal THEN rank[v]
    ELSE LET i == CHOOSE j \in DOMAIN edges : v \in Range(ChainOf(j).chain)
             path == ChainOf(i).chain
         IN rank[edges[i].from] + (CHOOSE k \in DOMAIN path : path[k] = v) - 1

\* The phases from here on fail on an edge that dangles or lacks a rank.
EdgesRanked == \A e \in Range(edges) : e.from \in DOMAIN rank /\ e.to \in DOMAIN rank

\* MUTANT of InsertDummyNodes: the dummies get no rank.
InsertUnrankedDummies ==
    /\ pc = "dummies"
    /\ chains' = [i \in DOMAIN edges |-> ChainOf(i)]
    /\ edges' = FlattenSeq([i \in DOMAIN edges |-> SegmentsOf(i)])
    /\ pc' = "loops"
    /\ UNCHANGED <<nodes, wanted, at, idMap, externalIds, rank, selfLoops, routes, positions, result>>

InsertDummyNodes ==
    /\ pc = "dummies"
    /\ IF ~EdgesRanked THEN Fail("InvalidGraph")
       ELSE /\ chains' = [i \in DOMAIN edges |-> ChainOf(i)]
            /\ edges' = FlattenSeq([i \in DOMAIN edges |-> SegmentsOf(i)])
            /\ rank' = [v \in NodeIds(NodeCount) |-> RankOf(v)]
            /\ pc' = "loops"
            /\ UNCHANGED <<nodes, wanted, at, idMap, externalIds, selfLoops, routes, positions,
                           result>>

\* The extracted self-loops come back as chains of one node.
AddLoopChains ==
    /\ pc = "loops"
    /\ chains' = chains \o [k \in DOMAIN selfLoops |->
                              [source |-> selfLoops[k].from, target |-> selfLoops[k].to,
                               reversed |-> FALSE, isSelfLoop |-> TRUE,
                               chain |-> <<selfLoops[k].from>>]]
    /\ pc' = "order"
    /\ UNCHANGED <<nodes, wanted, at, idMap, externalIds, graph, selfLoops, routes, positions, result>>

Proceed(label) ==
    /\ pc' = label
    /\ UNCHANGED <<nodes, wanted, at, idMap, externalIds, graph, selfLoops, chains, routes,
                   positions, result>>

OrderLayers ==
    pc = "order" /\ IF EdgesRanked THEN Proceed("coordinates") ELSE Fail("InvalidGraph")

AssignCoordinates ==
    pc = "coordinates" /\ IF EdgesRanked THEN Proceed("route") ELSE Fail("InvalidGraph")

\* route_edges: one route per chain, in their order.
RouteOf(c) == [source |-> c.source, target |-> c.target, reversed |-> c.reversed,
               isSelfLoop |-> c.isSelfLoop \/ c.source = c.target]

RouteEdges ==
    /\ pc = "route"
    /\ IF \E c \in Range(chains) : ~(Range(c.chain) \subseteq DOMAIN rank) THEN Fail("InvalidGraph")
       ELSE /\ routes' = [k \in DOMAIN chains |-> RouteOf(chains[k])]
            /\ pc' = "report"
            /\ UNCHANGED <<nodes, wanted, at, idMap, externalIds, graph, selfLoops, chains,
                           positions, result>>

-----------------------------------------------------------------------------
(* Translation out: an id out of range would panic, which layout() turns    *)
(* into the error Internal.                                                 *)

ExternalId(v) == externalIds[v + 1]

\* The self-loops of the result.
ReportedLoops == [k \in DOMAIN selfLoops |-> [from |-> ExternalId(selfLoops[k].from), to |-> ExternalId(selfLoops[k].to)]]

\* The nodes that get a position: the graph's, without the dummies.
Reported == {v \in DOMAIN rank : v \in Normal}

Report ==
    /\ pc = "report"
    /\ IF \E r \in Range(routes) : ~({r.source, r.target} \subseteq Normal)
       THEN Fail("Internal")
       ELSE /\ positions' = [k \in DOMAIN InIdOrder(Reported) |-> ExternalId(InIdOrder(Reported)[k])]
            /\ routes' = [k \in DOMAIN routes |->
                            [from |-> ExternalId(routes[k].source), to |-> ExternalId(routes[k].target),
                             reversed |-> routes[k].reversed, isSelfLoop |-> routes[k].isSelfLoop]]
            /\ result' = "Ok" /\ pc' = "returned"
            /\ UNCHANGED <<nodes, wanted, at, idMap, externalIds, graph, selfLoops, chains>>

Step == \/ DuplicateId \/ AddNode \/ AllNodesAdded
        \/ UnknownId \/ AddEdge
        \/ ExtractSelfLoops \/ BreakCycles \/ AssignRanks \/ InsertDummyNodes
        \/ AddLoopChains \/ OrderLayers \/ AssignCoordinates \/ RouteEdges
        \/ Report

\* After the return nothing happens: TLC reports a state where the code is stuck.
Returned == pc = "returned" /\ UNCHANGED vars

Next == Step \/ Returned

Spec == Init /\ [][Next]_vars

-----------------------------------------------------------------------------
(* The type invariant: dense ids, and edges and ranks that keep to them. *)
TypeOK ==
    /\ Range(idMap) = Normal /\ \A v \in Normal : idMap[ExternalId(v)] = v
    /\ edges \in Seq(Edge) /\ selfLoops \in Seq(Edge)
    /\ pc \notin {"nodes", "edges", "break", "rank", "returned"} =>
          /\ rank \in [NodeIds(Cardinality(DOMAIN rank)) -> Nat]
          /\ \A i \in DOMAIN edges : InBounds(Cardinality(DOMAIN rank), edges[i])
    /\ result \in {"none", "Ok", "InvalidGraph", "Internal"}

\* Whatever graph the caller names correctly gets a layout: once ids are
\* translated no phase can fail, and no index is out of range ("the pipeline
\* itself doesn't fail for any other reason", types.rs:142-143).
GoodGraphsAreLaidOut ==
    result \in {"InvalidGraph", "Internal"} =>
        \/ \E j, k \in DOMAIN nodes : j # k /\ nodes[j] = nodes[k]
        \/ \E k \in DOMAIN wanted : {wanted[k].from, wanted[k].to} \ Range(nodes) # {}

Ends(es) == [k \in DOMAIN es |-> <<es[k].from, es[k].to>>]
\* Every edge the caller asked for has one route, under the caller's ids and in
\* the caller's direction, however it was turned, split and numbered on the way;
\* self-loops come last, and are listed apart too. Every node has one position, and nothing else has one
\* (ffi.rs:348-396).
EverythingComesBack ==
    result = "Ok" =>
        LET proper == Ends(Picked(wanted, DOMAIN wanted \ Loops(wanted)))
            loops == Ends(Picked(wanted, Loops(wanted)))
        IN
        /\ positions = nodes /\ IsInjective(positions)
        /\ Ends(routes) = proper \o loops /\ Ends(ReportedLoops) = loops
        /\ \A k \in DOMAIN routes : routes[k].isSelfLoop <=> routes[k].from = routes[k].to

\* The flag `reversed` of the routes tells which of the caller's edges run
\* against the layers: with those turned the caller's graph has no cycle, and
\* each of them lies on a cycle of the caller's graph (ffi.rs:220-222).
FlaggedRoutesCloseCycles ==
    result = "Ok" =>
        LET proper == {k \in DOMAIN routes : ~routes[k].isSelfLoop}
            Drawn(k) == IF routes[k].reversed THEN <<routes[k].to, routes[k].from>>
                        ELSE <<routes[k].from, routes[k].to>>
            asked == {<<routes[k].from, routes[k].to>> : k \in proper}
        IN /\ Acyclic(Range(nodes), {Drawn(k) : k \in proper})
           /\ \A k \in DOMAIN routes : routes[k].reversed =>
                 k \in proper /\ Reaches(Range(nodes), asked, routes[k].to, routes[k].from)

=============================================================================
