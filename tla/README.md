# A verification project for Layout

Layout is a Rust library that draws directed graphs in layers (the Sugiyama
method). A caller hands over nodes and edges; six phases turn them into
positions and routes. This directory holds TLA+ modules of those phases, TLC
configurations that check them on small graphs, and proofs, checked by the TLA+
proof system, that hold for every graph.

Line references such as `ranks.rs:42` are into `src/src/`.

## The system

One call is one thread; nothing is shared and nothing is persisted. What is hard
here is not concurrency but state that is kept twice, loops that read what they
change, and phases that rely on what earlier ones left.

| component | state | operations | what makes it correct |
|---|---|---|---|
| graph data model (`types.rs`) | `LayoutGraph`: nodes by dense id, edges | `add_node`, `extract_self_loops` | ids are positions; no self-loop reaches ranking |
| cycle breaking (`cycles.rs`) | colours, explicit stack with cursors, a snapshot of the adjacency | `break_cycles` | no cycle is left, each edge is turned at most once, none needlessly, the search ends |
| validation (`validate.rs`) | none | `validate_graph` | each kind of bad graph has its error |
| ranking (`ranks.rs`) | in-degrees, queue, topological order, ranks, layers | `assign_ranks` | earliest ranks; `CyclicGraph` exactly for cyclic graphs; layers, ranks and orders agree |
| dummy insertion (`dummy_nodes.rs`) | the growing node list, layers, new edges, chains | `insert_dummy_nodes` | edges join adjacent layers, chains cover the caller's edges, dummies are private |
| layer ordering (`crossings.rs`) | layers and `order`, `improved`, pass counter | `order_layers`, transpose pass | both copies of the order agree, swaps lower the crossings, the loop ends by itself |
| coordinates (`coordinates.rs`) | coordinates per node, preferences per pass; four alignments, blocks of the regression | `assign_coordinates`: median relaxation or Brandes-Koepf with `repair_layer_spacing` and `isotonic_regression` | siblings keep their gap, ranks descend, coordinates stay put; Brandes-Koepf keeps the order as well |
| edge routing (`coordinates.rs`) | counts per pair of nodes, routes | `route_edges`, `compute_arrowhead` | one route per chain, parallel edges apart, the points fit the style |
| label placement (`coordinates.rs`) | candidates, the best one and its score | `compute_label_position` | candidates stand along the route; a free one wins |
| FFI pipeline (`ffi.rs`) | `id_map`, `external_ids`, the graph | `layout`, `run_pipeline` | a good graph is laid out, all its edges and nodes come back under the caller's ids |

The phases call nothing but the standard library; `run_pipeline` calls them one
after the other and passes the graph, the layers and the chains along. Every
public phase can also be called directly, so the phase modules start from graphs
that `run_pipeline` would never produce (dangling edges, missing ranks, layers
too short).

## Modules

| module | models | granularity |
|---|---|---|
| `LayoutGraph` | graphs, edges, acyclicity, reachability | operators |
| `PhaseContracts` | what each phase promises, as relations | operators |
| `Sorting` | `sort_by` as a stable sort | operator |
| `CycleBreakingSpec` | `break_cycles` as one step that satisfies `BreaksCycles` | abstract specification |
| `CycleBreaking` | `break_cycles` | one action per step of its two loops |
| `RankAssignment` | `assign_ranks`, `validate_graph` | one edge in Kahn's loop, one node in the relaxation |
| `DummyInsertion` | `insert_dummy_nodes` | one edge |
| `LayerOrdering` | `order_layers`, `transpose_pass` | one layer that is sorted, one pair that is compared |
| `CoordinateState` | the variables, neighbour lists and distances that both algorithms use | |
| `MedianRelax` | `median_relax_x_coords` | one layer that is compacted |
| `IsotonicRegression` | `isotonic_regression`, and a reference for it | operators |
| `BrandesKopf` | `brandes_kopf_x_coords`, `compute_alignment`, `repair_layer_spacing` | one layer that is aligned or repaired |
| `Coordinates` | `assign_coordinates`, around either algorithm | stages |
| `EdgeRouting` | `route_edges`, the arrowhead tip, the FFI's segments | one chain |
| `LabelPlacement` | `compute_label_position` for polylines | one candidate that is scored |
| `LayoutPipeline` | `run_pipeline` | one node or edge translated, one phase |
| `LayoutTheorems` | facts about the operators that the modules share | lemmas |
| `CycleBreaking_proofs`, `RankAssignment_proofs`, `DummyInsertion_proofs`, `LayerOrdering_proofs`, `Coordinates_proofs`, `EdgeRouting_proofs`, `LayoutPipeline_proofs` | theorems about the module each is named after, and in `EdgeRouting_proofs` about `LabelPlacement` too | |
| `LayeredGraphs`, `MC*` | inputs for TLC | |

`CycleBreaking` implements `CycleBreakingSpec` (`ImplementsSpec`, checked and
proved). The contracts in `PhaseContracts` are the joints of the project: the
phase modules are checked against them (`BreaksCycles` through the refinement,
`IsEarliest` as `EarliestRanks`, `PathOf` in `ChainsCoverEdges`), and
`LayoutPipeline` composes them, taking any result that a contract allows. So
the pipeline's properties do not depend on which minimal set of edges the search
happens to turn.

`route_edges` calls `compute_label_position` on the route it has just made. The
theorems about both are in one module, so `LabelInit`, `LabelTypeOK` and the like
carry the word that tells them from those of `EdgeRouting`.

`Coordinates` EXTENDS `MedianRelax` and `BrandesKopf`, which both EXTEND
`CoordinateState`; the variable `algorithm` (`config.algorithm`) decides which of
the two takes over after the ranks have their coordinates, and both end where
`Center` begins. `BrandesKopf` repairs layers with `IsotonicRegression`, whose
`Regression` keeps blocks as sums and counts as the code keeps means and counts.
The reference `BestFit` is the max-min formula of the least-squares nondecreasing
fit and knows of no blocks. The two are compared on every sequence of up to five
values from -2 to 2 (an assumption of `MCCoordinates`) and, in the step property
`RepairIsBestFit`, on the sequences that the repairs really meet; that they agree on
every sequence of integers is proved (`RegressionIsBestFit`).

How state maps to the code:

* A node is its id, and a field of all nodes is a function on ids (`rank`,
  `order`, `x`). `None` is `NoRank`. Edges are a sequence of records.
* Sequences start at 1, Rust vectors at 0: index `k` of `edges` is index `k - 1`
  in the code, `layers[k]` is `ranks.layers[k - 1]` in `DummyInsertion`,
  `LayerOrdering` and `Coordinates`; `RankAssignment` numbers layers from 0.
  Node ids, ranks and orders are the code's own numbers.
* A cursor that runs over a list of edges is the set of edges it has passed
  (`scanned`, `released`); the next edge is the least one that is not in it.
* `pc` and `result` tell how far a call is; the early return of `?` is a
  `result` with an error. `Returned` is the only step after that, so a deadlock
  reported by TLC is a state in which the code would be stuck.
* An action named in a comment `MUTANT of ...` is a plausible bug of the
  definition it stands before. Nothing uses it; each is there to show that a
  property would notice.

## What the runs check

| run | instance | shows |
|---|---|---|
| `cycle_breaking` | 3 nodes; all lists of up to 3 edges with a dangling id, up to 2 with flags already set, all sound lists of 4 | the invariant of the search, the refinement (an acyclic result, minimal reversals), termination |
| `rank_assignment` | 4 nodes; all lists of up to 2 edges, multisets of 3 and 4; ids right or wrong; ranks fresh or stale | no underflow, Kahn's bookkeeping, the verdict on cycles, earliest ranks, layers, a refused graph is as it was on entry (`entry` keeps what that was), termination |
| `dummy_insertion` | 3 nodes in up to 4 ranks, up to 2 edges of any kind; ranks complete, missing on one or all nodes, layers missing | chains, private dummies, layers that grow as far as the dummies need and hold them in their places, what an error leaves behind |
| `layer_ordering` | layers 3-3, 2-2-2, 1-3-2, 2-3-2 with every set of edges that ranks them so, one edge doubled or drawn upwards; 2 sweeps | orders and layers agree in every state, each swap lowers the total, no saving swap is left, the cap is never needed |
| `coordinates` | layers 3-3, 3-1-2, 2-2-2, 2-3-2, equal and unequal sizes, both directions, both algorithms, orders given, missing or missing on late dummies; 3 passes, all 8 rounds; gaps 4 | the gap between siblings after every compaction and in every result, tightness, bounded drift, ranks descend; Brandes-Koepf keeps the order, and its repairs are least-squares fits |
| `edge_routing` | up to 3 chains between 2 nodes, up to 2 between 3: direct, over a dummy, turned, loops; chains no phase makes; nodes in one column, aside, and in one row | a route per chain, from side to side of its nodes, parallel edges apart wherever the displacement reaches the route, segments |
| `label_placement` | routes of 1 to 4 points, straight, bent, with repeated points or of no length; 2 label sizes; up to 5 nodes around the route, dummies among them | candidates stand at two to eight tenths of the route and on both sides of it; the label covers a node only if every candidate does |
| `layout_pipeline` | up to 3 nodes under ids of the caller, a duplicate, an unknown id, up to 4 edges | good graphs never fail, all edges and nodes come back, the `reversed` flags tell the truth |

Every property of these runs has a mutant of the code that violates it.

Why these bounds are enough to be interesting. Three nodes and four edges have
nested and overlapping cycles, two-cycles, parallel and antiparallel edges and
back edges into the middle of the stack. Four nodes have a diamond and a
shortcut, where a rank is raised twice. Two edges over four ranks are two long
edges side by side, or a long edge after one that fails. Layers of three between
two others have pairs whose swap helps above and hurts below. Three passes go
up, down and up again. The eight rounds of Brandes-Koepf are the code's own. The
gap of 4 is what makes its quotients matter: coordinates are rounded down to a
unit, a quarter of a gap, so a mean of 2, 3 or 4 neighbours is not lost in a
single step and the blocks of a repair have means between two units. Three chains are the least number with a middle one,
whose displacement is 0.

The bound that `CapIsNotReached` states (one pass more than pairs of edges) is
below `MAX_TRANSPOSE_PASSES = 100` for all inputs of that run; the constant is
the code's.

### Disagreements with the documentation

Four runs end in a counterexample: the sentence of the documentation that each
states is not what the code does.

* `dangling_is_accepted`: `insert_dummy_nodes` checks ids against the node list
  it is extending, so an edge to a missing node can pass once a dummy has taken
  its id (`dummy_nodes.rs:15-16` against 30-33 and 92). `run_pipeline` cannot get
  there, since `assign_ranks` validates; direct callers can.
* `arrowhead_at_source`: the arrowhead of a turned edge is at its source
  (`types.rs:307` against `coordinates.rs:506, 783`). The comment of
  `FfiEdgeRoute::reversed` (`ffi.rs:220`) asks callers for just that, so the two
  comments disagree with each other as well.
* `loops_drawn_alike`: two self-loops of a node are counted as parallel edges,
  but the sign of their displacement is dropped and they coincide
  (`coordinates.rs:710` against 738).
* `rank_gap_is_not_kept`: `v_gap` is said to be between the edges of adjacent
  ranks (`ffi.rs:117`), but a rank's coordinate advances by the height of the rank
  above and is then used as the centre (`coordinates.rs:81-90`). Below a less tall
  rank the gap is smaller, or negative.

A fifth shows in a run that passes, and is a theorem. `src/README.md:76` explains the
repair of the Brandes-Koepf coordinates by saying that "naively averaging four
independently-compacted layouts can otherwise collapse siblings with identical local
structure" onto one x. `OrderIsKept` says the opposite of the average as the code
computes it (`pass = 0`, before any repair), and `coordinates` checks it over layers
3-1-2, where two children share their parent: each of the four alignments compacts
every layer in its order with `h_gap` between neighbours (`coordinates.rs:437-497`),
so their mean has the order and the gap too. It is the later rounds, which blend in
the means of the neighbours (`coordinates.rs:305-324`), that undo the gap and need the
repair. The test the README refers to (`brandes_kopf_no_sibling_overlap`,
`coordinates.rs:1267`) looks at the result only.

That parallel edges are told apart by "curvature offsets" (`coordinates.rs:710`) has
limits, which `ParallelEdgesDrawnApart` states (`Displaceable`) or the assumption
`SoundChains` names:

* an Orthogonal route is displaced in its heights only (`coordinates.rs:837-844`): the
  points of parallel edges differ, but between nodes of one column both routes lie on one
  vertical line, and over dummies the displacement may make up for another dummy's height,
  so neither is claimed to be drawn apart;
* the normal follows the direction of the chain (`coordinates.rs:827-828, 856-857`), so
  two direct chains of one pair that run in opposite directions, with opposite
  displacements, would be one curve. The chains of `insert_dummy_nodes` between two nodes
  all lead down the ranks, a turned edge's as well, so only a direct caller of
  `route_edges` can have them.

Seen while modelling, without a run: `EdgeChain::chain` is "source ... target"
(`types.rs:271`) but runs from target to source for turned edges, whose route
also leaves the far sides of its nodes (`coordinates.rs:789-806` choose the side
by the caller's direction); `FfiLayoutResult::routes` is said to exclude
self-loops (`ffi.rs:243`) and includes them; a Straight route with parallel edges
has three points, not "exactly 2" (`types.rs:302`); `extract_self_loops` warns of
`CyclicGraph` where validation reports `SelfLoop`; a second `break_cycles` that
turns an edge back leaves its flag set; the corners of `FfiRect` are said to be
"across every node and route waypoint" (`ffi.rs:148-154`), and the bounds are
taken over the nodes alone (`ffi.rs:398-430`); a label is said to be placed "near
the midpoint" (`coordinates.rs:555`), but of several free candidates the one with
the lowest score wins, and on a tie the first, which is at 20% of the route.

## Fairness

`CycleBreaking` and `RankAssignment` assume `WF_vars(Step)`: the call is one
thread that runs to its end and waits for nothing. With it `Termination` says
that the loops end. The other modules state safety only, and TLC's deadlock check
still shows that no call gets stuck before it returns.

## What is proved

The theorems hold for every value of the constants that the assumptions of a
module allow: every graph, not the small ones of the runs. Each module of proofs
first gives the inductive invariant, in named parts, then the facts about single
states, then one lemma per action, then the theorems.

| module | what is assumed of the input | why the code justifies it |
|---|---|---|
| `CycleBreaking` | any number of nodes, any finite list of edges | nothing is excluded |
| `RankAssignment` | as above, with any ids and any ranks on entry | nothing is excluded |
| `DummyInsertion` | any labelled edges; any ranks and orders, each given or missing; layers that list existing nodes, in any way | ids of a `RankSystem` index the node list; dangling edges, missing ranks and missing layers are let in, and the errors they cause are among the theorems |
| `LayerOrdering` | any edges; a ranked node stands once in the layer of its rank, nothing else in a layer (`Layered`) | what `LayersMatchNodes` and `LayersStayConsistent` say of the phases before |
| `Coordinates` | any edges, ranks and orders, each rank or order given or missing; sizes that are naturals; layers that list existing nodes, none of them twice | what `LayersMatchNodes` and `LayersStayConsistent` say of the phases before; dangling edges and missing ranks are let in, and so are orders that contradict the layers |
| `EdgeRouting` | any chains between their own ends, those of one pair in one direction, and no dummy twice (`SoundChains`); any nodes, no two with one centre (`Placement`) | what `ChainsCoverEdges` and `DummiesArePrivate` say of `insert_dummy_nodes`, whose chains all lead down the ranks, and `SiblingsKeepGap` and `RanksDescend` of `assign_coordinates` with gaps above 0; ids that do not exist are let in |
| `LabelPlacement` | routes of any length whose segments follow the axes and whose points are on a grid of ten units; any nodes of natural sizes; a label size of naturals or none | the rest of the geometry is left out of the model; on the grid the places at two, three, ... eight tenths are not rounded, as they are not in the code |
| `LayoutPipeline` | any numbers as ids, any lists of nodes and edges | they are what the C interface hands over |

### Cycle breaking

`TypeCorrect`, `SearchCorrect` and `Implementation` are about properties that
`cycle_breaking` also checks. `ResultAcyclic` and `TurnedCloseCycles` follow from
those (a state that has returned satisfies the contract; the search's invariant
includes `StackIsPath`), so no run lists them again.

* `TypeCorrect`: `Spec => []TypeOK`.
* `SearchCorrect`: `Spec => []SearchInv`, the inductive invariant.
* `ResultIsAcyclic`: `Spec => []ResultAcyclic`. `break_cycles` leaves no cycle.
* `ReversalsAreNeeded`: `Spec => []TurnedCloseCycles`. No reversal is superfluous.
* `Implementation`: `Spec => ImplementsSpec`. The search implements its contract.

The argument. That the result is acyclic says nothing until the call returns, so
`SearchInv` says what is true on the way:

1. `StackIsGray`: the stack is the Gray nodes, each once. So the Gray test of the
   code (`cycles.rs:54`) asks whether the head is on the stack.
2. `Progress`: finished nodes have no edge left to look at. At the return all
   nodes are finished, so all edges were looked at.
3. `TurnedOnce`: the edges are those of the input except for the listed ones.
4. `PassedEdgesPointOn`: each edge that was looked at, as it points now, leads to
   a finished node or up the stack. A turned edge is of the second kind: that is
   why it is turned.
5. `BlackAcyclic`: the finished nodes have no cycle. When a node is finished,
   (4) says its edges lead to finished nodes only and no edge of a finished node
   leads to it, so it is a source of the new finished part.
6. `StackIsPath`: edges left alone lead from each node of the stack to those
   above it. So a turned edge closes a cycle, which is `TurnedCloseCycles`, and
   stays that way because edges left alone are never turned later.

Acyclicity and reachability are stated over sets of nodes (a set without a sink,
a closed set) and not over walks, so the proofs need no induction over the
length of a path. The only induction is that of the invariant.

### Ranking

`InductiveInvariant` proves `IInv`; from it follow `RankTypes` (`TypeOK`),
`KahnBookkeeping` (`KahnInv`), `VerdictOnCycles` (`VerdictIsRight`),
`RanksAreEarliest` (`EarliestRanks`), `LayersAreRight` (`LayersMatchNodes`) and
`RefusalWritesNothing` (`RefusedGraphUntouched`). `KahnInv` is not inductive alone:

1. `StageInv`: validation came first, so in the loops every edge joins two
   different nodes; and `released` belongs to the current node of Kahn's loop.
2. `KahnInv`: `in_degree` counts the edges not yet released, so it is above 0 when
   it is decremented, and a node enters the queue once.
3. A call that cannot take every node leaves a set of nodes each with an edge into
   it from the set, which is a cycle (`SourcelessSetHasCycle`); one that takes them
   all has a topological order, in which a set without a sink would need a last
   node. Both directions of the verdict rest on that.
4. `RelaxInv`: edges out of the nodes passed descend, no node is below where any
   descending assignment has it, and no rank up to `max_rank` is skipped. At the end
   of the loop the ranks are the least that descend and no layer is empty.
5. `RefusalWritesNothing` compares with `entry`, the ranks, orders and layers of the call
   before its first step (`EntryInv`): until the relaxation begins no step writes to the
   nodes, and from then on no step reports an error.

### Dummy insertion

`InsertionTypes` (`TypeOK`), `ErrorsKeepTheEdges` (`FailureKeepsEdges`),
`EdgesJoinAdjacentRanks` (`EdgesSpanOneRank`), `DummiesAreNotShared`
(`DummiesArePrivate`), `ConsistencyIsKept` (`LayersStayConsistent`) and
`ChainsAreTheEdges` (`ChainsCoverEdges`). The common part `Core` says that the
caller's nodes, edges and layers stay where they are and that only dummies come
behind them. Each theorem then adds a part of its own:

1. `EdgesInv`: the edges made so far go down one rank, unless they did not descend
   on entry.
2. `PrivateInv`: each dummy has one place on the chains, one edge out and one in.
   The loop numbers its dummies from the end of the node list, which is why two
   edges never share one.
3. `PlacesInv`: each node the phase answers for (`Kept`: the dummies, and with
   consistent ranks on entry all nodes) stands in the layer of its rank, once; the last
   step then makes its order its place. The layers end with the caller's last or with
   that of a dummy (`GrownForDummies`).
4. `ChainsInv`: with no dangling edge the loop has added as many nodes as the edges
   it passed are long, each of these edges has the path of the contract from that
   count on, and the new edges are these paths laid end to end.

### Layer ordering

`PlacesAndStages` proves the common invariant: orders name places, ranks name
layers, and the counters of the loops keep to their bounds. From it follow
`OrderingTypes` (`TypeOK`) and `OrdersArePlaces` (`OrderMatchesLayers`): a stable sort
rearranges a layer, `Below` being a strict weak order of fractions, and a swap
exchanges two neighbours. The other three need more:

1. `SwapsLowerTheTotal` (`SwapsReduceCrossings`): the code compares the crossings
   of the edges of two neighbours only. That the crossings of the whole drawing
   fall by as much is a count over pairs of edges: a swap of neighbours changes
   how a pair crosses only if one edge is at each of them.
2. `TransposeLeavesNoPair` (`NoPairLeftToSwap`), by `Settled`: a pass that has not
   swapped yet found nothing to swap so far.
3. `PassesAreBounded` (`CapIsNotReached`), by `PassesPaid`: each pass after the
   first was paid for with a crossing, and there are at most as many crossings as
   pairs of edges.

### Coordinates

`CoordinatesAreAssigned` proves the common invariant `CoreInv`: the graph is that of
the call, the stages of the algorithm come in their order, every node of a layer has
the coordinate of its rank, and the result is both coordinates, doubled and shifted
by one amount each. From it follow `CoordinateTypes` (`TypeOK`) and
`RanksComeInOrder` (`RanksDescend`): the coordinate of a rank is a sum, and a later
rank's contains the extent of the earlier. The others say what a loop does with one
layer and that it leaves the other layers alone, for which no node may stand in two:

1. `OrderStaysAsChosen` (`OrderIsKept`). An alignment places each node beyond the
   bound of the one before, from the left or from the right; a quarter of four sums
   that are each a gap apart is a gap apart even when it is rounded down
   (`Quarters`); and a repair adds the offsets to what the regression returns,
   which never falls (`RegressionIsBestFit`).
2. `SiblingsStandApart` (`SiblingsKeepGap`), by `GapInv`: the gap between any two
   nodes of a layer. A stable sort by preference is a rearrangement of the layer, and
   nodes that keep the gap to the one before, in whatever order, keep it to all
   (`ListApart`, which needs that no node has a negative extent). Brandes-Koepf gets
   it from `OrderIsKept`, at the end of a round only: in between, the blending
   undoes it.
3. `CompactionsAreTight` (`CompactionIsTight`), about single steps: of two siblings
   with one preference the earlier is sorted first, so it stays to the left.
4. `RelaxationStaysNear` (`NoDrift`), by `DriftInv`. The bound at the end of a pass is
   not inductive within it: a preference is a coordinate that some node had at the
   start of the pass, so the layers still to visit, and all preferences, keep to the
   bound of the pass before, and a compaction adds at most its layer's width.
5. `RepairsFitBest` (`RepairIsBestFit`), by `RegressionIsBestFit`: merging blocks gives the
   max-min formula for every sequence of integers. That the means of the blocks rise is
   not enough, since it says nothing of the values within a block. The invariant of the
   loop (`Fits`) is about the running sum `P` of the values: between the ends of a block
   `P` follows, on the whole, a line with the block's mean as its slope, and no point of
   `P`, in that block or in another, is below that line. A merge keeps this because the block
   before is strictly above (`TakenFits`); the merged line is flatter than the one before it
   and steeper than the one after (`MergedBetween`, `Tilted`). The formula then needs no
   induction: from the place where a block begins no stretch has a smaller mean, and no
   stretch that ends with the block has a greater one.

### Edge routing

`RoutesAreOfTheChains` proves the invariant; `RoutingTypes` (`TypeOK`),
`EveryChainHasItsRoute` (`OneRoutePerChain`), `ParallelEdgesAreApart`
(`ParallelEdgesDrawnApart`) and `SegmentsDrawEveryRoute` (`SegmentsDrawTheRoute`)
follow. A route depends on the chains before it only through their number, so
`RoutesInv` says what the routes are without the loop: those of the list `Drawing`
at the places passed. Two chains of one pair have different numbers, hence
different displacements. Whether the points then differ depends on the geometry:

1. `ChainsAreApart`. If two routes had the same points, they would have the same two
   ends, so the displacement would be across one line (`MovedApart`): a middle point or
   the handles of a single curve tell it. In the Orthogonal style the height of the bends
   does, since `Displaceable` leaves only routes of four points. A Bezier route over
   dummies passes through them, no other chain has them, and no other node is there
   (`Placement`).
2. `NotTurnedRound`. A route with the points of another read backwards would begin where
   the other ends. The two start on the same side of one node or on opposite sides of it
   (`HeadingsAlign`, since the chains of a pair run in one direction). In the first case
   both ends of the route would be one point, which `Displaceable` excludes, in the second
   the two nodes would have one centre (`SidesMeetInCenter`).

### Label placement

`BestCandidateIsBest` proves the invariant of the loop over the candidates: the route and
the nodes stay as they are, the candidates are those of the seven samples, and the one
kept has the score in `minScore`, which no candidate scored so far is below. From it follow

* `LabelTypes` (`LabelTypeOK`);
* `CandidatesFollowRoute` (`SamplesFollowRoute`): each sample is on the route, at its
  tenths of the length, wherever the route bends, and has a candidate on either side. The
  lengths that the search adds up grow, so the first segment that reaches a length begins
  before it, and it has a direction unless it has no length;
* `FreePlacesWin` (`LabelAvoidsNodes`, where at most a thousand nodes are not dummies): an
  overlap costs 1000 and a node that is merely close at most 1, so the sum of a thousand of
  them does not reach the cost of one overlap.

### The pipeline

`GraphIsCarriedThrough` proves the invariant of `run_pipeline`, and from it
`IdsAndIndicesFit` (`TypeOK`), `NoPhaseFails` (`GoodGraphsAreLaidOut`),
`GraphComesBack` (`EverythingComesBack`) and `FlagsTellTheCycles`
(`FlaggedRoutesCloseCycles`). Nothing about a phase is used but its contract, so the
theorems hold for whatever the phases do within it. The two maps between ids are
inverse (`IdsInv`); the edges that go into the phases (`Given`) and the loops that go
round them (`Around`) are fixed once the ids are translated, and `StageInv` says what
the phases so far have made of them. A graph without a cycle has descending ranks,
so ranking does not refuse what cycle breaking leaves. A route that comes back
flagged is a cycle in the caller's graph because acyclicity and reachability do not
depend on the names of the nodes.

### Induction over data

The library's induction theorems take an operator as a parameter, which none of
the provers can instantiate. `LayoutTheorems` does without: `LeastNatural`,
`GreatestNatural` and `MinimalSubset` are about sets, and an argument by induction
becomes one about the least number, or the least set, at which a claim fails. So
it proves what the folds and recursive functions of the models do: sums over sets
(`SumUnfolds`, `SumOfRest`), sequences laid end to end (`FlattenAppends`,
`FlattenBlocks`), the stable sort (`PlacedIsRearranged`), the paths of dummies
(`PathsAreLaid`), loops that carry a value from one element of a list to the next
(`ChainedTyped`, `ChainedFromZeroExists`) and the extremes of finite sets
(`GreatestOfFinite`, `LeastOfFinite`). Elements are picked from sequences by
`Picked` and a map is extended by a function constructor, since the provers cannot
look into the library's `SelectSeq`, `:>` and `@@`.

## What is only model-checked, and what is left out

* `Termination`, and anything under fairness, is checked by TLC only.
* That the max-min formula of `BestFit` is the minimum of the sum of squares is a textbook
  fact that is not proved here; `BestFit` is its definition in these modules.
* `LabelAvoidsNodes` rests on the weight of an overlap, 1000, against that of a close
  node, at most 1: a label without overlap that has more than a thousand nodes next to it
  can lose against one that covers a node. `FreePlacesWin` says so in its hypothesis; the run
  has up to 5 nodes.
* `f32` is left out. The coordinate modules compute in integers, on sizes given by
  their halves. In the median relaxation nothing is divided and `f32` would be
  exact; Brandes-Koepf divides (means of neighbours, averages, blocks) and the
  model rounds each quotient down to a unit where `f32` rounds to 24 bits. The
  block means themselves are compared exactly. Rounding errors of `f32`, overflow,
  NaN and infinite sizes are not covered. `LayerOrdering` compares barycenters as
  fractions.
* `LabelPlacement` takes polylines with segments along the axes and points on a grid of
  ten units, where lengths, their tenths and unit vectors are exact, and keeps scores in hundredths. Sampling a Bezier curve,
  which only produces other points for the same choice, is left out.
* `EdgeRouting` computes the points of a route in sixtieths of a unit, which makes every
  half, fifth and sixth in the code whole, from whole positions and sizes. The
  displacement of a point is kept beside it as a multiple of the normal (`aside`), not
  divided by the normal's length, a square root: two points are compared only when the
  line they are moved from is the same. Whether routes cross or run along one another
  between their points is not compared.
* A `RankSystem` whose layers list ids that do not exist is not modelled:
  `assign_coordinates` then panics at the first place that indexes by them.
* Not modelled: the wings of arrowheads (trigonometry, no decision), the bounds
  that the FFI reports and the conversion of its enums (no decision of the program
  depends on them), the tests, the benchmarks, the bindings generator, the build.
* Validation in `LayoutPipeline` does not tell the errors of a phase apart: the
  FFI folds them all into `InvalidGraph` too.

## Plan

Done: the contracts and all phases of the pipeline with both algorithms for
coordinates, label placement, the refinement of cycle breaking, and proofs of every
safety and step property that a run checks.

What is left: the sum of squares behind `BestFit`; Bezier curves as routes of a label;
and a `RankSystem` whose layers list ids that do not exist.
