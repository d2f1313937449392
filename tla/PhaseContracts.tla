--------------------------- MODULE PhaseContracts ----------------------------
(****************************************************************************)
(* What the phases of the pipeline promise each other, as relations between *)
(* what a phase is given and what it leaves. The phase modules are checked  *)
(* against these; LayoutPipeline composes them.                             *)
(****************************************************************************)
EXTENDS LayoutGraph, Functions

(* break_cycles (cycles.rs): it turns some of the edges round, and the      *)
(* graph has no cycle left but its self-loops.                              *)

\* The indices that the list rev names.
Named(rev) == {rev[k] : k \in DOMAIN rev}

\* Every index of rev is an edge and is listed once; exactly those edges are turned.
TurnsExactly(in, out, rev) ==
    /\ \A k, l \in DOMAIN rev : rev[k] = rev[l] => k = l
    /\ Named(rev) \subseteq DOMAIN in
    /\ DOMAIN out = DOMAIN in
    /\ \A i \in DOMAIN in : out[i] = IF i \in Named(rev) THEN Swap(in[i]) ELSE in[i]

\* A self-loop that names a node is turned too; an edge that dangles never is.
TurnsLoops(n, in, rev) ==
    /\ Named(rev) \subseteq Bounded(n, in)
    /\ Bounded(n, in) \ Proper(n, in) \subseteq Named(rev)

\* No reversal is superfluous: the edges that are left alone lead from the head
\* of a turned edge back to its tail, so that with this edge as it was the graph
\* would have a cycle. (The set of turned edges is minimal.)
TurnsOnlyBackEdges(n, in, rev) ==
    \A i \in Named(rev) :
        Reaches(NodeIds(n), ArcsOf(in, Bounded(n, in) \ Named(rev)), in[i].to, in[i].from)

\* break_cycles as its callers see it: in to out, returning rev.
BreaksCycles(n, in, out, rev) ==
    /\ TurnsExactly(in, out, rev)
    /\ TurnsLoops(n, in, rev)
    /\ TurnsOnlyBackEdges(n, in, rev)
    /\ Acyclic(NodeIds(n), ArcsOf(out, Proper(n, out)))

-----------------------------------------------------------------------------
(* assign_ranks (ranks.rs): "the earliest possible rank" of each node.      *)

Descends(es, rk) == \A i \in DOMAIN es : rk[es[i].from] < rk[es[i].to]

\* rk descends along every edge, and no assignment that does so (within the
\* ranks that n nodes can need) places any node higher up.
IsEarliest(n, es, rk) ==
    /\ Descends(es, rk)
    /\ \A other \in [NodeIds(n) -> 0 .. n - 1] :
          Descends(es, other) => \A v \in NodeIds(n) : rk[v] <= other[v]

-----------------------------------------------------------------------------
(* insert_dummy_nodes (dummy_nodes.rs): the path that replaces an edge.     *)

\* How many dummies the edge e takes.
DummiesOn(rk, e) == IF rk[e.to] - rk[e.from] > 1 THEN rk[e.to] - rk[e.from] - 1 ELSE 0

DummiesBefore(es, rk, i) == SumFunction([j \in 1 .. i - 1 |-> DummiesOn(rk, es[j])])

\* The nodes of the i-th edge's chain, when n nodes were there before any dummy:
\* the dummies are numbered on, edge by edge, downwards along each edge.
PathOf(n, es, rk, i) ==
    IF IsSelfLoop(es[i]) THEN <<es[i].from>>
    ELSE <<es[i].from>>
           \o [k \in 1 .. DummiesOn(rk, es[i]) |-> n + DummiesBefore(es, rk, i) + k - 1]
           \o <<es[i].to>>

=============================================================================
