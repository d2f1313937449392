----------------------------- MODULE LayoutGraph -----------------------------
(****************************************************************************)
(* The graph that every phase of the pipeline works on (types.rs), as the   *)
(* operators shared by the phase modules.                                   *)
(*                                                                          *)
(* A node is its dense id: `graph.nodes` of length n is 0 .. n-1.           *)
(* `graph.edges` is a sequence of Edge records; the Rust index k is index   *)
(* k+1 here. Geometry and label sizes are left out of Edge: no phase        *)
(* modelled with it reads them.                                             *)
(****************************************************************************)
EXTENDS Integers, Sequences, FiniteSets

NodeIds(n) == 0 .. n - 1

Edge == [from : Nat, to : Nat, reversed : BOOLEAN]

\* std::mem::swap of the endpoints, and the flag.
Swap(e) == [from |-> e.to, to |-> e.from, reversed |-> TRUE]

IsSelfLoop(e) == e.from = e.to

\* Both endpoints name a node: the negation is what DanglingEdge reports.
InBounds(n, e) == e.from < n /\ e.to < n

\* The positions of the edges of es that join two nodes of an n-node graph.
Bounded(n, es) == {i \in DOMAIN es : InBounds(n, es[i])}

\* Those that join two different nodes: the only ones ranking has a use for.
Proper(n, es) == {i \in Bounded(n, es) : ~IsSelfLoop(es[i])}

\* The ids of a finite set in the order a loop over 0 .. n-1 meets them.
InIdOrder(S) ==
    CHOOSE q \in [1 .. Cardinality(S) -> S] : \A j, k \in DOMAIN q : j < k => q[j] < q[k]

\* The elements of s at the positions of I, in their order.
Picked(s, I) == [k \in 1 .. Cardinality(I) |-> s[InIdOrder(I)[k]]]

Arc(e) == <<e.from, e.to>>

ArcsOf(es, I) == {Arc(es[i]) : i \in I}

-----------------------------------------------------------------------------
(* Cycles and paths, stated over sets of nodes rather than over walks: a    *)
(* finite relation is acyclic iff every nonempty set of its nodes has a     *)
(* member without an arc into the set, and b is reachable from a iff every  *)
(* set that holds a and is closed under the relation holds b.               *)

Acyclic(V, R) ==
    \A S \in (SUBSET V) \ {{}} : \E v \in S : \A w \in S : <<v, w>> \notin R

ClosedUnder(R, S) == \A a \in R : a[1] \in S => a[2] \in S

Reaches(V, R, a, b) == \A S \in SUBSET V : a \in S /\ ClosedUnder(R, S) => b \in S

=============================================================================
