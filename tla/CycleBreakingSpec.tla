-------------------------- MODULE CycleBreakingSpec --------------------------
(****************************************************************************)
(* What break_cycles (cycles.rs) promises its caller, as one atomic step:   *)
(* it turns some of the edges round, and the graph has no cycle left but    *)
(* its self-loops. CycleBreaking is the depth-first search that does it.    *)
(****************************************************************************)
EXTENDS PhaseContracts

CONSTANTS N,       \* graph.nodes.len()
          Inputs   \* the edge lists a caller may hand over

VARIABLES input,             \* graph.edges on entry
          edges,             \* graph.edges
          reversedIndices,   \* the Vec<usize> that is returned
          pc                 \* "running" until the call returns

vars == <<input, edges, reversedIndices, pc>>

Init ==
    /\ input \in Inputs
    /\ edges = input
    /\ reversedIndices = <<>>
    /\ pc = "running"

\* What holds of the edges and the returned list.
Broken == BreaksCycles(N, input, edges, reversedIndices)

BreakCycles ==
    /\ pc = "running"
    /\ pc' = "returned"
    /\ UNCHANGED input
    /\ Broken'

Next == BreakCycles

Spec == Init /\ [][Next]_vars

=============================================================================
