---------------------------- MODULE CycleBreaking ----------------------------
(****************************************************************************)
(* break_cycles (cycles.rs): the iterative three-colour depth-first search  *)
(* that reverses the back edges of the graph, one action per step of its    *)
(* two loops.                                                               *)
(*                                                                          *)
(* The code walks a snapshot of the adjacency (`adj`) while it swaps the    *)
(* endpoints of the edges themselves, so `input` keeps the edges as they    *)
(* were on entry and Adj reads those. A frame of the code's stack is a node *)
(* and a cursor into adj[node]; every node is pushed at most once, so the   *)
(* cursors of all frames together are the set `scanned` of edges already    *)
(* looked at, and the next edge of a frame is the least one that is not.    *)
(****************************************************************************)
EXTENDS LayoutGraph

CONSTANTS N,       \* graph.nodes.len()
          Inputs   \* the edge lists a caller may hand over

ASSUME NAssumption == N \in Nat
ASSUME InputsAssumption == Inputs \subseteq Seq(Edge)

VARIABLES input,             \* graph.edges on entry, what `adj` is built from
          edges,             \* graph.edges
          color,             \* 0 White, 1 Gray, 2 Black
          start,             \* the next value of the outer loop's variable
          stack,             \* the nodes of the stack's frames, the top one last
          scanned,           \* the edges the cursors have passed
          reversedIndices,   \* reversed_indices
          pc                 \* "running" until the call returns

vars == <<input, edges, color, start, stack, scanned, reversedIndices, pc>>

Nodes == NodeIds(N)
White == 0
Gray  == 1
Black == 2

\* adj[u] in the snapshot: the edges that leave u, but for those that dangle.
Adj(u) == {i \in Bounded(N, input) : input[i].from = u}

Top == stack[Len(stack)]

Pending(u) == Adj(u) \ scanned

\* The cursor of the top frame: the edge it looks at next.
IsNext(i) ==
    /\ stack # <<>>
    /\ i \in Pending(Top)
    /\ \A j \in Pending(Top) : i <= j

Init ==
    /\ input \in Inputs
    /\ edges = input
    /\ color = [v \in Nodes |-> White]
    /\ start = 0
    /\ stack = <<>>
    /\ scanned = {}
    /\ reversedIndices = <<>>
    /\ pc = "running"

-----------------------------------------------------------------------------
\* An outer iteration whose node was reached from an earlier one.
SkipStart ==
    /\ pc = "running" /\ stack = <<>> /\ start < N
    /\ color[start] # White
    /\ start' = start + 1
    /\ UNCHANGED <<input, edges, color, stack, scanned, reversedIndices, pc>>

\* An outer iteration that opens a new search tree.
BeginTree ==
    /\ pc = "running" /\ stack = <<>> /\ start < N
    /\ color[start] = White
    /\ color' = [color EXCEPT ![start] = Gray]
    /\ stack' = <<start>>
    /\ start' = start + 1
    /\ UNCHANGED <<input, edges, scanned, reversedIndices, pc>>

\* The next edge leads to an unvisited node: descend.
TreeEdge ==
    /\ pc = "running"
    /\ \E i \in DOMAIN input :
        /\ IsNext(i)
        /\ LET v == input[i].to IN
            /\ color[v] = White
            /\ color' = [color EXCEPT ![v] = Gray]
            /\ stack' = Append(stack, v)
        /\ scanned' = scanned \union {i}
    /\ UNCHANGED <<input, edges, start, reversedIndices, pc>>

\* MUTANT of BackEdge: any visited node counts as an ancestor (two colours).
BackEdgeTwoColours ==
    /\ pc = "running"
    /\ \E i \in DOMAIN input :
        /\ IsNext(i)
        /\ color[input[i].to] # White
        /\ edges' = [edges EXCEPT ![i] = Swap(edges[i])]
        /\ reversedIndices' = Append(reversedIndices, i)
        /\ scanned' = scanned \union {i}
    /\ UNCHANGED <<input, color, start, stack, pc>>

BackEdge ==
    /\ pc = "running"
    /\ \E i \in DOMAIN input :
        /\ IsNext(i)
        /\ color[input[i].to] = Gray
        /\ edges' = [edges EXCEPT ![i] = Swap(edges[i])]
        /\ reversedIndices' = Append(reversedIndices, i)
        /\ scanned' = scanned \union {i}
    /\ UNCHANGED <<input, color, start, stack, pc>>

\* MUTANT of FinishedEdge: the cursor is advanced in the other two cases only.
FinishedEdgeKeepsCursor ==
    /\ pc = "running"
    /\ \E i \in DOMAIN input :
        /\ IsNext(i)
        /\ color[input[i].to] = Black
    /\ UNCHANGED vars

\* The next edge leads to a finished node: nothing to do.
FinishedEdge ==
    /\ pc = "running"
    /\ \E i \in DOMAIN input :
        /\ IsNext(i)
        /\ color[input[i].to] = Black
        /\ scanned' = scanned \union {i}
    /\ UNCHANGED <<input, edges, color, start, stack, reversedIndices, pc>>

\* MUTANT of Backtrack: the frame is popped and its node stays Gray.
BacktrackKeepsGray ==
    /\ pc = "running" /\ stack # <<>>
    /\ Pending(Top) = {}
    /\ stack' = SubSeq(stack, 1, Len(stack) - 1)
    /\ UNCHANGED <<input, edges, color, start, scanned, reversedIndices, pc>>

\* MUTANT of Backtrack: the colour is bumped by the weight of Black, not set to it.
BacktrackBumpsColour ==
    /\ pc = "running" /\ stack # <<>>
    /\ Pending(Top) = {}
    /\ color' = [color EXCEPT ![Top] = @ + Black]
    /\ stack' = SubSeq(stack, 1, Len(stack) - 1)
    /\ UNCHANGED <<input, edges, start, scanned, reversedIndices, pc>>

\* The top frame has no edge left.
Backtrack ==
    /\ pc = "running" /\ stack # <<>>
    /\ Pending(Top) = {}
    /\ color' = [color EXCEPT ![Top] = Black]
    /\ stack' = SubSeq(stack, 1, Len(stack) - 1)
    /\ UNCHANGED <<input, edges, start, scanned, reversedIndices, pc>>

\* The outer loop is over (at once when the graph has no node).
Return ==
    /\ pc = "running" /\ stack = <<>> /\ start = N
    /\ pc' = "returned"
    /\ UNCHANGED <<input, edges, color, start, stack, scanned, reversedIndices>>

Step == \/ SkipStart \/ BeginTree
        \/ TreeEdge \/ BackEdge \/ FinishedEdge \/ Backtrack
        \/ Return

\* After the return nothing happens: a state without a step is one where the
\* search is stuck, which TLC reports as a deadlock.
Returned == pc = "returned" /\ UNCHANGED vars

Next == Step \/ Returned

\* One thread runs the loop to its end: it never rests while a step is possible.
Spec == Init /\ [][Next]_vars /\ WF_vars(Step)

-----------------------------------------------------------------------------
(* The type invariant. *)
TypeOK ==
    /\ input \in Inputs
    /\ edges \in Seq(Edge) /\ Len(edges) = Len(input)
    /\ color \in [Nodes -> {White, Gray, Black}]
    /\ start \in 0 .. N
    /\ stack \in Seq(Nodes)
    /\ scanned \subseteq Bounded(N, input)
    /\ reversedIndices \in Seq(Bounded(N, input))
    /\ pc \in {"running", "returned"}

Turned == {reversedIndices[k] : k \in DOMAIN reversedIndices}

BlackNodes == {v \in Nodes : color[v] = Black}

\* The arcs the search has passed and left alone.
KeptArcs == ArcsOf(input, scanned \ Turned)

\* The stack holds the Gray nodes, each once.
StackIsGray ==
    /\ \A j, k \in DOMAIN stack : stack[j] = stack[k] => j = k
    /\ \A v \in Nodes : color[v] = Gray <=> \E k \in DOMAIN stack : stack[k] = v

\* What has been visited, and how far its edges have been followed.
Progress ==
    /\ \A v \in Nodes : v < start => color[v] # White
    /\ \A v \in BlackNodes : Adj(v) \subseteq scanned
    /\ \A i \in scanned : color[input[i].from] # White
    /\ pc = "returned" => stack = <<>> /\ start = N

\* The edges are those of the input but for the listed ones, which were turned once.
TurnedOnce ==
    /\ \A k, l \in DOMAIN reversedIndices :
            reversedIndices[k] = reversedIndices[l] => k = l
    /\ Turned \subseteq scanned
    /\ scanned \ Proper(N, input) \subseteq Turned
    /\ \A i \in DOMAIN input :
            edges[i] = IF i \in Turned THEN Swap(input[i]) ELSE input[i]

\* Each passed edge, as it points now, leads to a finished node or up the stack:
\* so none leads from a finished node back to an open one.
PassedEdgesPointOn ==
    \A i \in scanned \cap Proper(N, edges) :
        \/ color[edges[i].to] = Black
        \/ \E j, k \in DOMAIN stack :
                j < k /\ stack[j] = edges[i].from /\ stack[k] = edges[i].to

\* The finished part of the graph has no cycle.
BlackAcyclic == Acyclic(BlackNodes, ArcsOf(edges, scanned \cap Proper(N, edges)))

\* The stack is a path of edges that were left alone.
StackIsPath ==
    \A j, k \in DOMAIN stack : j <= k => Reaches(Nodes, KeptArcs, stack[j], stack[k])

\* An edge is turned only when edges that were left alone close a cycle with it
\* (cycles.rs:54, the Gray test): no reversal is superfluous, and a graph without
\* a cycle keeps every edge as it is.
TurnedCloseCycles ==
    \A i \in Turned : Reaches(Nodes, KeptArcs, input[i].to, input[i].from)

\* The inductive invariant of the search: the colours, the stack and the turned
\* edges agree at every step of the two loops.
SearchInv ==
    /\ StackIsGray
    /\ Progress
    /\ TurnedOnce
    /\ PassedEdgesPointOn
    /\ BlackAcyclic
    /\ StackIsPath
    /\ TurnedCloseCycles

\* break_cycles "converts a potentially cyclic graph into a DAG" (cycles.rs:3):
\* when it returns, the edges between different nodes form no cycle.
ResultAcyclic ==
    pc = "returned" => Acyclic(Nodes, ArcsOf(edges, Proper(N, edges)))

\* Seen from outside, the loops are one step that satisfies BreaksCycles.
Abstract == INSTANCE CycleBreakingSpec
    WITH edges <- IF pc = "returned" THEN edges ELSE input,
         reversedIndices <- IF pc = "returned" THEN reversedIndices ELSE <<>>

ImplementsSpec == Abstract!Spec

\* The two nested loops (cycles.rs:35-66) end on every graph.
Termination == <>(pc = "returned")

=============================================================================
