--------------------------- MODULE RankAssignment ----------------------------
(****************************************************************************)
(* assign_ranks (ranks.rs) with validate_graph (validate.rs): validation,   *)
(* Kahn's algorithm one edge at a time, longest-path relaxation one node at *)
(* a time, and the layers.                                                  *)
(*                                                                          *)
(* The inner loop over out_edges[u] of the node u last taken is the set     *)
(* `released` of those edges that it has passed. An Option that is None is  *)
(* NoRank.                                                                  *)
(****************************************************************************)
EXTENDS PhaseContracts

CONSTANTS N,              \* graph.nodes.len()
          Inputs,         \* the edge lists a caller may hand over
          IdLists,        \* the node.id fields it may hand over, [0 .. N-1 -> Nat]
          InitialFields   \* the node.rank and node.order fields: None, or left by an earlier call

NoRank == -1
Nodes == NodeIds(N)

ASSUME NAssumption == N \in Nat
ASSUME InputsAssumption == Inputs \subseteq Seq(Edge)
ASSUME IdListsAssumption == IdLists \subseteq [Nodes -> Nat]
ASSUME InitialFieldsAssumption ==
    InitialFields \subseteq [rank  : [Nodes -> Nat \union {NoRank}],
                            order : [Nodes -> Nat \union {NoRank}]]

VARIABLES ids, edges,   \* the graph: node.id by position, graph.edges
          rank, order,  \* node.rank and node.order
          entry,        \* what they were on entry
          inDegree,     \* in_degree
          released,     \* the edges that the loop over out_edges[u] has passed
          queue,        \* queue
          topoOrder,    \* topo_order
          relaxed,      \* how much of topo_order the relaxation has passed
          maxRank,      \* max_rank
          layers,       \* RankSystem.layers, from layer 0
          result,       \* "none" until the call returns, then Ok or the error
          pc

graph == <<ids, edges, entry>>
vars == <<ids, edges, rank, order, entry, inDegree, released, queue, topoOrder,
          relaxed, maxRank, layers, result, pc>>

OutEdges(u) == {i \in DOMAIN edges : edges[i].from = u}
Into(v) == {i \in DOMAIN edges : edges[i].to = v}
Successors(u) == {edges[i].to : i \in OutEdges(u)}
Current == topoOrder[Len(topoOrder)]

\* What the inner loop over out_edges of the node last taken has still to pass.
Owed == IF topoOrder = <<>> THEN {} ELSE OutEdges(Current) \ released

InnerDone == Owed = {}

IsNext(i) == i \in Owed /\ \A j \in Owed : i <= j

Init ==
    /\ ids \in IdLists /\ edges \in Inputs
    /\ entry \in InitialFields
    /\ rank = entry.rank /\ order = entry.order
    /\ inDegree = [v \in Nodes |-> 0]
    /\ released = {} /\ queue = <<>> /\ topoOrder = <<>>
    /\ relaxed = 0 /\ maxRank = 0 /\ layers = <<>>
    /\ result = "none" /\ pc = "validate"

-----------------------------------------------------------------------------
(* validate_graph: the three checks, in their order.                        *)

Dense == \A v \in Nodes : ids[v] = v
NoDangling == \A i \in DOMAIN edges : InBounds(N, edges[i])
NoSelfLoop == \A i \in DOMAIN edges : ~IsSelfLoop(edges[i])

Reject(error) ==
    /\ result' = error /\ pc' = "returned"
    /\ UNCHANGED <<graph, rank, order, inDegree, released, queue, topoOrder,
                   relaxed, maxRank, layers>>

RejectId == pc = "validate" /\ ~Dense /\ Reject("InvalidNodeId")

RejectDangling == pc = "validate" /\ Dense /\ ~NoDangling /\ Reject("DanglingEdge")

RejectSelfLoop ==
    pc = "validate" /\ Dense /\ NoDangling /\ ~NoSelfLoop /\ Reject("SelfLoop")

\* MUTANT of Accept: the ranks are reset before the loop that may find a cycle.
AcceptResetsRanks ==
    /\ pc = "validate" /\ Dense /\ NoDangling /\ NoSelfLoop
    /\ inDegree' = [v \in Nodes |-> Cardinality(Into(v))]
    /\ queue' = InIdOrder({v \in Nodes : Into(v) = {}})
    /\ rank' = [v \in Nodes |-> 0]
    /\ pc' = "kahn"
    /\ UNCHANGED <<graph, order, released, topoOrder, relaxed, maxRank, layers, result>>

\* The graph is valid: count the edges into each node and queue the sources.
Accept ==
    /\ pc = "validate" /\ Dense /\ NoDangling /\ NoSelfLoop
    /\ inDegree' = [v \in Nodes |-> Cardinality(Into(v))]
    /\ queue' = InIdOrder({v \in Nodes : Into(v) = {}})
    /\ pc' = "kahn"
    /\ UNCHANGED <<graph, rank, order, released, topoOrder, relaxed, maxRank, layers, result>>

-----------------------------------------------------------------------------
(* Kahn's algorithm.                                                        *)

\* MUTANT of Dequeue: the last one in is taken, but the first is dropped.
DequeueMixedEnds ==
    /\ pc = "kahn" /\ InnerDone /\ queue # <<>>
    /\ topoOrder' = Append(topoOrder, queue[Len(queue)]) /\ released' = {}
    /\ queue' = Tail(queue)
    /\ UNCHANGED <<graph, rank, order, inDegree, relaxed, maxRank, layers, result, pc>>

\* MUTANT of Dequeue: the node is read but not taken.
DequeuePeeks ==
    /\ pc = "kahn" /\ InnerDone /\ queue # <<>>
    /\ topoOrder' = <<Head(queue)>> /\ released' = {}
    /\ UNCHANGED <<graph, rank, order, inDegree, queue, relaxed, maxRank, layers, result, pc>>

Dequeue ==
    /\ pc = "kahn" /\ InnerDone /\ queue # <<>>
    /\ topoOrder' = Append(topoOrder, Head(queue)) /\ released' = {}
    /\ queue' = Tail(queue)
    /\ UNCHANGED <<graph, rank, order, inDegree, relaxed, maxRank, layers, result, pc>>

\* MUTANT of Release: the count is not taken down before the test.
ReleaseTestsOldCount ==
    /\ pc = "kahn"
    /\ \E i \in DOMAIN edges :
        /\ IsNext(i)
        /\ LET v == edges[i].to IN
            /\ inDegree' = [inDegree EXCEPT ![v] = @ - 1]
            /\ queue' = IF inDegree[v] = 0 THEN Append(queue, v) ELSE queue
        /\ released' = released \union {i}
    /\ UNCHANGED <<graph, rank, order, topoOrder, relaxed, maxRank, layers, result, pc>>

\* MUTANT of Release: a successor is queued each time an edge into it is passed.
ReleaseQueuesAlways ==
    /\ pc = "kahn"
    /\ \E i \in DOMAIN edges :
        /\ IsNext(i)
        /\ LET v == edges[i].to IN
            /\ inDegree' = [inDegree EXCEPT ![v] = @ - 1]
            /\ queue' = Append(queue, v)
        /\ released' = released \union {i}
    /\ UNCHANGED <<graph, rank, order, topoOrder, relaxed, maxRank, layers, result, pc>>

\* One successor: it is queued when this was the last edge into it.
Release ==
    /\ pc = "kahn"
    /\ \E i \in DOMAIN edges :
        /\ IsNext(i)
        /\ LET v == edges[i].to IN
            /\ inDegree' = [inDegree EXCEPT ![v] = @ - 1]
            /\ queue' = IF inDegree[v] - 1 = 0 THEN Append(queue, v) ELSE queue
        /\ released' = released \union {i}
    /\ UNCHANGED <<graph, rank, order, topoOrder, relaxed, maxRank, layers, result, pc>>

\* The queue has run dry before every node was taken.
ReportCycle ==
    /\ pc = "kahn" /\ InnerDone /\ queue = <<>>
    /\ Len(topoOrder) # N
    /\ Reject("CyclicGraph")

\* MUTANT of StartRelaxation: ranks of an earlier call are kept.
StartFromOldRanks ==
    /\ pc = "kahn" /\ InnerDone /\ queue = <<>>
    /\ Len(topoOrder) = N
    /\ rank' = [v \in Nodes |-> IF rank[v] = NoRank THEN 0 ELSE rank[v]]
    /\ pc' = "relax"
    /\ UNCHANGED <<graph, order, inDegree, released, queue, topoOrder, relaxed,
                   maxRank, layers, result>>

StartRelaxation ==
    /\ pc = "kahn" /\ InnerDone /\ queue = <<>>
    /\ Len(topoOrder) = N
    /\ rank' = [v \in Nodes |-> 0]
    /\ pc' = "relax"
    /\ UNCHANGED <<graph, order, inDegree, released, queue, topoOrder, relaxed,
                   maxRank, layers, result>>

-----------------------------------------------------------------------------
(* Longest-path relaxation and the layers.                                  *)

\* MUTANT of Relax: max_rank takes the rank of the node, not that of its successors.
RelaxMaxTooLow ==
    /\ pc = "relax" /\ relaxed < N
    /\ LET u == topoOrder[relaxed + 1]
           candidate == rank[u] + 1
       IN /\ rank' = [v \in Nodes |-> IF v \in Successors(u) /\ candidate > rank[v]
                                      THEN candidate ELSE rank[v]]
          /\ maxRank' = IF Successors(u) # {} /\ rank[u] > maxRank THEN rank[u] ELSE maxRank
    /\ relaxed' = relaxed + 1
    /\ UNCHANGED <<graph, order, inDegree, released, queue, topoOrder, layers, result, pc>>

Relax ==
    /\ pc = "relax" /\ relaxed < N
    /\ LET u == topoOrder[relaxed + 1]
           candidate == rank[u] + 1
       IN /\ rank' = [v \in Nodes |-> IF v \in Successors(u) /\ candidate > rank[v]
                                      THEN candidate ELSE rank[v]]
          /\ maxRank' = IF Successors(u) # {} /\ candidate > maxRank
                        THEN candidate ELSE maxRank
    /\ relaxed' = relaxed + 1
    /\ UNCHANGED <<graph, order, inDegree, released, queue, topoOrder, layers, result, pc>>

\* Every node goes to the layer of its rank, by id, and its order is its place there.
BuildLayers ==
    /\ pc = "relax" /\ relaxed = N
    /\ layers' = [r \in 0 .. maxRank |-> InIdOrder({v \in Nodes : rank[v] = r})]
    /\ order' = [v \in Nodes |-> Cardinality({w \in Nodes : rank[w] = rank[v] /\ w < v})]
    /\ result' = "Ok" /\ pc' = "returned"
    /\ UNCHANGED <<graph, rank, inDegree, released, queue, topoOrder, relaxed, maxRank>>

Step == \/ RejectId \/ RejectDangling \/ RejectSelfLoop \/ Accept
        \/ Dequeue \/ Release \/ ReportCycle
        \/ StartRelaxation \/ Relax \/ BuildLayers

\* After the return nothing happens: TLC reports a state where the code is stuck.
Returned == pc = "returned" /\ UNCHANGED vars

Next == Step \/ Returned

\* One thread runs the call to its end.
Spec == Init /\ [][Next]_vars /\ WF_vars(Step)

-----------------------------------------------------------------------------
Results == {"none", "Ok", "InvalidNodeId", "DanglingEdge", "SelfLoop", "CyclicGraph"}

(* The type invariant. inDegree is a usize: `in_degree[successor] -= 1`     *)
(* (ranks.rs:42) would panic or wrap if it ever left Nat, as it would if a  *)
(* node were taken twice.                                                   *)
TypeOK ==
    /\ ids \in IdLists /\ edges \in Inputs
    /\ rank \in [Nodes -> Nat \union {NoRank}]
    /\ order \in [Nodes -> Nat \union {NoRank}]
    /\ inDegree \in [Nodes -> Nat]
    /\ released \subseteq DOMAIN edges
    /\ queue \in Seq(Nodes) /\ topoOrder \in Seq(Nodes)
    /\ relaxed \in 0 .. N /\ maxRank \in Nat
    /\ layers = <<>> \/ layers \in [0 .. maxRank -> Seq(Nodes)]
    /\ result \in Results /\ pc \in {"validate", "kahn", "relax", "returned"}

Accepted == pc \in {"kahn", "relax"} \/ result \in {"Ok", "CyclicGraph"}

\* The nodes that were ever queued.
Seen == topoOrder \o queue

\* The edges passed so far, by the inner loops of all nodes taken.
Passed == released \union UNION {OutEdges(topoOrder[k]) : k \in 1 .. Len(topoOrder) - 1}

\* Every node comes after all its predecessors: what the relaxation relies on
\* to visit each node once.
TopologicalOrder ==
    \A k \in DOMAIN Seen : \A i \in Into(Seen[k]) : \E j \in 1 .. k - 1 : Seen[j] = edges[i].from

\* Kahn's bookkeeping (ranks.rs:37-47): the counts are those of the edges not yet
\* passed, and exactly the nodes with none left were queued, each once and after
\* its predecessors.
KahnInv ==
    Accepted =>
        /\ \A v \in Nodes : inDegree[v] = Cardinality(Into(v) \ Passed)
        /\ \A v \in Nodes : inDegree[v] = 0 <=> \E k \in DOMAIN Seen : Seen[k] = v
        /\ \A j, k \in DOMAIN Seen : Seen[j] = Seen[k] => j = k
        /\ TopologicalOrder

\* CyclicGraph is reported of exactly the graphs that have a cycle
\* (ranks.rs:49-52, validate.rs:13-14).
VerdictIsRight ==
    /\ result = "CyclicGraph" => ~Acyclic(Nodes, ArcsOf(edges, DOMAIN edges))
    /\ result = "Ok" => Acyclic(Nodes, ArcsOf(edges, DOMAIN edges))

\* "Assign each node to the earliest possible rank" (ranks.rs:17): no assignment
\* in which every edge descends places any node higher up, and this one descends.
EarliestRanks == result = "Ok" => IsEarliest(N, edges, rank)

\* The layers hold each node once, at the index of its rank and the place of its
\* order, and none of them is empty (ranks.rs:72-86).
LayersMatchNodes ==
    result = "Ok" =>
        /\ \A r \in DOMAIN layers : N > 0 => layers[r] # <<>>
        /\ \A v \in Nodes :
              /\ rank[v] \in DOMAIN layers
              /\ order[v] + 1 \in DOMAIN layers[rank[v]]
              /\ layers[rank[v]][order[v] + 1] = v
        /\ \A r \in DOMAIN layers : \A k \in DOMAIN layers[r] :
              rank[layers[r][k]] = r /\ order[layers[r][k]] = k - 1

\* A call that returns an error has written to no node: whatever its steps did
\* before the error was found, and a cycle is found last, the ranks and orders are
\* those of the caller (ranks.rs:22, 49-57).
RefusedGraphUntouched ==
    result \notin {"none", "Ok"} => rank = entry.rank /\ order = entry.order /\ layers = <<>>

\* The call returns on every graph.
Termination == <>(pc = "returned")

=============================================================================
