------------------------ MODULE LayoutPipeline_proofs ------------------------
(****************************************************************************)
(* run_pipeline for every list of nodes and of edges: only ids that the     *)
(* caller got wrong can make it fail, and what it hands back is the         *)
(* caller's own graph.                                                      *)
(*                                                                          *)
(* The ids, the edges that go into the phases and the self-loops that go    *)
(* round them are fixed once they are translated; every later stage is      *)
(* described as what the phases so far make of those.                       *)
(****************************************************************************)
EXTENDS LayoutPipeline, LayoutTheorems

-----------------------------------------------------------------------------
(* The inductive invariant, in parts.                                       *)

ArgumentsInv == nodes \in Seq(Nat) /\ wanted \in Seq([from : Nat, to : Nat])

\* The two maps between ids are inverse, over the nodes translated so far.
IdsInv ==
    /\ externalIds \in Seq(Nat) /\ Len(externalIds) <= Len(nodes)
    /\ \A k \in DOMAIN externalIds : externalIds[k] = nodes[k]
    /\ DOMAIN idMap = Range(externalIds)
    /\ \A k \in DOMAIN externalIds : idMap[externalIds[k]] = k - 1

\* The edge that the k-th wanted one is translated to.
Translated(k) ==
    [from |-> idMap[wanted[k].from], to |-> idMap[wanted[k].to], reversed |-> FALSE]

Raw == [k \in DOMAIN wanted |-> Translated(k)]

\* What the phases are given, and what goes round them.
Given == Picked(Raw, DOMAIN wanted \ Loops(wanted))
Around == Picked(Raw, Loops(wanted))

AllKnown == Len(externalIds) = Len(nodes) /\ \A k \in DOMAIN wanted : Known(wanted[k])

\* Edges of the given ones, those of R turned.
TurnedGiven(R) == [i \in DOMAIN Given |-> IF i \in R THEN Swap(Given[i]) ELSE Given[i]]

Broken(R) ==
    /\ R \subseteq DOMAIN Given
    /\ BreaksCycles(Len(externalIds), Given, TurnedGiven(R), InIdOrder(R))

\* s lists n elements.
Lists(s, n) == s = [k \in 1 .. n |-> s[k]]

\* The chains are those of the given edges, R turned, and then of m of the loops;
\* their nodes have ranks.
ChainsOf(R, m) ==
    /\ Len(chains) = Len(Given) + m /\ Lists(chains, Len(chains))
    /\ \A i \in DOMAIN Given :
          /\ chains[i].source = Given[i].from /\ chains[i].target = Given[i].to
          /\ chains[i].reversed = (i \in R) /\ chains[i].isSelfLoop = FALSE
          /\ Range(chains[i].chain) \subseteq DOMAIN rank
    /\ \A k \in 1 .. m :
          chains[Len(Given) + k] = [source |-> Around[k].from, target |-> Around[k].to, reversed |-> FALSE,
                                    isSelfLoop |-> TRUE, chain |-> <<Around[k].from>>]

\* The ranks of all nodes, dummies included, and edges that keep to them.
RankedGraph ==
    /\ \E c \in Nat : Len(externalIds) <= c /\ rank \in [NodeIds(c) -> Nat]
    /\ edges \in Seq({e \in Edge : e.from \in DOMAIN rank /\ e.to \in DOMAIN rank})

\* What the phases so far have made of the caller's graph.
StageInv ==
    /\ pc = "nodes" => at = Len(externalIds) /\ edges = <<>>
    /\ pc = "edges" => /\ at \in 0 .. Len(wanted) /\ Len(externalIds) = Len(nodes)
                       /\ edges = [k \in 1 .. at |-> Translated(k)]
                       /\ \A k \in 1 .. at : Known(wanted[k])
    /\ pc \in {"nodes", "edges"} => selfLoops = <<>>
    /\ pc \notin {"nodes", "edges", "returned"} \/ result = "Ok" => AllKnown /\ selfLoops = Around
    /\ pc = "break" => edges = Given
    /\ pc \in {"rank", "dummies"} => \E R : Broken(R) /\ edges = TurnedGiven(R)
    /\ pc = "dummies" => rank \in [Normal -> Nat] /\ Descends(edges, rank)
    /\ pc = "loops" => RankedGraph /\ \E R : Broken(R) /\ ChainsOf(R, 0)
    /\ pc \in {"order", "coordinates", "route", "report"} =>
          RankedGraph /\ \E R : Broken(R) /\ ChainsOf(R, Len(Around))
    /\ pc = "report" => routes = [k \in DOMAIN chains |-> RouteOf(chains[k])]

\* The k-th of the routes handed out: the k-th given edge, or a loop.
Outcome(R, k) ==
    LET e == IF k \in DOMAIN Given THEN Given[k] ELSE Around[k - Len(Given)] IN
    [from |-> ExternalId(e.from), to |-> ExternalId(e.to), reversed |-> k \in R, isSelfLoop |-> k \notin DOMAIN Given]

\* The caller named a node twice, or a node it did not list.
CallerErred ==
    \/ \E j, k \in DOMAIN nodes : j # k /\ nodes[j] = nodes[k]
    \/ \E k \in DOMAIN wanted : {wanted[k].from, wanted[k].to} \ Range(nodes) # {}

ResultInv ==
    /\ pc = "returned" <=> result # "none"
    /\ pc \in {"nodes", "edges", "break", "rank", "dummies", "loops", "order", "coordinates", "route", "report", "returned"}
    /\ result \in {"none", "Ok", "InvalidGraph"}
    /\ result = "InvalidGraph" => CallerErred
    /\ result = "Ok" =>
          /\ positions = nodes
          /\ \E R : Broken(R) /\ routes = [k \in 1 .. Len(Given) + Len(Around) |-> Outcome(R, k)]

GraphInv == edges \in Seq(Edge) /\ selfLoops \in Seq(Edge)

IInv == ArgumentsInv /\ IdsInv /\ StageInv /\ ResultInv /\ GraphInv

-----------------------------------------------------------------------------
(* Ids, and the edges that are picked.                                      *)

LEMMA IdsAgree ==
    ASSUME ArgumentsInv, IdsInv
    PROVE  /\ Len(externalIds) \in Nat
           /\ \A v \in Normal : /\ ExternalId(v) \in DOMAIN idMap /\ idMap[ExternalId(v)] = v
                                /\ ExternalId(v) \in Range(nodes)
           /\ \A x \in DOMAIN idMap : idMap[x] \in Normal /\ ExternalId(idMap[x]) = x
<1>. DEFINE n == Len(externalIds)
<1>1. /\ n \in Nat /\ DOMAIN externalIds = 1 .. n /\ n <= Len(nodes) /\ DOMAIN nodes = 1 .. Len(nodes)
      /\ Len(nodes) \in Nat
  BY DEF IdsInv, ArgumentsInv
<1>2. ASSUME NEW v \in Normal
      PROVE  /\ ExternalId(v) \in DOMAIN idMap /\ idMap[ExternalId(v)] = v
             /\ ExternalId(v) \in Range(nodes)
  <2>1. v + 1 \in 1 .. n /\ v + 1 \in DOMAIN nodes /\ (v + 1) - 1 = v
    BY <1>1 DEF Normal, NodeIds
  <2>2. externalIds[v + 1] \in Range(externalIds) /\ externalIds[v + 1] = nodes[v + 1]
        /\ idMap[externalIds[v + 1]] = (v + 1) - 1
    BY <1>1, <2>1 DEF IdsInv, Range
  <2>3. nodes[v + 1] \in Range(nodes)
    BY <2>1 DEF Range
  <2>. QED
    BY <2>1, <2>2, <2>3 DEF ExternalId, IdsInv
<1>3. ASSUME NEW x \in DOMAIN idMap
      PROVE  idMap[x] \in Normal /\ ExternalId(idMap[x]) = x
  <2>1. PICK k \in 1 .. n : externalIds[k] = x
    BY <1>1 DEF IdsInv, Range
  <2>2. idMap[x] = k - 1
    BY <1>1, <2>1 DEF IdsInv
  <2>3. k - 1 \in Normal /\ (k - 1) + 1 = k
    BY <1>1, <2>1 DEF Normal, NodeIds
  <2>. QED
    BY <2>1, <2>2, <2>3 DEF ExternalId
<1>. QED
  BY <1>1, <1>2, <1>3

\* Edges of an n-node graph that the caller's are numbered as.
Numbered == {e \in Edge : e.from \in Normal /\ e.to \in Normal /\ e.reversed = FALSE}

LEMMA TranslatedAgree ==
    ASSUME ArgumentsInv, IdsInv, NEW k \in DOMAIN wanted, Known(wanted[k])
    PROVE  /\ Translated(k) \in Numbered
           /\ ExternalId(Translated(k).from) = wanted[k].from
           /\ ExternalId(Translated(k).to) = wanted[k].to
           /\ IsSelfLoop(Translated(k)) <=> IsSelfLoop(wanted[k])
<1>1. /\ wanted[k].from \in DOMAIN idMap /\ wanted[k].to \in DOMAIN idMap
      /\ Translated(k).from = idMap[wanted[k].from] /\ Translated(k).to = idMap[wanted[k].to]
      /\ Translated(k).reversed = FALSE
  BY DEF Known, Translated
<1>2. /\ Translated(k).from \in Normal /\ Translated(k).to \in Normal
      /\ ExternalId(Translated(k).from) = wanted[k].from
      /\ ExternalId(Translated(k).to) = wanted[k].to
  BY <1>1, IdsAgree
<1>3. Normal \subseteq Nat
  BY IdsAgree DEF Normal, NodeIds
<1>4. Translated(k) \in Edge
  BY <1>1, <1>2, <1>3 DEF Edge, Translated
<1>. QED
  BY <1>1, <1>2, <1>4 DEF Numbered, IsSelfLoop

\* The edges at the places I, translated and as the caller wrote them.
PickedRaw(I) ==
    /\ Picked(Raw, I) \in Seq(Numbered) /\ Len(Picked(Raw, I)) = Cardinality(I)
    /\ Cardinality(I) \in Nat
    /\ Len(Picked(wanted, I)) = Cardinality(I) /\ DOMAIN Picked(wanted, I) = 1 .. Cardinality(I)
    /\ \A k \in 1 .. Cardinality(I) :
          \E j \in I : Picked(Raw, I)[k] = Translated(j) /\ Picked(wanted, I)[k] = wanted[j]

LEMMA PickedAgree ==
    ASSUME ArgumentsInv, IdsInv, AllKnown, NEW I \in SUBSET DOMAIN wanted
    PROVE  PickedRaw(I)
<1>. DEFINE c == Cardinality(I)
            q == InIdOrder(I)
<1>1. Len(wanted) \in Nat /\ DOMAIN wanted = 1 .. Len(wanted)
  BY DEF ArgumentsInv
<1>2. /\ c \in Nat /\ Picked(Raw, I) = [k \in 1 .. c |-> Raw[q[k]]]
      /\ Picked(wanted, I) = [k \in 1 .. c |-> wanted[q[k]]]
      /\ \A k \in 1 .. c : q[k] \in I
  BY <1>1, PickedAt
<1>3. ASSUME NEW k \in 1 .. c
      PROVE  Raw[q[k]] = Translated(q[k]) /\ Raw[q[k]] \in Numbered
  <2>1. q[k] \in DOMAIN wanted
    BY <1>2
  <2>2. Known(wanted[q[k]])
    BY <2>1 DEF AllKnown
  <2>. QED
    BY <2>1, <2>2, TranslatedAgree DEF Raw
<1>. HIDE DEF c, q
<1>4. Picked(Raw, I) \in Seq(Numbered) /\ Len(Picked(Raw, I)) = c
  BY <1>2, <1>3
<1>5. Len(Picked(wanted, I)) = c /\ DOMAIN Picked(wanted, I) = 1 .. c
  BY <1>2
<1>6. \A k \in 1 .. c : \E j \in I : Picked(Raw, I)[k] = Translated(j) /\ Picked(wanted, I)[k] = wanted[j]
  BY <1>2, <1>3
<1>. QED
  BY <1>2, <1>4, <1>5, <1>6 DEF PickedRaw, c

\* The two lists that the extraction leaves.
IsExtracted ==
    /\ Given \in Seq(Numbered) /\ Around \in Seq(Numbered)
    /\ Given \in Seq(Edge) /\ Around \in Seq(Edge)
    /\ \A i \in DOMAIN Given : ~IsSelfLoop(Given[i])
    /\ \A k \in DOMAIN Around : IsSelfLoop(Around[k])

LEMMA ExtractedAgree ==
    ASSUME ArgumentsInv, IdsInv, AllKnown
    PROVE  IsExtracted
<1>. DEFINE P == DOMAIN wanted \ Loops(wanted)
            L == Loops(wanted)
<1>1. P \in SUBSET DOMAIN wanted /\ L \in SUBSET DOMAIN wanted
  BY DEF Loops
<1>2. PickedRaw(P) /\ PickedRaw(L)
  BY <1>1, PickedAgree
<1>3. /\ \A j \in P : ~IsSelfLoop(Translated(j))
      /\ \A j \in L : IsSelfLoop(Translated(j))
  BY TranslatedAgree DEF AllKnown, Loops
<1>4. Given = Picked(Raw, P) /\ Around = Picked(Raw, L)
  BY DEF Given, Around
<1>. HIDE DEF P, L
<1>5. /\ Given \in Seq(Numbered) /\ Around \in Seq(Numbered)
      /\ DOMAIN Given = 1 .. Cardinality(P) /\ DOMAIN Around = 1 .. Cardinality(L)
  BY <1>2, <1>4 DEF PickedRaw
<1>6. Numbered \subseteq Edge
  BY DEF Numbered
<1>7. Given \in Seq(Edge) /\ Around \in Seq(Edge)
  <2>. DEFINE S == Numbered
              T == Edge
  <2>1. S \subseteq T /\ Given \in Seq(S) /\ Around \in Seq(S)
    BY <1>5, <1>6
  <2>. HIDE DEF S, T
  <2>2. Given \in Seq(T) /\ Around \in Seq(T)
    BY <2>1
  <2>. QED
    BY <2>2 DEF T
<1>8. \A i \in DOMAIN Given : ~IsSelfLoop(Given[i])
  BY <1>2, <1>3, <1>4, <1>5 DEF PickedRaw
<1>9. \A i \in DOMAIN Around : IsSelfLoop(Around[i])
  BY <1>2, <1>3, <1>4, <1>5 DEF PickedRaw
<1>. QED
  BY <1>5, <1>7, <1>8, <1>9 DEF IsExtracted

-----------------------------------------------------------------------------
(* Steps that leave the arguments and the ids alone.                        *)

Kept == UNCHANGED <<nodes, wanted, idMap, externalIds>>

LEMMA KeptGraph ==
    ASSUME Kept
    PROVE  /\ Normal' = Normal /\ Given' = Given /\ Around' = Around
           /\ AllKnown' <=> AllKnown
           /\ \A k : Translated(k)' = Translated(k)
           /\ \A k \in DOMAIN wanted : Known(wanted[k])' <=> Known(wanted[k])
           /\ CallerErred' <=> CallerErred
<1>1. nodes' = nodes /\ wanted' = wanted /\ idMap' = idMap /\ externalIds' = externalIds
  BY DEF Kept
<1>2. \A k : Translated(k)' = Translated(k)
  BY <1>1 DEF Translated
<1>3. Raw' = Raw
  BY <1>1, <1>2 DEF Raw
<1>4. Loops(wanted)' = Loops(wanted)
  BY <1>1 DEF Loops
<1>5. Given' = Given /\ Around' = Around
  BY <1>1, <1>3, <1>4 DEF Given, Around
<1>6. \A k \in DOMAIN wanted : Known(wanted[k])' <=> Known(wanted[k])
  BY <1>1 DEF Known
<1>. QED
  BY <1>1, <1>2, <1>5, <1>6 DEF Normal, AllKnown, CallerErred, Known

LEMMA KeptBroken ==
    ASSUME Kept
    PROVE  \A R : /\ TurnedGiven(R)' = TurnedGiven(R)
                  /\ Broken(R)' <=> Broken(R)
<1>1. Given' = Given /\ Len(externalIds)' = Len(externalIds)
  BY KeptGraph DEF Kept
<1>2. ASSUME NEW R
      PROVE  TurnedGiven(R)' = TurnedGiven(R)
  BY <1>1 DEF TurnedGiven
<1>. QED
  BY <1>1, <1>2 DEF Broken

LEMMA KeptIds ==
    ASSUME ArgumentsInv, IdsInv, Kept
    PROVE  ArgumentsInv' /\ IdsInv'
BY DEF ArgumentsInv, IdsInv, Kept, Range

\* A phase goes on: the label changes, and what it leaves suits the next label.
LEMMA OnwardStep ==
    ASSUME IInv, Kept, UNCHANGED <<selfLoops, positions, result>>,
           AllKnown, selfLoops = Around, pc # "returned",
           edges' \in Seq(Edge),
           pc' \in {"break", "rank", "dummies", "loops", "order", "coordinates", "route", "report"},
           pc' = "break" => edges' = Given,
           pc' \in {"rank", "dummies"} => \E R : Broken(R) /\ edges' = TurnedGiven(R),
           pc' = "dummies" => rank' \in [Normal -> Nat] /\ Descends(edges', rank'),
           pc' \in {"loops", "order", "coordinates", "route", "report"} => RankedGraph',
           pc' = "loops" => \E R : Broken(R) /\ ChainsOf(R, 0)',
           pc' \in {"order", "coordinates", "route", "report"} =>
              \E R : Broken(R) /\ ChainsOf(R, Len(Around))',
           pc' = "report" => routes' = [k \in DOMAIN chains' |-> RouteOf(chains'[k])]
    PROVE  IInv'
<1>1. /\ AllKnown' /\ selfLoops' = Around' /\ Given' = Given /\ Around' = Around /\ Normal' = Normal
      /\ CallerErred' <=> CallerErred
  BY KeptGraph
<1>2. ArgumentsInv' /\ IdsInv'
  BY KeptIds DEF IInv
<1>3. \A R : TurnedGiven(R)' = TurnedGiven(R) /\ (Broken(R)' <=> Broken(R))
  BY KeptBroken
<1>4. result = "none" /\ result' = "none"
  BY DEF IInv, ResultInv
<1>5. ResultInv'
  BY <1>4 DEF ResultInv
<1>6. GraphInv'
  BY DEF IInv, GraphInv
<1>7. pc' \in {"rank", "dummies"} => \E R : Broken(R)' /\ edges' = TurnedGiven(R)'
  BY <1>3
<1>8. pc' = "loops" => \E R : Broken(R)' /\ ChainsOf(R, 0)'
  BY <1>3
<1>9. pc' \in {"order", "coordinates", "route", "report"} =>
         \E R : Broken(R)' /\ ChainsOf(R, Len(Around))'
  BY <1>3
<1>10. StageInv'
  BY <1>1, <1>4, <1>7, <1>8, <1>9 DEF StageInv
<1>. QED
  BY <1>2, <1>5, <1>6, <1>10 DEF IInv

\* A phase fails: only when the caller has erred.
LEMMA FailStep ==
    ASSUME IInv, pc # "returned", Fail("InvalidGraph"), CallerErred
    PROVE  IInv'
<1>1. Kept /\ pc' = "returned" /\ result' = "InvalidGraph" /\ edges' = edges /\ selfLoops' = selfLoops
  BY DEF Fail, Kept, graph
<1>2. ArgumentsInv' /\ IdsInv'
  BY <1>1, KeptIds DEF IInv
<1>3. CallerErred'
  BY <1>1, KeptGraph
<1>4. ResultInv'
  BY <1>1, <1>3 DEF ResultInv
<1>5. StageInv'
  BY <1>1 DEF StageInv
<1>6. GraphInv'
  BY <1>1 DEF IInv, GraphInv
<1>. QED
  BY <1>2, <1>4, <1>5, <1>6 DEF IInv

-----------------------------------------------------------------------------
(* The translation of the ids.                                              *)

LEMMA InitInv ==
    ASSUME Init
    PROVE  IInv
<1>1. ArgumentsInv
  BY ListsAssumption DEF Init, ArgumentsInv
<1>2. IdsInv
  <2>1. externalIds = <<>> /\ idMap = <<>> /\ Len(nodes) \in Nat
    BY <1>1 DEF Init, ArgumentsInv
  <2>. QED
    BY <2>1 DEF IdsInv, Range
<1>3. StageInv
  BY DEF Init, StageInv
<1>4. ResultInv
  BY DEF Init, ResultInv
<1>5. GraphInv
  BY DEF Init, GraphInv
<1>. QED
  BY <1>1, <1>2, <1>3, <1>4, <1>5 DEF IInv

LEMMA DuplicateIdStep ==
    ASSUME IInv, DuplicateId
    PROVE  IInv'
<1>1. at = Len(externalIds) /\ at < Len(nodes) /\ nodes[at + 1] \in DOMAIN idMap /\ nodes \in Seq(Nat)
  BY DEF IInv, StageInv, ArgumentsInv, DuplicateId
<1>2. PICK k \in DOMAIN externalIds : externalIds[k] = nodes[at + 1]
  BY <1>1 DEF IInv, IdsInv, Range
<1>3. k \in 1 .. at /\ nodes[k] = nodes[at + 1]
  BY <1>1, <1>2 DEF IInv, IdsInv
<1>4. k \in DOMAIN nodes /\ at + 1 \in DOMAIN nodes /\ k # at + 1
  BY <1>1, <1>3
<1>5. CallerErred
  BY <1>3, <1>4 DEF CallerErred
<1>. QED
  BY <1>5, FailStep DEF DuplicateId

LEMMA AddNodeStep ==
    ASSUME IInv, AddNode
    PROVE  IInv'
<1>. DEFINE n == Len(externalIds)
            x == nodes[at + 1]
<1>1. /\ at = n /\ at < Len(nodes) /\ nodes \in Seq(Nat) /\ externalIds \in Seq(Nat) /\ n \in Nat
      /\ DOMAIN externalIds = 1 .. n
      /\ pc = "nodes" /\ pc' = "nodes" /\ edges = <<>> /\ selfLoops = <<>> /\ result' = result
      /\ edges' = edges /\ selfLoops' = selfLoops /\ at' = at + 1
      /\ nodes' = nodes /\ wanted' = wanted
      /\ externalIds' = Append(externalIds, x)
  BY DEF IInv, StageInv, ArgumentsInv, IdsInv, AddNode, graph
<1>2. /\ x \in Nat /\ x \notin DOMAIN idMap
      /\ DOMAIN idMap' = DOMAIN idMap \union {x} /\ idMap'[x] = n
      /\ \A y \in DOMAIN idMap : idMap'[y] = idMap[y]
  <2>1. /\ x \notin DOMAIN idMap
        /\ idMap' = [id \in DOMAIN idMap \union {x} |-> IF id = x THEN n ELSE idMap[id]]
    BY DEF AddNode
  <2>2. x \in Nat
    BY <1>1
  <2>. HIDE DEF x, n
  <2>. QED
    BY <2>1, <2>2
<1>3. /\ externalIds' \in Seq(Nat) /\ Len(externalIds') = n + 1 /\ DOMAIN externalIds' = 1 .. n + 1
      /\ externalIds'[n + 1] = x /\ \A k \in 1 .. n : externalIds'[k] = externalIds[k]
  BY <1>1, <1>2
<1>4. ArgumentsInv'
  BY <1>1 DEF IInv, ArgumentsInv
<1>5. IdsInv'
  <2>1. Len(externalIds') <= Len(nodes')
    BY <1>1, <1>3
  <2>2. \A k \in DOMAIN externalIds : externalIds[k] = nodes[k] /\ externalIds[k] \in DOMAIN idMap
    BY DEF IInv, IdsInv, Range
  <2>3. \A k \in 1 .. n + 1 : externalIds'[k] = nodes'[k]
    <3>1. \A k \in 1 .. n : externalIds'[k] = nodes[k]
      BY <1>1, <1>3, <2>2
    <3>2. externalIds'[n + 1] = nodes[n + 1]
      BY <1>1, <1>3
    <3>3. \A k \in 1 .. n + 1 : k \in 1 .. n \/ k = n + 1
      BY <1>1
    <3>. QED
      BY <1>1, <3>1, <3>2, <3>3
  <2>4. DOMAIN idMap = {externalIds[k] : k \in 1 .. n}
    BY <1>1 DEF IInv, IdsInv, Range
  <2>. HIDE DEF x, n
  <2>5. DOMAIN idMap' = {externalIds'[k] : k \in 1 .. n + 1}
    BY <1>1, <1>2, <1>3, <2>4
  <2>6. \A k \in 1 .. n : idMap[externalIds[k]] = k - 1
    BY <1>1 DEF IInv, IdsInv
  <2>7. \A k \in 1 .. n : idMap'[externalIds'[k]] = k - 1
    BY <1>1, <1>2, <1>3, <2>2, <2>6
  <2>8. idMap'[externalIds'[n + 1]] = (n + 1) - 1
    BY <1>1, <1>2, <1>3
  <2>9. \A k \in 1 .. n + 1 : idMap'[externalIds'[k]] = k - 1
    BY <1>1, <2>7, <2>8
  <2>. QED
    BY <1>3, <2>1, <2>3, <2>5, <2>9 DEF IdsInv, Range
<1>6. result = "none"
  BY <1>1 DEF IInv, ResultInv
<1>7. StageInv'
  BY <1>1, <1>3, <1>6 DEF StageInv
<1>8. ResultInv' /\ GraphInv'
  BY <1>1, <1>6 DEF ResultInv, GraphInv
<1>. QED
  BY <1>4, <1>5, <1>7, <1>8 DEF IInv

LEMMA AllNodesAddedStep ==
    ASSUME IInv, AllNodesAdded
    PROVE  IInv'
<1>1. /\ Kept /\ pc = "nodes" /\ pc' = "edges" /\ at' = 0 /\ Len(externalIds) = Len(nodes)
      /\ edges = <<>> /\ edges' = edges /\ selfLoops' = selfLoops /\ selfLoops = <<>>
      /\ result' = result
  BY DEF IInv, StageInv, AllNodesAdded, Kept, graph
<1>2. ArgumentsInv' /\ IdsInv'
  BY <1>1, KeptIds DEF IInv
<1>3. result = "none"
  BY <1>1 DEF IInv, ResultInv
<1>4. ResultInv' /\ GraphInv'
  BY <1>1, <1>3 DEF ResultInv, GraphInv
<1>5. StageInv'
  <2>1. edges' = [k \in 1 .. 0 |-> Translated(k)']
    BY <1>1
  <2>2. 0 \in 0 .. Len(wanted')
    BY <1>2 DEF ArgumentsInv
  <2>. QED
    BY <1>1, <1>3, <2>1, <2>2 DEF StageInv, Kept
<1>. QED
  BY <1>2, <1>4, <1>5 DEF IInv

LEMMA UnknownIdStep ==
    ASSUME IInv, UnknownId
    PROVE  IInv'
<1>1. /\ at \in 0 .. Len(wanted) /\ at < Len(wanted) /\ Len(wanted) \in Nat /\ ~Known(wanted[at + 1])
      /\ Len(externalIds) = Len(nodes) /\ DOMAIN wanted = 1 .. Len(wanted)
  BY DEF IInv, StageInv, ArgumentsInv, UnknownId
<1>2. Range(nodes) \subseteq DOMAIN idMap
  <2>1. DOMAIN nodes = 1 .. Len(nodes) /\ DOMAIN externalIds = 1 .. Len(externalIds)
    BY DEF IInv, ArgumentsInv, IdsInv
  <2>2. \A k \in DOMAIN nodes : nodes[k] = externalIds[k] /\ k \in DOMAIN externalIds
    BY <1>1, <2>1 DEF IInv, IdsInv
  <2>. QED
    BY <2>2 DEF IInv, IdsInv, Range
<1>3. at + 1 \in DOMAIN wanted
  BY <1>1
<1>4. {wanted[at + 1].from, wanted[at + 1].to} \ Range(nodes) # {}
  BY <1>1, <1>2 DEF Known
<1>5. CallerErred
  BY <1>3, <1>4 DEF CallerErred
<1>. QED
  BY <1>5, FailStep DEF UnknownId

LEMMA AddEdgeStep ==
    ASSUME IInv, AddEdge
    PROVE  IInv'
<1>1. /\ Kept /\ pc = "edges" /\ pc' = "edges" /\ at' = at + 1 /\ Len(externalIds) = Len(nodes)
      /\ at \in 0 .. Len(wanted) /\ at < Len(wanted) /\ Len(wanted) \in Nat
      /\ selfLoops = <<>> /\ selfLoops' = selfLoops /\ result' = result
      /\ edges = [k \in 1 .. at |-> Translated(k)] /\ \A k \in 1 .. at : Known(wanted[k])
      /\ Known(wanted[at + 1]) /\ edges' = Append(edges, Translated(at + 1))
      /\ DOMAIN wanted = 1 .. Len(wanted)
  BY DEF IInv, StageInv, ArgumentsInv, AddEdge, Translated, Kept
<1>2. ArgumentsInv' /\ IdsInv'
  BY <1>1, KeptIds DEF IInv
<1>3. result = "none"
  BY <1>1 DEF IInv, ResultInv
<1>4. ResultInv'
  BY <1>1, <1>3 DEF ResultInv
<1>5. at + 1 \in 1 .. Len(wanted)
  BY <1>1
<1>6. Translated(at + 1) \in Edge
  BY <1>1, <1>5, TranslatedAgree DEF IInv, Numbered
<1>7. GraphInv'
  BY <1>1, <1>6 DEF IInv, GraphInv
<1>8. edges' = [k \in 1 .. at + 1 |-> Translated(k)]
  <2>. DEFINE t == Translated(at + 1)
              T == Edge
  <2>1. edges \in Seq(T) /\ Len(edges) = at /\ t \in T /\ \A k \in 1 .. at : edges[k] = Translated(k)
    BY <1>1, <1>6 DEF IInv, GraphInv
  <2>2. edges' = Append(edges, t) /\ at \in Nat
    BY <1>1
  <2>. HIDE DEF t, T
  <2>3. edges' \in Seq(T) /\ Len(edges') = at + 1 /\ edges'[at + 1] = t
        /\ \A k \in 1 .. at : edges'[k] = edges[k]
    BY <2>1, <2>2
  <2>4. \A k \in 1 .. at + 1 : edges'[k] = Translated(k)
    BY <2>1, <2>2, <2>3 DEF t
  <2>. QED
    BY <2>3, <2>4
<1>9. StageInv'
  <2>1. edges' = [k \in 1 .. at' |-> Translated(k)']
    BY <1>1, <1>8, KeptGraph
  <2>2. \A k \in 1 .. at' : Known(wanted[k])'
    <3>1. \A k \in 1 .. at + 1 : k \in DOMAIN wanted /\ Known(wanted[k])
      BY <1>1
    <3>. QED
      BY <1>1, <3>1, KeptGraph
  <2>3. at' \in 0 .. Len(wanted') /\ Len(externalIds') = Len(nodes')
    BY <1>1 DEF Kept
  <2>. QED
    BY <1>1, <1>3, <2>1, <2>2, <2>3 DEF StageInv
<1>. QED
  BY <1>2, <1>4, <1>7, <1>9 DEF IInv

LEMMA ExtractSelfLoopsStep ==
    ASSUME IInv, ExtractSelfLoops
    PROVE  IInv'
<1>1. /\ Kept /\ pc = "edges" /\ pc' = "break" /\ result' = result /\ at = Len(wanted)
      /\ Len(externalIds) = Len(nodes) /\ DOMAIN wanted = 1 .. Len(wanted)
      /\ edges = [k \in 1 .. at |-> Translated(k)] /\ \A k \in 1 .. at : Known(wanted[k])
      /\ selfLoops' = Picked(edges, Loops(edges))
      /\ edges' = Picked(edges, DOMAIN edges \ Loops(edges))
  BY DEF IInv, StageInv, ArgumentsInv, ExtractSelfLoops, Kept
<1>2. AllKnown /\ edges = Raw /\ DOMAIN edges = DOMAIN wanted
  BY <1>1 DEF AllKnown, Raw
<1>3. Loops(edges) = Loops(wanted)
  <2>1. \A k \in DOMAIN wanted : IsSelfLoop(edges[k]) <=> IsSelfLoop(wanted[k])
    BY <1>2, TranslatedAgree DEF IInv, AllKnown, Raw
  <2>. QED
    BY <1>2, <2>1 DEF Loops
<1>4. edges' = Given /\ selfLoops' = Around
  BY <1>1, <1>2, <1>3 DEF Given, Around
<1>5. edges' \in Seq(Edge) /\ selfLoops' \in Seq(Edge)
  BY <1>2, <1>4, ExtractedAgree DEF IInv, IsExtracted
<1>6. ArgumentsInv' /\ IdsInv'
  BY <1>1, KeptIds DEF IInv
<1>7. result = "none"
  BY <1>1 DEF IInv, ResultInv
<1>8. ResultInv' /\ GraphInv'
  BY <1>1, <1>5, <1>7 DEF ResultInv, GraphInv
<1>9. AllKnown' /\ selfLoops' = Around' /\ edges' = Given'
  BY <1>1, <1>2, <1>4, KeptGraph
<1>10. StageInv'
  BY <1>1, <1>7, <1>9 DEF StageInv
<1>. QED
  BY <1>6, <1>8, <1>10 DEF IInv

-----------------------------------------------------------------------------
(* The phases.                                                              *)

\* What the graph is like once the edges of R are turned.
IsTurned(R) ==
    /\ TurnedGiven(R) \in Seq(Edge) /\ DOMAIN TurnedGiven(R) = DOMAIN Given
    /\ \A i \in DOMAIN Given :
          /\ TurnedGiven(R)[i].from \in Normal /\ TurnedGiven(R)[i].to \in Normal
          /\ InBounds(Len(externalIds), TurnedGiven(R)[i]) /\ ~IsSelfLoop(TurnedGiven(R)[i])
          /\ TurnedGiven(R)[i].reversed = (i \in R)
          /\ i \in R => TurnedGiven(R)[i].from = Given[i].to /\ TurnedGiven(R)[i].to = Given[i].from
          /\ i \notin R => TurnedGiven(R)[i] = Given[i]
    /\ Acyclic(Normal, ArcsOf(TurnedGiven(R), DOMAIN Given))

LEMMA TurnedAgree ==
    ASSUME ArgumentsInv, IdsInv, AllKnown, NEW R, Broken(R)
    PROVE  IsTurned(R)
<1>. DEFINE T == TurnedGiven(R)
            n == Len(externalIds)
<1>1. IsExtracted /\ n \in Nat
  BY ExtractedAgree, IdsAgree
<1>2. Normal \subseteq Nat /\ \A v \in Normal : v < n
  BY <1>1 DEF Normal, NodeIds
<1>3. DOMAIN T = DOMAIN Given
  BY DEF TurnedGiven
<1>4. ASSUME NEW i \in DOMAIN Given
      PROVE  /\ Given[i] \in Edge /\ T[i] \in Edge
             /\ T[i].from \in Normal /\ T[i].to \in Normal
             /\ InBounds(n, T[i]) /\ ~IsSelfLoop(T[i])
             /\ T[i].reversed = (i \in R)
             /\ i \in R => T[i].from = Given[i].to /\ T[i].to = Given[i].from
             /\ i \notin R => T[i] = Given[i]
  <2>1. Given[i] \in Numbered /\ ~IsSelfLoop(Given[i])
    <3>. DEFINE S == Numbered
    <3>1. Given \in Seq(S) /\ ~IsSelfLoop(Given[i])
      BY <1>1 DEF IsExtracted
    <3>. HIDE DEF S
    <3>2. Given[i] \in S
      BY <3>1
    <3>. QED
      BY <3>1, <3>2 DEF S
  <2>2. /\ Given[i] \in Edge /\ Given[i].from \in Normal /\ Given[i].to \in Normal
        /\ Given[i].reversed = FALSE /\ Given[i].from # Given[i].to
    BY <2>1 DEF Numbered, IsSelfLoop
  <2>3. T[i] = IF i \in R THEN Swap(Given[i]) ELSE Given[i]
    BY DEF TurnedGiven
  <2>4. CASE i \in R
    <3>1. T[i].from = Given[i].to /\ T[i].to = Given[i].from /\ T[i].reversed = TRUE
      BY <2>3, <2>4 DEF Swap
    <3>2. T[i] \in Edge
      BY <1>2, <2>2, <2>3, <2>4 DEF Swap, Edge
    <3>. QED
      BY <1>2, <2>2, <2>4, <3>1, <3>2 DEF InBounds, IsSelfLoop
  <2>5. CASE i \notin R
    <3>1. T[i] = Given[i]
      BY <2>3, <2>5
    <3>. HIDE DEF T, n
    <3>2. T[i] \in Edge /\ T[i].from \in Normal /\ T[i].to \in Normal /\ T[i].reversed = FALSE
      BY <2>2, <3>1
    <3>3. InBounds(n, T[i]) /\ ~IsSelfLoop(T[i])
      BY <1>2, <2>2, <3>1 DEF InBounds, IsSelfLoop
    <3>4. (i \in R) = FALSE
      BY <2>5
    <3>5. T[i].reversed = (i \in R)
      BY <3>2, <3>4
    <3>. QED
      BY <2>2, <2>5, <3>1, <3>2, <3>3, <3>5
  <2>. QED
    BY <2>4, <2>5
<1>5. T \in Seq(Edge)
  <2>. DEFINE E == Edge
  <2>1. T = [i \in 1 .. Len(Given) |-> T[i]] /\ Len(Given) \in Nat
    <3>1. Len(Given) \in Nat /\ DOMAIN Given = 1 .. Len(Given)
      BY <1>1 DEF IsExtracted
    <3>. QED
      BY <3>1 DEF TurnedGiven
  <2>2. \A i \in 1 .. Len(Given) : T[i] \in E
    <3>1. DOMAIN Given = 1 .. Len(Given)
      BY <1>1 DEF IsExtracted
    <3>. QED
      BY <1>4, <3>1
  <2>. HIDE DEF E, T
  <2>3. T \in Seq(E)
    BY <2>1, <2>2
  <2>. QED
    BY <2>3 DEF E
<1>6. Proper(n, T) = DOMAIN Given
  <2>. HIDE DEF T
  <2>. QED
    BY <1>3, <1>4 DEF Proper, Bounded
<1>7. Acyclic(Normal, ArcsOf(T, DOMAIN Given))
  BY <1>6 DEF Broken, BreaksCycles, Normal
<1>. QED
  BY <1>3, <1>4, <1>5, <1>7 DEF IsTurned

LEMMA BreakCyclesStep ==
    ASSUME IInv, BreakCycles
    PROVE  IInv'
<1>1. /\ Kept /\ UNCHANGED <<selfLoops, positions, result>> /\ pc = "break" /\ pc' = "rank"
      /\ AllKnown /\ selfLoops = Around /\ edges = Given
  BY DEF IInv, StageInv, BreakCycles, Kept
<1>2. PICK R \in SUBSET DOMAIN edges :
         /\ BreaksCycles(Len(externalIds), edges, Turned(R), InIdOrder(R))
         /\ edges' = Turned(R)
  BY DEF BreakCycles
<1>3. Turned(R) = TurnedGiven(R)
  BY <1>1 DEF Turned, TurnedGiven
<1>4. Broken(R) /\ edges' = TurnedGiven(R)
  BY <1>1, <1>2, <1>3 DEF Broken
<1>5. edges' \in Seq(Edge)
  BY <1>1, <1>4, TurnedAgree DEF IInv, IsTurned
<1>. QED
  BY <1>1, <1>4, <1>5, OnwardStep

LEMMA AssignRanksStep ==
    ASSUME IInv, AssignRanks
    PROVE  IInv'
<1>1. /\ pc = "rank" /\ AllKnown /\ selfLoops = Around
      /\ \E R : Broken(R) /\ edges = TurnedGiven(R)
  BY DEF IInv, StageInv, AssignRanks
<1>2. PICK R : Broken(R) /\ edges = TurnedGiven(R)
  BY <1>1
<1>3. IsTurned(R)
  BY <1>1, <1>2, TurnedAgree DEF IInv
<1>4. Rankable
  BY <1>2, <1>3 DEF IsTurned, Rankable
<1>5. /\ Kept /\ UNCHANGED <<selfLoops, positions, result>> /\ pc' = "dummies" /\ edges' = edges
      /\ rank' \in [Normal -> 0 .. Len(externalIds) - 1]
      /\ IsEarliest(Len(externalIds), edges, rank')
  BY <1>4 DEF AssignRanks, Kept
<1>6. rank' \in [Normal -> Nat] /\ Descends(edges', rank')
  BY <1>5 DEF IsEarliest
<1>7. edges' \in Seq(Edge)
  BY <1>5 DEF IInv, GraphInv
<1>. QED
  BY <1>1, <1>2, <1>5, <1>6, <1>7, OnwardStep

\* The edges of an all-node graph.
EdgesWithin(all) == {e \in Edge : e.from \in NodeIds(all) /\ e.to \in NodeIds(all)}

\* What the edges and the ranks are like when the dummies are inserted.
LEMMA RanksDescendAlong ==
    ASSUME IInv, pc = "dummies"
    PROVE  /\ DescendingEdges(Len(externalIds), edges, rank) /\ EdgesRanked
           /\ NodeCount \in Nat /\ Len(externalIds) <= NodeCount
           /\ \A i \in DOMAIN edges : \E m \in Nat :
                 /\ LeadsOver(ChainOf(i).chain, edges[i].from, edges[i].to,
                              Len(externalIds) + DummiesBefore(edges, rank, i), m)
                 /\ ChainOf(i).chain \in Seq(NodeIds(NodeCount))
           /\ \A v \in NodeIds(NodeCount) \ Normal :
                 \E i \in DOMAIN edges : v \in Range(ChainOf(i).chain)
<1>. DEFINE n == Len(externalIds)
<1>1. PICK R : Broken(R) /\ edges = TurnedGiven(R)
  BY DEF IInv, StageInv
<1>2. IsTurned(R) /\ DOMAIN edges = DOMAIN Given /\ n \in Nat /\ Normal = NodeIds(n)
  BY <1>1, TurnedAgree, IdsAgree DEF IInv, StageInv, IsTurned, Normal
<1>3. rank \in [Normal -> Nat] /\ Descends(edges, rank)
  BY DEF IInv, StageInv
<1>4. \A i \in DOMAIN edges : /\ InBounds(n, edges[i]) /\ ~IsSelfLoop(edges[i])
                              /\ edges[i].from \in Normal /\ edges[i].to \in Normal
  BY <1>1, <1>2 DEF IsTurned
<1>5. edges \in Seq(Edge)
  BY DEF IInv, GraphInv
<1>6. DescendingEdges(n, edges, rank)
  BY <1>2, <1>3, <1>4, <1>5 DEF DescendingEdges
<1>7. EdgesRanked
  BY <1>3, <1>4 DEF EdgesRanked, Range
<1>8. \A i \in DOMAIN edges : ChainOf(i).chain = PathOf(n, edges, rank, i)
  BY DEF ChainOf
<1>9. NodeCount = n + DummiesBefore(edges, rank, Len(edges) + 1)
  BY DEF NodeCount
<1>10. \A i \in DOMAIN edges : DummiesOn(rank, edges[i]) \in Nat
  BY <1>6, DummiesNumbered
<1>. HIDE DEF n
<1>11. /\ NodeCount \in Nat /\ n <= NodeCount
       /\ \A i \in DOMAIN edges :
             /\ LeadsOver(PathOf(n, edges, rank, i), edges[i].from, edges[i].to,
                          n + DummiesBefore(edges, rank, i), DummiesOn(rank, edges[i]))
             /\ PathOf(n, edges, rank, i) \in Seq(NodeIds(NodeCount))
       /\ \A v \in NodeIds(NodeCount) \ NodeIds(n) :
             \E i \in DOMAIN edges : v \in Range(PathOf(n, edges, rank, i))
  BY <1>6, <1>9, PathsAreLaid
<1>. QED
  BY <1>2, <1>6, <1>7, <1>8, <1>10, <1>11 DEF n

\* The segments join the nodes there are then.
LEMMA SegmentsTyped ==
    ASSUME IInv, pc = "dummies", NEW i \in DOMAIN edges
    PROVE  SegmentsOf(i) \in Seq(EdgesWithin(NodeCount))
<1>. DEFINE path == ChainOf(i).chain
            all == NodeCount
            W == EdgesWithin(all)
            c == Len(path)
<1>1. PICK m \in Nat : /\ path \in Seq(NodeIds(all)) /\ c = m + 2
                       /\ path[1] = edges[i].from /\ path[m + 2] = edges[i].to
  BY RanksDescendAlong DEF LeadsOver
<1>2. NodeCount \in Nat /\ \A k \in 1 .. m + 2 : path[k] \in NodeIds(all)
  BY <1>1, RanksDescendAlong
<1>3. edges[i] \in Edge
  <2>. DEFINE E == Edge
  <2>1. edges \in Seq(E)
    BY DEF IInv, GraphInv
  <2>. HIDE DEF E
  <2>2. edges[i] \in E
    BY <2>1
  <2>. QED
    BY <2>2 DEF E
<1>4. edges[i] \in W
  <2>1. 1 \in 1 .. m + 2 /\ m + 2 \in 1 .. m + 2
    BY <1>1
  <2>2. edges[i].from \in NodeIds(all) /\ edges[i].to \in NodeIds(all)
    BY <1>1, <1>2, <2>1
  <2>. QED
    BY <1>3, <2>2 DEF EdgesWithin
<1>5. ASSUME NEW k \in 1 .. c - 1
      PROVE  [from |-> path[k], to |-> path[k + 1], reversed |-> FALSE] \in W
  <2>1. k \in 1 .. m + 2 /\ k + 1 \in 1 .. m + 2
    BY <1>1
  <2>. HIDE DEF path, all
  <2>2. path[k] \in NodeIds(all) /\ path[k + 1] \in NodeIds(all)
    BY <1>2, <2>1
  <2>3. NodeIds(all) \subseteq Nat
    BY <1>2 DEF NodeIds
  <2>. QED
    BY <2>2, <2>3 DEF EdgesWithin, Edge
<1>6. SegmentsOf(i) = IF c = 2 THEN <<edges[i]>>
                      ELSE [k \in 1 .. c - 1 |-> [from |-> path[k], to |-> path[k + 1], reversed |-> FALSE]]
  BY DEF SegmentsOf
<1>7. c - 1 \in Nat
  BY <1>1
<1>. DEFINE seg(k) == [from |-> path[k], to |-> path[k + 1], reversed |-> FALSE]
<1>8. \A k \in 1 .. c - 1 : seg(k) \in W
  BY <1>5
<1>. HIDE DEF seg, W, c, path, all
<1>9. [k \in 1 .. c - 1 |-> seg(k)] \in Seq(W)
  BY <1>7, <1>8
<1>10. <<edges[i]>> \in Seq(W)
  BY <1>4
<1>11. SegmentsOf(i) \in Seq(W)
  BY <1>6, <1>9, <1>10 DEF seg
<1>. QED
  BY <1>11 DEF W, all

LEMMA RanksOfAll ==
    ASSUME IInv, pc = "dummies"
    PROVE  [v \in NodeIds(NodeCount) |-> RankOf(v)] \in [NodeIds(NodeCount) -> Nat]
<1>1. ASSUME NEW v \in NodeIds(NodeCount)
      PROVE  RankOf(v) \in Nat
  <2>1. CASE v \in Normal
    <3>1. rank \in [Normal -> Nat]
      BY DEF IInv, StageInv
    <3>. QED
      BY <2>1, <3>1 DEF RankOf
  <2>2. CASE v \notin Normal
    <3>. DEFINE i == CHOOSE j \in DOMAIN edges : v \in Range(ChainOf(j).chain)
                path == ChainOf(i).chain
                k == CHOOSE l \in DOMAIN path : path[l] = v
    <3>1. i \in DOMAIN edges /\ v \in Range(path)
      BY <2>2, RanksDescendAlong
    <3>2. k \in DOMAIN path
      BY <3>1 DEF Range
    <3>3. path \in Seq(NodeIds(NodeCount))
      BY <3>1, RanksDescendAlong
    <3>4. rank[edges[i].from] \in Nat
      BY <3>1, RanksDescendAlong, DummiesNumbered DEF DescendingEdges
    <3>5. RankOf(v) = rank[edges[i].from] + k - 1
      BY <2>2 DEF RankOf
    <3>. HIDE DEF path, i
    <3>6. DOMAIN path = 1 .. Len(path) /\ Len(path) \in Nat
      BY <3>3
    <3>7. k \in Nat /\ k >= 1
      BY <3>2, <3>6
    <3>. HIDE DEF k
    <3>. QED
      BY <3>4, <3>5, <3>7
  <2>. QED
    BY <2>1, <2>2
<1>. QED
  BY <1>1

LEMMA InsertDummyNodesStep ==
    ASSUME IInv, InsertDummyNodes
    PROVE  IInv'
<1>. DEFINE n == Len(externalIds)
            all == NodeCount
<1>0. pc = "dummies" /\ AllKnown /\ selfLoops = Around
  BY DEF IInv, StageInv, InsertDummyNodes
<1>1. PICK R : Broken(R) /\ edges = TurnedGiven(R)
  BY <1>0 DEF IInv, StageInv
<1>2. IsTurned(R) /\ DOMAIN edges = DOMAIN Given /\ n \in Nat /\ IsExtracted
  BY <1>0, <1>1, TurnedAgree, ExtractedAgree, IdsAgree DEF IInv, IsTurned
<1>3. EdgesRanked /\ all \in Nat /\ n <= all
  BY <1>0, RanksDescendAlong
<1>4. /\ Kept /\ UNCHANGED <<selfLoops, positions, result>> /\ pc' = "loops"
      /\ chains' = [i \in DOMAIN edges |-> ChainOf(i)]
      /\ edges' = FlattenSeq([i \in DOMAIN edges |-> SegmentsOf(i)])
      /\ rank' = [v \in NodeIds(all) |-> RankOf(v)]
  BY <1>3 DEF InsertDummyNodes, Kept
<1>5. rank' \in [NodeIds(all) -> Nat] /\ DOMAIN rank' = NodeIds(all)
  BY <1>0, <1>4, RanksOfAll
<1>6. edges' \in Seq(EdgesWithin(all))
  <2>. DEFINE W == EdgesWithin(all)
              T == Seq(W)
              f == [i \in DOMAIN edges |-> SegmentsOf(i)]
  <2>1. DOMAIN edges = 1 .. Len(edges) /\ Len(edges) \in Nat
    BY DEF IInv, GraphInv
  <2>2. \A i \in DOMAIN edges : SegmentsOf(i) \in T
    BY <1>0, SegmentsTyped
  <2>. HIDE DEF T, W, all
  <2>3. f \in Seq(T)
    BY <2>1, <2>2
  <2>4. FlattenSeq(f) \in Seq(W)
    BY <2>3, FlattenTyped DEF T
  <2>. QED
    BY <1>4, <2>4 DEF W
<1>7. edges' \in Seq(Edge)
  <2>. DEFINE W == EdgesWithin(all)
              E == Edge
  <2>1. W \subseteq E /\ edges' \in Seq(W)
    BY <1>6 DEF EdgesWithin
  <2>. HIDE DEF W, E
  <2>2. edges' \in Seq(E)
    BY <2>1
  <2>. QED
    BY <2>2 DEF E
<1>8. RankedGraph'
  <2>1. EdgesWithin(all) = {e \in Edge : e.from \in DOMAIN rank' /\ e.to \in DOMAIN rank'}
    BY <1>5 DEF EdgesWithin
  <2>2. Len(externalIds') <= all
    BY <1>3, <1>4 DEF Kept
  <2>. HIDE DEF all
  <2>. QED
    BY <1>3, <1>5, <1>6, <2>1, <2>2 DEF RankedGraph
<1>9. ChainsOf(R, 0)'
  <2>1. DOMAIN Given = 1 .. Len(Given) /\ Len(Given) \in Nat
    BY <1>2 DEF IsExtracted
  <2>2. Len(chains') = Len(Given) + 0 /\ Lists(chains', Len(chains'))
    BY <1>2, <1>4, <2>1 DEF Lists
  <2>3. ASSUME NEW i \in DOMAIN Given
        PROVE  /\ chains'[i].source = Given[i].from /\ chains'[i].target = Given[i].to
               /\ chains'[i].reversed = (i \in R) /\ chains'[i].isSelfLoop = FALSE
               /\ Range(chains'[i].chain) \subseteq DOMAIN rank'
    <3>1. chains'[i] = ChainOf(i)
      BY <1>2, <1>4
    <3>2. /\ edges[i].reversed = (i \in R)
          /\ i \in R => edges[i].from = Given[i].to /\ edges[i].to = Given[i].from
          /\ i \notin R => edges[i] = Given[i]
      BY <1>1, <1>2 DEF IsTurned
    <3>3. chains'[i].source = Given[i].from /\ chains'[i].target = Given[i].to
      <4>1. CASE i \in R
        <5>1. edges[i].reversed = TRUE
          BY <3>2, <4>1
        <5>. QED
          BY <3>1, <3>2, <4>1, <5>1 DEF ChainOf
      <4>2. CASE i \notin R
        <5>1. (i \in R) = FALSE
          BY <4>2
        <5>2. edges[i].reversed = FALSE
          BY <3>2, <5>1
        <5>. QED
          BY <3>1, <3>2, <4>2, <5>2 DEF ChainOf
      <4>. QED
        BY <4>1, <4>2
    <3>4. chains'[i].reversed = (i \in R) /\ chains'[i].isSelfLoop = FALSE
      BY <3>1, <3>2 DEF ChainOf
    <3>5. ChainOf(i).chain \in Seq(NodeIds(all))
      BY <1>0, <1>2, RanksDescendAlong
    <3>6. Range(ChainOf(i).chain) \subseteq NodeIds(all)
      <4>. DEFINE V == NodeIds(all)
                  path == ChainOf(i).chain
      <4>1. path \in Seq(V)
        BY <3>5
      <4>. HIDE DEF V, path
      <4>2. \A k \in DOMAIN path : path[k] \in V
        BY <4>1
      <4>3. Range(path) \subseteq V
        BY <4>2 DEF Range
      <4>. QED
        BY <4>3 DEF V, path
    <3>. QED
      BY <1>5, <3>1, <3>3, <3>4, <3>6
  <2>4. Given' = Given
    BY <1>4, KeptGraph
  <2>5. \A k \in 1 .. 0 : FALSE
    OBVIOUS
  <2>6. \A i \in DOMAIN Given :
          /\ chains'[i].source = Given[i].from /\ chains'[i].target = Given[i].to
          /\ chains'[i].reversed = (i \in R) /\ chains'[i].isSelfLoop = FALSE
          /\ Range(chains'[i].chain) \subseteq DOMAIN rank'
    BY <2>3
  <2>. QED
    BY <2>2, <2>4, <2>5, <2>6, Zenon DEF ChainsOf
<1>. QED
  BY <1>0, <1>1, <1>4, <1>7, <1>8, <1>9, OnwardStep

\* What lists members of S is a sequence of them.
LEMMA ListedIsSequence ==
    ASSUME NEW S, NEW n \in Nat, NEW s, Lists(s, n), \A k \in 1 .. n : s[k] \in S
    PROVE  s \in Seq(S) /\ Len(s) = n
<1>. DEFINE t == [k \in 1 .. n |-> s[k]]
<1>1. t \in Seq(S) /\ Len(t) = n
  OBVIOUS
<1>2. s = t
  BY DEF Lists
<1>. HIDE DEF t
<1>. QED
  BY <1>1, <1>2

\* u is one list after another.
Joined(u, s, t) ==
    /\ Lists(u, Len(s) + Len(t)) /\ Len(u) = Len(s) + Len(t)
    /\ \A k \in 1 .. Len(s) : u[k] = s[k]
    /\ \A k \in 1 .. Len(t) : u[Len(s) + k] = t[k]

LEMMA ListsJoined ==
    ASSUME NEW S, NEW s \in Seq(S), NEW t \in Seq(S)
    PROVE  Joined(s \o t, s, t)
<1>1. s \o t \in Seq(S) /\ Len(s \o t) = Len(s) + Len(t)
  OBVIOUS
<1>2. Lists(s \o t, Len(s) + Len(t))
  <2>. DEFINE u == s \o t
              m == Len(s) + Len(t)
  <2>1. u \in Seq(S) /\ Len(u) = m
    BY <1>1
  <2>. HIDE DEF u, m
  <2>2. Lists(u, m)
    BY <2>1 DEF Lists
  <2>. QED
    BY <2>2 DEF u, m
<1>3. /\ \A k \in 1 .. Len(s) : (s \o t)[k] = s[k]
      /\ \A k \in 1 .. Len(t) : (s \o t)[Len(s) + k] = t[k]
  OBVIOUS
<1>. QED
  BY <1>1, <1>2, <1>3 DEF Joined

LEMMA AddLoopChainsStep ==
    ASSUME IInv, AddLoopChains
    PROVE  IInv'
<1>. DEFINE g == Len(Given)
            a == Len(Around)
            LoopChain(k) == [source |-> Around[k].from, target |-> Around[k].to, reversed |-> FALSE,
                             isSelfLoop |-> TRUE, chain |-> <<Around[k].from>>]
            more == [k \in 1 .. a |-> LoopChain(k)]
<1>0. pc = "loops" /\ AllKnown /\ selfLoops = Around /\ RankedGraph
  BY DEF IInv, StageInv, AddLoopChains
<1>1. PICK R : Broken(R) /\ ChainsOf(R, 0)
  BY <1>0 DEF IInv, StageInv
<1>2. /\ IsExtracted /\ g \in Nat /\ a \in Nat /\ DOMAIN Given = 1 .. g /\ DOMAIN Around = 1 .. a
  BY <1>0, ExtractedAgree DEF IInv, IsExtracted
<1>3. /\ Kept /\ UNCHANGED <<selfLoops, positions, result>> /\ pc' = "order"
      /\ edges' = edges /\ rank' = rank
      /\ chains' = chains \o more
  <2>1. chains' = chains \o [k \in DOMAIN selfLoops |->
                               [source |-> selfLoops[k].from, target |-> selfLoops[k].to,
                                reversed |-> FALSE, isSelfLoop |-> TRUE,
                                chain |-> <<selfLoops[k].from>>]]
    BY DEF AddLoopChains
  <2>2. chains' = chains \o more
    BY <1>0, <1>2, <2>1
  <2>. QED
    BY <2>2 DEF AddLoopChains, Kept, graph
<1>4. RankedGraph'
  BY <1>0, <1>3 DEF RankedGraph, Kept
<1>5. edges' \in Seq(Edge)
  BY <1>3 DEF IInv, GraphInv
<1>6. Len(chains) = g /\ Lists(chains, g)
  BY <1>1, <1>2 DEF ChainsOf
<1>7. /\ Len(chains') = g + a /\ Lists(chains', g + a)
      /\ \A i \in 1 .. g : chains'[i] = chains[i]
      /\ \A k \in 1 .. a : chains'[g + k] = more[k]
  <2>. DEFINE all == {chains[k] : k \in 1 .. g} \union {more[k] : k \in 1 .. a}
  <2>1. Lists(chains, g) /\ \A k \in 1 .. g : chains[k] \in all
    BY <1>6
  <2>2. Lists(more, a) /\ \A k \in 1 .. a : more[k] \in all
    BY DEF Lists
  <2>. HIDE DEF more, all, g, a
  <2>3. chains \in Seq(all) /\ more \in Seq(all) /\ Len(more) = a /\ Len(chains) = g
    BY <1>2, <2>1, <2>2, ListedIsSequence
  <2>4. chains' = chains \o more
    BY <1>3
  <2>5. Joined(chains', chains, more)
    BY <2>3, <2>4, ListsJoined
  <2>. QED
    BY <2>3, <2>5, Zenon DEF Joined
<1>8. ChainsOf(R, Len(Around))'
  <2>1. Given' = Given /\ Around' = Around
    BY <1>3, KeptGraph
  <2>2. \A i \in DOMAIN Given :
          /\ chains[i].source = Given[i].from /\ chains[i].target = Given[i].to
          /\ chains[i].reversed = (i \in R) /\ chains[i].isSelfLoop = FALSE
          /\ Range(chains[i].chain) \subseteq DOMAIN rank
    BY <1>1 DEF ChainsOf
  <2>3. \A i \in DOMAIN Given :
          /\ chains'[i].source = Given[i].from /\ chains'[i].target = Given[i].to
          /\ chains'[i].reversed = (i \in R) /\ chains'[i].isSelfLoop = FALSE
          /\ Range(chains'[i].chain) \subseteq DOMAIN rank'
    BY <1>2, <1>3, <1>7, <2>2, Zenon
  <2>4. \A k \in 1 .. a : chains'[g + k] = LoopChain(k)
    BY <1>7
  <2>. HIDE DEF LoopChain
  <2>5. \A k \in 1 .. a :
          chains'[g + k] = [source |-> Around[k].from, target |-> Around[k].to, reversed |-> FALSE,
                            isSelfLoop |-> TRUE, chain |-> <<Around[k].from>>]
    BY <2>4 DEF LoopChain
  <2>6. Len(chains') = Len(Given) + Len(Around) /\ Lists(chains', Len(chains'))
    BY <1>7
  <2>. QED
    BY <2>1, <2>3, <2>5, <2>6, Zenon DEF ChainsOf
<1>. QED
  BY <1>0, <1>1, <1>3, <1>4, <1>5, <1>8, OnwardStep

\* What the ordering, the coordinates and the routing are given.
LEMMA LaidOutStage ==
    ASSUME IInv, pc \in {"order", "coordinates", "route", "report"}
    PROVE  /\ AllKnown /\ selfLoops = Around /\ RankedGraph /\ EdgesRanked
           /\ \E R : Broken(R) /\ ChainsOf(R, Len(Around))
<1>1. /\ AllKnown /\ selfLoops = Around /\ RankedGraph
      /\ \E R : Broken(R) /\ ChainsOf(R, Len(Around))
  BY DEF IInv, StageInv
<1>2. EdgesRanked
  <2>. DEFINE T == {e \in Edge : e.from \in DOMAIN rank /\ e.to \in DOMAIN rank}
  <2>1. edges \in Seq(T)
    BY <1>1 DEF RankedGraph
  <2>. HIDE DEF T
  <2>2. \A i \in DOMAIN edges : edges[i] \in T
    BY <2>1
  <2>3. \A e \in Range(edges) : e \in T
    BY <2>2 DEF Range
  <2>. QED
    BY <2>3 DEF EdgesRanked, T
<1>. QED
  BY <1>1, <1>2

\* A phase that only moves nodes about leaves graph and chains as they are.
LEMMA ProceedStep ==
    ASSUME IInv, pc \in {"order", "coordinates"}, Proceed(pc'), pc' \in {"coordinates", "route"}
    PROVE  IInv'
<1>1. /\ Kept /\ UNCHANGED <<selfLoops, positions, result>>
      /\ edges' = edges /\ rank' = rank /\ chains' = chains
  BY DEF Proceed, Kept, graph
<1>2. AllKnown /\ selfLoops = Around /\ RankedGraph /\ \E R : Broken(R) /\ ChainsOf(R, Len(Around))
  BY LaidOutStage
<1>3. RankedGraph' /\ edges' \in Seq(Edge)
  BY <1>1, <1>2 DEF IInv, GraphInv, RankedGraph, Kept
<1>4. \A R : ChainsOf(R, Len(Around)) => ChainsOf(R, Len(Around))'
  BY <1>1, KeptGraph DEF ChainsOf
<1>5. \E R : Broken(R) /\ ChainsOf(R, Len(Around))'
  BY <1>2, <1>4
<1>. QED
  BY <1>1, <1>2, <1>3, <1>5, OnwardStep

LEMMA OrderLayersStep ==
    ASSUME IInv, OrderLayers
    PROVE  IInv'
<1>1. pc = "order"
  BY DEF OrderLayers
<1>2. Proceed("coordinates")
  BY <1>1, LaidOutStage DEF OrderLayers
<1>3. pc' = "coordinates"
  BY <1>2 DEF Proceed
<1>. QED
  BY <1>1, <1>2, <1>3, ProceedStep

LEMMA AssignCoordinatesStep ==
    ASSUME IInv, AssignCoordinates
    PROVE  IInv'
<1>1. pc = "coordinates"
  BY DEF AssignCoordinates
<1>2. Proceed("route")
  BY <1>1, LaidOutStage DEF AssignCoordinates
<1>3. pc' = "route"
  BY <1>2 DEF Proceed
<1>. QED
  BY <1>1, <1>2, <1>3, ProceedStep

\* The route of the k-th chain, as the phases number the nodes.
RouteOfEdge(R, k) ==
    LET e == IF k \in DOMAIN Given THEN Given[k] ELSE Around[k - Len(Given)] IN
    [source |-> e.from, target |-> e.to, reversed |-> k \in R, isSelfLoop |-> k \notin DOMAIN Given]

\* A chain's ends are the caller's nodes, its own nodes are the graph's.
LEMMA ChainsAgree ==
    ASSUME IInv, AllKnown, RankedGraph, NEW R, Broken(R), ChainsOf(R, Len(Around))
    PROVE  /\ DOMAIN chains = 1 .. Len(Given) + Len(Around)
           /\ Len(Given) \in Nat /\ Len(Around) \in Nat
           /\ \A k \in DOMAIN chains :
                 /\ chains[k].source \in Normal /\ chains[k].target \in Normal
                 /\ Range(chains[k].chain) \subseteq DOMAIN rank
                 /\ RouteOf(chains[k]) = RouteOfEdge(R, k)
<1>. DEFINE g == Len(Given)
            a == Len(Around)
<1>1. /\ IsExtracted /\ g \in Nat /\ a \in Nat /\ DOMAIN Given = 1 .. g /\ DOMAIN Around = 1 .. a
  BY ExtractedAgree DEF IInv, IsExtracted
<1>2. DOMAIN chains = 1 .. g + a
  BY <1>1 DEF ChainsOf, Lists
<1>3. Normal \subseteq DOMAIN rank
  <2>1. Len(externalIds) \in Nat
    BY IdsAgree DEF IInv
  <2>. QED
    BY <2>1 DEF RankedGraph, Normal, NodeIds
<1>4. R \subseteq DOMAIN Given
  BY DEF Broken
<1>5. /\ \A i \in 1 .. g : Given[i] \in Numbered /\ ~IsSelfLoop(Given[i])
      /\ \A i \in 1 .. a : Around[i] \in Numbered /\ IsSelfLoop(Around[i])
  <2>. DEFINE S == Numbered
  <2>1. Given \in Seq(S) /\ Around \in Seq(S)
    BY <1>1 DEF IsExtracted
  <2>. HIDE DEF S
  <2>2. (\A i \in 1 .. g : Given[i] \in S) /\ (\A i \in 1 .. a : Around[i] \in S)
    BY <2>1
  <2>. QED
    BY <1>1, <2>2 DEF S, IsExtracted
<1>. DEFINE Agrees(k) ==
              /\ chains[k].source \in Normal /\ chains[k].target \in Normal
              /\ Range(chains[k].chain) \subseteq DOMAIN rank
              /\ RouteOf(chains[k]) = RouteOfEdge(R, k)
<1>6. ASSUME NEW k \in 1 .. g
      PROVE  Agrees(k)
  <2>1. /\ chains[k].source = Given[k].from /\ chains[k].target = Given[k].to
        /\ chains[k].reversed = (k \in R) /\ chains[k].isSelfLoop = FALSE
        /\ Range(chains[k].chain) \subseteq DOMAIN rank
    BY <1>1 DEF ChainsOf
  <2>2. Given[k].from \in Normal /\ Given[k].to \in Normal /\ Given[k].from # Given[k].to
    BY <1>5 DEF Numbered, IsSelfLoop
  <2>3. (chains[k].isSelfLoop \/ chains[k].source = chains[k].target) = FALSE
    BY <2>1, <2>2
  <2>4. RouteOf(chains[k]) = [source |-> Given[k].from, target |-> Given[k].to,
                              reversed |-> k \in R, isSelfLoop |-> FALSE]
    BY <2>1, <2>3, Zenon DEF RouteOf
  <2>5. k \in DOMAIN Given /\ (k \notin DOMAIN Given) = FALSE
    BY <1>1
  <2>6. RouteOfEdge(R, k) = [source |-> Given[k].from, target |-> Given[k].to,
                             reversed |-> k \in R, isSelfLoop |-> FALSE]
    BY <2>5, Zenon DEF RouteOfEdge
  <2>. QED
    BY <2>1, <2>2, <2>4, <2>6
<1>7. ASSUME NEW k \in 1 .. a
      PROVE  Agrees(g + k)
  <2>. DEFINE e == Around[k]
              c == chains[g + k]
  <2>1. c = [source |-> e.from, target |-> e.to, reversed |-> FALSE,
             isSelfLoop |-> TRUE, chain |-> <<e.from>>]
    BY DEF ChainsOf
  <2>2. e.from \in Normal /\ e.to \in Normal
    BY <1>5 DEF Numbered
  <2>3. g + k \notin DOMAIN Given /\ (g + k) - g = k
    BY <1>1
  <2>4. ((g + k) \in R) = FALSE /\ (g + k \notin DOMAIN Given) = TRUE
    BY <1>4, <2>3
  <2>5. RouteOfEdge(R, g + k) = [source |-> e.from, target |-> e.to, reversed |-> FALSE, isSelfLoop |-> TRUE]
    BY <2>3, <2>4, Zenon DEF RouteOfEdge
  <2>. HIDE DEF e, c
  <2>6. c.source = e.from /\ c.target = e.to /\ c.reversed = FALSE /\ c.isSelfLoop = TRUE /\ c.chain = <<e.from>>
    BY <2>1
  <2>7. (c.isSelfLoop \/ c.source = c.target) = TRUE
    BY <2>6
  <2>8. RouteOf(c) = [source |-> e.from, target |-> e.to, reversed |-> FALSE, isSelfLoop |-> TRUE]
    BY <2>6, <2>7, Zenon DEF RouteOf
  <2>9. Range(c.chain) \subseteq DOMAIN rank
    <3>1. Range(<<e.from>>) = {e.from}
      BY DEF Range
    <3>. QED
      BY <1>3, <2>2, <2>6, <3>1
  <2>. QED
    BY <2>2, <2>5, <2>6, <2>8, <2>9 DEF c
<1>. HIDE DEF Agrees
<1>8. \A k \in 1 .. g + a : Agrees(k)
  <2>1. ASSUME NEW k \in 1 .. g + a
        PROVE  Agrees(k)
    <3>1. CASE k \in 1 .. g
      BY <1>6, <3>1
    <3>2. CASE k \notin 1 .. g
      <4>1. k - g \in 1 .. a /\ g + (k - g) = k
        BY <1>1, <3>2
      <4>. QED
        BY <1>7, <4>1
    <3>. QED
      BY <3>1, <3>2
  <2>. QED
    BY <2>1
<1>. QED
  BY <1>1, <1>2, <1>8 DEF Agrees

LEMMA RouteEdgesStep ==
    ASSUME IInv, RouteEdges
    PROVE  IInv'
<1>1. pc = "route"
  BY DEF RouteEdges
<1>2. AllKnown /\ selfLoops = Around /\ RankedGraph
  BY <1>1, LaidOutStage
<1>3. PICK R : Broken(R) /\ ChainsOf(R, Len(Around))
  BY <1>1, LaidOutStage
<1>4. \A c \in Range(chains) : Range(c.chain) \subseteq DOMAIN rank
  <2>1. \A k \in DOMAIN chains : Range(chains[k].chain) \subseteq DOMAIN rank
    BY <1>2, <1>3, ChainsAgree
  <2>. QED
    BY <2>1 DEF Range
<1>5. /\ Kept /\ UNCHANGED <<selfLoops, positions, result>> /\ pc' = "report"
      /\ edges' = edges /\ rank' = rank /\ chains' = chains
      /\ routes' = [k \in DOMAIN chains |-> RouteOf(chains[k])]
  BY <1>4 DEF RouteEdges, Kept, graph
<1>6. RankedGraph' /\ edges' \in Seq(Edge)
  BY <1>2, <1>5 DEF IInv, GraphInv, RankedGraph, Kept
<1>7. ChainsOf(R, Len(Around))'
  BY <1>3, <1>5, KeptGraph DEF ChainsOf
<1>8. routes' = [k \in DOMAIN chains' |-> RouteOf(chains'[k])]
  BY <1>5
<1>. QED
  BY <1>1, <1>2, <1>3, <1>5, <1>6, <1>7, <1>8, OnwardStep

LEMMA ReportStep ==
    ASSUME IInv, Report
    PROVE  IInv'
<1>. DEFINE n == Len(externalIds)
            all == Len(Given) + Len(Around)
<1>1. pc = "report" /\ routes = [k \in DOMAIN chains |-> RouteOf(chains[k])]
  BY DEF IInv, StageInv, Report
<1>2. AllKnown /\ selfLoops = Around /\ RankedGraph
  BY <1>1, LaidOutStage
<1>3. PICK R : Broken(R) /\ ChainsOf(R, Len(Around))
  BY <1>1, LaidOutStage
<1>4. /\ DOMAIN chains = 1 .. all
      /\ \A k \in 1 .. all : /\ chains[k].source \in Normal /\ chains[k].target \in Normal
                             /\ RouteOf(chains[k]) = RouteOfEdge(R, k)
  BY <1>2, <1>3, ChainsAgree
<1>5. /\ DOMAIN routes = 1 .. all
      /\ \A k \in 1 .. all : /\ routes[k] = RouteOfEdge(R, k)
                             /\ routes[k].source \in Normal /\ routes[k].target \in Normal
  <2>1. \A k \in 1 .. all : routes[k] = RouteOf(chains[k])
    BY <1>1, <1>4
  <2>2. \A c : RouteOf(c).source = c.source /\ RouteOf(c).target = c.target
    BY DEF RouteOf
  <2>. QED
    BY <1>1, <1>4, <2>1, <2>2
<1>6. ~ \E r \in Range(routes) : ~({r.source, r.target} \subseteq Normal)
  BY <1>5 DEF Range
<1>7. /\ Kept /\ result' = "Ok" /\ pc' = "returned"
      /\ edges' = edges /\ selfLoops' = selfLoops
      /\ positions' = [k \in DOMAIN InIdOrder(Reported) |-> ExternalId(InIdOrder(Reported)[k])]
      /\ routes' = [k \in DOMAIN routes |->
                      [from |-> ExternalId(routes[k].source), to |-> ExternalId(routes[k].target),
                       reversed |-> routes[k].reversed, isSelfLoop |-> routes[k].isSelfLoop]]
  BY <1>6 DEF Report, Kept, graph
<1>8. positions' = nodes'
  <2>1. n \in Nat /\ externalIds \in Seq(Nat) /\ nodes \in Seq(Nat) /\ Len(nodes) = n
    BY <1>2, IdsAgree DEF IInv, IdsInv, ArgumentsInv, AllKnown
  <2>2. Reported = NodeIds(n)
    BY <1>2, <2>1 DEF Reported, RankedGraph, Normal, NodeIds
  <2>3. InIdOrder(Reported) = [k \in 1 .. n |-> k - 1]
    BY <2>1, <2>2, NodesInOrder
  <2>4. positions' = [k \in 1 .. n |-> externalIds[(k - 1) + 1]]
    BY <1>7, <2>3 DEF ExternalId
  <2>5. \A k \in 1 .. n : (k - 1) + 1 = k /\ externalIds[k] = nodes[k]
    BY <2>1 DEF IInv, IdsInv
  <2>6. positions' = [k \in 1 .. n |-> nodes[k]]
    BY <2>4, <2>5
  <2>7. nodes = [k \in 1 .. n |-> nodes[k]]
    BY <2>1
  <2>. QED
    BY <1>7, <2>6, <2>7 DEF Kept
<1>9. routes' = [k \in 1 .. all |-> Outcome(R, k)]
  <2>1. ASSUME NEW k \in 1 .. all
        PROVE  [from |-> ExternalId(routes[k].source), to |-> ExternalId(routes[k].target),
                reversed |-> routes[k].reversed, isSelfLoop |-> routes[k].isSelfLoop] = Outcome(R, k)
    <3>. DEFINE e == IF k \in DOMAIN Given THEN Given[k] ELSE Around[k - Len(Given)]
    <3>1. routes[k] = [source |-> e.from, target |-> e.to, reversed |-> k \in R, isSelfLoop |-> k \notin DOMAIN Given]
      BY <1>5 DEF RouteOfEdge
    <3>2. Outcome(R, k) = [from |-> ExternalId(e.from), to |-> ExternalId(e.to), reversed |-> k \in R,
                           isSelfLoop |-> k \notin DOMAIN Given]
      BY DEF Outcome
    <3>. DEFINE turned == k \in R
                loop == k \notin DOMAIN Given
    <3>3. routes[k].source = e.from /\ routes[k].target = e.to
          /\ routes[k].reversed = turned /\ routes[k].isSelfLoop = loop
      <4>1. routes[k] = [source |-> e.from, target |-> e.to, reversed |-> turned, isSelfLoop |-> loop]
        BY <3>1
      <4>. HIDE DEF e, turned, loop
      <4>. QED
        BY <4>1
    <3>. HIDE DEF e
    <3>. QED
      BY <3>2, <3>3, Zenon
  <2>. QED
    BY <1>5, <1>7, <2>1
<1>10. ArgumentsInv' /\ IdsInv'
  BY <1>7, KeptIds DEF IInv
<1>11. GraphInv'
  BY <1>7 DEF IInv, GraphInv
<1>12. AllKnown' /\ selfLoops' = Around'
  BY <1>2, <1>7, KeptGraph
<1>13. StageInv'
  BY <1>7, <1>12 DEF StageInv
<1>14. Broken(R)' /\ routes' = [k \in 1 .. Len(Given') + Len(Around') |-> Outcome(R, k)']
  <2>1. \A k : Outcome(R, k)' = Outcome(R, k)
    BY <1>7, KeptGraph DEF Outcome, ExternalId, Kept
  <2>2. Given' = Given /\ Around' = Around /\ Broken(R)'
    BY <1>3, <1>7, KeptGraph, KeptBroken
  <2>. QED
    BY <1>9, <2>1, <2>2
<1>15. ResultInv'
  BY <1>7, <1>8, <1>14 DEF ResultInv
<1>. QED
  BY <1>10, <1>11, <1>13, <1>15 DEF IInv

\* What no step changes.
LEMMA StutterStep ==
    ASSUME IInv, UNCHANGED vars
    PROVE  IInv'
<1>1. /\ Kept
      /\ UNCHANGED <<at, edges, rank, selfLoops, chains, routes, positions, pc, result>>
  BY DEF vars, graph, Kept
<1>2. ArgumentsInv' /\ IdsInv'
  BY <1>1, KeptIds DEF IInv
<1>3. GraphInv'
  BY <1>1 DEF IInv, GraphInv
<1>4. /\ Normal' = Normal /\ Given' = Given /\ Around' = Around
      /\ AllKnown' <=> AllKnown
      /\ CallerErred' <=> CallerErred
      /\ \A k : Translated(k)' = Translated(k)
      /\ \A k \in DOMAIN wanted : Known(wanted[k])' <=> Known(wanted[k])
      /\ \A R : TurnedGiven(R)' = TurnedGiven(R)
      /\ \A R : Broken(R)' <=> Broken(R)
  BY <1>1, KeptGraph, KeptBroken
<1>5. RankedGraph' <=> RankedGraph
  BY <1>1 DEF RankedGraph, Kept
<1>6. /\ \A R : ChainsOf(R, 0)' <=> ChainsOf(R, 0)
      /\ \A R : ChainsOf(R, Len(Around))' <=> ChainsOf(R, Len(Around))
  BY <1>1, <1>4 DEF ChainsOf
<1>7. StageInv'
  <2>1. at \in 0 .. Len(wanted) /\ Len(wanted) \in Nat => \A k \in 1 .. at : k \in DOMAIN wanted
    BY DEF IInv, ArgumentsInv
  <2>2. Len(wanted) \in Nat
    BY DEF IInv, ArgumentsInv
  <2>3. StageInv
    BY DEF IInv
  <2>. QED
    BY <1>1, <1>4, <1>5, <1>6, <2>1, <2>2, <2>3 DEF StageInv, Kept
<1>8. \A R, k : Outcome(R, k)' = Outcome(R, k)
  BY <1>1, <1>4 DEF Outcome, ExternalId, Kept
<1>9. ResultInv'
  BY <1>1, <1>4, <1>8 DEF IInv, ResultInv, Kept
<1>. QED
  BY <1>2, <1>3, <1>7, <1>9 DEF IInv

THEOREM GraphIsCarriedThrough == Spec => []IInv
<1>1. Init => IInv
  BY InitInv
<1>2. IInv /\ [Next]_vars => IInv'
  <2>. SUFFICES ASSUME IInv, [Next]_vars PROVE IInv'
    OBVIOUS
  <2>1. CASE DuplicateId BY <2>1, DuplicateIdStep
  <2>2. CASE AddNode BY <2>2, AddNodeStep
  <2>3. CASE AllNodesAdded BY <2>3, AllNodesAddedStep
  <2>4. CASE UnknownId BY <2>4, UnknownIdStep
  <2>5. CASE AddEdge BY <2>5, AddEdgeStep
  <2>6. CASE ExtractSelfLoops BY <2>6, ExtractSelfLoopsStep
  <2>7. CASE BreakCycles BY <2>7, BreakCyclesStep
  <2>8. CASE AssignRanks BY <2>8, AssignRanksStep
  <2>9. CASE InsertDummyNodes BY <2>9, InsertDummyNodesStep
  <2>10. CASE AddLoopChains BY <2>10, AddLoopChainsStep
  <2>11. CASE OrderLayers BY <2>11, OrderLayersStep
  <2>12. CASE AssignCoordinates BY <2>12, AssignCoordinatesStep
  <2>13. CASE RouteEdges BY <2>13, RouteEdgesStep
  <2>14. CASE Report BY <2>14, ReportStep
  <2>15. CASE UNCHANGED vars BY <2>15, StutterStep
  <2>. QED
    BY <2>1, <2>2, <2>3, <2>4, <2>5, <2>6, <2>7, <2>8, <2>9, <2>10, <2>11, <2>12, <2>13, <2>14,
       <2>15 DEF Next, Step, Returned
<1>. QED
  BY <1>1, <1>2, PTL DEF Spec

-----------------------------------------------------------------------------
(* What it says of the results.                                             *)

LEMMA TypeFollows ==
    ASSUME IInv
    PROVE  TypeOK
<1>1. Range(idMap) = Normal /\ \A v \in Normal : idMap[ExternalId(v)] = v
  <2>1. /\ \A v \in Normal : ExternalId(v) \in DOMAIN idMap /\ idMap[ExternalId(v)] = v
        /\ \A x \in DOMAIN idMap : idMap[x] \in Normal
    BY IdsAgree DEF IInv
  <2>. QED
    BY <2>1 DEF Range
<1>2. edges \in Seq(Edge) /\ selfLoops \in Seq(Edge)
  BY DEF IInv, GraphInv
<1>3. ASSUME pc \notin {"nodes", "edges", "break", "rank", "returned"}
      PROVE  /\ rank \in [NodeIds(Cardinality(DOMAIN rank)) -> Nat]
             /\ \A i \in DOMAIN edges : InBounds(Cardinality(DOMAIN rank), edges[i])
  <2>1. CASE pc = "dummies"
    <3>. DEFINE n == Len(externalIds)
    <3>1. DescendingEdges(n, edges, rank)
      BY <2>1, RanksDescendAlong
    <3>2. n \in Nat /\ rank \in [NodeIds(n) -> Nat] /\ \A i \in DOMAIN edges : InBounds(n, edges[i])
      BY <3>1 DEF DescendingEdges
    <3>. HIDE DEF n
    <3>3. Cardinality(DOMAIN rank) = n
      BY <3>2, IdsCounted
    <3>. QED
      BY <3>2, <3>3
  <2>2. CASE pc # "dummies"
    <3>1. pc \in {"loops", "order", "coordinates", "route", "report"}
      BY <1>3, <2>2 DEF IInv, ResultInv
    <3>2. RankedGraph
      BY <3>1 DEF IInv, StageInv
    <3>3. PICK c \in Nat : rank \in [NodeIds(c) -> Nat]
      BY <3>2 DEF RankedGraph
    <3>4. Cardinality(DOMAIN rank) = c
      BY <3>3, IdsCounted
    <3>. DEFINE T == {e \in Edge : e.from \in DOMAIN rank /\ e.to \in DOMAIN rank}
    <3>5. edges \in Seq(T)
      BY <3>2 DEF RankedGraph
    <3>. HIDE DEF T
    <3>6. \A i \in DOMAIN edges : edges[i] \in T
      BY <3>5
    <3>7. \A i \in DOMAIN edges : edges[i].from \in NodeIds(c) /\ edges[i].to \in NodeIds(c)
      BY <3>3, <3>6 DEF T
    <3>8. \A i \in DOMAIN edges : InBounds(c, edges[i])
      BY <3>3, <3>7 DEF InBounds, NodeIds
    <3>. QED
      BY <3>3, <3>4, <3>8
  <2>. QED
    BY <2>1, <2>2
<1>4. result \in {"none", "Ok", "InvalidGraph", "Internal"}
  BY DEF IInv, ResultInv
<1>. QED
  BY <1>1, <1>2, <1>3, <1>4 DEF TypeOK

\* Ids and indices are right throughout, for every graph.
THEOREM IdsAndIndicesFit == Spec => []TypeOK
<1>1. IInv => TypeOK
  BY TypeFollows
<1>. QED
  BY <1>1, GraphIsCarriedThrough, PTL

\* No phase fails on what the phases before it left: an error is the caller's.
THEOREM NoPhaseFails == Spec => []GoodGraphsAreLaidOut
<1>1. IInv => GoodGraphsAreLaidOut
  BY DEF IInv, ResultInv, CallerErred, GoodGraphsAreLaidOut
<1>. QED
  BY <1>1, GraphIsCarriedThrough, PTL

\* The caller's id of a node tells the node.
LEMMA ExternalIdsTell ==
    ASSUME ArgumentsInv, IdsInv, NEW v \in Normal, NEW w \in Normal, ExternalId(v) = ExternalId(w)
    PROVE  v = w
BY IdsAgree

\* The given edges and the loops, and what the caller wrote for them.
WrittenAs(list, asked) ==
    /\ DOMAIN list = 1 .. Len(list) /\ Len(list) \in Nat
    /\ Ends(asked) = [k \in 1 .. Len(list) |-> <<ExternalId(list[k].from), ExternalId(list[k].to)>>]
    /\ \A k \in 1 .. Len(list) : list[k].from \in Normal /\ list[k].to \in Normal

LEMMA PickedAsWritten ==
    ASSUME ArgumentsInv, IdsInv, AllKnown, NEW I \in SUBSET DOMAIN wanted
    PROVE  WrittenAs(Picked(Raw, I), Picked(wanted, I))
<1>. DEFINE list == Picked(Raw, I)
            asked == Picked(wanted, I)
            c == Cardinality(I)
<1>1. PickedRaw(I)
  BY PickedAgree
<1>2. c \in Nat /\ DOMAIN list = 1 .. c /\ Len(list) = c /\ DOMAIN asked = 1 .. c
  BY <1>1 DEF PickedRaw
<1>3. ASSUME NEW k \in 1 .. c
      PROVE  /\ list[k].from \in Normal /\ list[k].to \in Normal
             /\ asked[k].from = ExternalId(list[k].from) /\ asked[k].to = ExternalId(list[k].to)
  <2>1. PICK j \in I : list[k] = Translated(j) /\ asked[k] = wanted[j]
    BY <1>1 DEF PickedRaw
  <2>2. j \in DOMAIN wanted /\ Known(wanted[j])
    BY DEF AllKnown
  <2>3. /\ Translated(j) \in Numbered
        /\ ExternalId(Translated(j).from) = wanted[j].from
        /\ ExternalId(Translated(j).to) = wanted[j].to
    BY <2>2, TranslatedAgree
  <2>. QED
    BY <2>1, <2>3 DEF Numbered
<1>. HIDE DEF list, asked, c
<1>4. Ends(asked) = [k \in 1 .. c |-> <<ExternalId(list[k].from), ExternalId(list[k].to)>>]
  BY <1>2, <1>3 DEF Ends
<1>5. WrittenAs(list, asked)
  BY <1>2, <1>3, <1>4 DEF WrittenAs
<1>. QED
  BY <1>5 DEF list, asked

\* The result, when there is one.
Told(R) ==
    /\ Broken(R) /\ AllKnown /\ selfLoops = Around /\ IsExtracted /\ positions = nodes
    /\ WrittenAs(Given, Picked(wanted, DOMAIN wanted \ Loops(wanted)))
    /\ WrittenAs(Around, Picked(wanted, Loops(wanted)))
    /\ routes = [k \in 1 .. Len(Given) + Len(Around) |-> Outcome(R, k)]

LEMMA ResultTold ==
    ASSUME IInv, result = "Ok"
    PROVE  \E R : Told(R)
<1>1. AllKnown /\ selfLoops = Around
  BY DEF IInv, StageInv
<1>2. positions = nodes /\ \E R : Broken(R) /\ routes = [k \in 1 .. Len(Given) + Len(Around) |-> Outcome(R, k)]
  BY DEF IInv, ResultInv
<1>3. IsExtracted
  BY <1>1, ExtractedAgree DEF IInv
<1>4. Loops(wanted) \in SUBSET DOMAIN wanted /\ DOMAIN wanted \ Loops(wanted) \in SUBSET DOMAIN wanted
  BY DEF Loops
<1>5. /\ WrittenAs(Given, Picked(wanted, DOMAIN wanted \ Loops(wanted)))
      /\ WrittenAs(Around, Picked(wanted, Loops(wanted)))
  BY <1>1, <1>4, PickedAsWritten DEF IInv, Given, Around
<1>. QED
  BY <1>1, <1>2, <1>3, <1>5 DEF Told

\* The k-th route is that of the k-th given edge; those after are loops.
LEMMA RoutesTold ==
    ASSUME IInv, NEW R, Told(R)
    PROVE  LET g == Len(Given)
               all == g + Len(Around) IN
           /\ g \in Nat /\ Len(Around) \in Nat /\ DOMAIN routes = 1 .. all
           /\ \A k \in 1 .. g :
                 /\ Given[k].from \in Normal /\ Given[k].to \in Normal
                 /\ routes[k].from = ExternalId(Given[k].from) /\ routes[k].to = ExternalId(Given[k].to)
                 /\ routes[k].from # routes[k].to
                 /\ routes[k].isSelfLoop <=> FALSE
                 /\ routes[k].reversed <=> k \in R
           /\ \A k \in 1 .. all \ 1 .. g :
                 /\ k - g \in 1 .. Len(Around)
                 /\ routes[k].from = ExternalId(Around[k - g].from)
                 /\ routes[k].to = ExternalId(Around[k - g].to)
                 /\ routes[k].from = routes[k].to
                 /\ routes[k].isSelfLoop <=> TRUE
                 /\ routes[k].reversed <=> FALSE
<1>. DEFINE g == Len(Given)
            a == Len(Around)
            all == g + Len(Around)
<1>1. /\ g \in Nat /\ a \in Nat /\ DOMAIN Given = 1 .. g /\ DOMAIN Around = 1 .. a
      /\ DOMAIN routes = 1 .. all /\ R \subseteq 1 .. g
  BY DEF Told, WrittenAs, Broken
<1>2. \A k \in 1 .. all : routes[k] = Outcome(R, k)
  BY DEF Told
<1>3. \A k : LET e == IF k \in DOMAIN Given THEN Given[k] ELSE Around[k - Len(Given)] IN
             /\ Outcome(R, k).from = ExternalId(e.from) /\ Outcome(R, k).to = ExternalId(e.to)
             /\ Outcome(R, k).reversed <=> k \in R
             /\ Outcome(R, k).isSelfLoop <=> k \notin DOMAIN Given
  BY DEF Outcome
<1>4. ASSUME NEW k \in 1 .. g
      PROVE  /\ Given[k].from \in Normal /\ Given[k].to \in Normal
             /\ routes[k].from = ExternalId(Given[k].from) /\ routes[k].to = ExternalId(Given[k].to)
             /\ routes[k].from # routes[k].to
             /\ routes[k].isSelfLoop <=> FALSE
             /\ routes[k].reversed <=> k \in R
  <2>1. k \in 1 .. all /\ k \in DOMAIN Given
    BY <1>1
  <2>2. /\ routes[k].from = ExternalId(Given[k].from) /\ routes[k].to = ExternalId(Given[k].to)
        /\ routes[k].isSelfLoop <=> FALSE
        /\ routes[k].reversed <=> k \in R
    BY <1>2, <1>3, <2>1
  <2>3. Given[k].from \in Normal /\ Given[k].to \in Normal
    BY DEF Told, WrittenAs
  <2>4. Given[k].from # Given[k].to
    BY <2>1 DEF Told, IsExtracted, IsSelfLoop
  <2>5. routes[k].from # routes[k].to
    BY <2>2, <2>3, <2>4, ExternalIdsTell DEF IInv
  <2>. QED
    BY <2>2, <2>3, <2>5
<1>5. ASSUME NEW k \in 1 .. all \ 1 .. g
      PROVE  /\ k - g \in 1 .. a
             /\ routes[k].from = ExternalId(Around[k - g].from)
             /\ routes[k].to = ExternalId(Around[k - g].to)
             /\ routes[k].from = routes[k].to
             /\ routes[k].isSelfLoop <=> TRUE
             /\ routes[k].reversed <=> FALSE
  <2>1. k \in 1 .. all /\ k \notin DOMAIN Given /\ k - g \in 1 .. a /\ k \notin R
    BY <1>1
  <2>2. /\ routes[k].from = ExternalId(Around[k - g].from) /\ routes[k].to = ExternalId(Around[k - g].to)
        /\ routes[k].isSelfLoop <=> TRUE
        /\ routes[k].reversed <=> FALSE
    BY <1>2, <1>3, <2>1
  <2>3. Around[k - g].from = Around[k - g].to
    BY <1>1, <2>1 DEF Told, IsExtracted, IsSelfLoop
  <2>. QED
    BY <2>1, <2>2, <2>3
<1>. HIDE DEF g, a, all
<1>. QED
  BY <1>1, <1>4, <1>5 DEF g, a, all

LEMMA EverythingTold ==
    ASSUME IInv
    PROVE  EverythingComesBack
<1>. SUFFICES ASSUME result = "Ok"
     PROVE  LET proper == Ends(Picked(wanted, DOMAIN wanted \ Loops(wanted)))
                loops == Ends(Picked(wanted, Loops(wanted)))
            IN
            /\ positions = nodes /\ IsInjective(positions)
            /\ Ends(routes) = proper \o loops /\ Ends(ReportedLoops) = loops
            /\ \A k \in DOMAIN routes : routes[k].isSelfLoop <=> routes[k].from = routes[k].to
  BY DEF EverythingComesBack
<1>. DEFINE proper == Ends(Picked(wanted, DOMAIN wanted \ Loops(wanted)))
            loops == Ends(Picked(wanted, Loops(wanted)))
            g == Len(Given)
            a == Len(Around)
<1>1. PICK R : Told(R)
  BY ResultTold
<1>2. positions = nodes /\ selfLoops = Around /\ AllKnown
  BY <1>1 DEF Told
<1>3. IsInjective(positions)
  <2>1. /\ DOMAIN nodes = DOMAIN externalIds
        /\ DOMAIN nodes = 1 .. Len(nodes) /\ Len(nodes) \in Nat
        /\ \A k \in DOMAIN nodes : nodes[k] = externalIds[k] /\ idMap[nodes[k]] = k - 1
    BY <1>2 DEF IInv, IdsInv, ArgumentsInv, AllKnown
  <2>2. \A j, k \in DOMAIN nodes : nodes[j] = nodes[k] => j = k
    <3>1. ASSUME NEW j \in DOMAIN nodes, NEW k \in DOMAIN nodes, nodes[j] = nodes[k]
          PROVE  j = k
      <4>1. j - 1 = k - 1 /\ j \in Int /\ k \in Int
        BY <2>1, <3>1
      <4>. QED
        BY <4>1
    <3>. QED
      BY <3>1
  <2>. QED
    BY <1>2, <2>2 DEF IsInjective
<1>4. /\ g \in Nat /\ a \in Nat
      /\ proper = [k \in 1 .. g |-> <<ExternalId(Given[k].from), ExternalId(Given[k].to)>>]
      /\ loops = [k \in 1 .. a |-> <<ExternalId(Around[k].from), ExternalId(Around[k].to)>>]
      /\ DOMAIN Around = 1 .. a
  BY <1>1 DEF Told, WrittenAs
<1>5. Ends(ReportedLoops) = loops
  BY <1>2, <1>4 DEF Ends, ReportedLoops
<1>6. \A k \in DOMAIN routes : routes[k].isSelfLoop <=> routes[k].from = routes[k].to
  <2>1. /\ DOMAIN routes = 1 .. g + a
        /\ \A k \in 1 .. g : routes[k].from # routes[k].to /\ (routes[k].isSelfLoop <=> FALSE)
        /\ \A k \in 1 .. g + a \ 1 .. g :
              routes[k].from = routes[k].to /\ (routes[k].isSelfLoop <=> TRUE)
    BY <1>1, RoutesTold
  <2>. QED
    BY <2>1
<1>7. Ends(routes) = proper \o loops
  <2>. DEFINE end(k) == <<routes[k].from, routes[k].to>>
              all == {end(k) : k \in 1 .. g + a}
  <2>0. g \in Nat /\ a \in Nat
    BY <1>4
  <2>1. /\ DOMAIN routes = 1 .. g + a
        /\ \A k \in 1 .. g : /\ routes[k].from = ExternalId(Given[k].from)
                             /\ routes[k].to = ExternalId(Given[k].to)
        /\ \A k \in 1 .. g + a \ 1 .. g :
                             /\ routes[k].from = ExternalId(Around[k - g].from)
                             /\ routes[k].to = ExternalId(Around[k - g].to)
    BY <1>1, RoutesTold
  <2>2. Ends(routes) = [k \in 1 .. g + a |-> end(k)]
    BY <2>1 DEF Ends
  <2>3. \A k \in 1 .. g : proper[k] = end(k)
    BY <1>4, <2>1
  <2>4. \A k \in 1 .. a : loops[k] = end(g + k)
    <3>1. ASSUME NEW k \in 1 .. a
          PROVE  loops[k] = end(g + k)
      <4>1. g + k \in 1 .. g + a \ 1 .. g /\ (g + k) - g = k
        BY <1>4
      <4>2. routes[g + k].from = ExternalId(Around[k].from) /\ routes[g + k].to = ExternalId(Around[k].to)
        BY <2>1, <4>1
      <4>. QED
        BY <1>4, <4>2
    <3>. QED
      BY <3>1
  <2>5. \A k \in 1 .. g + a : end(k) \in all
    OBVIOUS
  <2>6. DOMAIN proper = 1 .. g /\ DOMAIN loops = 1 .. a /\ Lists(proper, g) /\ Lists(loops, a)
    BY <1>4 DEF Lists
  <2>. HIDE DEF end, all, proper, loops, g, a
  <2>7. proper \in Seq(all) /\ Len(proper) = g
    <3>1. \A k \in 1 .. g : proper[k] \in all
      <4>1. \A k \in 1 .. g : k \in 1 .. g + a
        BY <2>0
      <4>. QED
        BY <2>3, <2>5, <4>1
    <3>. QED
      BY <1>4, <2>6, <3>1, ListedIsSequence
  <2>8. loops \in Seq(all) /\ Len(loops) = a
    <3>1. \A k \in 1 .. a : loops[k] \in all
      <4>1. \A k \in 1 .. a : g + k \in 1 .. g + a
        BY <2>0
      <4>. QED
        BY <2>4, <2>5, <4>1
    <3>. QED
      BY <1>4, <2>6, <3>1, ListedIsSequence
  <2>9. Joined(proper \o loops, proper, loops)
    BY <2>7, <2>8, ListsJoined
  <2>. DEFINE both == proper \o loops
  <2>10. /\ Lists(both, g + a)
         /\ \A k \in 1 .. g : both[k] = proper[k]
         /\ \A k \in 1 .. a : both[g + k] = loops[k]
    BY <2>7, <2>8, <2>9 DEF Joined
  <2>. HIDE DEF both
  <2>11. \A k \in 1 .. g + a : both[k] = end(k)
    <3>1. ASSUME NEW k \in 1 .. g + a
          PROVE  both[k] = end(k)
      <4>1. CASE k \in 1 .. g
        BY <2>3, <2>10, <4>1
      <4>2. CASE k \notin 1 .. g
        <5>1. k - g \in 1 .. a /\ g + (k - g) = k
          BY <1>4, <4>2
        <5>. QED
          BY <2>4, <2>10, <5>1
      <4>. QED
        BY <4>1, <4>2
    <3>. QED
      BY <3>1
  <2>12. both = [k \in 1 .. g + a |-> end(k)]
    BY <2>10, <2>11 DEF Lists
  <2>. QED
    BY <2>2, <2>12 DEF both
<1>. QED
  BY <1>2, <1>3, <1>5, <1>6, <1>7

\* Every edge and every node of the caller comes back once, under its own ids
\* and in its own direction, whatever the phases do to the graph in between.
THEOREM GraphComesBack == Spec => []EverythingComesBack
<1>1. IInv => EverythingComesBack
  BY EverythingTold
<1>. QED
  BY <1>1, GraphIsCarriedThrough, PTL

LEMMA FlagsTold ==
    ASSUME IInv
    PROVE  FlaggedRoutesCloseCycles
<1>. SUFFICES ASSUME result = "Ok"
     PROVE  LET proper == {k \in DOMAIN routes : ~routes[k].isSelfLoop}
                Drawn(k) == IF routes[k].reversed THEN <<routes[k].to, routes[k].from>>
                            ELSE <<routes[k].from, routes[k].to>>
                asked == {<<routes[k].from, routes[k].to>> : k \in proper}
            IN /\ Acyclic(Range(nodes), {Drawn(k) : k \in proper})
               /\ \A k \in DOMAIN routes : routes[k].reversed =>
                     k \in proper /\ Reaches(Range(nodes), asked, routes[k].to, routes[k].from)
  BY DEF FlaggedRoutesCloseCycles
<1>. DEFINE proper == {k \in DOMAIN routes : ~routes[k].isSelfLoop}
            Drawn(k) == IF routes[k].reversed THEN <<routes[k].to, routes[k].from>>
                        ELSE <<routes[k].from, routes[k].to>>
            asked == {<<routes[k].from, routes[k].to>> : k \in proper}
            V == Range(nodes)
            g == Len(Given)
            \* The nodes that the caller's ids in S name.
            Inner(S) == {v \in Normal : ExternalId(v) \in S}
<1>1. PICK R : Told(R)
  BY ResultTold
<1>2. /\ proper = 1 .. g /\ g \in Nat
      /\ \A k \in 1 .. g :
            /\ Given[k].from \in Normal /\ Given[k].to \in Normal
            /\ routes[k].from = ExternalId(Given[k].from) /\ routes[k].to = ExternalId(Given[k].to)
            /\ routes[k].reversed <=> k \in R
      /\ \A k \in DOMAIN routes : routes[k].reversed => k \in 1 .. g
  <2>. DEFINE all == g + Len(Around)
  <2>1. /\ g \in Nat /\ Len(Around) \in Nat /\ DOMAIN routes = 1 .. all
        /\ \A k \in 1 .. g :
              /\ Given[k].from \in Normal /\ Given[k].to \in Normal
              /\ routes[k].from = ExternalId(Given[k].from) /\ routes[k].to = ExternalId(Given[k].to)
              /\ routes[k].isSelfLoop <=> FALSE
              /\ routes[k].reversed <=> k \in R
        /\ \A k \in 1 .. all \ 1 .. g :
              /\ routes[k].isSelfLoop <=> TRUE
              /\ routes[k].reversed <=> FALSE
    BY <1>1, RoutesTold
  <2>2. 1 .. g \subseteq 1 .. all
    BY <2>1
  <2>. HIDE DEF all, g
  <2>3. proper = 1 .. g
    BY <2>1, <2>2
  <2>. QED
    BY <2>1, <2>2, <2>3
<1>3. /\ IsTurned(R) /\ Broken(R) /\ DOMAIN Given = 1 .. g /\ R \subseteq 1 .. g
  BY <1>1, TurnedAgree DEF IInv, Told, WrittenAs, Broken
<1>4. /\ \A v \in Normal : ExternalId(v) \in V
      /\ \A x \in V : \E v \in Normal : ExternalId(v) = x
      /\ \A v, w \in Normal : ExternalId(v) = ExternalId(w) => v = w
  <2>1. V \subseteq DOMAIN idMap
    <3>1. /\ DOMAIN nodes = DOMAIN externalIds
          /\ \A k \in DOMAIN nodes : nodes[k] = externalIds[k]
      BY <1>1 DEF IInv, IdsInv, ArgumentsInv, Told, AllKnown
    <3>. QED
      BY <3>1 DEF IInv, IdsInv, Range
  <2>2. /\ \A v \in Normal : ExternalId(v) \in V
        /\ \A x \in DOMAIN idMap : idMap[x] \in Normal /\ ExternalId(idMap[x]) = x
    BY IdsAgree DEF IInv
  <2>. QED
    BY <2>1, <2>2, ExternalIdsTell DEF IInv
<1>5. Acyclic(V, {Drawn(k) : k \in proper})
  <2>. SUFFICES ASSUME NEW S \in (SUBSET V) \ {{}}
       PROVE  \E x \in S : \A y \in S : <<x, y>> \notin {Drawn(k) : k \in proper}
    BY Zenon DEF Acyclic
  <2>1. Inner(S) \in (SUBSET Normal) \ {{}}
    BY <1>4
  <2>2. PICK v \in Inner(S) : \A w \in Inner(S) : <<v, w>> \notin ArcsOf(TurnedGiven(R), DOMAIN Given)
    BY <1>3, <2>1 DEF IsTurned, Acyclic
  <2>3. v \in Normal /\ ExternalId(v) \in S
    BY <2>2
  <2>4. ASSUME NEW y \in S, NEW k \in 1 .. g, <<ExternalId(v), y>> = Drawn(k)
        PROVE  FALSE
    <3>. DEFINE t == TurnedGiven(R)[k]
    <3>1. /\ t.from \in Normal /\ t.to \in Normal
          /\ k \in R => t.from = Given[k].to /\ t.to = Given[k].from
          /\ k \notin R => t = Given[k]
      BY <1>3 DEF IsTurned
    <3>2. Drawn(k) = <<ExternalId(t.from), ExternalId(t.to)>>
      <4>1. CASE k \in R
        BY <1>2, <3>1, <4>1
      <4>2. CASE k \notin R
        BY <1>2, <3>1, <4>2
      <4>. QED
        BY <4>1, <4>2
    <3>. HIDE DEF t
    <3>3. ExternalId(v) = ExternalId(t.from) /\ y = ExternalId(t.to)
      BY <2>4, <3>2
    <3>4. v = t.from
      BY <1>4, <2>3, <3>1, <3>3
    <3>5. t.to \in Inner(S)
      BY <3>1, <3>3
    <3>6. <<t.from, t.to>> \in ArcsOf(TurnedGiven(R), DOMAIN Given)
      BY <1>3 DEF ArcsOf, Arc, t
    <3>. QED
      BY <2>2, <3>4, <3>5, <3>6
  <2>5. \A y \in S : <<ExternalId(v), y>> \notin {Drawn(k) : k \in proper}
    BY <1>2, <2>4
  <2>. QED
    BY <2>3, <2>5
<1>6. ASSUME NEW k \in DOMAIN routes, routes[k].reversed
      PROVE  k \in proper /\ Reaches(V, asked, routes[k].to, routes[k].from)
  <2>1. k \in 1 .. g /\ k \in R
    BY <1>2, <1>6
  <2>2. Reaches(Normal, ArcsOf(Given, Bounded(Len(externalIds), Given) \ R), Given[k].to, Given[k].from)
    <3>1. Named(InIdOrder(R)) = R
      BY <1>2, <1>3, ListNamesSet
    <3>2. TurnsOnlyBackEdges(Len(externalIds), Given, InIdOrder(R))
      BY <1>3 DEF Broken, BreaksCycles
    <3>. QED
      BY <2>1, <3>1, <3>2 DEF TurnsOnlyBackEdges, Normal
  <2>3. ASSUME NEW S \in SUBSET V, routes[k].to \in S, ClosedUnder(asked, S)
        PROVE  routes[k].from \in S
    <3>. DEFINE Arcs == ArcsOf(Given, Bounded(Len(externalIds), Given) \ R)
    <3>1. Inner(S) \in SUBSET Normal /\ Given[k].to \in Inner(S)
      BY <1>2, <2>1, <2>3
    <3>2. ASSUME NEW i \in 1 .. g, Given[i].from \in Inner(S)
          PROVE  Given[i].to \in Inner(S)
      <4>1. <<routes[i].from, routes[i].to>> \in asked
        BY <1>2
      <4>2. routes[i].from \in S
        BY <1>2, <3>2
      <4>3. routes[i].to \in S
        BY <2>3, <4>1, <4>2 DEF ClosedUnder
      <4>. QED
        BY <1>2, <4>3
    <3>3. ClosedUnder(Arcs, Inner(S))
      <4>. HIDE DEF Inner
      <4>1. ASSUME NEW b \in Arcs, b[1] \in Inner(S)
            PROVE  b[2] \in Inner(S)
        <5>1. PICK i \in Bounded(Len(externalIds), Given) \ R : b = Arc(Given[i])
          BY <4>1 DEF ArcsOf
        <5>2. i \in 1 .. g /\ b[1] = Given[i].from /\ b[2] = Given[i].to
          BY <1>3, <5>1 DEF Bounded, Arc
        <5>. QED
          BY <3>2, <4>1, <5>2
      <4>. QED
        BY <4>1 DEF ClosedUnder
    <3>4. Given[k].from \in Inner(S)
      <4>. HIDE DEF Inner
      <4>. QED
        BY <2>2, <3>1, <3>3 DEF Reaches
    <3>. QED
      BY <1>2, <2>1, <3>4
  <2>. HIDE DEF asked
  <2>4. Reaches(V, asked, routes[k].to, routes[k].from)
    BY <2>3 DEF Reaches
  <2>. QED
    BY <1>2, <2>1, <2>4
<1>. QED
  BY <1>5, <1>6

\* The flag of the routes tells a set of the caller's edges whose turning breaks
\* all cycles, and none of which was turned without need.
THEOREM FlagsTellTheCycles == Spec => []FlaggedRoutesCloseCycles
<1>1. IInv => FlaggedRoutesCloseCycles
  BY FlagsTold
<1>. QED
  BY <1>1, GraphIsCarriedThrough, PTL

=============================================================================
