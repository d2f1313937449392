-------------------------- MODULE Coordinates_proofs --------------------------
(****************************************************************************)
(* assign_coordinates for every graph that stands in layers, with any gaps  *)
(* and any number of passes and rounds: the type invariant, that ranks come *)
(* one after the other, that siblings keep their gap and their order, that  *)
(* the median relaxation wastes no room and does not drift, and that the    *)
(* repairs of Brandes-Koepf move nodes as little as the gaps allow.         *)
(****************************************************************************)
EXTENDS Coordinates, LayoutTheorems

-----------------------------------------------------------------------------
(* The inductive invariant, in parts.                                       *)

\* The graph, which is never written.
GraphInv ==
    /\ edges \in Seq(Edge)
    /\ IsFiniteSet(Nodes) /\ Nodes = NodeIds(Cardinality(Nodes))
    /\ order \in [Nodes -> Nat \union {NoOrder}]
    /\ half \in [Nodes -> [width : Nat, height : Nat]]
    /\ layers \in Seq(Seq(Nodes)) /\ OnePlaceEach(layers)
    /\ algorithm \in {"MedianRelax", "BrandesKopf"}

AllGood == \A i \in DOMAIN edges : Good(i)

\* Which stage touches which variable, and the bounds of the loops.
StageInv ==
    /\ pc \in {"ranks", "place", "relax", "align", "repair", "returned"}
    /\ result \in {"none", "Ok", "DanglingEdge", "MissingRank"}
    /\ pc # "returned" => result = "none"
    /\ todo \in Seq(DOMAIN layers)
    /\ \A i, j \in DOMAIN todo : todo[i] = todo[j] => i = j
    /\ pass \in Nat
    /\ pc \in {"ranks", "place"} => todo = <<>> /\ aligned = <<>> /\ pass = 0
    /\ pc = "relax" => algorithm = "MedianRelax" /\ AllGood
    /\ pc \in {"align", "repair"} => algorithm = "BrandesKopf" /\ AllGood
    /\ pc = "align" => Len(aligned) \in 1 .. 4 /\ pass = 0
    /\ pc = "repair" => Len(aligned) = 4
    /\ algorithm = "MedianRelax" => pass <= RelaxPasses /\ aligned = <<>>
    /\ algorithm = "BrandesKopf" => pass <= BlendRounds

\* Coordinates are numbers.
ValuesInv ==
    /\ rankCoords \in [Nodes -> Nat]
    /\ x \in [Nodes -> Int]
    /\ DOMAIN preferred \subseteq Nodes /\ \A v \in DOMAIN preferred : preferred[v] \in Int
    /\ aligned \in Seq([Nodes -> Int]) /\ Len(aligned) <= 4
    /\ pos \in [Nodes -> [x : Int, y : Int]]

\* Every node of a layer has the coordinate of its rank.
RanksInv ==
    pc # "ranks" => \A k \in DOMAIN layers : \A v \in Range(layers[k]) : rankCoords[v] = LayerCoord(k)

\* The result: the coordinates, doubled, and shifted alike for all nodes.
ResultInv ==
    result = "Ok" =>
        /\ pc = "returned" /\ todo = <<>>
        /\ \E cx, cy \in Int :
              pos = [v \in Nodes |-> [x |-> 2 * PlaceX(v) - cx, y |-> 2 * PlaceY(v) - cy]]

-----------------------------------------------------------------------------
(* Layers.                                                                  *)

\* A layer lists nodes, each once, and shares none with another.
LEMMA LayerFacts ==
    ASSUME GraphInv, NEW k \in DOMAIN layers
    PROVE  /\ k \in Nat \ {0} /\ k <= Len(layers)
           /\ layers[k] \in Seq(Nodes) /\ Len(layers[k]) \in Nat /\ DOMAIN layers[k] = 1 .. Len(layers[k])
           /\ \A p, q \in DOMAIN layers[k] : layers[k][p] = layers[k][q] => p = q
           /\ Range(layers[k]) \subseteq Nodes
           /\ \A v \in Range(layers[k]) : \E p \in DOMAIN layers[k] : layers[k][p] = v
           /\ \A p \in DOMAIN layers[k] : layers[k][p] \in Range(layers[k])
           /\ \A v \in Range(layers[k]), j \in DOMAIN layers : v \in Range(layers[j]) => j = k
<1>1. layers[k] \in Seq(Nodes) /\ k \in Nat \ {0} /\ k <= Len(layers)
  BY DEF GraphInv
<1>2. \A p, q \in DOMAIN layers[k] : layers[k][p] = layers[k][q] => p = q
  BY DEF GraphInv, OnePlaceEach
<1>3. \A v \in Range(layers[k]), j \in DOMAIN layers : v \in Range(layers[j]) => j = k
  BY DEF GraphInv, OnePlaceEach, Range
<1>4. /\ Range(layers[k]) \subseteq Nodes
      /\ \A v \in Range(layers[k]) : \E p \in DOMAIN layers[k] : layers[k][p] = v
      /\ \A p \in DOMAIN layers[k] : layers[k][p] \in Range(layers[k])
  BY <1>1 DEF Range
<1>. QED
  BY <1>1, <1>2, <1>3, <1>4

\* The members of a list.
LEMMA ListMembers ==
    ASSUME NEW S, NEW o \in Seq(S)
    PROVE  /\ Len(o) \in Nat /\ DOMAIN o = 1 .. Len(o)
           /\ \A i \in 1 .. Len(o) : o[i] \in S /\ o[i] \in Range(o)
           /\ \A v \in Range(o) : \E i \in 1 .. Len(o) : o[i] = v
<1>1. Len(o) \in Nat /\ DOMAIN o = 1 .. Len(o)
  OBVIOUS
<1>2. \A i \in 1 .. Len(o) : o[i] \in S
  OBVIOUS
<1>. QED
  BY <1>1, <1>2 DEF Range

\* A list with one member exchanged.
LEMMA ListExchanged ==
    ASSUME NEW S, NEW o \in Seq(S), NEW a \in DOMAIN o, NEW g \in S
    PROVE  LET r == [o EXCEPT ![a] = g] IN
           /\ r \in Seq(S) /\ Len(r) = Len(o) /\ DOMAIN r = DOMAIN o
           /\ \A i \in DOMAIN o : r[i] = IF i = a THEN g ELSE o[i]
  OBVIOUS

\* The layer of a node, found again.
LEMMA LayerOfNode ==
    ASSUME GraphInv, NEW k \in DOMAIN layers, NEW v \in Range(layers[k])
    PROVE  (CHOOSE j \in DOMAIN layers : v \in Range(layers[j])) = k
<1>1. \A j \in DOMAIN layers : v \in Range(layers[j]) => j = k
  BY LayerFacts
<1>. QED
  BY <1>1

\* The halves of the nodes.
LEMMA Halves ==
    ASSUME GraphInv, NEW v \in Nodes
    PROVE  Across(v) \in Nat /\ Along(v) \in Nat
  BY DEF GraphInv, Across, Along

\* The widest node of a layer and the tallest one.
LEMMA Extents ==
    ASSUME GraphInv, NEW k \in DOMAIN layers
    PROVE  /\ WidestOf(k) \in Nat /\ LayerExtent(k) \in Nat
           /\ \A v \in Range(layers[k]) : 2 * Across(v) <= WidestOf(k) /\ 2 * Along(v) <= LayerExtent(k)
<1>. DEFINE D == DOMAIN layers[k]
            a == [p \in D |-> 2 * Across(layers[k][p])]
            l == [p \in D |-> 2 * Along(layers[k][p])]
            A == {a[p] : p \in D}
            L == {l[p] : p \in D}
<1>1. /\ Len(layers[k]) \in Nat /\ D = 1 .. Len(layers[k])
      /\ \A p \in D : layers[k][p] \in Nodes
  BY LayerFacts
<1>2. IsFiniteSet(D)
  <2>1. 1 \in Int /\ Len(layers[k]) \in Int
    BY <1>1
  <2>2. IsFiniteSet(1 .. Len(layers[k]))
    BY <2>1, FS_Interval
  <2>. HIDE DEF D
  <2>. QED
    BY <2>2, <1>1
<1>3. \A p \in D : a[p] \in Nat /\ l[p] \in Nat
  BY <1>1, Halves
<1>4. /\ {2 * Across(v) : v \in Range(layers[k])} = A
      /\ {2 * Along(v) : v \in Range(layers[k])} = L
  BY DEF Range
<1>5. \A v \in Range(layers[k]) : 2 * Across(v) \in A /\ 2 * Along(v) \in L
  BY <1>4
<1>6. IsFiniteSet(A) /\ IsFiniteSet(L)
  <2>. HIDE DEF a, l, D
  <2>. QED
    BY <1>2, ImageIsFinite
<1>7. A \subseteq Nat /\ L \subseteq Nat
  BY <1>3
<1>. HIDE DEF A, L, a, l, D
<1>8. IsFiniteSet({0} \union A) /\ IsFiniteSet({0} \union L)
  <2>1. {0} \union A = A \union {0} /\ {0} \union L = L \union {0}
    OBVIOUS
  <2>. QED
    BY <2>1, <1>6, FS_AddElement
<1>9. /\ \A b \in {0} \union A : b \in Int
      /\ \A b \in {0} \union L : b \in Int
      /\ {0} \union A # {} /\ {0} \union L # {}
  BY <1>7
<1>10. /\ Max({0} \union A) \in {0} \union A /\ \A b \in {0} \union A : b <= Max({0} \union A)
       /\ Max({0} \union L) \in {0} \union L /\ \A b \in {0} \union L : b <= Max({0} \union L)
  BY <1>8, <1>9, GreatestOfFinite
<1>11. WidestOf(k) = Max({0} \union A) /\ LayerExtent(k) = Max({0} \union L)
  BY <1>4 DEF WidestOf, LayerExtent
<1>12. WidestOf(k) \in {0} \union A /\ LayerExtent(k) \in {0} \union L
  BY <1>10, <1>11
<1>13. /\ \A b \in A : b <= WidestOf(k)
       /\ \A b \in L : b <= LayerExtent(k)
  BY <1>10, <1>11
<1>14. WidestOf(k) \in Nat /\ LayerExtent(k) \in Nat
  <2>1. \A b \in {0} \union A : b \in Nat
    BY <1>7
  <2>2. \A b \in {0} \union L : b \in Nat
    BY <1>7
  <2>. QED
    BY <2>1, <2>2, <1>12
<1>15. ASSUME NEW v \in Range(layers[k])
       PROVE  2 * Across(v) <= WidestOf(k) /\ 2 * Along(v) <= LayerExtent(k)
  <2>1. 2 * Across(v) \in A /\ 2 * Along(v) \in L
    BY <1>5
  <2>. QED
    BY <2>1, <1>13
<1>. QED
  BY <1>14, <1>15

\* Each rank comes below the one above, by the height of that and the gap.
LEMMA CoordsGrow ==
    ASSUME GraphInv
    PROVE  /\ \A k \in DOMAIN layers : LayerCoord(k) \in Nat
           /\ \A j, k \in DOMAIN layers : j < k => LayerCoord(k) >= LayerCoord(j) + LayerExtent(j) + VGap
<1>. DEFINE n == Len(layers)
            f(k) == [j \in 1 .. k - 1 |-> LayerExtent(j) + VGap]
            S(k) == SumFunctionOnSet(f(k), 1 .. k - 1)
<1>1. n \in Nat /\ DOMAIN layers = 1 .. n /\ VGap \in Nat
  BY ConfigAssumption DEF GraphInv
<1>2. \A k \in 1 .. n : LayerExtent(k) \in Nat
  BY <1>1, Extents
<1>3. \A k \in 1 .. n : LayerCoord(k) = S(k)
  BY DEF LayerCoord, SumFunction
<1>4. \A k \in 1 .. n : IsFiniteSet(1 .. k - 1) /\ \A j \in 1 .. k - 1 : f(k)[j] \in Nat
  <2>. TAKE k \in 1 .. n
  <2>1. k - 1 \in Int /\ 1 \in Int
    BY <1>1
  <2>2. IsFiniteSet(1 .. k - 1)
    BY <2>1, FS_Interval
  <2>3. ASSUME NEW j \in 1 .. k - 1
        PROVE  f(k)[j] \in Nat
    <3>1. j \in 1 .. n /\ f(k)[j] = LayerExtent(j) + VGap
      BY <1>1
    <3>. HIDE DEF f
    <3>. QED
      BY <3>1, <1>1, <1>2
  <2>. QED
    BY <2>2, <2>3
<1>5. \A k \in 1 .. n : S(k) \in Nat
  <2>. HIDE DEF f
  <2>. QED
    BY <1>4, SumIsNumber
<1>6. ASSUME NEW k \in 1 .. n, k + 1 \in 1 .. n
      PROVE  S(k + 1) = S(k) + LayerExtent(k) + VGap
  <2>1. /\ (k + 1) - 1 = k /\ k \in 1 .. k /\ (1 .. k) \ {k} = 1 .. k - 1
        /\ f(k + 1)[k] = LayerExtent(k) + VGap
        /\ \A j \in 1 .. k - 1 : f(k + 1)[j] = f(k)[j]
    BY <1>1
  <2>2. IsFiniteSet(1 .. k) /\ \A j \in 1 .. k : f(k + 1)[j] \in Int
    BY <1>4, <1>6, <2>1
  <2>3. IsFiniteSet(1 .. k - 1)
    BY <1>4
  <2>. HIDE DEF f
  <2>4. SumFunctionOnSet(f(k + 1), 1 .. k) = f(k + 1)[k] + SumFunctionOnSet(f(k + 1), 1 .. k - 1)
    BY <2>1, <2>2, SumOfRest
  <2>5. SumFunctionOnSet(f(k + 1), 1 .. k - 1) = S(k)
    BY <2>1, <2>3, SumOfSame
  <2>6. LayerExtent(k) + VGap \in Int /\ S(k) \in Int
    BY <1>1, <1>2, <1>5
  <2>. HIDE DEF S
  <2>7. S(k + 1) = (LayerExtent(k) + VGap) + S(k)
    BY <2>1, <2>4, <2>5 DEF S
  <2>. QED
    BY <2>6, <2>7, <1>1, <1>2, <1>5
<1>. HIDE DEF S, n
<1>7. ASSUME NEW j \in 1 .. n, NEW k \in 1 .. n, j < k
      PROVE  S(k) >= S(j) + LayerExtent(j) + VGap
  <2>. DEFINE Wrong == {m \in 1 .. n : j < m /\ S(m) < S(j) + LayerExtent(j) + VGap}
  <2>. SUFFICES ASSUME Wrong # {} PROVE FALSE
    <3>1. S(k) \in Nat /\ S(j) \in Nat /\ LayerExtent(j) \in Nat /\ VGap \in Nat
      BY <1>1, <1>2, <1>5
    <3>. QED
      BY <3>1, <1>7
  <2>1. Wrong \in SUBSET Nat
    BY <1>1
  <2>. HIDE DEF Wrong
  <2>2. PICK m \in Wrong : \A l \in Wrong : m <= l
    BY <2>1, LeastNatural
  <2>3. m \in 1 .. n /\ j < m /\ S(m) < S(j) + LayerExtent(j) + VGap
    BY <2>2 DEF Wrong
  <2>4. m - 1 \in 1 .. n /\ (m - 1) + 1 = m /\ ~(m <= m - 1)
    BY <1>1, <2>3
  <2>5. S(m) = S(m - 1) + LayerExtent(m - 1) + VGap
    BY <1>6, <2>3, <2>4
  <2>6. /\ S(m - 1) \in Nat /\ LayerExtent(m - 1) \in Nat /\ VGap \in Nat
        /\ S(j) \in Nat /\ LayerExtent(j) \in Nat /\ S(m) \in Nat
    BY <1>1, <1>2, <1>5, <2>3, <2>4
  <2>7. CASE j = m - 1
    BY <2>3, <2>5, <2>6, <2>7
  <2>8. CASE j # m - 1
    <3>1. j < m - 1 /\ m - 1 \notin Wrong
      BY <2>2, <2>3, <2>4, <2>8
    <3>2. S(m - 1) >= S(j) + LayerExtent(j) + VGap
      BY <3>1, <2>4, <2>6 DEF Wrong
    <3>. QED
      BY <3>2, <2>3, <2>5, <2>6
  <2>. QED
    BY <2>7, <2>8
<1>. QED
  BY <1>1, <1>3, <1>5, <1>7

-----------------------------------------------------------------------------
(* What the loops over a layer compute.                                     *)

\* A stable sort by numbers: the elements, rearranged, by number and then by place.
LEMMA SortedByNumber ==
    ASSUME NEW n \in Nat, NEW s, DOMAIN s = 1 .. n, NEW key, \A j \in 1 .. n : key[j] \in Int
    PROVE  /\ DOMAIN StableSort(s, key, <) = 1 .. n
           /\ \E from : /\ Rearranges(from, StableSort(s, key, <), s, n)
                        /\ \A p, q \in 1 .. n : p < q =>
                              \/ key[from[p]] < key[from[q]]
                              \/ key[from[p]] = key[from[q]] /\ from[p] < from[q]
<1>. DEFINE D == DOMAIN s
            Earlier(k) == {j \in D : j # k /\ (key[j] < key[k] \/ (~(key[k] < key[j]) /\ j < k))}
            B == {jk \in D \X D : key[jk[1]] < key[jk[2]] \/ (~(key[jk[2]] < key[jk[1]]) /\ jk[1] < jk[2])}
            Source(p) == CHOOSE k \in D : 1 + Cardinality(Earlier(k)) = p
            from == [p \in D |-> Source(p)]
            r == StableSort(s, key, <)
<1>1. \A j, k \in D : <<j, k>> \in B <=> key[j] < key[k] \/ (~(key[k] < key[j]) /\ j < k)
  OBVIOUS
<1>2. \A j \in D : key[j] \in Int /\ j \in Int
  OBVIOUS
<1>. HIDE DEF B
<1>3. Orders(B, D)
  <2>. HIDE DEF D
  <2>1. \A j \in D : <<j, j>> \notin B
    BY <1>1, <1>2
  <2>2. \A j, k \in D : j # k => <<j, k>> \in B \/ <<k, j>> \in B
    BY <1>1, <1>2
  <2>3. ASSUME NEW i \in D, NEW j \in D, NEW k \in D, <<i, j>> \in B, <<j, k>> \in B
        PROVE  <<i, k>> \in B
    <3>1. /\ key[i] \in Int /\ key[j] \in Int /\ key[k] \in Int
          /\ i \in Int /\ j \in Int /\ k \in Int
      BY <1>2
    <3>2. /\ key[i] < key[j] \/ (~(key[j] < key[i]) /\ i < j)
          /\ key[j] < key[k] \/ (~(key[k] < key[j]) /\ j < k)
      BY <2>3, <1>1
    <3>3. key[i] < key[k] \/ (~(key[k] < key[i]) /\ i < k)
      BY <3>1, <3>2
    <3>. QED
      BY <3>3, <1>1
  <2>. QED
    BY <2>1, <2>2, <2>3 DEF Orders
<1>4. \A k \in D : Earlier(k) = Before(B, D, k)
  BY <1>1, <1>2 DEF Before
<1>5. r = [p \in D |-> s[from[p]]]
  BY DEF StableSort
<1>6. \A p \in D : (\E k \in D : 1 + Cardinality(Earlier(k)) = p)
                     => from[p] \in D /\ 1 + Cardinality(Earlier(from[p])) = p
  OBVIOUS
<1>. HIDE DEF Source
<1>7. from = [p \in D |-> from[p]]
  OBVIOUS
<1>. HIDE DEF Earlier, from, r
<1>8. \A p \in D : (\E k \in D : 1 + Cardinality(Before(B, D, k)) = p)
                     => from[p] \in D /\ 1 + Cardinality(Before(B, D, from[p])) = p
  BY <1>4, <1>6
<1>9. Rearranges(from, r, s, n) /\ Follows(from, B, n)
  <2>. DEFINE I == 1 .. n
  <2>1. D = I
    OBVIOUS
  <2>. HIDE DEF D
  <2>2. \A p \in I : r[p] = s[from[p]]
    BY <2>1, <1>5
  <2>3. /\ Orders(B, I) /\ from = [p \in I |-> from[p]]
        /\ \A p \in I : (\E k \in I : 1 + Cardinality(Before(B, I, k)) = p)
                         => from[p] \in I /\ 1 + Cardinality(Before(B, I, from[p])) = p
    BY <2>1, <1>3, <1>7, <1>8
  <2>. QED
    BY <2>2, <2>3, PlacedIsRearranged
<1>10. ASSUME NEW p \in 1 .. n, NEW q \in 1 .. n, p < q
       PROVE  \/ key[from[p]] < key[from[q]]
              \/ key[from[p]] = key[from[q]] /\ from[p] < from[q]
  <2>1. <<from[p], from[q]>> \in B
    BY <1>9, <1>10 DEF Follows
  <2>2. from[p] \in D /\ from[q] \in D
    BY <1>9 DEF Rearranges
  <2>. DEFINE i == from[p]
              j == from[q]
  <2>3. i \in D /\ j \in D /\ <<i, j>> \in B
    BY <2>1, <2>2
  <2>. HIDE DEF D, i, j
  <2>4. key[i] \in Int /\ key[j] \in Int
    BY <2>3, <1>2
  <2>5. key[i] < key[j] \/ (~(key[j] < key[i]) /\ i < j)
    BY <2>3, <1>1
  <2>6. key[i] < key[j] \/ (key[i] = key[j] /\ i < j)
    BY <2>4, <2>5
  <2>. QED
    BY <2>6 DEF i, j
<1>11. DOMAIN r = 1 .. n
  BY <1>5
<1>. QED
  BY <1>9, <1>10, <1>11 DEF r

\* Coordinates placed at the nodes of a list.
LEMMA PlacedAt ==
    ASSUME NEW f, NEW s, NEW at, \A j, k \in DOMAIN s : s[j] = s[k] => j = k
    PROVE  /\ DOMAIN Placed(f, s, at) = DOMAIN f
           /\ \A k \in DOMAIN s : s[k] \in DOMAIN f => Placed(f, s, at)[s[k]] = at[k]
           /\ \A v \in DOMAIN f : v \notin Range(s) => Placed(f, s, at)[v] = f[v]
<1>1. ASSUME NEW k \in DOMAIN s, s[k] \in DOMAIN f
      PROVE  Placed(f, s, at)[s[k]] = at[k]
  <2>1. (CHOOSE j \in DOMAIN s : s[j] = s[k]) = k
    OBVIOUS
  <2>2. s[k] \in Range(s)
    BY DEF Range
  <2>. QED
    BY <2>1, <2>2, <1>1 DEF Placed
<1>. QED
  BY <1>1 DEF Placed

\* And their types.
LEMMA PlacedTyped ==
    ASSUME NEW f \in [Nodes -> Int], NEW s \in Seq(Nodes), \A j, k \in DOMAIN s : s[j] = s[k] => j = k,
           NEW at, \A k \in DOMAIN s : at[k] \in Int
    PROVE  Placed(f, s, at) \in [Nodes -> Int]
<1>. DEFINE r == Placed(f, s, at)
<1>1. r = [v \in Nodes |-> r[v]]
  BY DEF Placed
<1>2. /\ \A k \in DOMAIN s : s[k] \in Nodes /\ r[s[k]] = at[k]
      /\ \A v \in Nodes : v \notin Range(s) => r[v] = f[v]
  BY PlacedAt
<1>. HIDE DEF r
<1>3. ASSUME NEW v \in Nodes
      PROVE  r[v] \in Int
  <2>1. CASE v \in Range(s)
    <3>1. PICK k \in DOMAIN s : s[k] = v
      BY <2>1 DEF Range
    <3>2. r[v] = at[k] /\ at[k] \in Int
      BY <3>1, <1>2
    <3>. QED
      BY <3>2
  <2>2. CASE v \notin Range(s)
    <3>1. r[v] = f[v] /\ f[v] \in Int
      BY <2>2, <1>2
    <3>. QED
      BY <3>1
  <2>. QED
    BY <2>1, <2>2
<1>. QED
  BY <1>1, <1>3 DEF r

\* The distance of two nodes.
LEMMA Distances ==
    ASSUME GraphInv, NEW a \in Nodes, NEW b \in Nodes
    PROVE  /\ Distance(a, b) \in Nat /\ Distance(a, b) = Across(a) + HGap + Across(b)
           /\ Distance(a, b) = Distance(b, a)
<1>1. Across(a) \in Nat /\ Across(b) \in Nat /\ HGap \in Nat
  BY Halves, ConfigAssumption
<1>. QED
  BY <1>1 DEF Distance

\* What a compaction gives the nodes of a sorted layer.
LEMMA CompactedAt ==
    ASSUME GraphInv, ValuesInv, NEW sorted \in Seq(Nodes)
    PROVE  LET at == Compacted(sorted)
               wish(k) == Preferred(sorted[k], x[sorted[k]])
               bound(k) == at[k - 1] + Distance(sorted[k - 1], sorted[k])
           IN /\ at \in [1 .. Len(sorted) -> Int]
              /\ \A k \in 1 .. Len(sorted) : wish(k) \in Int
              /\ sorted # <<>> => at[1] = Preferred(sorted[1], 0)
              /\ \A k \in 2 .. Len(sorted) :
                    bound(k) \in Int /\ at[k] = IF wish(k) < bound(k) THEN bound(k) ELSE wish(k)
<1>. DEFINE n == Len(sorted)
            I == 1 .. n
            wish(k) == Preferred(sorted[k], x[sorted[k]])
            gap(k) == Distance(sorted[k - 1], sorted[k])
            s == IF sorted = <<>> THEN 0 ELSE Preferred(sorted[1], 0)
            step(k, u) == IF wish(k) < u + gap(k) THEN u + gap(k) ELSE wish(k)
            g == [ku \in I \X Int |-> IF ku[1] = 1 THEN 0 ELSE step(ku[1], ku[2])]
            IsAt(f) == f = [k \in I |-> IF k = 1 THEN Preferred(sorted[1], 0) ELSE Max({wish(k), f[k - 1] + gap(k)})]
<1>1. n \in Nat /\ DOMAIN sorted = I
  OBVIOUS
<1>2. \A k \in I : sorted[k] \in Nodes
  OBVIOUS
<1>3. \A v \in Nodes : /\ Preferred(v, x[v]) \in Int /\ Preferred(v, 0) \in Int
  BY DEF Preferred, ValuesInv
<1>4. \A k \in I : wish(k) \in Int
  BY <1>2, <1>3
<1>5. ASSUME NEW k \in I, k # 1
      PROVE  k - 1 \in I /\ gap(k) \in Nat
  <2>1. k - 1 \in I
    BY <1>1, <1>5
  <2>. QED
    BY <2>1, <1>2, Distances
<1>6. s \in Int
  <2>1. sorted # <<>> => 1 \in I
    BY <1>1
  <2>. QED
    BY <2>1, <1>2, <1>3
<1>. HIDE DEF wish, gap, I, n
<1>7. ASSUME NEW k \in I, k # 1, NEW u \in Int
      PROVE  Max({wish(k), u + gap(k)}) = step(k, u) /\ step(k, u) \in Int
  <2>1. wish(k) \in Int /\ u + gap(k) \in Int
    BY <1>4, <1>5, <1>7
  <2>. QED
    BY <2>1, MaxOfTwo
<1>. HIDE DEF step, s
<1>8. \A k \in I : \A u \in Int :
         g[<<k, u>>] \in Int /\ (k # 1 => g[<<k, u>>] = Max({wish(k), u + gap(k)}))
  <2>. TAKE k \in I
  <2>. TAKE u \in Int
  <2>1. g[<<k, u>>] = IF k = 1 THEN 0 ELSE step(k, u)
    OBVIOUS
  <2>. HIDE DEF g
  <2>. QED
    BY <2>1, <1>7
<1>. HIDE DEF g
<1>9. ASSUME NEW f
      PROVE  Chained(f, n, s, g) => f \in [I -> Int]
  <2>. SUFFICES ASSUME Chained(f, n, s, g) PROVE f \in [I -> Int]
    OBVIOUS
  <2>1. \A k \in 1 .. n : \A u \in Int : g[<<k, u>>] \in Int
    BY <1>8 DEF I
  <2>2. f \in [1 .. n -> Int]
    BY <2>1, <1>1, <1>6, ChainedTyped
  <2>. QED
    BY <2>2 DEF I
<1>10. ASSUME NEW k \in I
       PROVE  sorted # <<>>
  BY <1>1
<1>11. ASSUME NEW f, Chained(f, n, s, g)
       PROVE  IsAt(f)
  <2>1. f \in [I -> Int]
    BY <1>9, <1>11
  <2>2. f = [k \in I |-> IF k = 1 THEN s ELSE g[<<k, f[k - 1]>>]]
    BY <1>11 DEF Chained, I
  <2>3. ASSUME NEW k \in I
        PROVE  f[k] = IF k = 1 THEN Preferred(sorted[1], 0) ELSE Max({wish(k), f[k - 1] + gap(k)})
    <3>1. CASE k = 1
      BY <3>1, <2>2, <1>10 DEF s
    <3>2. CASE k # 1
      <4>1. f[k - 1] \in Int
        BY <2>1, <3>2, <1>5
      <4>2. f[k] = g[<<k, f[k - 1]>>]
        BY <2>2, <3>2
      <4>. QED
        BY <4>1, <4>2, <3>2, <1>8
    <3>. QED
      BY <3>1, <3>2
  <2>. QED
    BY <2>1, <2>3
<1>12. \E f : IsAt(f)
  <2>1. n \in Nat
    BY <1>1
  <2>2. PICK f : Chained(f, n, s, g)
    BY <2>1, ChainedExists
  <2>. QED
    BY <2>2, <1>11
<1>13. Compacted(sorted) = CHOOSE f : IsAt(f)
  BY <1>1 DEF Compacted, wish, gap
<1>. DEFINE at == Compacted(sorted)
<1>14. IsAt(at)
  BY <1>12, <1>13
<1>. HIDE DEF at
<1>15. at[1] \in Int \/ I = {}
  <2>1. I # {} => 1 \in I
    BY <1>1 DEF I
  <2>. QED
    BY <2>1, <1>14, <1>10, <1>6 DEF s
<1>16. at \in [I -> Int]
  <2>1. at = [k \in I |-> at[k]]
    BY <1>14
  <2>. DEFINE Wrong == {k \in I : at[k] \notin Int}
  <2>. SUFFICES ASSUME Wrong # {} PROVE FALSE
    BY <2>1
  <2>2. Wrong \in SUBSET Nat
    BY <1>1 DEF I
  <2>. HIDE DEF Wrong
  <2>3. PICK k \in Wrong : \A m \in Wrong : k <= m
    BY <2>2, LeastNatural
  <2>4. k \in I /\ at[k] \notin Int
    BY <2>3 DEF Wrong
  <2>5. k # 1
    BY <2>4, <1>15
  <2>6. k - 1 \in I /\ k - 1 \notin Wrong
    BY <2>2, <2>3, <2>4, <2>5, <1>5
  <2>7. at[k - 1] \in Int
    BY <2>6 DEF Wrong
  <2>8. at[k] = Max({wish(k), at[k - 1] + gap(k)})
    BY <2>4, <2>5, <1>14
  <2>. QED
    BY <2>4, <2>5, <2>7, <2>8, <1>7
<1>17. sorted # <<>> => at[1] = Preferred(sorted[1], 0)
  <2>1. sorted # <<>> => 1 \in I
    BY <1>1 DEF I
  <2>. QED
    BY <2>1, <1>14
<1>18. ASSUME NEW k \in 2 .. n
       PROVE  /\ at[k - 1] + gap(k) \in Int
              /\ at[k] = IF wish(k) < at[k - 1] + gap(k) THEN at[k - 1] + gap(k) ELSE wish(k)
  <2>1. k \in I /\ k # 1
    BY <1>1 DEF I
  <2>2. at[k - 1] \in Int /\ gap(k) \in Int
    BY <2>1, <1>5, <1>16
  <2>3. at[k] = Max({wish(k), at[k - 1] + gap(k)})
    BY <2>1, <1>14
  <2>. QED
    BY <2>1, <2>2, <2>3, <1>7 DEF step
<1>. QED
  BY <1>4, <1>16, <1>17, <1>18 DEF at, I, n, wish, gap

\* The neighbours of a node are nodes, one per edge.
LEMMA NeighborsTyped ==
    ASSUME GraphInv, AllGood, NEW v \in Nodes, NEW nbs,
           nbs = AllNeighbors(v) \/ \E useUp \in BOOLEAN : nbs = Neighbors(v, useUp)
    PROVE  /\ DOMAIN nbs \subseteq 1 .. Len(edges) /\ Len(edges) \in Nat
           /\ IsFiniteSet(DOMAIN nbs) /\ Cardinality(DOMAIN nbs) \in Nat
           /\ DOMAIN nbs # {} => Cardinality(DOMAIN nbs) # 0
           /\ \A i \in DOMAIN nbs : nbs[i] \in Nodes
<1>1. edges \in Seq(Edge) /\ Len(edges) \in Nat /\ DOMAIN edges = 1 .. Len(edges)
  BY DEF GraphInv
<1>2. \A i \in DOMAIN edges : edges[i].from \in Nodes /\ edges[i].to \in Nodes
  BY DEF AllGood, Good, Found
<1>3. DOMAIN nbs \subseteq DOMAIN edges
  <2>1. DOMAIN AllNeighbors(v) \subseteq DOMAIN edges
    BY DEF AllNeighbors
  <2>2. \A useUp \in BOOLEAN : DOMAIN Neighbors(v, useUp) \subseteq DOMAIN edges
    BY DEF Neighbors
  <2>. QED
    BY <2>1, <2>2
<1>4. ASSUME NEW i \in DOMAIN nbs
      PROVE  nbs[i] \in Nodes
  <2>1. CASE nbs = AllNeighbors(v)
    BY <2>1, <1>2, <1>3 DEF AllNeighbors
  <2>2. ASSUME NEW useUp \in BOOLEAN, nbs = Neighbors(v, useUp)
        PROVE  nbs[i] \in Nodes
    BY <2>2, <1>2, <1>3 DEF Neighbors
  <2>. QED
    BY <2>1, <2>2
<1>5. IsFiniteSet(1 .. Len(edges))
  BY <1>1, FS_Interval
<1>6. IsFiniteSet(DOMAIN nbs)
  BY <1>1, <1>3, <1>5, FS_Subset
<1>. QED
  BY <1>1, <1>3, <1>4, <1>6, FS_CardinalityType, FS_EmptySet

\* A quotient of integers is one.
LEMMA QuotientTyped ==
    ASSUME NEW a \in Int, NEW b \in Nat \ {0}
    PROVE  a \div b \in Int
  BY Z3

\* Their coordinates have a sum.
LEMMA SumTyped ==
    ASSUME GraphInv, AllGood, NEW v \in Nodes, NEW f \in [Nodes -> Int], NEW nbs,
           nbs = AllNeighbors(v) \/ \E useUp \in BOOLEAN : nbs = Neighbors(v, useUp)
    PROVE  SumOf(f, nbs) \in Int
<1>. DEFINE D == DOMAIN nbs
            fun == [i \in D |-> f[nbs[i]]]
<1>1. IsFiniteSet(D) /\ \A i \in D : nbs[i] \in Nodes
  BY NeighborsTyped
<1>2. \A i \in D : fun[i] \in Int
  BY <1>1
<1>3. SumOf(f, nbs) = SumFunctionOnSet(fun, D)
  BY DEF SumOf, SumFunction
<1>. HIDE DEF fun, D
<1>. QED
  BY <1>1, <1>2, <1>3, SumIsNumber

\* And a mean.
LEMMA MeanTyped ==
    ASSUME GraphInv, AllGood, NEW f \in [Nodes -> Int], NEW useUp \in BOOLEAN, NEW v \in Nodes,
           DOMAIN Neighbors(v, useUp) # {}
    PROVE  SumOf(f, Neighbors(v, useUp)) \div Cardinality(DOMAIN Neighbors(v, useUp)) \in Int
<1>1. SumOf(f, Neighbors(v, useUp)) \in Int
  BY SumTyped
<1>2. Cardinality(DOMAIN Neighbors(v, useUp)) \in Nat \ {0}
  BY NeighborsTyped
<1>. QED
  BY <1>1, <1>2, QuotientTyped

\* What an alignment gives the nodes of a layer, from either side.
LEMMA LinedAt ==
    ASSUME GraphInv, AllGood, NEW f \in [Nodes -> Int], NEW nodes \in Seq(Nodes),
           NEW useUp \in BOOLEAN, NEW sign \in {1, -1}
    PROVE  LET at == Lined(f, nodes, useUp, sign) IN
           /\ at \in [1 .. Len(nodes) -> Int]
           /\ \A k \in 2 .. Len(nodes) :
                 LET gap == Distance(nodes[k - 1], nodes[k]) IN
                 IF sign = 1 THEN at[k] >= at[k - 1] + gap ELSE at[k] <= at[k - 1] - gap
<1>. DEFINE n == Len(nodes)
            I == 1 .. n
            mean(v) == SumOf(f, Neighbors(v, useUp)) \div Cardinality(DOMAIN Neighbors(v, useUp))
            alone(v) == DOMAIN Neighbors(v, useUp) = {}
            wish(v, bound) == IF alone(v) THEN bound ELSE mean(v)
            gap(k) == Distance(nodes[k - 1], nodes[k])
            bound(k, u) == u + sign * gap(k)
            step(k, u) == LET b == bound(k, u)
                              w == wish(nodes[k], b)
                          IN IF sign * w > sign * b THEN w ELSE b
            s == IF nodes = <<>> THEN 0 ELSE wish(nodes[1], Across(nodes[1]))
            g == [ku \in I \X Int |-> IF ku[1] = 1 THEN 0 ELSE step(ku[1], ku[2])]
            IsAt(h) == h = [k \in I |-> IF k = 1 THEN wish(nodes[1], Across(nodes[1])) ELSE step(k, h[k - 1])]
<1>1. n \in Nat /\ DOMAIN nodes = I
  OBVIOUS
<1>2. \A k \in I : nodes[k] \in Nodes
  OBVIOUS
<1>3. \A v \in Nodes : ~alone(v) => mean(v) \in Int
  BY MeanTyped
<1>4. ASSUME NEW k \in I, k # 1
      PROVE  k - 1 \in I /\ gap(k) \in Nat
  <2>1. k - 1 \in I
    BY <1>1, <1>4
  <2>. QED
    BY <2>1, <1>2, Distances
<1>5. s \in Int
  <2>. SUFFICES ASSUME nodes # <<>> PROVE wish(nodes[1], Across(nodes[1])) \in Int
    OBVIOUS
  <2>1. nodes[1] \in Nodes
    OBVIOUS
  <2>2. Across(nodes[1]) \in Int
    BY <2>1, Halves
  <2>. HIDE DEF mean, alone
  <2>. QED
    BY <2>1, <2>2, <1>3
<1>. HIDE DEF mean, alone, I, n, gap
<1>6. ASSUME NEW k \in I, k # 1, NEW u \in Int
      PROVE  /\ step(k, u) \in Int
             /\ IF sign = 1 THEN step(k, u) >= u + gap(k) ELSE step(k, u) <= u - gap(k)
  <2>. DEFINE b == bound(k, u)
              w == wish(nodes[k], b)
  <2>1. gap(k) \in Int
    BY <1>4, <1>6
  <2>2. CASE sign = 1
    <3>1. b = u + gap(k) /\ b \in Int
      BY <2>1, <2>2
    <3>. HIDE DEF b
    <3>2. w \in Int
      BY <3>1, <1>2, <1>3
    <3>. HIDE DEF w
    <3>3. step(k, u) = IF w > b THEN w ELSE b
      <4>1. step(k, u) = IF sign * w > sign * b THEN w ELSE b
        BY DEF b, w
      <4>2. sign * w = w /\ sign * b = b
        BY <2>2, <3>1, <3>2
      <4>. HIDE DEF step
      <4>. QED
        BY <4>1, <4>2
    <3>. HIDE DEF step
    <3>. QED
      BY <3>1, <3>2, <3>3, <2>1, <2>2
  <2>3. CASE sign = -1
    <3>1. b = u - gap(k) /\ b \in Int
      BY <2>1, <2>3
    <3>. HIDE DEF b
    <3>2. w \in Int
      BY <3>1, <1>2, <1>3
    <3>. HIDE DEF w
    <3>3. step(k, u) = IF w < b THEN w ELSE b
      <4>1. step(k, u) = IF sign * w > sign * b THEN w ELSE b
        BY DEF b, w
      <4>2. sign * w = -w /\ sign * b = -b
        BY <2>3, <3>1, <3>2
      <4>. HIDE DEF step
      <4>. QED
        BY <4>1, <4>2, <3>1, <3>2
    <3>. HIDE DEF step
    <3>. QED
      BY <3>1, <3>2, <3>3, <2>1, <2>3
  <2>. QED
    BY <2>2, <2>3
<1>. HIDE DEF step, s, wish
<1>7. \A k \in I : \A u \in Int : g[<<k, u>>] \in Int /\ (k # 1 => g[<<k, u>>] = step(k, u))
  <2>. TAKE k \in I
  <2>. TAKE u \in Int
  <2>1. g[<<k, u>>] = IF k = 1 THEN 0 ELSE step(k, u)
    OBVIOUS
  <2>. HIDE DEF g
  <2>. QED
    BY <2>1, <1>6
<1>. HIDE DEF g
<1>8. ASSUME NEW k \in I
      PROVE  nodes # <<>>
  BY <1>1
<1>9. ASSUME NEW h, Chained(h, n, s, g)
      PROVE  IsAt(h)
  <2>1. h \in [I -> Int]
    <3>1. \A k \in 1 .. n : \A u \in Int : g[<<k, u>>] \in Int
      BY <1>7 DEF I
    <3>2. h \in [1 .. n -> Int]
      BY <3>1, <1>1, <1>5, <1>9, ChainedTyped
    <3>. QED
      BY <3>2 DEF I
  <2>2. h = [k \in I |-> IF k = 1 THEN s ELSE g[<<k, h[k - 1]>>]]
    BY <1>9 DEF Chained, I
  <2>3. ASSUME NEW k \in I
        PROVE  h[k] = IF k = 1 THEN wish(nodes[1], Across(nodes[1])) ELSE step(k, h[k - 1])
    <3>1. CASE k = 1
      BY <3>1, <2>2, <1>8 DEF s
    <3>2. CASE k # 1
      <4>1. h[k - 1] \in Int
        BY <2>1, <3>2, <1>4
      <4>2. h[k] = g[<<k, h[k - 1]>>]
        BY <2>2, <3>2
      <4>. QED
        BY <4>1, <4>2, <3>2, <1>7
    <3>. QED
      BY <3>1, <3>2
  <2>. QED
    BY <2>1, <2>3
<1>10. \E h : IsAt(h)
  <2>1. n \in Nat
    BY <1>1
  <2>2. PICK h : Chained(h, n, s, g)
    BY <2>1, ChainedExists
  <2>. QED
    BY <2>2, <1>9
<1>11. Lined(f, nodes, useUp, sign) = CHOOSE h : IsAt(h)
  BY <1>1 DEF Lined, step, wish, gap, mean, alone
<1>. DEFINE at == Lined(f, nodes, useUp, sign)
<1>12. IsAt(at)
  BY <1>10, <1>11
<1>. HIDE DEF at
<1>13. at[1] \in Int \/ I = {}
  <2>1. I # {} => 1 \in I
    BY <1>1 DEF I
  <2>. QED
    BY <2>1, <1>12, <1>8, <1>5 DEF s
<1>14. at \in [I -> Int]
  <2>1. at = [k \in I |-> at[k]]
    BY <1>12
  <2>. DEFINE Wrong == {k \in I : at[k] \notin Int}
  <2>. SUFFICES ASSUME Wrong # {} PROVE FALSE
    BY <2>1
  <2>2. Wrong \in SUBSET Nat
    BY <1>1 DEF I
  <2>. HIDE DEF Wrong
  <2>3. PICK k \in Wrong : \A m \in Wrong : k <= m
    BY <2>2, LeastNatural
  <2>4. k \in I /\ at[k] \notin Int
    BY <2>3 DEF Wrong
  <2>5. k # 1
    BY <2>4, <1>13
  <2>6. k - 1 \in I /\ k - 1 \notin Wrong
    BY <2>2, <2>3, <2>4, <2>5, <1>4
  <2>7. at[k - 1] \in Int
    BY <2>6 DEF Wrong
  <2>8. at[k] = step(k, at[k - 1])
    BY <2>4, <2>5, <1>12
  <2>. QED
    BY <2>4, <2>5, <2>7, <2>8, <1>6
<1>15. ASSUME NEW k \in 2 .. n
       PROVE  IF sign = 1 THEN at[k] >= at[k - 1] + gap(k) ELSE at[k] <= at[k - 1] - gap(k)
  <2>1. k \in I /\ k # 1
    BY <1>1 DEF I
  <2>2. at[k - 1] \in Int
    BY <2>1, <1>4, <1>14
  <2>3. at[k] = step(k, at[k - 1])
    BY <2>1, <1>12
  <2>. QED
    BY <2>1, <2>2, <2>3, <1>6
<1>. QED
  BY <1>14, <1>15 DEF at, I, n, gap

\* The median of the neighbours' coordinates is the coordinate of one of them.
LEMMA MedianIsOneOf ==
    ASSUME GraphInv, AllGood, x \in [Nodes -> Int], NEW v \in Nodes, NEW useUp \in BOOLEAN,
           DOMAIN Neighbors(v, useUp) # {}
    PROVE  \E u \in Nodes : MedianOf(Neighbors(v, useUp)) = x[u]
<1>. DEFINE nbs == Neighbors(v, useUp)
            D == DOMAIN nbs
            c == Cardinality(D)
            listed == Picked(nbs, D)
            xs == [k \in DOMAIN listed |-> x[listed[k]]]
            r == StableSort(xs, xs, <)
            m == c \div 2 + 1
<1>1. /\ D \subseteq 1 .. Len(edges) /\ Len(edges) \in Nat /\ c \in Nat /\ c # 0
      /\ \A i \in D : nbs[i] \in Nodes
  BY NeighborsTyped
<1>. HIDE DEF nbs, D
<1>2. listed = [k \in 1 .. c |-> nbs[InIdOrder(D)[k]]] /\ \A k \in 1 .. c : InIdOrder(D)[k] \in D
  <2>. DEFINE e == Len(edges)
  <2>1. e \in Nat /\ D \in SUBSET (1 .. e)
    BY <1>1
  <2>. HIDE DEF e, c, listed, xs, r, m
  <2>2. /\ Picked(nbs, D) = [k \in 1 .. Cardinality(D) |-> nbs[InIdOrder(D)[k]]]
        /\ \A k \in 1 .. Cardinality(D) : InIdOrder(D)[k] \in D
    BY <2>1, PickedAt, ZenonT(60)
  <2>. QED
    BY <2>2 DEF c, listed
<1>3. \A k \in 1 .. c : listed[k] \in Nodes
  BY <1>1, <1>2
<1>4. DOMAIN listed = 1 .. c
  BY <1>2
<1>. HIDE DEF c, listed
<1>5. xs \in [1 .. c -> Int] /\ \A k \in 1 .. c : \E u \in Nodes : xs[k] = x[u]
  BY <1>3, <1>4
<1>6. DOMAIN xs = 1 .. c
  BY <1>5
<1>. HIDE DEF xs
<1>7. PICK from : Rearranges(from, r, xs, c)
  BY <1>1, <1>5, <1>6, SortedByNumber
<1>8. Len(xs) = c
  BY <1>1, <1>6
<1>9. m \in 1 .. c
  BY <1>1
<1>. HIDE DEF m
<1>10. r[m] = xs[from[m]] /\ from[m] \in 1 .. c
  BY <1>7, <1>9 DEF Rearranges
<1>11. MedianOf(nbs) = r[m]
  BY <1>8 DEF MedianOf, xs, listed, m, D
<1>. HIDE DEF r
<1>. QED
  BY <1>5, <1>10, <1>11 DEF nbs

-----------------------------------------------------------------------------
(* The blocks of the regression.                                            *)

\* Values that get one mean.
Block == [sum : Int, count : Nat \ {0}]

\* Blocks whose means do not fall.
RisingBlocks(bs) == bs \in Seq(Block) /\ \A b \in 1 .. Len(bs) - 1 : ~Above(bs[b], bs[b + 1])

\* end[b] values are in the first b blocks.
EndsAt(end, bs) ==
    /\ end \in [0 .. Len(bs) -> Nat] /\ end[0] = 0
    /\ \A b \in 1 .. Len(bs) : end[b] = end[b - 1] + bs[b].count

\* A number that is not greater stays so when both are taken c times, and the
\* other way round.
LEMMA Scaled ==
    ASSUME NEW p \in Int, NEW q \in Int, NEW c \in Nat
    PROVE  /\ p <= q => p * c <= q * c
           /\ c # 0 /\ p * c <= q * c => p <= q
<1>1. ASSUME p <= q PROVE p * c <= q * c
  BY <1>1, Z3
<1>2. ASSUME c # 0, p * c <= q * c PROVE p <= q
  <2>1. SUFFICES ASSUME q + 1 <= p PROVE FALSE
    OBVIOUS
  <2>2. (q + 1) * c <= p * c
    BY <2>1, Z3
  <2>3. (q + 1) * c = q * c + c /\ q * c \in Int /\ p * c \in Int
    BY Z3
  <2>. QED
    BY <1>2, <2>2, <2>3
<1>. QED
  BY <1>1, <1>2

\* The mean of a is at most that of b.
LEMMA NotAbove ==
    ASSUME NEW a \in Block, NEW b \in Block
    PROVE  ~Above(a, b) <=> a.sum * b.count <= b.sum * a.count
<1>1. a.sum * b.count \in Int /\ b.sum * a.count \in Int
  BY DEF Block
<1>. QED
  BY <1>1 DEF Above

LEMMA MeansInOrder ==
    ASSUME NEW a \in Block, NEW b \in Block, NEW c \in Block, ~Above(a, b), ~Above(b, c)
    PROVE  ~Above(a, c)
<1>. DEFINE p == a.sum
            q == a.count
            r == b.sum
            s == b.count
            k == c.sum
            l == c.count
<1>1. p \in Int /\ r \in Int /\ k \in Int /\ q \in Nat \ {0} /\ s \in Nat \ {0} /\ l \in Nat \ {0}
  BY DEF Block
<1>2. p * s <= r * q /\ r * l <= k * s
  BY NotAbove
<1>3. p * l <= k * q => ~Above(a, c)
  BY NotAbove
<1>. HIDE DEF p, q, r, s, k, l
<1>4. p * s \in Int /\ r * q \in Int /\ r * l \in Int /\ k * s \in Int /\ p * l \in Int /\ k * q \in Int
  BY <1>1
<1>5. (p * s) * l <= (r * q) * l /\ (r * l) * q <= (k * s) * q
  BY <1>1, <1>2, <1>4, Scaled
<1>6. (p * s) * l = (p * l) * s /\ (r * q) * l = (r * l) * q /\ (k * s) * q = (k * q) * s
  BY <1>1, Z3
<1>7. (p * l) * s \in Int /\ (r * l) * q \in Int /\ (k * q) * s \in Int
  BY <1>1
<1>8. (p * l) * s <= (k * q) * s
  BY <1>5, <1>6, <1>7
<1>. QED
  BY <1>1, <1>3, <1>4, <1>8, Scaled

\* The mean of two blocks is between theirs.
LEMMA MergedBetween ==
    ASSUME NEW a \in Block, NEW b \in Block, Above(a, b)
    PROVE  /\ Merged(a, b) \in Block
           /\ ~Above(Merged(a, b), a) /\ ~Above(b, Merged(a, b))
<1>. DEFINE p == a.sum
            q == a.count
            r == b.sum
            s == b.count
            u == Merged(a, b)
<1>1. p \in Int /\ r \in Int /\ q \in Nat \ {0} /\ s \in Nat \ {0}
  BY DEF Block
<1>2. u \in Block /\ u.sum = p + r /\ u.count = q + s
  BY <1>1 DEF Block, Merged
<1>3. p * s > r * q
  BY DEF Above
<1>4. u.sum * q <= p * u.count => ~Above(u, a)
  BY <1>2, NotAbove
<1>5. r * u.count <= u.sum * s => ~Above(b, u)
  BY <1>2, NotAbove
<1>. HIDE DEF p, q, r, s, u
<1>6. /\ (p + r) * q = p * q + r * q /\ p * (q + s) = p * q + p * s
      /\ r * (q + s) = r * q + r * s /\ (p + r) * s = p * s + r * s
  BY <1>1, Z3
<1>7. p * q \in Int /\ p * s \in Int /\ r * q \in Int /\ r * s \in Int
  BY <1>1
<1>8. (p + r) * q <= p * (q + s) /\ r * (q + s) <= (p + r) * s
  BY <1>3, <1>6, <1>7
<1>. QED
  BY <1>2, <1>4, <1>5, <1>8 DEF u

\* A point that is w places further and d higher is not below the line that rises
\* by the mean of block a at each place.
NotBelow(d, w, a) == d * a.count >= a.sum * w

\* It is not below a flatter line before it or a steeper one after it.
LEMMA Tilted ==
    ASSUME NEW a \in Block, NEW b \in Block, NEW d \in Int, NEW w \in Int, NotBelow(d, w, a),
           (w >= 0 /\ ~Above(b, a)) \/ (w <= 0 /\ ~Above(a, b))
    PROVE  NotBelow(d, w, b)
<1>. DEFINE p == a.sum
            q == a.count
            r == b.sum
            s == b.count
<1>1. p \in Int /\ r \in Int /\ q \in Nat \ {0} /\ s \in Nat \ {0}
  BY DEF Block
<1>2. d * q >= p * w
  BY DEF NotBelow
<1>3. (w >= 0 /\ r * q <= p * s) \/ (w <= 0 /\ p * s <= r * q)
  BY NotAbove
<1>4. d * s >= r * w => NotBelow(d, w, b)
  BY DEF NotBelow
<1>. HIDE DEF p, q, r, s
<1>5. /\ d * q \in Int /\ p * w \in Int /\ r * q \in Int /\ p * s \in Int
      /\ d * s \in Int /\ r * w \in Int
  BY <1>1
<1>6. (r * q) * w <= (p * s) * w
  <2>1. CASE w > 0
    <3>1. w \in Nat /\ r * q <= p * s
      BY <2>1, <1>3, <1>5
    <3>. QED
      BY <3>1, <1>5, Scaled
  <2>2. CASE w < 0
    <3>1. 0 - w \in Nat /\ p * s <= r * q
      BY <2>2, <1>3, <1>5
    <3>2. (p * s) * (0 - w) <= (r * q) * (0 - w)
      BY <3>1, <1>5, Scaled
    <3>. DEFINE k == p * s
                l == r * q
    <3>3. k \in Int /\ l \in Int
      BY <1>5
    <3>4. k * (0 - w) <= l * (0 - w)
      BY <3>2
    <3>. HIDE DEF k, l
    <3>5. k * (0 - w) = 0 - k * w /\ l * (0 - w) = 0 - l * w /\ k * w \in Int /\ l * w \in Int
      BY <3>3, Z3
    <3>6. l * w <= k * w
      BY <3>4, <3>5
    <3>. QED
      BY <3>6 DEF k, l
  <2>3. CASE w = 0
    <3>1. (r * q) * 0 = 0 /\ (p * s) * 0 = 0
      BY <1>5
    <3>. QED
      BY <2>3, <3>1
  <2>. QED
    BY <2>1, <2>2, <2>3
<1>7. (p * w) * s <= (d * q) * s
  BY <1>1, <1>2, <1>5, Scaled
<1>8. (p * w) * s = (p * s) * w /\ (d * q) * s = (d * s) * q /\ (r * q) * w = (r * w) * q
  BY <1>1, Z3
<1>9. (p * s) * w \in Int /\ (d * s) * q \in Int /\ (r * w) * q \in Int
  BY <1>1
<1>. DEFINE left == (r * w) * q
            middle == (p * s) * w
            right == (d * s) * q
<1>a. left <= middle /\ middle <= right /\ left \in Int /\ middle \in Int /\ right \in Int
  BY <1>6, <1>7, <1>8, <1>9
<1>. HIDE DEF left, middle, right
<1>b. left <= right
  BY <1>a
<1>10. (r * w) * q <= (d * s) * q
  BY <1>b DEF left, right
<1>. QED
  BY <1>1, <1>4, <1>5, <1>10, Scaled

\* The line of a block passes through both its ends.
LEMMA OtherEnd ==
    ASSUME NEW a \in Block, NEW d \in Int, NEW w \in Int
    PROVE  NotBelow(d, w, a) <=> NotBelow(d - a.sum, w - a.count, a)
<1>. DEFINE p == a.sum
            q == a.count
<1>1. p \in Int /\ q \in Nat
  BY DEF Block
<1>2. /\ NotBelow(d, w, a) <=> d * q >= p * w
      /\ NotBelow(d - p, w - q, a) <=> (d - p) * q >= p * (w - q)
  BY DEF NotBelow
<1>. HIDE DEF p, q
<1>3. (d - p) * q = d * q - p * q /\ p * (w - q) = p * w - p * q
  BY <1>1, Z3
<1>4. d * q \in Int /\ p * q \in Int /\ p * w \in Int
  BY <1>1
<1>. QED
  BY <1>2, <1>3, <1>4 DEF p, q

\* What pushing v does: it takes in the last t blocks, one after the other, each
\* of which is above what has been taken in before it.
Takes(bs, v, t, taking) ==
    LET n == Len(bs) IN
    /\ t \in 0 .. n /\ taking \in [0 .. n -> Block]
    /\ taking[0] = [sum |-> v, count |-> 1]
    /\ \A k \in 1 .. n : taking[k] = Merged(bs[n - k + 1], taking[k - 1])
    /\ t = n \/ ~Above(bs[n - t], taking[t])
    /\ \A k \in 1 .. t : Above(bs[n - k + 1], taking[k - 1])

LEMMA PushedAt ==
    ASSUME NEW bs \in Seq(Block), NEW v \in Int
    PROVE  \E t, taking :
              /\ Takes(bs, v, t, taking)
              /\ Pushed(bs, v) \in Seq(Block) /\ Len(Pushed(bs, v)) = Len(bs) - t + 1
              /\ \A b \in 1 .. Len(bs) - t : Pushed(bs, v)[b] = bs[b]
              /\ Pushed(bs, v)[Len(bs) - t + 1] = taking[t]
<1>. DEFINE n == Len(bs)
            I == 0 .. n
            one == [sum |-> v, count |-> 1]
            g == [ku \in (1 .. n) \X Block |-> Merged(bs[n - ku[1] + 1], ku[2])]
            IsTaking(f) == f = [k \in I |-> IF k = 0 THEN one ELSE Merged(bs[n - k + 1], f[k - 1])]
            taking == CHOOSE f : IsTaking(f)
            Stops == {k \in I : k = n \/ ~Above(bs[n - k], taking[k])}
            t == Min(Stops)
            rest == SubSeq(bs, 1, n - t)
<1>1. bs \in Seq(Block) /\ n \in Nat /\ DOMAIN bs = 1 .. n
  OBVIOUS
<1>3. one \in Block
  BY DEF Block
<1>4. \A k \in 1 .. n : n - k + 1 \in 1 .. n /\ bs[n - k + 1] \in Block
  <2>. TAKE k \in 1 .. n
  <2>1. n - k + 1 \in 1 .. n
    BY <1>1
  <2>. QED
    BY <2>1, <1>1
<1>5. \A a, b \in Block : Merged(a, b) \in Block
  BY DEF Block, Merged
<1>. HIDE DEF n, one
<1>6. \A k \in 1 .. n : \A u \in Block : g[<<k, u>>] = Merged(bs[n - k + 1], u) /\ g[<<k, u>>] \in Block
  <2>. TAKE k \in 1 .. n
  <2>. TAKE u \in Block
  <2>1. g[<<k, u>>] = Merged(bs[n - k + 1], u)
    OBVIOUS
  <2>. HIDE DEF g
  <2>. QED
    BY <2>1, <1>4, <1>5
<1>. HIDE DEF g
<1>7. /\ \E f : ChainedFromZero(f, n, one, g)
      /\ \A f : ChainedFromZero(f, n, one, g) => f \in [I -> Block]
  <2>1. \A k \in 1 .. n : \A u \in Block : g[<<k, u>>] \in Block
    BY <1>6
  <2>. QED
    BY <2>1, <1>1, <1>3, ChainedFromZeroExists
<1>8. ASSUME NEW f, ChainedFromZero(f, n, one, g)
      PROVE  IsTaking(f) /\ f \in [I -> Block]
  <2>1. f \in [I -> Block]
    BY <1>7, <1>8
  <2>2. f = [k \in I |-> IF k = 0 THEN one ELSE g[<<k, f[k - 1]>>]]
    BY <1>8 DEF ChainedFromZero
  <2>3. ASSUME NEW k \in I
        PROVE  f[k] = IF k = 0 THEN one ELSE Merged(bs[n - k + 1], f[k - 1])
    <3>1. CASE k = 0
      BY <3>1, <2>2
    <3>2. CASE k # 0
      <4>1. k - 1 \in I /\ k \in 1 .. n
        BY <3>2, <1>1
      <4>2. f[k - 1] \in Block /\ f[k] = g[<<k, f[k - 1]>>]
        BY <4>1, <3>2, <2>1, <2>2
      <4>. QED
        BY <4>1, <4>2, <3>2, <1>6
    <3>. QED
      BY <3>1, <3>2
  <2>. QED
    BY <2>1, <2>3
<1>9. IsTaking(taking)
  BY <1>7, <1>8
<1>. HIDE DEF taking
<1>a. taking[0] = one /\ taking = [k \in I |-> taking[k]]
  <2>1. 0 \in I
    BY <1>1
  <2>. QED
    BY <2>1, <1>9
<1>b. \A k \in 1 .. n : taking[k] = Merged(bs[n - k + 1], taking[k - 1])
  <2>. TAKE k \in 1 .. n
  <2>1. k \in I /\ k # 0
    BY <1>1
  <2>. QED
    BY <2>1, <1>9
<1>10. \A k \in I : taking[k] \in Block
  <2>. DEFINE Wrong == {k \in I : taking[k] \notin Block}
  <2>. SUFFICES ASSUME Wrong # {} PROVE FALSE
    OBVIOUS
  <2>1. Wrong \in SUBSET Nat
    BY <1>1
  <2>. HIDE DEF Wrong
  <2>2. PICK k \in Wrong : \A l \in Wrong : k <= l
    BY <2>1, LeastNatural
  <2>3. k \in I /\ taking[k] \notin Block
    BY <2>2 DEF Wrong
  <2>4. k # 0
    BY <2>3, <1>3, <1>a
  <2>5. k - 1 \in I /\ ~(k <= k - 1) /\ k \in 1 .. n
    BY <2>3, <2>4, <1>1
  <2>6. taking[k - 1] \in Block
    BY <2>5, <2>2 DEF Wrong
  <2>. QED
    BY <2>3, <2>5, <2>6, <1>4, <1>5, <1>b
<1>11. /\ t \in I /\ (t = n \/ ~Above(bs[n - t], taking[t]))
       /\ \A k \in I : k < t => Above(bs[n - k], taking[k])
  <2>1. Stops \subseteq I /\ n \in Stops
    BY <1>1
  <2>2. IsFiniteSet(I)
    BY <1>1, FS_Interval
  <2>3. IsFiniteSet(Stops) /\ (\A b \in Stops : b \in Int) /\ Stops # {}
    <3>1. IsFiniteSet(Stops)
      BY <2>1, <2>2, FS_Subset
    <3>2. \A b \in Stops : b \in Int
      BY <2>1, <1>1
    <3>. QED
      BY <3>1, <3>2, <2>1
  <2>4. t \in Stops /\ \A b \in Stops : t <= b
    <3>. HIDE DEF Stops
    <3>. QED
      BY <2>3, LeastOfFinite
  <2>5. t \in I
    BY <2>4
  <2>6. \A k \in I : k < t => k \notin Stops
    <3>. HIDE DEF Stops, t
    <3>1. \A k \in I : k < t => ~(t <= k)
      BY <2>5, <1>1
    <3>. QED
      BY <3>1, <2>4
  <2>. QED
    BY <2>4, <2>6
<1>12. Pushed(bs, v) = Append(rest, taking[t])
  BY DEF Pushed, n, one, taking
<1>. HIDE DEF t, Stops
<1>13. /\ n - t \in Nat /\ n - t <= n /\ rest \in Seq(Block) /\ Len(rest) = n - t
       /\ \A b \in 1 .. n - t : rest[b] = bs[b]
  <2>1. n - t \in Nat /\ n - t <= n
    BY <1>1, <1>11
  <2>. QED
    BY <2>1, <1>1 DEF n
<1>. DEFINE new == Append(rest, taking[t])
            l == n - t
<1>14. taking[t] \in Block
  BY <1>10, <1>11
<1>15. /\ new \in Seq(Block) /\ Len(new) = l + 1 /\ new[l + 1] = taking[t]
       /\ \A b \in 1 .. l : new[b] = bs[b]
  <2>1. \A b \in 1 .. l : new[b] = rest[b]
    BY <1>13
  <2>. QED
    BY <2>1, <1>13, <1>14
<1>16. \A k \in 1 .. t : Above(bs[n - k + 1], taking[k - 1])
  <2>. TAKE k \in 1 .. t
  <2>1. k - 1 \in I /\ k - 1 < t /\ n - (k - 1) = n - k + 1
    BY <1>1, <1>11
  <2>. QED
    BY <2>1, <1>11
<1>17. Takes(bs, v, t, taking)
  <2>1. taking \in [I -> Block]
    <3>. HIDE DEF I
    <3>. QED
      BY <1>a, <1>10
  <2>. QED
    BY <2>1, <1>a, <1>b, <1>11, <1>16 DEF Takes, n, one
<1>18. /\ Pushed(bs, v) \in Seq(Block) /\ Len(Pushed(bs, v)) = Len(bs) - t + 1
       /\ \A b \in 1 .. Len(bs) - t : Pushed(bs, v)[b] = bs[b]
       /\ Pushed(bs, v)[Len(bs) - t + 1] = taking[t]
  <2>. HIDE DEF new
  <2>. QED
    BY <1>12, <1>15 DEF new, n
<1>. QED
  BY <1>17, <1>18

\* Points that are not below a line add up to one.
LEMMA NotBelowAdds ==
    ASSUME NEW a \in Block, NEW d \in Int, NEW w \in Int, NEW d2 \in Int, NEW w2 \in Int,
           NotBelow(d, w, a), NotBelow(d2, w2, a)
    PROVE  NotBelow(d + d2, w + w2, a)
<1>. DEFINE p == a.sum
            q == a.count
<1>1. p \in Int /\ q \in Nat
  BY DEF Block
<1>2. d * q >= p * w /\ d2 * q >= p * w2
  BY DEF NotBelow
<1>3. (d + d2) * q >= p * (w + w2) => NotBelow(d + d2, w + w2, a)
  BY DEF NotBelow
<1>. HIDE DEF p, q
<1>4. (d + d2) * q = d * q + d2 * q /\ p * (w + w2) = p * w + p * w2
  BY <1>1, Z3
<1>5. d * q \in Int /\ d2 * q \in Int /\ p * w \in Int /\ p * w2 \in Int
  BY <1>1
<1>. QED
  BY <1>2, <1>3, <1>4, <1>5

\* The means of the blocks rise from any one to any later one.
LEMMA BlocksInOrder ==
    ASSUME NEW bs, RisingBlocks(bs), NEW c \in 1 .. Len(bs)
    PROVE  \A b \in 1 .. c : ~Above(bs[b], bs[c])
<1>. DEFINE n == Len(bs)
            Wrong == {k \in 1 .. n : \E b \in 1 .. k : Above(bs[b], bs[k])}
<1>1. n \in Nat /\ \A b \in 1 .. n : bs[b] \in Block
  BY DEF RisingBlocks
<1>2. \A b \in 1 .. n - 1 : ~Above(bs[b], bs[b + 1])
  BY DEF RisingBlocks
<1>. HIDE DEF n
<1>3. \A a \in Block : ~Above(a, a)
  <2>. TAKE a \in Block
  <2>1. a.sum * a.count \in Int
    BY DEF Block
  <2>. QED
    BY <2>1 DEF Above
<1>. SUFFICES ASSUME Wrong # {} PROVE FALSE
  BY DEF n
<1>5. Wrong \in SUBSET Nat
  BY <1>1
<1>. HIDE DEF Wrong
<1>6. PICK k \in Wrong : \A l \in Wrong : k <= l
  BY <1>5, LeastNatural
<1>7. k \in 1 .. n /\ \E b \in 1 .. k : Above(bs[b], bs[k])
  BY <1>6 DEF Wrong
<1>8. PICK b \in 1 .. k : Above(bs[b], bs[k])
  BY <1>7
<1>9. b # k
  BY <1>1, <1>3, <1>7, <1>8
<1>10. k - 1 \in 1 .. n /\ ~(k <= k - 1) /\ b \in 1 .. k - 1 /\ b \in 1 .. n /\ k - 1 \in 1 .. n - 1 /\ (k - 1) + 1 = k
  BY <1>1, <1>7, <1>8, <1>9
<1>11. ~Above(bs[b], bs[k - 1])
  BY <1>6, <1>10 DEF Wrong
<1>12. ~Above(bs[k - 1], bs[k])
  BY <1>2, <1>10
<1>. QED
  BY <1>1, <1>7, <1>8, <1>10, <1>11, <1>12, MeansInOrder

\* Blocks end one after the other.
LEMMA EndsGrow ==
    ASSUME NEW bs \in Seq(Block), NEW end, EndsAt(end, bs), NEW c \in 0 .. Len(bs)
    PROVE  \A b \in 0 .. c : end[b] <= end[c]
<1>. DEFINE n == Len(bs)
            Wrong == {k \in 0 .. n : \E b \in 0 .. k : ~(end[b] <= end[k])}
<1>1. n \in Nat /\ \A b \in 1 .. n : bs[b].count \in Nat
  <2>1. n \in Nat /\ \A b \in 1 .. n : bs[b] \in Block
    OBVIOUS
  <2>. QED
    BY <2>1 DEF Block
<1>2. (\A b \in 0 .. n : end[b] \in Nat) /\ \A b \in 1 .. n : end[b] = end[b - 1] + bs[b].count
  BY DEF EndsAt
<1>. HIDE DEF n
<1>. SUFFICES ASSUME Wrong # {} PROVE FALSE
  BY DEF n
<1>4. Wrong \in SUBSET Nat
  BY <1>1
<1>. HIDE DEF Wrong
<1>5. PICK k \in Wrong : \A l \in Wrong : k <= l
  BY <1>4, LeastNatural
<1>6. k \in 0 .. n /\ \E b \in 0 .. k : ~(end[b] <= end[k])
  BY <1>5 DEF Wrong
<1>7. PICK b \in 0 .. k : ~(end[b] <= end[k])
  BY <1>6
<1>8. b # k
  BY <1>2, <1>6, <1>7
<1>9. k \in 1 .. n /\ k - 1 \in 0 .. n /\ ~(k <= k - 1) /\ b \in 0 .. k - 1 /\ b \in 0 .. n
  BY <1>1, <1>6, <1>7, <1>8
<1>10. end[b] <= end[k - 1]
  BY <1>5, <1>9 DEF Wrong
<1>11. /\ end[k] = end[k - 1] + bs[k].count /\ bs[k].count \in Nat
       /\ end[b] \in Nat /\ end[k - 1] \in Nat /\ end[k] \in Nat
  BY <1>1, <1>2, <1>6, <1>9
<1>12. end[k - 1] <= end[k]
  BY <1>11
<1>13. end[b] <= end[k]
  BY <1>10, <1>11, <1>12
<1>. QED
  BY <1>7, <1>13

\* The first m values are in the blocks. P counts them up: P[i] is the sum of the
\* first i. No P[i] is below the line that P follows from one end of a block to the
\* other, wherever i is.
Fits(bs, P, m, end) ==
    /\ EndsAt(end, bs) /\ end[Len(bs)] = m
    /\ \A b \in 1 .. Len(bs) : P[end[b]] = P[end[b - 1]] + bs[b].sum
    /\ \A b \in 1 .. Len(bs) : \A i \in 0 .. m :
          NotBelow(P[i] - P[end[b - 1]], i - end[b - 1], bs[b])

\* What is taken in so far, from the end of a block to the new value, is a block
\* whose line P keeps to.
LEMMA TakenFits ==
    ASSUME NEW bs \in Seq(Block), NEW N \in Nat, NEW P \in [0 .. N -> Int],
           NEW m \in Nat, m + 1 <= N, NEW end, Fits(bs, P, m, end),
           NEW t, NEW taking, Takes(bs, P[m + 1] - P[m], t, taking)
    PROVE  /\ \A k \in 0 .. Len(bs) :
                 /\ end[Len(bs) - k] \in 0 .. m /\ taking[k] \in Block
                 /\ taking[k].count = m + 1 - end[Len(bs) - k]
                 /\ taking[k].sum = P[m + 1] - P[end[Len(bs) - k]]
           /\ \A k \in 0 .. t : \A i \in end[Len(bs) - k] .. m + 1 :
                 NotBelow(P[i] - P[end[Len(bs) - k]], i - end[Len(bs) - k], taking[k])
<1>. DEFINE n == Len(bs)
            o(k) == end[n - k]
            Right(k) == /\ taking[k].count = m + 1 - o(k)
                        /\ taking[k].sum = P[m + 1] - P[o(k)]
            Over(k) == \A i \in o(k) .. m + 1 : NotBelow(P[i] - P[o(k)], i - o(k), taking[k])
            Wrong == {k \in 0 .. n : ~(Right(k) /\ (k <= t => Over(k)))}
<1>1. n \in Nat /\ t \in 0 .. n /\ \A b \in 1 .. n : bs[b] \in Block
  BY DEF Takes
<1>2. \A b \in 0 .. n : end[b] \in 0 .. m
  <2>. TAKE b \in 0 .. n
  <2>1. EndsAt(end, bs) /\ end[n] = m /\ end[b] \in Nat
    BY DEF Fits, EndsAt
  <2>2. n \in 0 .. n
    BY <1>1
  <2>3. end[b] <= end[n]
    BY <2>1, <2>2, EndsGrow
  <2>. QED
    BY <2>1, <2>3
<1>3. \A k \in 0 .. n : taking[k] \in Block
  BY DEF Takes
<1>4. \A k \in 0 .. n : o(k) \in 0 .. m
  <2>. TAKE k \in 0 .. n
  <2>1. n - k \in 0 .. n
    BY <1>1
  <2>. QED
    BY <2>1, <1>2
<1>5. \A i \in 0 .. m + 1 : i \in 0 .. N /\ P[i] \in Int
  OBVIOUS
<1>6. ASSUME NEW k \in 1 .. n
      PROVE  LET a == bs[n - k + 1] IN
             /\ a \in Block /\ taking[k] = Merged(a, taking[k - 1])
             /\ k - 1 \in 0 .. n
             /\ o(k - 1) = o(k) + a.count /\ P[o(k - 1)] = P[o(k)] + a.sum
             /\ \A i \in 0 .. m : NotBelow(P[i] - P[o(k)], i - o(k), a)
             /\ k <= t => Above(a, taking[k - 1])
  <2>. DEFINE b == n - k + 1
  <2>1. b \in 1 .. n /\ b - 1 = n - k /\ n - (k - 1) = b /\ k - 1 \in 0 .. n
    BY <1>1
  <2>2. taking[k] = Merged(bs[b], taking[k - 1]) /\ (k \in 1 .. t => Above(bs[b], taking[k - 1]))
    BY DEF Takes
  <2>3. k <= t => k \in 1 .. t
    BY <1>1
  <2>4. o(k - 1) = end[b] /\ o(k) = end[b - 1]
    BY <2>1
  <2>. HIDE DEF b, o
  <2>5. end[b] = end[b - 1] + bs[b].count
    BY <2>1 DEF Fits, EndsAt, n
  <2>6. P[end[b]] = P[end[b - 1]] + bs[b].sum
    BY <2>1 DEF Fits, n
  <2>7. \A i \in 0 .. m : NotBelow(P[i] - P[end[b - 1]], i - end[b - 1], bs[b])
    BY <2>1 DEF Fits, n
  <2>. QED
    BY <1>1, <2>1, <2>2, <2>3, <2>4, <2>5, <2>6, <2>7 DEF b
<1>7. o(0) = m /\ taking[0].count = 1 /\ taking[0].sum = P[m + 1] - P[m]
  <2>1. n - 0 = n
    BY <1>1
  <2>2. end[n] = m
    BY DEF Fits
  <2>3. taking[0] = [sum |-> P[m + 1] - P[m], count |-> 1]
    BY DEF Takes
  <2>. QED
    BY <2>1, <2>2, <2>3
<1>. HIDE DEF n, o
<1>8. Right(0) /\ Over(0)
  <2>1. Right(0)
    BY <1>7
  <2>2. ASSUME NEW i \in m .. m + 1
        PROVE  NotBelow(P[i] - P[m], i - m, taking[0])
    <3>. DEFINE s == taking[0].sum
    <3>1. s \in Int /\ taking[0].count = 1 /\ s = P[m + 1] - P[m] /\ P[m] \in Int
      BY <1>5, <1>7
    <3>. HIDE DEF s
    <3>2. CASE i = m
      <4>1. (P[m] - P[m]) * 1 = 0 /\ s * (m - m) = 0
        BY <3>1
      <4>. QED
        BY <4>1, <3>1, <3>2 DEF NotBelow, s
    <3>3. CASE i = m + 1
      <4>1. s * 1 = s /\ (m + 1) - m = 1
        BY <3>1
      <4>. QED
        BY <4>1, <3>1, <3>3 DEF NotBelow, s
    <3>. QED
      BY <3>2, <3>3
  <2>. QED
    BY <2>1, <2>2, <1>7
<1>9. ASSUME NEW k \in 1 .. n, Right(k - 1), k - 1 <= t => Over(k - 1)
      PROVE  Right(k) /\ (k <= t => Over(k))
  <2>. DEFINE a == bs[n - k + 1]
              u == taking[k - 1]
              c == taking[k]
              from == o(k)
              mid == o(k - 1)
  <2>1. /\ a \in Block /\ c = Merged(a, u) /\ u \in Block /\ c \in Block
        /\ mid = from + a.count /\ P[mid] = P[from] + a.sum
        /\ \A i \in 0 .. m : NotBelow(P[i] - P[from], i - from, a)
        /\ k <= t => Above(a, u)
    <3>1. k \in 0 .. n /\ k - 1 \in 0 .. n
      BY <1>1
    <3>. QED
      BY <3>1, <1>3, <1>6
  <2>2. u.count = m + 1 - mid /\ u.sum = P[m + 1] - P[mid]
    BY <1>9
  <2>3. from \in 0 .. m /\ mid \in 0 .. m
    <3>1. k \in 0 .. n /\ k - 1 \in 0 .. n
      BY <1>1
    <3>. QED
      BY <3>1, <1>4
  <2>4. /\ a.sum \in Int /\ a.count \in Nat /\ u.sum \in Int /\ u.count \in Nat
        /\ c.sum = a.sum + u.sum /\ c.count = a.count + u.count
    <3>1. c.sum = a.sum + u.sum /\ c.count = a.count + u.count
      BY <2>1 DEF Merged
    <3>. HIDE DEF a, u, c
    <3>. QED
      BY <3>1, <2>1 DEF Block
  <2>5. P[m + 1] \in Int /\ P[from] \in Int /\ P[mid] \in Int
    BY <1>5, <2>3
  <2>a. k <= t => Over(k - 1)
    <3>1. k <= t => k - 1 <= t
      BY <1>1
    <3>. HIDE DEF Over
    <3>. QED
      BY <3>1, <1>9
  <2>b. k <= t => \A i \in mid .. m + 1 : NotBelow(P[i] - P[mid], i - mid, u)
    BY <2>a
  <2>. HIDE DEF a, u, c, from, mid
  <2>6. c.count = m + 1 - from /\ c.sum = P[m + 1] - P[from]
    <3>. DEFINE low == P[from]
                high == P[m + 1]
                middle == P[mid]
                as == a.sum
                us == u.sum
                cs == c.sum
                ac == a.count
                uc == u.count
                cc == c.count
    <3>1. middle = low + as /\ low \in Int /\ high \in Int /\ middle \in Int
      BY <2>1, <2>5
    <3>2. us = high - middle /\ as \in Int /\ cs = as + us /\ us \in Int
      BY <2>2, <2>4
    <3>3. mid = from + ac /\ uc = m + 1 - mid /\ cc = ac + uc /\ ac \in Int /\ uc \in Int
      BY <2>1, <2>2, <2>4
    <3>. HIDE DEF low, high, middle, as, us, cs, ac, uc, cc
    <3>4. cs = high - low
      BY <3>1, <3>2
    <3>5. cc = m + 1 - from
      BY <2>3, <3>3
    <3>. QED
      BY <3>4, <3>5 DEF low, high, cs, cc
  <2>7. Right(k)
    BY <2>6 DEF c, from
  <2>8. ASSUME k <= t, NEW i \in from .. m + 1
        PROVE  NotBelow(P[i] - P[from], i - from, c)
    <3>1. i \in 0 .. m + 1 /\ P[i] \in Int
      BY <1>5, <2>3
    <3>2. ~Above(c, a) /\ ~Above(u, c)
      BY <2>1, <2>8, MergedBetween
    <3>3. CASE i <= mid
      <4>1. i \in 0 .. m /\ i - from >= 0 /\ i - from \in Int /\ P[i] - P[from] \in Int
        BY <3>1, <3>3, <2>3, <2>5
      <4>2. NotBelow(P[i] - P[from], i - from, a)
        BY <4>1, <2>1
      <4>. QED
        BY <4>1, <4>2, <3>2, <2>1, Tilted
    <3>4. CASE i > mid
      <4>. DEFINE d == P[i] - P[m + 1]
                  w == i - (m + 1)
      <4>1. i \in mid .. m + 1 /\ d \in Int /\ w \in Int /\ w <= 0
        BY <3>1, <3>4, <2>3, <2>5
      <4>2. NotBelow(P[i] - P[mid], i - mid, u)
        BY <4>1, <2>b, <2>8
      <4>3. /\ P[i] - P[mid] \in Int /\ i - mid \in Int
            /\ (P[i] - P[mid]) - u.sum = d /\ (i - mid) - u.count = w
            /\ P[i] - P[from] \in Int /\ i - from \in Int
            /\ (P[i] - P[from]) - c.sum = d /\ (i - from) - c.count = w
        <5>. DEFINE here == P[i]
                    low == P[from]
                    high == P[m + 1]
                    middle == P[mid]
        <5>1. here \in Int /\ low \in Int /\ high \in Int /\ middle \in Int
          BY <3>1, <2>5
        <5>2. u.sum = high - middle /\ c.sum = high - low /\ d = here - high
          BY <2>2, <2>6
        <5>3. /\ u.count = m + 1 - mid /\ c.count = m + 1 - from /\ w = i - (m + 1)
              /\ i \in Int /\ mid \in Int /\ from \in Int
          BY <3>1, <2>2, <2>3, <2>6
        <5>. HIDE DEF here, low, high, middle, d, w
        <5>4. here - middle \in Int /\ (here - middle) - u.sum = d /\ here - low \in Int /\ (here - low) - c.sum = d
          BY <5>1, <5>2
        <5>5. i - mid \in Int /\ (i - mid) - u.count = w /\ i - from \in Int /\ (i - from) - c.count = w
          BY <5>3
        <5>. QED
          BY <5>4, <5>5 DEF here, low, middle
      <4>. HIDE DEF d, w
      <4>4. NotBelow(d, w, u)
        BY <4>2, <4>3, <2>1, OtherEnd, SMTT(30)
      <4>5. NotBelow(d, w, c)
        BY <4>1, <4>4, <3>2, <2>1, Tilted
      <4>. QED
        BY <4>3, <4>5, <2>1, OtherEnd, SMTT(30)
    <3>. QED
      BY <3>1, <3>3, <3>4, <2>3
  <2>. QED
    BY <2>7, <2>8 DEF c, from
<1>. HIDE DEF Right, Over
<1>10. Wrong = {}
  <2>. SUFFICES ASSUME Wrong # {} PROVE FALSE
    OBVIOUS
  <2>1. Wrong \in SUBSET Nat
    BY <1>1
  <2>. HIDE DEF Wrong
  <2>2. PICK k \in Wrong : \A l \in Wrong : k <= l
    BY <2>1, LeastNatural
  <2>3. k \in 0 .. n /\ ~(Right(k) /\ (k <= t => Over(k)))
    BY <2>2 DEF Wrong
  <2>4. k # 0
    BY <2>3, <1>8
  <2>5. k - 1 \in 0 .. n /\ ~(k <= k - 1) /\ k \in 1 .. n
    BY <2>3, <2>4, <1>1
  <2>6. Right(k - 1) /\ (k - 1 <= t => Over(k - 1))
    BY <2>2, <2>5 DEF Wrong
  <2>. QED
    BY <2>3, <2>5, <2>6, <1>9
<1>11. \A k \in 0 .. n : Right(k) /\ (k <= t => Over(k))
  BY <1>10
<1>12. \A k \in 0 .. t : k \in 0 .. n /\ k <= t
  BY <1>1
<1>13. \A k \in 0 .. t : Over(k)
  BY <1>11, <1>12
<1>. QED
  BY <1>3, <1>4, <1>11, <1>13 DEF Right, Over, o, n

\* Taking in one more value keeps the means of the blocks rising, and P on or above
\* their lines.
LEMMA PushKeepsBlocks ==
    ASSUME NEW bs, RisingBlocks(bs), NEW N \in Nat, NEW P \in [0 .. N -> Int],
           NEW m \in Nat, m + 1 <= N, NEW end, Fits(bs, P, m, end)
    PROVE  LET new == Pushed(bs, P[m + 1] - P[m])
           IN RisingBlocks(new) /\ \E e : Fits(new, P, m + 1, e)
<1>. DEFINE n == Len(bs)
            v == P[m + 1] - P[m]
            new == Pushed(bs, v)
<1>1. bs \in Seq(Block) /\ n \in Nat /\ \A b \in 1 .. n : bs[b] \in Block
  BY DEF RisingBlocks
<1>2. \A i \in 0 .. m + 1 : P[i] \in Int
  OBVIOUS
<1>3. v \in Int
  <2>1. m \in 0 .. m + 1 /\ m + 1 \in 0 .. m + 1
    OBVIOUS
  <2>. QED
    BY <2>1, <1>2
<1>4. PICK t, taking :
          /\ Takes(bs, v, t, taking)
          /\ new \in Seq(Block) /\ Len(new) = n - t + 1
          /\ \A b \in 1 .. n - t : new[b] = bs[b]
          /\ new[n - t + 1] = taking[t]
  BY <1>1, <1>3, PushedAt
<1>. DEFINE l == n - t
            c == taking[t]
            last == end[l]
<1>5. t \in 0 .. n /\ l \in 0 .. n /\ (l = 0 \/ ~Above(bs[l], c))
  <2>1. t \in 0 .. n /\ (t = n \/ ~Above(bs[n - t], taking[t]))
    BY <1>4 DEF Takes
  <2>. QED
    BY <2>1, <1>1
<1>6. /\ \A b \in 0 .. n : end[b] \in Nat
      /\ end[0] = 0 /\ end[n] = m /\ \A b \in 1 .. n : end[b] = end[b - 1] + bs[b].count
      /\ \A b \in 1 .. n : P[end[b]] = P[end[b - 1]] + bs[b].sum
      /\ \A b \in 1 .. n : \A i \in 0 .. m : NotBelow(P[i] - P[end[b - 1]], i - end[b - 1], bs[b])
  BY DEF Fits, EndsAt
<1>7. /\ c \in Block /\ last \in 0 .. m
      /\ c.count = m + 1 - last /\ c.sum = P[m + 1] - P[last]
      /\ \A i \in last .. m + 1 : NotBelow(P[i] - P[last], i - last, c)
  <2>1. t \in 0 .. t /\ t \in 0 .. n
    BY <1>1, <1>5
  <2>2. Takes(bs, P[m + 1] - P[m], t, taking)
    BY <1>4
  <2>3. /\ \A k \in 0 .. n :
              /\ end[n - k] \in 0 .. m /\ taking[k] \in Block
              /\ taking[k].count = m + 1 - end[n - k]
              /\ taking[k].sum = P[m + 1] - P[end[n - k]]
        /\ \A k \in 0 .. t : \A i \in end[n - k] .. m + 1 :
              NotBelow(P[i] - P[end[n - k]], i - end[n - k], taking[k])
    BY <2>2, <1>1, TakenFits
  <2>. HIDE DEF n
  <2>. QED
    BY <2>1, <2>3
<1>8. \A b \in 0 .. l : end[b] \in 0 .. last
  <2>. TAKE b \in 0 .. l
  <2>1. EndsAt(end, bs) /\ b \in 0 .. n
    BY <1>1, <1>5 DEF Fits
  <2>2. end[b] <= end[l]
    BY <2>1, <1>1, <1>5, EndsGrow
  <2>. QED
    BY <2>1, <2>2, <1>5, <1>6, <1>7
<1>9. \A b \in 1 .. l : b \in 1 .. n /\ b - 1 \in 0 .. l /\ b \in 0 .. l /\ b - 1 \in 0 .. n
  BY <1>1, <1>5
<1>10. new \in Seq(Block) /\ Len(new) = l + 1 /\ (\A b \in 1 .. l : new[b] = bs[b]) /\ new[l + 1] = c
  BY <1>4
<1>a. ASSUME l # 0
      PROVE  l \in 1 .. l /\ l \in 1 .. n
  BY <1>a, <1>1, <1>5
<1>. HIDE DEF n, v, new, l, c, last
<1>11. \A b \in 1 .. l : ~Above(bs[b], c)
  <2>. TAKE b \in 1 .. l
  <2>1. l # 0 /\ b \in 1 .. n
    BY <1>5, <1>9
  <2>2. ~Above(bs[b], bs[l])
    BY <2>1, <1>a, BlocksInOrder DEF n
  <2>3. ~Above(bs[l], c)
    BY <2>1, <1>5
  <2>. QED
    BY <2>1, <2>2, <2>3, <1>1, <1>7, <1>a, MeansInOrder
<1>12. RisingBlocks(new)
  <2>. SUFFICES ASSUME NEW b \in 1 .. l PROVE ~Above(new[b], new[b + 1])
    BY <1>10, <1>5 DEF RisingBlocks
  <2>1. CASE b = l
    BY <2>1, <1>10, <1>11
  <2>2. CASE b # l
    <3>1. b + 1 \in 1 .. l /\ b \in 1 .. n - 1
      BY <2>2, <1>1, <1>5
    <3>2. ~Above(bs[b], bs[b + 1])
      BY <3>1 DEF RisingBlocks, n
    <3>. QED
      BY <3>1, <3>2, <1>10
  <2>. QED
    BY <2>1, <2>2
<1>. DEFINE e == [b \in 0 .. l + 1 |-> IF b = l + 1 THEN m + 1 ELSE end[b]]
<1>13. /\ e[l + 1] = m + 1 /\ \A b \in 0 .. l : e[b] = end[b]
       /\ e = [b \in 0 .. l + 1 |-> e[b]]
  <2>1. \A b \in 0 .. l : b \in 0 .. l + 1 /\ b # l + 1
    BY <1>5
  <2>2. l + 1 \in 0 .. l + 1
    BY <1>5
  <2>. QED
    BY <2>1, <2>2
<1>. HIDE DEF e
<1>14. e \in [0 .. l + 1 -> Nat] /\ e[0] = 0
  <2>1. \A b \in 0 .. l + 1 : e[b] \in Nat
    <3>. TAKE b \in 0 .. l + 1
    <3>1. b = l + 1 \/ b \in 0 .. l
      BY <1>5
    <3>2. \A a \in 0 .. l : end[a] \in Nat
      BY <1>7, <1>8
    <3>. QED
      BY <3>1, <3>2, <1>13
  <2>2. 0 \in 0 .. l
    BY <1>5
  <2>. QED
    BY <2>1, <2>2, <1>6, <1>13
<1>15. \A b \in 1 .. l + 1 : b = l + 1 \/ b \in 1 .. l
  BY <1>5
<1>16. (l + 1) - 1 = l /\ l \in 0 .. l
  BY <1>5
<1>17. ASSUME NEW b \in 1 .. l + 1
       PROVE  e[b] = e[b - 1] + new[b].count /\ P[e[b]] = P[e[b - 1]] + new[b].sum
  <2>1. CASE b = l + 1
    <3>1. e[b - 1] = last /\ e[b] = m + 1 /\ new[b] = c
      BY <2>1, <1>10, <1>13, <1>16 DEF last
    <3>2. m + 1 = last + c.count
      BY <1>7
    <3>3. P[m + 1] = P[last] + c.sum
      <4>1. P[m + 1] \in Int /\ P[last] \in Int
        BY <1>2, <1>7
      <4>. QED
        BY <4>1, <1>7
    <3>. QED
      BY <3>1, <3>2, <3>3
  <2>2. CASE b \in 1 .. l
    BY <2>2, <1>6, <1>9, <1>10, <1>13
  <2>. QED
    BY <2>1, <2>2, <1>15
\* The points after the old end, at the lines of the blocks that stay.
<1>18. ASSUME NEW b \in 1 .. l
       PROVE  NotBelow(P[m + 1] - P[end[b - 1]], (m + 1) - end[b - 1], bs[b])
  <2>. DEFINE low == P[end[b - 1]]
              high == P[m + 1]
              middle == P[last]
              from == end[b - 1]
              a == bs[b]
  <2>1. a \in Block /\ ~Above(a, c) /\ NotBelow(middle - low, last - from, a)
    BY <1>1, <1>6, <1>7, <1>9, <1>11
  <2>2. from \in 0 .. m
    BY <1>7, <1>8, <1>9
  <2>3. low \in Int /\ high \in Int /\ middle \in Int
    BY <2>2, <1>2, <1>7
  <2>4. NotBelow(high - middle, (m + 1) - last, c)
    <3>1. m + 1 \in last .. m + 1
      BY <1>7
    <3>. QED
      BY <3>1, <1>7
  <2>. HIDE DEF low, high, middle, from, a
  <2>5. high - middle \in Int /\ (m + 1) - last \in Int /\ (m + 1) - last >= 0
    BY <2>3, <1>7
  <2>6. NotBelow(high - middle, (m + 1) - last, a)
    BY <2>1, <2>4, <2>5, <1>7, Tilted
  <2>7. middle - low \in Int /\ last - from \in Int
    BY <2>2, <2>3, <1>7
  <2>8. NotBelow((middle - low) + (high - middle), (last - from) + ((m + 1) - last), a)
    BY <2>1, <2>5, <2>6, <2>7, NotBelowAdds
  <2>9. (middle - low) + (high - middle) = high - low /\ (last - from) + ((m + 1) - last) = (m + 1) - from
    BY <2>2, <2>3, <1>7
  <2>. QED
    BY <2>8, <2>9 DEF low, high, from, a
\* The points before the new block, at its line.
<1>19. ASSUME NEW i \in 0 .. last - 1
       PROVE  NotBelow(P[i] - P[last], i - last, c)
  <2>1. l # 0 /\ i \in 0 .. m
    <3>1. l = 0 => last = 0
      BY <1>6 DEF last
    <3>. QED
      BY <3>1, <1>7
  <2>. DEFINE a == bs[l]
              from == end[l - 1]
              low == P[from]
              here == P[i]
              high == P[last]
  <2>2. a \in Block /\ ~Above(a, c) /\ last = from + a.count /\ high = low + a.sum
    BY <2>1, <1>1, <1>6, <1>11, <1>a DEF last
  <2>3. NotBelow(here - low, i - from, a)
    <3>1. \A q \in 0 .. m : NotBelow(P[q] - P[end[l - 1]], q - end[l - 1], bs[l])
      BY <2>1, <1>6, <1>a
    <3>. QED
      BY <3>1, <2>1
  <2>4. from \in 0 .. m
    <3>1. l - 1 \in 0 .. l
      BY <2>1, <1>9, <1>a
    <3>2. from \in 0 .. last
      BY <3>1, <1>8
    <3>. QED
      BY <3>2, <1>7
  <2>5. here \in Int /\ low \in Int /\ high \in Int
    <3>1. \A q \in 0 .. m : P[q] \in Int
      BY <1>2
    <3>. QED
      BY <3>1, <2>1, <2>4, <1>7
  <2>6. a.sum \in Int /\ a.count \in Nat
    BY <2>2 DEF Block
  <2>. HIDE DEF a, from, low, here, high
  <2>7. here - low \in Int /\ i - from \in Int
    BY <2>1, <2>4, <2>5
  <2>8. NotBelow((here - low) - a.sum, (i - from) - a.count, a)
    BY <2>2, <2>3, <2>7, OtherEnd
  <2>9. (here - low) - a.sum = here - high /\ (i - from) - a.count = i - last
    <3>. DEFINE as == a.sum
                ac == a.count
    <3>1. high = low + as /\ as \in Int /\ last = from + ac /\ ac \in Int
      BY <2>2, <2>6
    <3>. HIDE DEF as, ac
    <3>2. (here - low) - as = here - high
      BY <3>1, <2>5
    <3>3. (i - from) - ac = i - last
      BY <3>1, <2>4
    <3>. QED
      BY <3>2, <3>3 DEF as, ac
  <2>10. here - high \in Int /\ i - last \in Int /\ i - last <= 0
    BY <2>5, <1>7
  <2>11. NotBelow(here - high, i - last, a)
    BY <2>8, <2>9
  <2>. QED
    BY <2>2, <2>10, <2>11, <1>7, Tilted DEF here, high
<1>20. ASSUME NEW b \in 1 .. l + 1, NEW i \in 0 .. m + 1
       PROVE  NotBelow(P[i] - P[e[b - 1]], i - e[b - 1], new[b])
  <2>1. CASE b = l + 1
    <3>1. e[b - 1] = last /\ new[b] = c
      BY <2>1, <1>10, <1>13, <1>16 DEF last
    <3>2. i \in 0 .. last - 1 \/ i \in last .. m + 1
      BY <1>7
    <3>. QED
      BY <3>1, <3>2, <1>7, <1>19
  <2>2. CASE b \in 1 .. l
    <3>1. e[b - 1] = end[b - 1] /\ new[b] = bs[b] /\ b \in 1 .. n
      BY <2>2, <1>9, <1>10, <1>13
    <3>2. i = m + 1 \/ i \in 0 .. m
      OBVIOUS
    <3>. QED
      BY <3>1, <3>2, <2>2, <1>6, <1>18
  <2>. QED
    BY <2>1, <2>2, <1>15
<1>21. Fits(new, P, m + 1, e)
  BY <1>10, <1>13, <1>14, <1>17, <1>20 DEF Fits, EndsAt
<1>. QED
  BY <1>12, <1>21 DEF new, v

\* Rounding down keeps the order of means.
LEMMA MeansRound ==
    ASSUME NEW a \in Block, NEW b \in Block, ~Above(a, b)
    PROVE  /\ a.sum \div a.count \in Int /\ b.sum \div b.count \in Int
           /\ a.sum \div a.count <= b.sum \div b.count
<1>. DEFINE p == a.sum
            q == a.count
            r == b.sum
            s == b.count
            k == p \div q
            l == r \div s
<1>1. p \in Int /\ r \in Int /\ q \in Nat \ {0} /\ s \in Nat \ {0}
  BY DEF Block
<1>2. p * s <= r * q
  <2>1. ~(p * s > r * q)
    BY DEF Above
  <2>2. p * s \in Int /\ r * q \in Int
    BY <1>1
  <2>. HIDE DEF p, q, r, s
  <2>. QED
    BY <2>1, <2>2
<1>. HIDE DEF p, q, r, s
<1>3. k \in Int /\ q * k <= p /\ p < q * (k + 1)
  BY <1>1, Z3
<1>4. l \in Int /\ s * l <= r /\ r < s * (l + 1)
  BY <1>1, Z3
<1>. HIDE DEF k, l
<1>5. k <= l
  <2>. SUFFICES ASSUME l + 1 <= k PROVE FALSE
    BY <1>3, <1>4
  <2>1. q * (l + 1) <= q * k
    BY <1>1, <1>3, <1>4, Z3
  <2>2. q * (l + 1) <= p
    BY <2>1, <1>1, <1>3, <1>4, Z3
  <2>3. s * (q * (l + 1)) <= s * p
    <3>. DEFINE u == q * (l + 1)
    <3>1. u \in Int
      BY <1>1, <1>4
    <3>. HIDE DEF u
    <3>2. u <= p
      BY <2>2 DEF u
    <3>3. s * u <= s * p
      BY <3>1, <3>2, <1>1, Z3
    <3>. QED
      BY <3>3 DEF u
  <2>4. q * r < q * (s * (l + 1))
    <3>. DEFINE u == s * (l + 1)
    <3>1. u \in Int
      BY <1>1, <1>4
    <3>. HIDE DEF u
    <3>2. r < u
      BY <1>4 DEF u
    <3>3. q * r < q * u
      BY <3>1, <3>2, <1>1, Z3
    <3>. QED
      BY <3>3 DEF u
  <2>5. s * (q * (l + 1)) = q * (s * (l + 1))
    BY <1>1, <1>4, Z3
  <2>6. s * p = p * s /\ q * r = r * q
    BY <1>1, Z3
  <2>7. /\ s * p \in Int /\ q * r \in Int /\ p * s \in Int /\ r * q \in Int
        /\ s * (q * (l + 1)) \in Int /\ q * (s * (l + 1)) \in Int
    BY <1>1, <1>4
  <2>. QED
    BY <2>3, <2>4, <2>5, <2>6, <2>7, <1>2
<1>. QED
  BY <1>3, <1>4, <1>5 DEF k, l, p, q, r, s

\* P counts up the values.
Counts(P, values) ==
    /\ P \in [0 .. Len(values) -> Int] /\ P[0] = 0
    /\ \A i \in 1 .. Len(values) : P[i] = P[i - 1] + values[i]

\* All values end up in blocks.
LEMMA BlocksHoldAll ==
    ASSUME NEW values \in Seq(Int), NEW P, Counts(P, values)
    PROVE  RisingBlocks(Blocks(values)) /\ \E end : Fits(Blocks(values), P, Len(values), end)
<1>. DEFINE n == Len(values)
            S == Seq(Block)
            g == [ku \in (1 .. n) \X S |-> Pushed(ku[2], values[ku[1]])]
            IsAfter(f) == f = [k \in 0 .. n |-> IF k = 0 THEN <<>> ELSE Pushed(f[k - 1], values[k])]
            after == CHOOSE f : IsAfter(f)
            Holds(bs, m) == RisingBlocks(bs) /\ \E end : Fits(bs, P, m, end)
<1>1. n \in Nat /\ \A k \in 1 .. n : values[k] \in Int
  OBVIOUS
<1>2. Holds(<<>>, 0) /\ <<>> \in S
  <2>1. <<>> \in Seq(Block) /\ Len(<<>>) = 0
    OBVIOUS
  <2>2. RisingBlocks(<<>>)
    BY <2>1 DEF RisingBlocks
  <2>. DEFINE e == [b \in 0 .. 0 |-> 0]
  <2>3. EndsAt(e, <<>>) /\ e[0] = 0
    BY <2>1 DEF EndsAt
  <2>. HIDE DEF e
  <2>4. Fits(<<>>, P, 0, e)
    BY <2>1, <2>3 DEF Fits
  <2>. QED
    BY <2>1, <2>2, <2>4
<1>. HIDE DEF n
<1>3. \A bs \in S : \A v \in Int : Pushed(bs, v) \in S
  BY PushedAt
<1>. HIDE DEF S
<1>5. \A k \in 1 .. n : \A u \in S : g[<<k, u>>] = Pushed(u, values[k]) /\ g[<<k, u>>] \in S
  <2>. TAKE k \in 1 .. n
  <2>. TAKE u \in S
  <2>1. g[<<k, u>>] = Pushed(u, values[k])
    OBVIOUS
  <2>. HIDE DEF g
  <2>. QED
    BY <2>1, <1>1, <1>3
<1>. HIDE DEF g
<1>6. /\ \E f : ChainedFromZero(f, n, <<>>, g)
      /\ \A f : ChainedFromZero(f, n, <<>>, g) => f \in [0 .. n -> S]
  <2>1. \A k \in 1 .. n : \A u \in S : g[<<k, u>>] \in S
    BY <1>5
  <2>. QED
    BY <2>1, <1>1, <1>2, ChainedFromZeroExists
<1>7. ASSUME NEW f, ChainedFromZero(f, n, <<>>, g)
      PROVE  IsAfter(f) /\ f \in [0 .. n -> S]
  <2>1. f \in [0 .. n -> S]
    BY <1>6, <1>7
  <2>2. f = [k \in 0 .. n |-> IF k = 0 THEN <<>> ELSE g[<<k, f[k - 1]>>]]
    BY <1>7 DEF ChainedFromZero
  <2>3. ASSUME NEW k \in 0 .. n
        PROVE  f[k] = IF k = 0 THEN <<>> ELSE Pushed(f[k - 1], values[k])
    <3>1. CASE k = 0
      BY <3>1, <2>2
    <3>2. CASE k # 0
      <4>1. k - 1 \in 0 .. n /\ k \in 1 .. n
        BY <3>2, <1>1
      <4>2. f[k - 1] \in S /\ f[k] = g[<<k, f[k - 1]>>]
        BY <4>1, <3>2, <2>1, <2>2
      <4>. QED
        BY <4>1, <4>2, <3>2, <1>5
    <3>. QED
      BY <3>1, <3>2
  <2>. QED
    BY <2>1, <2>3
<1>8. IsAfter(after)
  BY <1>6, <1>7
<1>9. Blocks(values) = after[n]
  BY DEF Blocks, n
<1>. HIDE DEF after
<1>10. \A k \in 0 .. n : Holds(after[k], k)
  <2>. DEFINE Wrong == {k \in 0 .. n : ~Holds(after[k], k)}
  <2>. SUFFICES ASSUME Wrong # {} PROVE FALSE
    OBVIOUS
  <2>1. Wrong \in SUBSET Nat
    BY <1>1
  <2>. HIDE DEF Wrong
  <2>2. PICK k \in Wrong : \A l \in Wrong : k <= l
    BY <2>1, LeastNatural
  <2>3. k \in 0 .. n /\ ~Holds(after[k], k)
    BY <2>2 DEF Wrong
  <2>4. k # 0
    <3>. HIDE DEF Holds
    <3>. QED
      BY <2>3, <1>2, <1>8
  <2>5. k - 1 \in 0 .. n /\ ~(k <= k - 1) /\ k \in 1 .. n /\ (k - 1) + 1 = k /\ k - 1 \in Nat /\ k <= n
    BY <2>3, <2>4, <1>1
  <2>6. Holds(after[k - 1], k - 1)
    BY <2>2, <2>5 DEF Wrong
  <2>7. PICK end : Fits(after[k - 1], P, k - 1, end)
    BY <2>6
  <2>8. P[(k - 1) + 1] - P[k - 1] = values[k]
    <3>1. /\ P[k] = P[k - 1] + values[k]
          /\ P[k - 1] \in Int /\ values[k] \in Int
      BY <2>5, <1>1 DEF Counts, n
    <3>. QED
      BY <3>1, <2>5
  <2>9. after[k] = Pushed(after[k - 1], values[k])
    BY <2>3, <2>4, <1>8
  <2>10. Holds(Pushed(after[k - 1], P[(k - 1) + 1] - P[k - 1]), (k - 1) + 1)
    <3>1. P \in [0 .. n -> Int]
      BY DEF Counts, n
    <3>. QED
      BY <3>1, <2>5, <2>6, <2>7, <1>1, PushKeepsBlocks
  <2>. HIDE DEF Holds
  <2>. QED
    BY <2>3, <2>5, <2>8, <2>9, <2>10
<1>11. n \in 0 .. n
  BY <1>1
<1>. QED
  BY <1>9, <1>10, <1>11 DEF n

\* Every place is in a block.
LEMMA BlockOfPlace ==
    ASSUME NEW bs \in Seq(Block), NEW end, EndsAt(end, bs), NEW i \in 1 .. end[Len(bs)]
    PROVE  \E b \in 1 .. Len(bs) : i \in end[b - 1] + 1 .. end[b]
<1>. DEFINE n == Len(bs)
            Past == {b \in 0 .. n : i <= end[b]}
<1>1. n \in Nat /\ end[0] = 0 /\ \A b \in 0 .. n : end[b] \in Nat
  <2>1. end \in [0 .. n -> Nat] /\ end[0] = 0
    BY DEF EndsAt
  <2>2. n \in Nat
    OBVIOUS
  <2>. HIDE DEF n
  <2>. QED
    BY <2>1, <2>2
<1>2. n \in 0 .. n /\ i \in Nat /\ i >= 1 /\ i <= end[n]
  BY <1>1
<1>3. Past \in SUBSET Nat /\ Past # {}
  BY <1>1, <1>2
<1>. HIDE DEF Past
<1>4. PICK b \in Past : \A c \in Past : b <= c
  BY <1>3, LeastNatural
<1>5. b \in 0 .. n /\ i <= end[b]
  BY <1>4 DEF Past
<1>6. b # 0
  BY <1>1, <1>2, <1>5
<1>7. b \in 1 .. n /\ b - 1 \in 0 .. n /\ ~(b <= b - 1)
  BY <1>1, <1>5, <1>6
<1>8. ~(i <= end[b - 1])
  BY <1>4, <1>7 DEF Past
<1>9. i \in end[b - 1] + 1 .. end[b]
  BY <1>1, <1>2, <1>5, <1>7, <1>8
<1>. QED
  BY <1>7, <1>9

\* The regression has a value for each place: the mean of its block, rounded down.
LEMMA RegressionAt ==
    ASSUME NEW values \in Seq(Int), Blocks(values) \in Seq(Block), NEW end,
           EndsAt(end, Blocks(values)), end[Len(Blocks(values))] = Len(values)
    PROVE  LET bs == Blocks(values) IN
           /\ Regression(values) \in Seq(Int) /\ Len(Regression(values)) = Len(values)
           /\ \A b \in 1 .. Len(bs) : \A i \in end[b - 1] + 1 .. end[b] :
                 Regression(values)[i] = bs[b].sum \div bs[b].count
<1>. DEFINE bs == Blocks(values)
            n == Len(bs)
            mean(b) == bs[b].sum \div bs[b].count
            piece(b) == [i \in 1 .. bs[b].count |-> mean(b)]
            Part(k) == [b \in 1 .. k |-> piece(b)]
            flat(k) == FlattenSeq(Part(k))
<1>. HIDE DEF bs
<1>2. bs \in Seq(Block) /\ n \in Nat /\ DOMAIN bs = 1 .. n /\ \A b \in 1 .. n : bs[b] \in Block
  BY DEF bs
<1>3. EndsAt(end, bs) /\ end[n] = Len(values)
  BY DEF bs
<1>4. \A b \in 1 .. n : bs[b].sum \in Int /\ bs[b].count \in Nat \ {0} /\ mean(b) \in Int
  <2>. TAKE b \in 1 .. n
  <2>1. bs[b].sum \in Int /\ bs[b].count \in Nat \ {0}
    BY <1>2 DEF Block
  <2>. QED
    BY <2>1, QuotientTyped
<1>6. Regression(values) = flat(n)
  BY <1>2 DEF Regression, bs
<1>. HIDE DEF n, mean
<1>7. \A b \in 1 .. n : piece(b) \in Seq(Int) /\ Len(piece(b)) = bs[b].count
                        /\ \A i \in 1 .. bs[b].count : piece(b)[i] = mean(b)
  <2>. TAKE b \in 1 .. n
  <2>1. bs[b].count \in Nat /\ mean(b) \in Int
    BY <1>4
  <2>. QED
    BY <2>1
<1>. HIDE DEF piece
<1>8. \A k \in 0 .. n : Part(k) \in Seq(Seq(Int)) /\ Len(Part(k)) = k
  <2>. DEFINE T == Seq(Int)
  <2>. TAKE k \in 0 .. n
  <2>1. k \in Nat /\ \A b \in 1 .. k : piece(b) \in T
    BY <1>2, <1>7
  <2>. HIDE DEF T
  <2>2. Part(k) \in Seq(T) /\ Len(Part(k)) = k
    BY <2>1
  <2>. QED
    BY <2>2 DEF T
<1>. DEFINE Fine(k) == /\ flat(k) \in Seq(Int) /\ Len(flat(k)) = end[k]
                       /\ \A b \in 1 .. k : \A i \in end[b - 1] + 1 .. end[b] : flat(k)[i] = mean(b)
<1>9. Fine(0)
  <2>1. Part(0) = <<>>
    OBVIOUS
  <2>2. FlattenSeq(<<>>) = <<>>
    BY DEF FlattenSeq
  <2>3. flat(0) = <<>> /\ end[0] = 0
    BY <2>1, <2>2, <1>3 DEF EndsAt
  <2>a. <<>> \in Seq(Int) /\ Len(<<>>) = 0
    OBVIOUS
  <2>. HIDE DEF flat, Part
  <2>4. flat(0) \in Seq(Int) /\ Len(flat(0)) = 0
    BY <2>a, <2>3
  <2>. QED
    BY <2>3, <2>4
<1>10. ASSUME NEW k \in 1 .. n, Fine(k - 1)
       PROVE  Fine(k)
  <2>. DEFINE s == flat(k - 1)
              p == piece(k)
              m == end[k - 1]
              c == bs[k].count
  <2>1. k - 1 \in 0 .. n /\ k \in 0 .. n
    BY <1>2
  <2>2. Part(k) = Append(Part(k - 1), p)
    <3>. DEFINE a == Part(k - 1)
                b == Part(k)
                T == Seq(Int)
    <3>1. a \in Seq(T) /\ b \in Seq(T) /\ Len(a) = k - 1 /\ Len(b) = k /\ p \in T
      BY <2>1, <1>7, <1>8
    <3>2. /\ \A i \in 1 .. k - 1 : a[i] = piece(i)
          /\ \A i \in 1 .. k : b[i] = piece(i)
      OBVIOUS
    <3>. HIDE DEF a, b, T
    <3>3. /\ Append(a, p) \in Seq(T) /\ Len(Append(a, p)) = k
          /\ Append(a, p)[k] = p /\ \A i \in 1 .. k - 1 : Append(a, p)[i] = a[i]
      BY <3>1
    <3>4. \A i \in 1 .. k : b[i] = Append(a, p)[i]
      BY <3>2, <3>3
    <3>5. b = Append(a, p)
      BY <3>1, <3>3, <3>4
    <3>. QED
      BY <3>5 DEF a, b
  <2>3. flat(k) = s \o p
    <3>1. Part(k - 1) \in Seq(Seq(Int)) /\ p \in Seq(Int)
      BY <2>1, <1>7, <1>8
    <3>. HIDE DEF Part, p
    <3>. QED
      BY <3>1, <2>2, FlattenAppends
  <2>4. /\ s \in Seq(Int) /\ Len(s) = m
        /\ \A b \in 1 .. k - 1 : \A i \in end[b - 1] + 1 .. end[b] : s[i] = mean(b)
    BY <1>10
  <2>5. p \in Seq(Int) /\ Len(p) = c /\ \A i \in 1 .. c : p[i] = mean(k)
    BY <1>7
  <2>6. m \in Nat /\ c \in Nat \ {0} /\ end[k] = m + c /\ mean(k) \in Int
    BY <2>1, <1>2, <1>3, <1>4 DEF EndsAt, n
  <2>. DEFINE q == s \o p
  <2>. HIDE DEF s, p, m, c
  <2>9. /\ q \in Seq(Int) /\ Len(q) = m + c
        /\ \A i \in 1 .. m : q[i] = s[i]
        /\ \A i \in m + 1 .. m + c : q[i] = mean(k)
    <3>a. q \in Seq(Int) /\ Len(q) = Len(s) + Len(p)
      <4>1. s \in Seq(Int) /\ p \in Seq(Int)
        BY <2>4, <2>5
      <4>. QED
        BY <4>1
    <3>1. q \in Seq(Int) /\ Len(q) = m + c
      BY <3>a, <2>4, <2>5
    <3>2. \A i \in 1 .. m : q[i] = s[i]
      BY <2>4, <2>5, <2>6
    <3>3. ASSUME NEW i \in m + 1 .. m + c
          PROVE  q[i] = mean(k)
      <4>1. i - m \in 1 .. c /\ i \in 1 .. m + c /\ ~(i <= m)
        BY <2>6
      <4>2. q[i] = p[i - m]
        BY <4>1, <2>4, <2>5, <2>6
      <4>. QED
        BY <4>1, <4>2, <2>5
    <3>. QED
      BY <3>1, <3>2, <3>3
  <2>. HIDE DEF q
  <2>10. ASSUME NEW b \in 1 .. k, NEW i \in end[b - 1] + 1 .. end[b]
         PROVE  q[i] = mean(b)
    <3>1. CASE b = k
      BY <3>1, <2>6, <2>9 DEF m
    <3>2. CASE b # k
      <4>1. b \in 1 .. k - 1 /\ b \in 0 .. k - 1 /\ k - 1 \in 0 .. n /\ b \in 0 .. n /\ b - 1 \in 0 .. n
        BY <3>2, <1>2
      <4>2. end[b] <= m
        BY <4>1, <1>2, <1>3, EndsGrow DEF n, m
      <4>3. end[b] \in Nat /\ end[b - 1] \in Nat
        BY <4>1, <1>3 DEF EndsAt, n
      <4>4. i \in 1 .. m
        BY <4>2, <4>3, <2>6
      <4>. QED
        BY <4>1, <4>4, <2>4, <2>9
    <3>. QED
      BY <3>1, <3>2
  <2>12. flat(k) = q
    BY <2>3 DEF q
  <2>. HIDE DEF flat
  <2>. QED
    BY <2>6, <2>9, <2>10, <2>12
<1>. HIDE DEF Fine
<1>11. Fine(n)
  <2>. DEFINE Wrong == {k \in 0 .. n : ~Fine(k)}
  <2>. SUFFICES ASSUME Wrong # {} PROVE FALSE
    <3>1. n \in 0 .. n
      BY <1>2
    <3>. QED
      BY <3>1
  <2>1. Wrong \in SUBSET Nat
    BY <1>2
  <2>. HIDE DEF Wrong
  <2>2. PICK k \in Wrong : \A l \in Wrong : k <= l
    BY <2>1, LeastNatural
  <2>3. k \in 0 .. n /\ ~Fine(k)
    BY <2>2 DEF Wrong
  <2>4. k # 0
    BY <2>3, <1>9
  <2>5. k - 1 \in 0 .. n /\ ~(k <= k - 1) /\ k \in 1 .. n
    BY <2>3, <2>4, <1>2
  <2>6. Fine(k - 1)
    BY <2>2, <2>5 DEF Wrong
  <2>. QED
    BY <2>3, <2>5, <2>6, <1>10
<1>. HIDE DEF flat
<1>12. /\ flat(n) \in Seq(Int) /\ Len(flat(n)) = end[n]
       /\ \A b \in 1 .. n : \A i \in end[b - 1] + 1 .. end[b] : flat(n)[i] = mean(b)
  BY <1>11 DEF Fine
<1>. QED
  BY <1>3, <1>6, <1>12 DEF n, mean, bs

\* The values do not fall.
Rising(s) == \A k \in 1 .. Len(s) - 1 : s[k] <= s[k + 1]

\* A stretch that ends where block a ends has a mean of at most that of a, if its
\* beginning is not below the line of a.
LEMMA BeforeEnd ==
    ASSUME NEW a \in Block, NEW c \in Block, NotBelow(0 - c.sum, 0 - c.count, a)
    PROVE  ~Above(c, a)
<1>. DEFINE p == a.sum
            q == a.count
            r == c.sum
            s == c.count
<1>1. p \in Int /\ q \in Int /\ r \in Int /\ s \in Int
  BY DEF Block
<1>2. (0 - r) * q >= p * (0 - s)
  BY DEF NotBelow
<1>3. r * q <= p * s => ~Above(c, a)
  BY NotAbove
<1>. HIDE DEF p, q, r, s
<1>4. (0 - r) * q = 0 - r * q /\ p * (0 - s) = 0 - p * s
  BY <1>1, Z3
<1>5. r * q \in Int /\ p * s \in Int
  BY <1>1
<1>. QED
  BY <1>2, <1>3, <1>4, <1>5

\* A stretch is one place longer than the one before it.
LEMMA StretchGrows ==
    ASSUME NEW f, NEW j \in Int, NEW k \in Int, j <= k, \A i \in j .. k : f[i] \in Int
    PROVE  SumFunctionOnSet(f, j .. k) = f[k] + SumFunctionOnSet(f, j .. k - 1)
<1>. DEFINE S == j .. k
<1>1. IsFiniteSet(S)
  BY FS_Interval
<1>2. k \in S /\ S \ {k} = j .. k - 1
  OBVIOUS
<1>3. \A i \in S : f[i] \in Int
  OBVIOUS
<1>. HIDE DEF S
<1>4. SumFunctionOnSet(f, S) = f[k] + SumFunctionOnSet(f, S \ {k})
  BY <1>1, <1>2, <1>3, SumOfRest
<1>. QED
  BY <1>2, <1>4 DEF S

\* What counts up the values.
LEMMA ValuesCounted ==
    ASSUME NEW values \in Seq(Int)
    PROVE  \E P : /\ Counts(P, values)
                  /\ \A j \in 1 .. Len(values) : \A k \in j .. Len(values) :
                        SumFunctionOnSet(values, j .. k) = P[k] - P[j - 1]
<1>. DEFINE n == Len(values)
            P == [i \in 0 .. n |-> SumFunctionOnSet(values, 1 .. i)]
<1>1. n \in Nat /\ \A i \in 1 .. n : values[i] \in Int
  OBVIOUS
<1>. HIDE DEF n
<1>2. ASSUME NEW j \in 1 .. n + 1, NEW k \in j - 1 .. n
      PROVE  /\ IsFiniteSet(j .. k) /\ SumFunctionOnSet(values, j .. k) \in Int
             /\ k = j - 1 => SumFunctionOnSet(values, j .. k) = 0
             /\ k # j - 1 => SumFunctionOnSet(values, j .. k) = values[k] + SumFunctionOnSet(values, j .. k - 1)
  <2>1. j \in Int /\ k \in Int /\ \A i \in j .. k : values[i] \in Int
    BY <1>1
  <2>2. IsFiniteSet(j .. k)
    BY <2>1, FS_Interval
  <2>3. SumFunctionOnSet(values, j .. k) \in Int
    BY <2>1, <2>2, SumIsNumber
  <2>4. CASE k = j - 1
    <3>1. j .. k = {}
      BY <2>1, <2>4
    <3>2. SumFunctionOnSet(values, {}) = 0
      BY SumOfNone
    <3>. QED
      BY <2>2, <2>3, <2>4, <3>1, <3>2
  <2>5. CASE k # j - 1
    <3>1. j <= k
      BY <2>1, <2>5
    <3>. QED
      BY <2>1, <2>2, <2>3, <2>5, <3>1, StretchGrows
  <2>. QED
    BY <2>4, <2>5
<1>3. \A i \in 0 .. n : P[i] = SumFunctionOnSet(values, 1 .. i) /\ P[i] \in Int
  <2>. TAKE i \in 0 .. n
  <2>1. 1 \in 1 .. n + 1 /\ i \in 1 - 1 .. n
    BY <1>1
  <2>2. SumFunctionOnSet(values, 1 .. i) \in Int
    BY <2>1, <1>2
  <2>. QED
    BY <2>2
<1>4. P = [i \in 0 .. n |-> P[i]]
  OBVIOUS
<1>. HIDE DEF P
<1>5. P[0] = 0
  <2>1. 1 \in 1 .. n + 1 /\ 0 \in 1 - 1 .. n /\ 0 = 1 - 1 /\ 0 \in 0 .. n
    BY <1>1
  <2>2. SumFunctionOnSet(values, 1 .. 0) = 0
    BY <2>1, <1>2
  <2>. QED
    BY <2>1, <2>2, <1>3
<1>6. \A i \in 1 .. n : P[i] = P[i - 1] + values[i]
  <2>. TAKE i \in 1 .. n
  <2>1. 1 \in 1 .. n + 1 /\ i \in 1 - 1 .. n /\ i # 1 - 1 /\ i \in 0 .. n /\ i - 1 \in 0 .. n
    BY <1>1
  <2>2. SumFunctionOnSet(values, 1 .. i) = values[i] + SumFunctionOnSet(values, 1 .. i - 1)
    BY <2>1, <1>2
  <2>3. P[i] = values[i] + P[i - 1] /\ P[i - 1] \in Int /\ values[i] \in Int
    BY <2>1, <2>2, <1>1, <1>3
  <2>. QED
    BY <2>3
<1>7. Counts(P, values)
  BY <1>3, <1>4, <1>5, <1>6 DEF Counts, n
<1>8. ASSUME NEW j \in 1 .. n
      PROVE  \A k \in j - 1 .. n : SumFunctionOnSet(values, j .. k) = P[k] - P[j - 1]
  <2>. DEFINE Wrong == {k \in j - 1 .. n : SumFunctionOnSet(values, j .. k) # P[k] - P[j - 1]}
  <2>. SUFFICES ASSUME Wrong # {} PROVE FALSE
    OBVIOUS
  <2>1. Wrong \in SUBSET Nat
    BY <1>1
  <2>. HIDE DEF Wrong
  <2>2. PICK k \in Wrong : \A l \in Wrong : k <= l
    BY <2>1, LeastNatural
  <2>3. k \in j - 1 .. n /\ SumFunctionOnSet(values, j .. k) # P[k] - P[j - 1]
    BY <2>2 DEF Wrong
  <2>4. j \in 1 .. n + 1 /\ j - 1 \in 0 .. n /\ k \in 0 .. n
    BY <2>3, <1>1
  <2>5. k # j - 1
    <3>1. k = j - 1 => SumFunctionOnSet(values, j .. k) = 0
      BY <2>3, <2>4, <1>2
    <3>2. P[j - 1] - P[j - 1] = 0
      BY <2>4, <1>3
    <3>. QED
      BY <2>3, <3>1, <3>2
  <2>6. k - 1 \in j - 1 .. n /\ ~(k <= k - 1) /\ k \in 1 .. n /\ k - 1 \in 0 .. n
    BY <2>3, <2>5, <1>1
  <2>7. SumFunctionOnSet(values, j .. k - 1) = P[k - 1] - P[j - 1]
    BY <2>2, <2>6 DEF Wrong
  <2>8. SumFunctionOnSet(values, j .. k) = values[k] + SumFunctionOnSet(values, j .. k - 1)
    BY <2>3, <2>4, <2>5, <1>2
  <2>9. /\ P[k] = P[k - 1] + values[k] /\ values[k] \in Int
        /\ P[k] \in Int /\ P[k - 1] \in Int /\ P[j - 1] \in Int
    BY <2>4, <2>6, <1>1, <1>3, <1>6
  <2>. DEFINE all == SumFunctionOnSet(values, j .. k)
              some == SumFunctionOnSet(values, j .. k - 1)
  <2>10. all = values[k] + some /\ some = P[k - 1] - P[j - 1] /\ all # P[k] - P[j - 1]
    BY <2>3, <2>7, <2>8
  <2>. HIDE DEF all, some
  <2>. QED
    BY <2>9, <2>10
<1>9. \A j \in 1 .. n : \A k \in j .. n : k \in j - 1 .. n
  BY <1>1
<1>. QED
  BY <1>7, <1>8, <1>9 DEF n

\* The regression never falls, and it is the best fit. The mean of a block is that of
\* the best stretch around each of its places: no stretch that ends with the block
\* has a greater mean, none that begins with it a smaller one.
THEOREM RegressionIsBestFit ==
    ASSUME NEW values \in Seq(Int)
    PROVE  /\ Regression(values) \in Seq(Int) /\ Len(Regression(values)) = Len(values)
           /\ Rising(Regression(values))
           /\ Regression(values) = BestFit(values)
<1>. DEFINE n == Len(values)
            bs == Blocks(values)
            r == Regression(values)
            mean(b) == bs[b].sum \div bs[b].count
            Sum(j, k) == SumFunctionOnSet(values, j .. k)
            Mean(j, k) == Sum(j, k) \div (k - j + 1)
            From(i, j) == {Mean(j, k) : k \in i .. n}
            Around(i) == {Min(From(i, j)) : j \in 1 .. i}
<1>1. n \in Nat /\ DOMAIN values = 1 .. n
  OBVIOUS
<1>2. PICK P : /\ Counts(P, values)
               /\ \A j \in 1 .. n : \A k \in j .. n : Sum(j, k) = P[k] - P[j - 1]
  BY ValuesCounted
<1>3. RisingBlocks(bs) /\ \E end : Fits(bs, P, n, end)
  BY <1>2, BlocksHoldAll
<1>4. PICK end : Fits(bs, P, n, end)
  BY <1>3
<1>5. bs \in Seq(Block) /\ Len(bs) \in Nat /\ EndsAt(end, bs) /\ end[Len(bs)] = n
  BY <1>3, <1>4 DEF RisingBlocks, Fits
<1>6. /\ r \in Seq(Int) /\ Len(r) = n
      /\ \A b \in 1 .. Len(bs) : \A i \in end[b - 1] + 1 .. end[b] : r[i] = mean(b)
  BY <1>5, RegressionAt
<1>7. \A i \in 1 .. n : \E b \in 1 .. Len(bs) : i \in end[b - 1] + 1 .. end[b]
  BY <1>5, BlockOfPlace
<1>8. BestFit(values) = [i \in 1 .. n |-> Max(Around(i))]
  BY <1>1 DEF BestFit
<1>9. \A i \in 0 .. n : P[i] \in Int
  BY <1>2 DEF Counts
<1>. HIDE DEF n, bs, r, Sum
<1>10. \A b \in 1 .. Len(bs) :
          /\ bs[b] \in Block /\ mean(b) \in Int
          /\ end[b] \in 0 .. n /\ end[b - 1] \in 0 .. n /\ end[b - 1] < end[b]
          /\ end[b] = end[b - 1] + bs[b].count /\ P[end[b]] = P[end[b - 1]] + bs[b].sum
          /\ \A i \in 0 .. n : NotBelow(P[i] - P[end[b - 1]], i - end[b - 1], bs[b])
  <2>. TAKE b \in 1 .. Len(bs)
  <2>1. bs[b] \in Block
    BY <1>5
  <2>2. bs[b].sum \in Int /\ bs[b].count \in Nat \ {0}
    BY <2>1 DEF Block
  <2>3. mean(b) \in Int
    BY <2>2, QuotientTyped
  <2>4. b \in 0 .. Len(bs) /\ b - 1 \in 0 .. Len(bs) /\ Len(bs) \in 0 .. Len(bs)
    BY <1>5
  <2>5. end[b] \in Nat /\ end[b - 1] \in Nat /\ end[b] = end[b - 1] + bs[b].count
    BY <2>4, <1>5 DEF EndsAt
  <2>6. end[b] <= n /\ end[b - 1] <= n
    BY <2>4, <1>5, EndsGrow
  <2>7. end[b] \in 0 .. n /\ end[b - 1] \in 0 .. n /\ end[b - 1] < end[b]
    BY <2>2, <2>5, <2>6, <1>1
  <2>. QED
    BY <2>1, <2>3, <2>5, <2>7, <1>4 DEF Fits
<1>. HIDE DEF mean
\* A stretch, as a block.
<1>11. ASSUME NEW j \in 1 .. n, NEW k \in j .. n
       PROVE  LET c == [sum |-> P[k] - P[j - 1], count |-> k - j + 1]
              IN c \in Block /\ Mean(j, k) = c.sum \div c.count /\ Mean(j, k) \in Int
  <2>. DEFINE c == [sum |-> P[k] - P[j - 1], count |-> k - j + 1]
  <2>1. P[k] - P[j - 1] \in Int /\ k - j + 1 \in Nat \ {0}
    <3>1. k \in 0 .. n /\ j - 1 \in 0 .. n
      BY <1>1
    <3>2. P[k] \in Int /\ P[j - 1] \in Int
      BY <3>1, <1>9
    <3>. QED
      BY <3>2, <1>1
  <2>2. c \in Block /\ c.sum = Sum(j, k) /\ c.count = k - j + 1
    BY <2>1, <1>2 DEF Block
  <2>3. c.sum \in Int /\ c.count \in Nat \ {0}
    BY <2>1
  <2>. HIDE DEF c
  <2>4. c.sum \div c.count \in Int
    BY <2>3, QuotientTyped
  <2>. QED
    BY <2>2, <2>4 DEF c
<1>12. ASSUME NEW b \in 1 .. Len(bs), NEW i \in end[b - 1] + 1 .. end[b]
       PROVE  i \in 1 .. n /\ Max(Around(i)) = mean(b)
  <2>. DEFINE a == bs[b]
              from == end[b - 1]
              to == end[b]
  <2>1. /\ a \in Block /\ mean(b) \in Int /\ mean(b) = a.sum \div a.count
        /\ from \in 0 .. n /\ to \in 0 .. n
        /\ to = from + a.count /\ P[to] = P[from] + a.sum
        /\ \A k \in 0 .. n : NotBelow(P[k] - P[from], k - from, a)
        /\ i \in from + 1 .. to
    BY <1>10 DEF mean
  <2>2. a.sum \in Int /\ a.count \in Nat \ {0}
    BY <2>1 DEF Block
  <2>. HIDE DEF a, from, to
  <2>3. i \in 1 .. n /\ from + 1 \in 1 .. i /\ to \in i .. n
    BY <2>1, <1>1
  <2>4. \A j \in 1 .. i : j \in 1 .. n /\ \A k \in i .. n : k \in j .. n
    BY <2>3, <1>1
  <2>5. ASSUME NEW j \in 1 .. i
        PROVE  Mean(j, to) <= mean(b)
    <3>. DEFINE c == [sum |-> P[to] - P[j - 1], count |-> to - j + 1]
                low == P[from]
                here == P[j - 1]
                high == P[to]
                as == a.sum
                ac == a.count
    <3>1. c \in Block /\ Mean(j, to) = c.sum \div c.count
      BY <2>3, <2>4, <1>11
    <3>2. j - 1 \in 0 .. n
      BY <2>4, <1>1
    <3>3. NotBelow(here - low, (j - 1) - from, a)
      BY <3>2, <2>1
    <3>4. high = low + as /\ to = from + ac
      BY <2>1
    <3>5. /\ low \in Int /\ here \in Int /\ high \in Int /\ as \in Int /\ ac \in Nat
          /\ from \in Int /\ to \in Int /\ j \in Int
      BY <3>2, <2>1, <2>2, <2>3, <1>9
    <3>7. NotBelow((here - low) - a.sum, ((j - 1) - from) - a.count, a)
      <4>. HIDE DEF low, here, high, as, ac
      <4>1. here - low \in Int /\ (j - 1) - from \in Int
        BY <3>5
      <4>. QED
        BY <4>1, <3>3, <2>1, OtherEnd
    <3>. DEFINE cs == c.sum
                cc == c.count
    <3>8. cs = high - here /\ cc = to - j + 1
      OBVIOUS
    <3>. HIDE DEF c, low, here, high, as, ac, cs, cc
    <3>9. (here - low) - as = 0 - cs
      <4>1. low \in Int /\ here \in Int /\ high \in Int /\ as \in Int
        BY <3>5
      <4>2. high = low + as /\ cs = high - here
        BY <3>4, <3>8
      <4>. HIDE DEF a, from, to
      <4>5. high - here \in Int /\ here - high = 0 - (high - here)
        BY <4>1
      <4>3. here - high = 0 - cs
        BY <4>2, <4>5
      <4>4. (here - low) - as = here - high
        BY <4>1, <4>2
      <4>. QED
        BY <4>3, <4>4
    <3>10. ((j - 1) - from) - ac = 0 - cc
      BY <3>4, <3>5, <3>8
    <3>11. NotBelow((here - low) - as, ((j - 1) - from) - ac, a)
      BY <3>7 DEF as, ac
    <3>12. NotBelow(0 - cs, 0 - cc, a)
      BY <3>9, <3>10, <3>11
    <3>13. ~Above(c, a)
      BY <3>1, <3>12, <2>1, BeforeEnd DEF cs, cc
    <3>. QED
      BY <3>1, <3>13, <2>1, MeansRound
  <2>6. ASSUME NEW k \in i .. n
        PROVE  mean(b) <= Mean(from + 1, k)
    <3>. DEFINE c == [sum |-> P[k] - P[from], count |-> k - from]
    <3>1. (from + 1) - 1 = from /\ k - (from + 1) + 1 = k - from /\ k \in 0 .. n
      BY <2>1, <2>3, <1>1
    <3>2. c \in Block /\ Mean(from + 1, k) = c.sum \div c.count
      <4>. DEFINE e == [sum |-> P[k] - P[(from + 1) - 1], count |-> k - (from + 1) + 1]
      <4>1. e \in Block /\ Mean(from + 1, k) = e.sum \div e.count
        BY <2>3, <2>4, <1>11
      <4>2. e = c
        BY <3>1
      <4>. HIDE DEF e, c
      <4>. QED
        BY <4>1, <4>2
    <3>3. c.sum * a.count >= a.sum * c.count
      <4>1. NotBelow(P[k] - P[from], k - from, a)
        BY <3>1, <2>1
      <4>. QED
        BY <4>1 DEF NotBelow
    <3>. HIDE DEF c
    <3>4. a.sum * c.count <= c.sum * a.count
      <4>1. c.sum \in Int /\ c.count \in Int
        BY <3>2 DEF Block
      <4>2. a.sum * c.count \in Int /\ c.sum * a.count \in Int
        BY <4>1, <2>2
      <4>. QED
        BY <4>2, <3>3
    <3>5. ~Above(a, c)
      BY <3>2, <3>4, <2>1, NotAbove
    <3>. QED
      BY <3>2, <3>5, <2>1, MeansRound
  <2>7. \A j \in 1 .. i : \A k \in i .. n : Mean(j, k) \in Int
    BY <2>4, <1>11
  <2>. HIDE DEF Mean
  <2>8. ASSUME NEW j \in 1 .. i
        PROVE  Min(From(i, j)) \in From(i, j) /\ \A q \in From(i, j) : Min(From(i, j)) <= q
    <3>. DEFINE S == From(i, j)
                f == [k \in i .. n |-> Mean(j, k)]
    <3>1. \A q \in S : q \in Int
      BY <2>7
    <3>2. IsFiniteSet(S)
      <4>1. IsFiniteSet(i .. n)
        BY <2>3, <1>1, FS_Interval
      <4>2. IsFiniteSet({f[k] : k \in i .. n})
        <5>. HIDE DEF f
        <5>. QED
          BY <4>1, ImageIsFinite
      <4>3. {f[k] : k \in i .. n} = S
        OBVIOUS
      <4>. QED
        BY <4>2, <4>3
    <3>3. Mean(j, to) \in S
      BY <2>3
    <3>. HIDE DEF S
    <3>4. S # {}
      BY <3>3
    <3>5. Min(S) \in S /\ \A q \in S : Min(S) <= q
      BY <3>1, <3>2, <3>4, LeastOfFinite
    <3>. QED
      BY <3>5 DEF S
  <2>9. ASSUME NEW j \in 1 .. i
        PROVE  Min(From(i, j)) \in Int /\ Min(From(i, j)) <= mean(b)
    <3>1. Mean(j, to) \in From(i, j) /\ Mean(j, to) \in Int
      BY <2>3, <2>7
    <3>2. \A q \in From(i, j) : q \in Int
      BY <2>7
    <3>. DEFINE least == Min(From(i, j))
    <3>3. least \in Int /\ least <= Mean(j, to)
      BY <3>1, <3>2, <2>8
    <3>. HIDE DEF least
    <3>4. least <= mean(b)
      BY <3>1, <3>3, <2>1, <2>5
    <3>. QED
      BY <3>3, <3>4 DEF least
  <2>10. Min(From(i, from + 1)) = mean(b)
    <3>. DEFINE least == Min(From(i, from + 1))
    <3>1. \E k \in i .. n : least = Mean(from + 1, k)
      BY <2>3, <2>8
    <3>2. least \in Int /\ least <= mean(b)
      BY <2>3, <2>9
    <3>. HIDE DEF least
    <3>3. mean(b) <= least
      BY <3>1, <2>6
    <3>4. least = mean(b)
      BY <3>2, <3>3, <2>1
    <3>. QED
      BY <3>4 DEF least
  <2>11. Max(Around(i)) \in Around(i) /\ \A q \in Around(i) : q <= Max(Around(i))
    <3>. DEFINE S == Around(i)
                f == [j \in 1 .. i |-> Min(From(i, j))]
    <3>1. \A q \in S : q \in Int
      BY <2>9
    <3>2. IsFiniteSet(S)
      <4>1. IsFiniteSet(1 .. i)
        BY <2>3, <1>1, FS_Interval
      <4>2. IsFiniteSet({f[j] : j \in 1 .. i})
        <5>. HIDE DEF f
        <5>. QED
          BY <4>1, ImageIsFinite
      <4>3. {f[j] : j \in 1 .. i} = S
        OBVIOUS
      <4>. QED
        BY <4>2, <4>3
    <3>3. S # {}
      BY <2>3
    <3>. HIDE DEF S
    <3>5. Max(S) \in S /\ \A q \in S : q <= Max(S)
      BY <3>1, <3>2, <3>3, GreatestOfFinite
    <3>. QED
      BY <3>5 DEF S
  <2>12. mean(b) \in Around(i)
    BY <2>3, <2>10
  <2>13. \A q \in Around(i) : q \in Int /\ q <= mean(b)
    BY <2>9
  <2>. DEFINE most == Max(Around(i))
  <2>14. most \in Int /\ most <= mean(b) /\ mean(b) <= most
    <3>. HIDE DEF From, Around
    <3>. QED
      BY <2>11, <2>12, <2>13
  <2>. HIDE DEF most, From, Around
  <2>15. most = mean(b)
    BY <2>1, <2>14
  <2>. QED
    BY <2>3, <2>15 DEF most
<1>. HIDE DEF Around, From, Mean
<1>13. \A i \in 1 .. n : r[i] = Max(Around(i))
  <2>. TAKE i \in 1 .. n
  <2>1. PICK b \in 1 .. Len(bs) : i \in end[b - 1] + 1 .. end[b]
    BY <1>7
  <2>. QED
    BY <2>1, <1>6, <1>12
<1>14. r = BestFit(values)
  <2>1. r = [i \in 1 .. n |-> r[i]]
    BY <1>1, <1>6
  <2>. QED
    BY <2>1, <1>8, <1>13
<1>15. Rising(r)
  <2>. SUFFICES ASSUME NEW i \in 1 .. n - 1 PROVE r[i] <= r[i + 1]
    BY <1>6 DEF Rising
  <2>1. i \in 1 .. n /\ i + 1 \in 1 .. n
    BY <1>1
  <2>2. PICK b \in 1 .. Len(bs) : i \in end[b - 1] + 1 .. end[b]
    BY <2>1, <1>7
  <2>3. PICK c \in 1 .. Len(bs) : i + 1 \in end[c - 1] + 1 .. end[c]
    BY <2>1, <1>7
  <2>4. /\ end[b] \in Int /\ end[b - 1] \in Int /\ end[c] \in Int /\ end[c - 1] \in Int
        /\ bs[b] \in Block /\ bs[c] \in Block
    <3>1. \A q \in 0 .. n : q \in Int
      BY <1>1
    <3>2. \A d \in 1 .. Len(bs) : bs[d] \in Block /\ end[d] \in 0 .. n /\ end[d - 1] \in 0 .. n
      BY <1>10
    <3>. QED
      BY <3>1, <3>2
  <2>5. b \in 1 .. c
    <3>. SUFFICES ASSUME c < b PROVE FALSE
      BY <1>5
    <3>1. b - 1 \in 0 .. Len(bs) /\ c \in 0 .. b - 1
      BY <1>5
    <3>2. end[c] <= end[b - 1]
      BY <3>1, <1>5, EndsGrow
    <3>3. i >= end[b - 1] + 1 /\ i + 1 <= end[c]
      BY <2>2, <2>3
    <3>. QED
      BY <3>2, <3>3, <2>1, <2>4
  <2>6. ~Above(bs[b], bs[c])
    BY <2>5, <1>3, BlocksInOrder
  <2>7. mean(b) <= mean(c)
    BY <2>4, <2>6, MeansRound DEF mean
  <2>8. r[i] = mean(b) /\ r[i + 1] = mean(c)
    BY <2>2, <2>3, <1>6
  <2>. QED
    BY <2>7, <2>8
<1>. QED
  BY <1>6, <1>14, <1>15 DEF r, n

-----------------------------------------------------------------------------
(* The order that Brandes-Koepf keeps.                                      *)

\* The places of a layer in order: its nodes, rearranged.
LEMMA OrderedLayer ==
    ASSUME GraphInv, NEW k \in DOMAIN layers
    PROVE  LET o == Ordered(layers[k]) IN
           /\ o \in Seq(Nodes) /\ Len(o) = Len(layers[k]) /\ Len(o) \in Nat
           /\ \A i, j \in DOMAIN o : o[i] = o[j] => i = j
           /\ Range(o) = Range(layers[k])
<1>. DEFINE s == layers[k]
            n == Len(s)
            key == [p \in DOMAIN s |-> IF order[s[p]] = NoOrder THEN 0 ELSE order[s[p]]]
            o == StableSort(s, key, <)
<1>1. /\ s \in Seq(Nodes) /\ n \in Nat /\ DOMAIN s = 1 .. n
      /\ \A p, q \in 1 .. n : s[p] = s[q] => p = q
  BY LayerFacts
<1>2. key \in [1 .. n -> Int]
  <2>1. \A p \in 1 .. n : s[p] \in Nodes
    BY <1>1
  <2>2. \A v \in Nodes : order[v] \in Int
    BY DEF GraphInv, NoOrder
  <2>. QED
    BY <2>1, <2>2, <1>1
<1>. HIDE DEF key, s, n
<1>3. DOMAIN o = 1 .. n
  BY <1>1, <1>2, SortedByNumber
<1>4. PICK from : Rearranges(from, o, s, n)
  BY <1>1, <1>2, SortedByNumber
<1>5. o = [p \in 1 .. n |-> o[p]]
  BY <1>1 DEF StableSort
<1>6. Ordered(layers[k]) = o
  BY DEF Ordered, key, s
<1>. HIDE DEF o
<1>7. \A p \in 1 .. n : o[p] = s[from[p]] /\ from[p] \in 1 .. n
  BY <1>4 DEF Rearranges
<1>8. o \in Seq(Nodes) /\ Len(o) = n
  <2>1. \A p \in 1 .. n : o[p] \in Nodes
    BY <1>1, <1>7
  <2>. QED
    BY <2>1, <1>1, <1>5
<1>9. \A i, j \in 1 .. n : o[i] = o[j] => i = j
  <2>. SUFFICES ASSUME NEW i \in 1 .. n, NEW j \in 1 .. n, o[i] = o[j] PROVE i = j
    OBVIOUS
  <2>1. from[i] = from[j]
    BY <1>1, <1>7
  <2>. QED
    BY <2>1, <1>4 DEF Rearranges
<1>10. Range(o) = Range(s)
  <2>1. ASSUME NEW v \in Range(o)
        PROVE  v \in Range(s)
    BY <1>1, <1>3, <1>7 DEF Range
  <2>2. ASSUME NEW v \in Range(s)
        PROVE  v \in Range(o)
    <3>1. PICK q \in 1 .. n : s[q] = v
      BY <1>1 DEF Range
    <3>2. PICK p \in 1 .. n : from[p] = q
      BY <1>4 DEF Rearranges
    <3>. QED
      BY <3>1, <3>2, <1>3, <1>7 DEF Range
  <2>. QED
    BY <2>1, <2>2
<1>. QED
  BY <1>1, <1>3, <1>6, <1>8, <1>9, <1>10 DEF s, n

\* A layer sorted by preference: its nodes, rearranged, ties by their place.
LEMMA PreferenceLayer ==
    ASSUME GraphInv, ValuesInv, NEW k \in DOMAIN layers
    PROVE  LET s == layers[k]
               o == ByPreference(s)
               wish(v) == Preferred(v, x[v])
           IN /\ o \in Seq(Nodes) /\ Len(o) = Len(s) /\ Len(o) \in Nat
              /\ \A i, j \in DOMAIN o : o[i] = o[j] => i = j
              /\ Range(o) = Range(s)
              /\ \E from \in [1 .. Len(s) -> 1 .. Len(s)] :
                    /\ \A p \in 1 .. Len(s) : o[p] = s[from[p]]
                    /\ \A q \in 1 .. Len(s) : \E p \in 1 .. Len(s) : from[p] = q
                    /\ \A p, q \in 1 .. Len(s) : p < q /\ wish(o[p]) = wish(o[q]) => from[p] < from[q]
<1>. DEFINE s == layers[k]
            n == Len(s)
            key == [p \in DOMAIN s |-> Preferred(s[p], x[s[p]])]
            o == StableSort(s, key, <)
<1>1. /\ s \in Seq(Nodes) /\ n \in Nat /\ DOMAIN s = 1 .. n
      /\ \A p, q \in 1 .. n : s[p] = s[q] => p = q
  BY LayerFacts
<1>2. \A v \in Nodes : Preferred(v, x[v]) \in Int
  BY DEF Preferred, ValuesInv
<1>3. key \in [1 .. n -> Int] /\ \A p \in 1 .. n : key[p] = Preferred(s[p], x[s[p]])
  <2>1. \A p \in 1 .. n : s[p] \in Nodes
    BY <1>1
  <2>. QED
    BY <2>1, <1>1, <1>2
<1>4. ByPreference(s) = o
  BY DEF ByPreference
<1>. HIDE DEF key, s, n
<1>5. DOMAIN o = 1 .. n
  BY <1>1, <1>3, SortedByNumber
<1>6. PICK from : /\ Rearranges(from, o, s, n)
                  /\ \A p, q \in 1 .. n : p < q =>
                        \/ key[from[p]] < key[from[q]]
                        \/ key[from[p]] = key[from[q]] /\ from[p] < from[q]
  BY <1>1, <1>3, SortedByNumber
<1>7. o = [p \in 1 .. n |-> o[p]]
  BY <1>1 DEF StableSort
<1>. HIDE DEF o
<1>8. from \in [1 .. n -> 1 .. n] /\ \A p \in 1 .. n : o[p] = s[from[p]]
  BY <1>6 DEF Rearranges
<1>9. o \in Seq(Nodes) /\ Len(o) = n
  <2>1. \A p \in 1 .. n : o[p] \in Nodes
    BY <1>1, <1>8
  <2>. QED
    BY <2>1, <1>1, <1>7
<1>10. \A i, j \in 1 .. n : o[i] = o[j] => i = j
  <2>. SUFFICES ASSUME NEW i \in 1 .. n, NEW j \in 1 .. n, o[i] = o[j] PROVE i = j
    OBVIOUS
  <2>1. from[i] = from[j]
    BY <1>1, <1>8
  <2>. QED
    BY <2>1, <1>6 DEF Rearranges
<1>11. Range(o) = Range(s)
  <2>1. ASSUME NEW v \in Range(o)
        PROVE  v \in Range(s)
    BY <2>1, <1>1, <1>5, <1>8 DEF Range
  <2>2. ASSUME NEW v \in Range(s)
        PROVE  v \in Range(o)
    <3>1. PICK q \in 1 .. n : s[q] = v
      BY <2>2, <1>1 DEF Range
    <3>2. PICK p \in 1 .. n : from[p] = q
      BY <1>6 DEF Rearranges
    <3>. QED
      BY <3>1, <3>2, <1>5, <1>8 DEF Range
  <2>. QED
    BY <2>1, <2>2
<1>12. \A q \in 1 .. n : \E p \in 1 .. n : from[p] = q
  BY <1>6 DEF Rearranges
<1>13. ASSUME NEW p \in 1 .. n, NEW q \in 1 .. n, p < q, Preferred(o[p], x[o[p]]) = Preferred(o[q], x[o[q]])
       PROVE  from[p] < from[q]
  <2>1. key[from[p]] = key[from[q]] /\ key[from[p]] \in Int
    BY <1>3, <1>8, <1>13
  <2>. QED
    BY <2>1, <1>6, <1>13
<1>. QED
  BY <1>1, <1>4, <1>5, <1>8, <1>9, <1>10, <1>11, <1>12, <1>13 DEF s, n

\* The offsets of a layer grow by the distances.
LEMMA OffsetsGrow ==
    ASSUME GraphInv, NEW o \in Seq(Nodes)
    PROVE  /\ DOMAIN Offsets(o) = DOMAIN o
           /\ \A k \in 1 .. Len(o) : Offsets(o)[k] \in Int
           /\ \A k \in 1 .. Len(o) - 1 : Offsets(o)[k + 1] = Offsets(o)[k] + Distance(o[k], o[k + 1])
<1>. DEFINE n == Len(o)
            f(k) == [j \in 2 .. k |-> Distance(o[j - 1], o[j])]
            S(k) == SumFunctionOnSet(f(k), 2 .. k)
<1>1. n \in Nat /\ DOMAIN o = 1 .. n
  OBVIOUS
<1>2. \A k \in 1 .. n : Offsets(o)[k] = S(k)
  BY <1>1 DEF Offsets, SumFunction
<1>3. \A j \in 2 .. n : Distance(o[j - 1], o[j]) \in Int
  <2>. TAKE j \in 2 .. n
  <2>1. o[j - 1] \in Nodes /\ o[j] \in Nodes
    BY <1>1
  <2>2. Distance(o[j - 1], o[j]) \in Nat
    BY <2>1, Distances
  <2>. QED
    BY <2>2
<1>. HIDE DEF n
<1>4. ASSUME NEW k \in 1 .. n
      PROVE  IsFiniteSet(2 .. k) /\ \A j \in 2 .. k : f(k)[j] \in Int
  <2>1. IsFiniteSet(2 .. k)
    BY FS_Interval
  <2>2. ASSUME NEW j \in 2 .. k
        PROVE  f(k)[j] \in Int
    <3>1. j \in 2 .. n /\ f(k)[j] = Distance(o[j - 1], o[j])
      BY <1>1
    <3>. HIDE DEF f
    <3>. QED
      BY <3>1, <1>3
  <2>. QED
    BY <2>1, <2>2
<1>5. \A k \in 1 .. n : S(k) \in Int
  <2>. HIDE DEF f
  <2>. QED
    BY <1>4, SumIsNumber
<1>6. ASSUME NEW k \in 1 .. n - 1
      PROVE  S(k + 1) = S(k) + Distance(o[k], o[k + 1])
  <2>1. /\ k + 1 \in 2 .. k + 1 /\ k + 1 \in 1 .. n /\ k \in 1 .. n /\ (2 .. k + 1) \ {k + 1} = 2 .. k
        /\ (k + 1) - 1 = k /\ k + 1 \in 2 .. n
    BY <1>1
  <2>2. /\ f(k + 1)[k + 1] = Distance(o[k], o[k + 1])
        /\ \A j \in 2 .. k : f(k + 1)[j] = f(k)[j]
    BY <2>1
  <2>3. /\ IsFiniteSet(2 .. k + 1) /\ \A j \in 2 .. k + 1 : f(k + 1)[j] \in Int
        /\ IsFiniteSet(2 .. k)
    BY <2>1, <1>4
  <2>4. Distance(o[k], o[k + 1]) \in Int
    BY <2>1, <1>3
  <2>. HIDE DEF f
  <2>5. SumFunctionOnSet(f(k + 1), 2 .. k + 1) = f(k + 1)[k + 1] + SumFunctionOnSet(f(k + 1), 2 .. k)
    BY <2>1, <2>3, SumOfRest
  <2>6. SumFunctionOnSet(f(k + 1), 2 .. k) = S(k)
    BY <2>2, <2>3, SumOfSame
  <2>7. S(k) \in Int
    BY <2>1, <1>5
  <2>. QED
    BY <2>2, <2>4, <2>5, <2>6, <2>7
<1>. HIDE DEF S
<1>7. \A k \in 1 .. n - 1 : k \in 1 .. n /\ k + 1 \in 1 .. n
  BY <1>1
<1>8. DOMAIN Offsets(o) = DOMAIN o
  BY DEF Offsets
<1>. QED
  BY <1>2, <1>5, <1>6, <1>7, <1>8 DEF n

-----------------------------------------------------------------------------
(* The invariant is established and kept.                                   *)

\* What holds when assign_coordinates is called.
LEMMA InitInv == Init => GraphInv /\ StageInv /\ ValuesInv /\ RanksInv /\ ResultInv
<1>. SUFFICES ASSUME Init PROVE GraphInv /\ StageInv /\ ValuesInv /\ RanksInv /\ ResultInv
  OBVIOUS
<1>1. PICK g \in Inputs :
          /\ edges = g.edges /\ rank = g.rank /\ order = g.order
          /\ half = g.half /\ layers = g.layers
          /\ rankCoords = [v \in DOMAIN g.rank |-> 0]
          /\ x = [v \in DOMAIN g.rank |-> 0]
          /\ pos = [v \in DOMAIN g.rank |-> [x |-> 0, y |-> 0]]
  BY DEF Init
<1>2. /\ direction \in Directions /\ algorithm \in Algorithms
      /\ preferred = <<>> /\ aligned = <<>> /\ pass = 0 /\ todo = <<>>
      /\ pc = "ranks" /\ result = "none"
  BY DEF Init
<1>. DEFINE ids == NodeIds(Cardinality(DOMAIN g.rank))
            T == Seq(ids)
<1>3. /\ g.edges \in Seq(Edge) /\ IsFiniteSet(DOMAIN g.rank)
      /\ g.rank \in [ids -> Nat \union {NoRank}]
      /\ g.order \in [ids -> Nat \union {NoOrder}]
      /\ g.half \in [ids -> [width : Nat, height : Nat]]
      /\ g.layers \in Seq(T)
      /\ OnePlaceEach(g.layers)
  BY InputsAssumption
<1>. HIDE DEF T
<1>4. DOMAIN g.rank = ids /\ Nodes = ids
  BY <1>1, <1>3 DEF Nodes
<1>5. GraphInv
  <2>1. /\ edges \in Seq(Edge) /\ IsFiniteSet(Nodes) /\ Nodes = NodeIds(Cardinality(Nodes))
        /\ order \in [Nodes -> Nat \union {NoOrder}]
        /\ half \in [Nodes -> [width : Nat, height : Nat]]
    <3>. HIDE DEF ids
    <3>1. IsFiniteSet(Nodes) /\ Nodes = DOMAIN g.rank
      BY <1>3, <1>4
    <3>2. Nodes = NodeIds(Cardinality(Nodes))
      BY <3>1, <1>4 DEF ids
    <3>. QED
      BY <3>1, <3>2, <1>1, <1>3, <1>4
  <2>2. T = Seq(Nodes)
    BY <1>4 DEF T
  <2>3. layers \in Seq(Seq(Nodes)) /\ OnePlaceEach(layers)
    <3>. HIDE DEF ids
    <3>. QED
      BY <2>2, <1>1, <1>3
  <2>4. algorithm \in {"MedianRelax", "BrandesKopf"}
    BY <1>2, ConfigAssumption
  <2>. QED
    BY <2>1, <2>3, <2>4 DEF GraphInv
<1>. HIDE DEF ids
<1>6. StageInv
  <2>1. RelaxPasses \in Nat /\ BlendRounds \in Nat
    BY ConfigAssumption
  <2>2. <<>> \in Seq(DOMAIN layers) /\ DOMAIN <<>> = {}
    OBVIOUS
  <2>. QED
    BY <2>1, <2>2, <1>2 DEF StageInv
<1>7. ValuesInv
  <2>1. /\ rankCoords = [v \in Nodes |-> 0] /\ x = [v \in Nodes |-> 0]
        /\ pos = [v \in Nodes |-> [x |-> 0, y |-> 0]]
    BY <1>1, <1>4
  <2>2. DOMAIN preferred = {} /\ aligned \in Seq([Nodes -> Int]) /\ Len(aligned) = 0
    <3>1. DOMAIN <<>> = {} /\ <<>> \in Seq([Nodes -> Int]) /\ Len(<<>>) = 0
      OBVIOUS
    <3>. QED
      BY <3>1, <1>2
  <2>. QED
    BY <2>1, <2>2 DEF ValuesInv
<1>8. RanksInv /\ ResultInv
  BY <1>2 DEF RanksInv, ResultInv
<1>. QED
  BY <1>5, <1>6, <1>7, <1>8

\* The graph is never written.
LEMMA GraphKept ==
    [Next]_vars => /\ edges' = edges /\ rank' = rank /\ order' = order /\ half' = half
                   /\ layers' = layers /\ direction' = direction /\ algorithm' = algorithm
  BY DEF Next, Step, AssignRankCoords, Reject, RelaxStep, BlendStep, Center, Returned, PlaceInitially,
         BeginPass, Compact, SkipSmallLayer, BeginAlignment, AlignLayer, Average, RepairLayer, Blend,
         vars, graph

\* So whatever depends on it alone keeps its value.
LEMMA GraphValues ==
    ASSUME [Next]_vars
    PROVE  /\ Nodes' = Nodes /\ AllGood' = AllGood /\ GraphInv' = GraphInv
           /\ \A v : Across(v)' = Across(v) /\ Along(v)' = Along(v)
           /\ \A k : LayerCoord(k)' = LayerCoord(k) /\ WidestOf(k)' = WidestOf(k)
<1>1. /\ edges' = edges /\ rank' = rank /\ order' = order /\ half' = half
      /\ layers' = layers /\ direction' = direction /\ algorithm' = algorithm
  BY GraphKept
<1>2. Nodes' = Nodes
  BY <1>1 DEF Nodes
<1>3. AllGood' = AllGood
  BY <1>1, <1>2 DEF AllGood, Good, Found, Ranked
<1>4. GraphInv' = GraphInv
  BY <1>1, <1>2 DEF GraphInv
<1>5. \A v : Across(v)' = Across(v) /\ Along(v)' = Along(v)
  BY <1>1 DEF Across, Along
<1>6. \A k : LayerExtent(k)' = LayerExtent(k) /\ WidestOf(k)' = WidestOf(k)
  BY <1>1, <1>5 DEF LayerExtent, WidestOf
<1>7. \A k : LayerCoord(k)' = LayerCoord(k)
  BY <1>6 DEF LayerCoord
<1>. QED
  BY <1>2, <1>3, <1>4, <1>5, <1>6, <1>7

\* The lists of layers to visit: all of them, each once.
LEMMA AllLayers ==
    ASSUME GraphInv
    PROVE  LET all == [k \in DOMAIN layers |-> k] IN
           \A q \in {all, Reverse(all)} :
               /\ q \in Seq(DOMAIN layers) /\ Range(q) = DOMAIN layers
               /\ \A i, j \in DOMAIN q : q[i] = q[j] => i = j
<1>. DEFINE n == Len(layers)
            all == [k \in DOMAIN layers |-> k]
            rev == Reverse(all)
<1>1. n \in Nat /\ DOMAIN layers = 1 .. n
  BY DEF GraphInv
<1>. HIDE DEF n
<1>2. /\ all \in Seq(DOMAIN layers) /\ Len(all) = n /\ DOMAIN all = 1 .. n
      /\ \A i \in 1 .. n : all[i] = i
  BY <1>1
<1>. HIDE DEF all
<1>3. rev = [i \in 1 .. n |-> all[(n - i) + 1]]
  BY <1>2 DEF Reverse
<1>4. \A i \in 1 .. n : rev[i] = n - i + 1 /\ n - i + 1 \in 1 .. n
  BY <1>1, <1>2, <1>3
<1>5. rev \in Seq(DOMAIN layers) /\ DOMAIN rev = 1 .. n
  <2>1. rev \in [1 .. n -> 1 .. n]
    BY <1>3, <1>4
  <2>. HIDE DEF rev
  <2>. QED
    BY <2>1, <1>1
<1>. HIDE DEF rev
<1>6. Range(all) = DOMAIN layers
  BY <1>1, <1>2 DEF Range
<1>7. Range(rev) = DOMAIN layers
  <2>1. ASSUME NEW k \in 1 .. n PROVE k \in Range(rev)
    <3>1. n - k + 1 \in 1 .. n /\ n - (n - k + 1) + 1 = k
      BY <1>1
    <3>2. rev[n - k + 1] = k
      BY <3>1, <1>4
    <3>. QED
      BY <3>1, <3>2, <1>5 DEF Range
  <2>. QED
    BY <2>1, <1>1, <1>4, <1>5 DEF Range
<1>8. \A i, j \in 1 .. n : rev[i] = rev[j] => i = j
  BY <1>1, <1>4
<1>. DEFINE IsLoop(q) == /\ q \in Seq(DOMAIN layers) /\ Range(q) = DOMAIN layers
                         /\ \A i, j \in DOMAIN q : q[i] = q[j] => i = j
<1>9. IsLoop(all)
  BY <1>2, <1>6
<1>10. IsLoop(rev)
  BY <1>5, <1>7, <1>8
<1>11. \A q \in {all, rev} : IsLoop(q)
  <2>. HIDE DEF IsLoop
  <2>. QED
    BY <1>9, <1>10
<1>. QED
  BY <1>11 DEF all, rev

\* What a loop over the layers has left to visit.
LEMMA NextLayer ==
    ASSUME GraphInv, StageInv, todo # <<>>
    PROVE  /\ Head(todo) \in DOMAIN layers
           /\ Tail(todo) \in Seq(DOMAIN layers)
           /\ \A i, j \in DOMAIN Tail(todo) : Tail(todo)[i] = Tail(todo)[j] => i = j
           /\ Range(todo) = {Head(todo)} \union Range(Tail(todo))
           /\ Head(todo) \notin Range(Tail(todo))
<1>1. /\ todo \in Seq(DOMAIN layers) /\ \A i, j \in DOMAIN todo : todo[i] = todo[j] => i = j
  BY DEF StageInv
<1>. DEFINE t == Tail(todo)
            n == Len(todo)
<1>2. /\ n \in Nat \ {0} /\ t \in Seq(DOMAIN layers) /\ Len(t) = n - 1 /\ Head(todo) = todo[1]
      /\ todo[1] \in DOMAIN layers /\ DOMAIN todo = 1 .. n /\ DOMAIN t = 1 .. n - 1
      /\ \A i \in 1 .. n - 1 : t[i] = todo[i + 1]
  BY <1>1
<1>. HIDE DEF t, n
<1>3. \A i, j \in DOMAIN t : t[i] = t[j] => i = j
  <2>. SUFFICES ASSUME NEW i \in 1 .. n - 1, NEW j \in 1 .. n - 1, t[i] = t[j] PROVE i = j
    BY <1>2
  <2>1. todo[i + 1] = todo[j + 1] /\ i + 1 \in 1 .. n /\ j + 1 \in 1 .. n
    BY <1>2
  <2>2. i + 1 = j + 1
    BY <2>1, <1>1, <1>2
  <2>. QED
    BY <2>2
<1>4. \A i \in 1 .. n : i # 1 => (i - 1 \in 1 .. n - 1 /\ t[i - 1] = todo[i])
  <2>. SUFFICES ASSUME NEW i \in 1 .. n, i # 1
                PROVE  i - 1 \in 1 .. n - 1 /\ t[i - 1] = todo[i]
    OBVIOUS
  <2>1. i - 1 \in 1 .. n - 1 /\ (i - 1) + 1 = i
    BY <1>2
  <2>2. t[i - 1] = todo[(i - 1) + 1]
    BY <2>1, <1>2
  <2>. QED
    BY <2>1, <2>2
<1>5. \A i \in 1 .. n - 1 : i + 1 \in 1 .. n /\ i + 1 # 1 /\ 1 \in 1 .. n
  BY <1>2
<1>6. Range(todo) = {Head(todo)} \union Range(t)
  <2>1. ASSUME NEW k \in Range(todo) PROVE k \in {Head(todo)} \union Range(t)
    <3>1. PICK i \in 1 .. n : todo[i] = k
      BY <1>2 DEF Range
    <3>. QED
      BY <3>1, <1>2, <1>4 DEF Range
  <2>2. ASSUME NEW k \in Range(t) PROVE k \in Range(todo)
    <3>1. PICK i \in 1 .. n - 1 : t[i] = k
      BY <1>2 DEF Range
    <3>. QED
      BY <3>1, <1>2, <1>5 DEF Range
  <2>3. 1 \in 1 .. n
    BY <1>2
  <2>4. Head(todo) \in Range(todo)
    BY <2>3, <1>2 DEF Range
  <2>. QED
    BY <2>1, <2>2, <2>4
<1>7. Head(todo) \notin Range(t)
  <2>. SUFFICES ASSUME NEW i \in 1 .. n - 1, t[i] = todo[1] PROVE FALSE
    BY <1>2 DEF Range
  <2>1. i + 1 \in 1 .. n /\ 1 \in 1 .. n /\ i + 1 # 1 /\ todo[i + 1] = todo[1]
    BY <1>2, <1>5
  <2>. QED
    BY <2>1, <1>1, <1>2
<1>. QED
  BY <1>2, <1>3, <1>6, <1>7 DEF t

\* The stages come in their order, and the loops stop at their bounds.
LEMMA StepStage == GraphInv /\ StageInv /\ ValuesInv /\ [Next]_vars => StageInv'
<1>. SUFFICES ASSUME GraphInv, StageInv, ValuesInv, [Next]_vars PROVE StageInv'
  OBVIOUS
<1>1. layers' = layers /\ algorithm' = algorithm /\ AllGood' = AllGood
  BY GraphKept, GraphValues
<1>2. RelaxPasses \in Nat /\ BlendRounds \in Nat
  BY ConfigAssumption
<1>3. algorithm \in {"MedianRelax", "BrandesKopf"}
  BY DEF GraphInv
<1>. DEFINE all == [k \in DOMAIN layers |-> k]
            IsTodo(q) == q \in Seq(DOMAIN layers) /\ \A i, j \in DOMAIN q : q[i] = q[j] => i = j
<1>4. IsTodo(all) /\ IsTodo(Reverse(all))
  BY AllLayers
<1>5. todo # <<>> => IsTodo(Tail(todo))
  BY NextLayer
<1>6. IsTodo(todo)
  BY DEF StageInv
<1>. HIDE DEF all
<1>7. aligned \in Seq([Nodes -> Int])
  BY DEF ValuesInv
<1>8. CASE AssignRankCoords
  BY <1>1, <1>8 DEF StageInv, AssignRankCoords
<1>9. CASE Reject
  BY <1>1, <1>9 DEF StageInv, Reject
<1>10. CASE PlaceInitially
  <2>1. AllGood
    BY <1>10 DEF PlaceInitially, AllGood
  <2>. QED
    BY <2>1, <1>1, <1>10 DEF StageInv, PlaceInitially
<1>11. CASE BeginPass
  <2>1. todo' = all /\ pass' = pass + 1 /\ pass < RelaxPasses /\ pc = "relax" /\ UNCHANGED <<aligned, pc, result>>
    BY <1>11 DEF BeginPass, all
  <2>. QED
    BY <2>1, <1>1, <1>2, <1>4 DEF StageInv
<1>12. CASE Compact \/ SkipSmallLayer \/ RepairLayer
  <2>1. /\ todo' = Tail(todo) /\ todo # <<>> /\ pc \in {"relax", "repair"}
        /\ UNCHANGED <<pass, aligned, pc, result>>
    BY <1>12 DEF Compact, SkipSmallLayer, RepairLayer
  <2>. QED
    BY <2>1, <1>1, <1>5 DEF StageInv
<1>13. CASE BeginAlignment
  <2>. DEFINE zero == [v \in Nodes |-> 0]
  <2>1. AllGood /\ algorithm = "BrandesKopf"
    BY <1>13 DEF BeginAlignment, AllGood, StageInv
  <2>2. todo' = all \/ todo' = Reverse(all)
    BY <1>13 DEF BeginAlignment, all
  <2>3. Len(aligned) \in 0 .. 3 /\ pass = 0 /\ pc # "returned" /\ result = "none"
    <3>1. CASE pc = "place"
      <4>1. aligned = <<>> /\ Len(<<>>) = 0
        BY <3>1 DEF StageInv
      <4>. QED
        BY <4>1, <3>1 DEF StageInv
    <3>2. CASE pc = "align"
      <4>1. Len(aligned) \in 1 .. 4
        BY <3>2 DEF StageInv
      <4>2. Len(aligned) < 4
        BY <3>2, <1>13 DEF BeginAlignment
      <4>3. pass = 0 /\ result = "none"
        BY <3>2 DEF StageInv
      <4>. DEFINE m == Len(aligned)
      <4>. HIDE DEF m
      <4>4. m \in 0 .. 3
        BY <4>1, <4>2 DEF m
      <4>. QED
        BY <4>3, <4>4, <3>2 DEF m
    <3>. QED
      BY <3>1, <3>2, <1>13 DEF BeginAlignment
  <2>4. aligned' = Append(aligned, zero)
    BY <1>13 DEF BeginAlignment
  <2>. HIDE DEF zero
  <2>5. Len(aligned') = Len(aligned) + 1
    BY <2>4, <1>7
  <2>6. Len(aligned') \in 1 .. 4
    <3>. DEFINE m == Len(aligned)
                m1 == Len(aligned')
    <3>1. m \in 0 .. 3 /\ m1 = m + 1
      BY <2>3, <2>5
    <3>. HIDE DEF m, m1
    <3>2. m1 \in 1 .. 4
      BY <3>1
    <3>. QED
      BY <3>2 DEF m1
  <2>7. pc' = "align" /\ UNCHANGED <<pass, result>>
    BY <1>13 DEF BeginAlignment
  <2>. QED
    BY <2>1, <2>2, <2>3, <2>6, <2>7, <1>1, <1>2, <1>4 DEF StageInv
<1>14. CASE AlignLayer
  <2>1. /\ todo' = Tail(todo) /\ todo # <<>> /\ pc = "align" /\ UNCHANGED <<pass, pc, result>>
        /\ \E g : aligned' = [aligned EXCEPT ![Len(aligned)] = g]
    BY <1>14 DEF AlignLayer
  <2>2. Len(aligned') = Len(aligned)
    BY <2>1, <1>7
  <2>. QED
    BY <2>1, <2>2, <1>1, <1>5 DEF StageInv
<1>15. CASE Average
  <2>1. /\ todo' = all /\ pc = "align" /\ pc' = "repair" /\ Len(aligned) = 4
        /\ UNCHANGED <<pass, aligned, result>>
    BY <1>15 DEF Average, all
  <2>. QED
    BY <2>1, <1>1, <1>4 DEF StageInv
<1>16. CASE Blend
  <2>1. /\ todo' = all /\ pass' = pass + 1 /\ pass < BlendRounds /\ pc = "repair"
        /\ UNCHANGED <<aligned, pc, result>>
    BY <1>16 DEF Blend, all
  <2>. QED
    BY <2>1, <1>1, <1>2, <1>4 DEF StageInv
<1>17. CASE Center
  <2>1. /\ pc' = "returned" /\ result' = "Ok" /\ UNCHANGED <<pass, todo, aligned>>
    BY <1>17 DEF Center
  <2>. QED
    BY <2>1, <1>1, <1>6 DEF StageInv
<1>18. CASE Returned \/ UNCHANGED vars
  <2>1. UNCHANGED <<pass, todo, aligned, pc, result>>
    BY <1>18 DEF Returned, vars
  <2>. QED
    BY <2>1, <1>1 DEF StageInv
<1>. QED
  BY <1>8, <1>9, <1>10, <1>11, <1>12, <1>13, <1>14, <1>15, <1>16, <1>17, <1>18 DEF Next, Step, RelaxStep, BlendStep

-----------------------------------------------------------------------------
(* What the steps over one layer do: its nodes get new places, in order, and *)
(* no other node does.                                                      *)

\* A list read from its end.
LEMMA ReversedList ==
    ASSUME NEW S, NEW o \in Seq(S), \A i, j \in DOMAIN o : o[i] = o[j] => i = j
    PROVE  LET r == Reverse(o) IN
           /\ r \in Seq(S) /\ Len(r) = Len(o) /\ Range(r) = Range(o)
           /\ \A i, j \in DOMAIN r : r[i] = r[j] => i = j
           /\ \A k \in 1 .. Len(o) : r[k] = o[Len(o) - k + 1]
<1>. DEFINE n == Len(o)
            r == Reverse(o)
<1>1. n \in Nat /\ DOMAIN o = 1 .. n
  OBVIOUS
<1>2. r = [i \in 1 .. n |-> o[(n - i) + 1]]
  BY DEF Reverse
<1>. HIDE DEF n
<1>3. \A i \in 1 .. n : r[i] = o[n - i + 1] /\ n - i + 1 \in 1 .. n /\ n - (n - i + 1) + 1 = i
  BY <1>1, <1>2
<1>4. r \in Seq(S) /\ Len(r) = n /\ DOMAIN r = 1 .. n
  <2>1. r \in [1 .. n -> S]
    BY <1>1, <1>2, <1>3
  <2>. HIDE DEF r
  <2>. QED
    BY <2>1, <1>1
<1>. HIDE DEF r
<1>5. Range(r) = Range(o)
  <2>1. ASSUME NEW v \in Range(r) PROVE v \in Range(o)
    BY <2>1, <1>1, <1>3, <1>4 DEF Range
  <2>2. ASSUME NEW v \in Range(o) PROVE v \in Range(r)
    <3>1. PICK k \in 1 .. n : o[k] = v
      BY <2>2, <1>1 DEF Range
    <3>2. n - k + 1 \in 1 .. n /\ r[n - k + 1] = v
      BY <3>1, <1>3
    <3>. QED
      BY <3>2, <1>4 DEF Range
  <2>. QED
    BY <2>1, <2>2
<1>6. \A i, j \in 1 .. n : r[i] = r[j] => i = j
  <2>. SUFFICES ASSUME NEW i \in 1 .. n, NEW j \in 1 .. n, r[i] = r[j] PROVE i = j
    OBVIOUS
  <2>1. n - i + 1 = n - j + 1
    BY <1>1, <1>3
  <2>. QED
    BY <2>1, <1>1
<1>. QED
  BY <1>3, <1>4, <1>5, <1>6 DEF n, r

\* The alignments are placements of the nodes.
LEMMA AlignmentsTyped ==
    ASSUME ValuesInv
    PROVE  /\ Len(aligned) \in Nat /\ DOMAIN aligned = 1 .. Len(aligned)
           /\ \A a \in DOMAIN aligned : aligned[a] \in [Nodes -> Int]
<1>. DEFINE T == [Nodes -> Int]
<1>1. aligned \in Seq(T)
  BY DEF ValuesInv
<1>. HIDE DEF T
<1>2. /\ Len(aligned) \in Nat /\ DOMAIN aligned = 1 .. Len(aligned)
      /\ \A a \in DOMAIN aligned : aligned[a] \in T
  BY <1>1, ListMembers
<1>. QED
  BY <1>2 DEF T

\* What an alignment does to its layer.
LEMMA AlignFacts ==
    ASSUME GraphInv, StageInv, ValuesInv, AlignLayer
    PROVE  LET a == Len(aligned)
               layer == layers[Head(todo)]
           IN /\ a \in DOMAIN aligned
              /\ \E g \in [Nodes -> Int] :
                    /\ aligned' = [aligned EXCEPT ![a] = g]
                    /\ InOrder(g, layer)
                    /\ \A v \in Nodes : v \notin Range(layer) => g[v] = aligned[a][v]
<1>. DEFINE a == Len(aligned)
            h == Head(todo)
            o == Ordered(layers[h])
            nodes == IF AlignLeft(a) THEN o ELSE Reverse(o)
            sign == IF AlignLeft(a) THEN 1 ELSE -1
            f == aligned[a]
            up == TopDown(a)
            at == Lined(f, nodes, up, sign)
            g == Placed(f, nodes, at)
            n == Len(o)
<1>1. pc = "align" /\ todo # <<>> /\ aligned' = [aligned EXCEPT ![a] = g]
  BY DEF AlignLayer
<1>2. a \in 1 .. 4 /\ AllGood
  BY <1>1 DEF StageInv
<1>3. a \in DOMAIN aligned /\ f \in [Nodes -> Int]
  BY <1>2, AlignmentsTyped
<1>4. h \in DOMAIN layers
  BY <1>1, NextLayer
<1>5. /\ o \in Seq(Nodes) /\ n \in Nat /\ DOMAIN o = 1 .. n
      /\ \A i, j \in DOMAIN o : o[i] = o[j] => i = j
      /\ Range(o) = Range(layers[h])
  BY <1>4, OrderedLayer
<1>6. up \in BOOLEAN
  BY <1>2 DEF TopDown
<1>7. sign \in {1, -1} /\ (sign = 1 => nodes = o) /\ (sign # 1 => nodes = Reverse(o))
  OBVIOUS
<1>. HIDE DEF a, h, o, nodes, sign, f, up, at, n
<1>8. /\ nodes \in Seq(Nodes) /\ Len(nodes) = n /\ DOMAIN nodes = 1 .. n
      /\ \A i, j \in DOMAIN nodes : nodes[i] = nodes[j] => i = j
      /\ Range(nodes) = Range(layers[h])
  <2>1. CASE sign = 1
    BY <2>1, <1>5, <1>7 DEF n
  <2>2. CASE sign # 1
    <3>1. /\ nodes \in Seq(Nodes) /\ Len(nodes) = n
          /\ \A i, j \in DOMAIN nodes : nodes[i] = nodes[j] => i = j
          /\ Range(nodes) = Range(o)
      BY <2>2, <1>5, <1>7, ReversedList DEF n
    <3>. QED
      BY <3>1, <1>5
  <2>. QED
    BY <2>1, <2>2
<1>9. /\ at \in [1 .. n -> Int]
      /\ \A k \in 2 .. n :
            LET gap == Distance(nodes[k - 1], nodes[k]) IN
            IF sign = 1 THEN at[k] >= at[k - 1] + gap ELSE at[k] <= at[k - 1] - gap
  BY <1>2, <1>3, <1>6, <1>7, <1>8, LinedAt DEF at
<1>10. g \in [Nodes -> Int]
  BY <1>3, <1>8, <1>9, PlacedTyped
<1>11. /\ \A k \in 1 .. n : g[nodes[k]] = at[k]
       /\ \A v \in Nodes : v \notin Range(layers[h]) => g[v] = f[v]
  <2>1. \A k \in 1 .. n : nodes[k] \in DOMAIN f
    BY <1>3, <1>8
  <2>2. DOMAIN f = Nodes
    BY <1>3
  <2>3. /\ \A k \in DOMAIN nodes : nodes[k] \in DOMAIN f => g[nodes[k]] = at[k]
        /\ \A v \in DOMAIN f : v \notin Range(nodes) => g[v] = f[v]
    BY <1>8, PlacedAt
  <2>. HIDE DEF g
  <2>. QED
    BY <2>1, <2>2, <2>3, <1>8
<1>. HIDE DEF g
<1>12. \A k \in 1 .. n - 1 : g[o[k + 1]] - g[o[k]] >= Distance(o[k], o[k + 1])
  <2>. TAKE k \in 1 .. n - 1
  <2>1. k \in 1 .. n /\ k + 1 \in 1 .. n /\ o[k] \in Nodes /\ o[k + 1] \in Nodes
    BY <1>5
  <2>2. Distance(o[k], o[k + 1]) \in Nat /\ Distance(o[k], o[k + 1]) = Distance(o[k + 1], o[k])
    BY <2>1, Distances
  <2>3. g[o[k]] \in Int /\ g[o[k + 1]] \in Int
    BY <2>1, <1>10
  <2>4. CASE sign = 1
    <3>1. nodes = o /\ k + 1 \in 2 .. n /\ (k + 1) - 1 = k
      BY <2>1, <2>4, <1>5, <1>7
    <3>2. at[k + 1] >= at[k] + Distance(o[k], o[k + 1])
      BY <3>1, <2>4, <1>9
    <3>3. g[o[k]] = at[k] /\ g[o[k + 1]] = at[k + 1]
      BY <3>1, <2>1, <1>11
    <3>. QED
      BY <3>2, <3>3, <2>2, <2>3
  <2>5. CASE sign # 1
    <3>. DEFINE m == n - k + 1
    <3>1. nodes = Reverse(o)
      BY <2>5, <1>7
    <3>2. /\ m \in 2 .. n /\ m \in 1 .. n /\ m - 1 \in 1 .. n
          /\ n - m + 1 = k /\ n - (m - 1) + 1 = k + 1
      BY <2>1, <1>5
    <3>. HIDE DEF m
    <3>3. \A i \in 1 .. n : nodes[i] = o[n - i + 1]
      BY <3>1, <1>5, ReversedList DEF n
    <3>4. nodes[m] = o[k] /\ nodes[m - 1] = o[k + 1]
      BY <3>2, <3>3
    <3>5. at[m] <= at[m - 1] - Distance(o[k + 1], o[k])
      BY <3>2, <3>4, <2>5, <1>9
    <3>6. g[o[k]] = at[m] /\ g[o[k + 1]] = at[m - 1]
      BY <3>2, <3>4, <1>11
    <3>. QED
      BY <3>5, <3>6, <2>2, <2>3
  <2>. QED
    BY <2>4, <2>5
<1>13. InOrder(g, layers[h])
  BY <1>12 DEF InOrder, o, n
<1>. QED
  BY <1>1, <1>3, <1>10, <1>11, <1>13 DEF a, h, f

\* A repair.
LEMMA RepairFacts ==
    ASSUME GraphInv, StageInv, ValuesInv, RepairLayer
    PROVE  LET layer == layers[Head(todo)] IN
           /\ x' \in [Nodes -> Int]
           /\ InOrder(x', layer)
           /\ Adjusted(x', Ordered(layer)) = BestFit(Adjusted(x, Ordered(layer)))
           /\ \A v \in Nodes : v \notin Range(layer) => x'[v] = x[v]
<1>. DEFINE h == Head(todo)
            o == Ordered(layers[h])
            n == Len(o)
            off == Offsets(o)
            left == Adjusted(x, o)
            solved == Regression(left)
            at == [k \in DOMAIN o |-> solved[k] + off[k]]
<1>1. todo # <<>> /\ x' = Placed(x, o, at)
  BY DEF RepairLayer
<1>2. x \in [Nodes -> Int]
  BY DEF ValuesInv
<1>3. h \in DOMAIN layers
  BY <1>1, NextLayer
<1>4. /\ o \in Seq(Nodes) /\ n \in Nat /\ DOMAIN o = 1 .. n
      /\ \A i, j \in DOMAIN o : o[i] = o[j] => i = j
      /\ Range(o) = Range(layers[h])
  BY <1>3, OrderedLayer
<1>. HIDE DEF h, o, n
<1>5. /\ \A k \in 1 .. n : off[k] \in Int
      /\ \A k \in 1 .. n - 1 : off[k + 1] = off[k] + Distance(o[k], o[k + 1])
  BY <1>4, OffsetsGrow DEF n
<1>. HIDE DEF off
<1>6. left \in Seq(Int) /\ Len(left) = n
  <2>1. left = [k \in 1 .. n |-> x[o[k]] - off[k]]
    BY <1>4 DEF Adjusted, off
  <2>2. \A k \in 1 .. n : x[o[k]] \in Int
    BY <1>2, <1>4
  <2>3. \A k \in 1 .. n : x[o[k]] - off[k] \in Int
    BY <2>2, <1>5
  <2>. QED
    BY <2>1, <2>3, <1>4
<1>. HIDE DEF left
<1>7. solved \in Seq(Int) /\ Len(solved) = n /\ Rising(solved) /\ solved = BestFit(left)
  BY <1>6, RegressionIsBestFit
<1>. HIDE DEF solved
<1>8. \A k \in 1 .. n : solved[k] \in Int /\ at[k] \in Int /\ at[k] = solved[k] + off[k]
  BY <1>4, <1>5, <1>7
<1>. HIDE DEF at
<1>9. x' \in [Nodes -> Int]
  BY <1>1, <1>2, <1>4, <1>8, PlacedTyped
<1>10. /\ \A k \in 1 .. n : x'[o[k]] = at[k]
       /\ \A v \in Nodes : v \notin Range(layers[h]) => x'[v] = x[v]
  <2>1. \A k \in 1 .. n : o[k] \in DOMAIN x
    BY <1>2, <1>4
  <2>2. DOMAIN x = Nodes /\ \A i, j \in DOMAIN o : o[i] = o[j] => i = j
    BY <1>2, <1>4
  <2>3. /\ \A k \in DOMAIN o : o[k] \in DOMAIN x => x'[o[k]] = at[k]
        /\ \A v \in DOMAIN x : v \notin Range(o) => x'[v] = x[v]
    BY <2>2, <1>1, PlacedAt
  <2>. QED
    BY <2>1, <2>2, <2>3, <1>4
<1>11. \A k \in 1 .. n - 1 : x'[o[k + 1]] - x'[o[k]] >= Distance(o[k], o[k + 1])
  <2>. TAKE k \in 1 .. n - 1
  <2>1. k \in 1 .. n /\ k + 1 \in 1 .. n /\ o[k] \in Nodes /\ o[k + 1] \in Nodes
    BY <1>4
  <2>2. solved[k] <= solved[k + 1]
    BY <1>4, <1>7 DEF Rising
  <2>3. Distance(o[k], o[k + 1]) \in Nat
    BY <2>1, Distances
  <2>4. /\ x'[o[k]] = solved[k] + off[k] /\ x'[o[k + 1]] = solved[k + 1] + off[k + 1]
        /\ off[k + 1] = off[k] + Distance(o[k], o[k + 1])
    BY <2>1, <1>5, <1>8, <1>10
  <2>5. solved[k] \in Int /\ solved[k + 1] \in Int /\ off[k] \in Int
    BY <2>1, <1>5, <1>8
  <2>. QED
    BY <2>2, <2>3, <2>4, <2>5
<1>12. InOrder(x', layers[h])
  BY <1>11 DEF InOrder, o, n
<1>13. Adjusted(x', o) = BestFit(left)
  <2>1. Adjusted(x', o) = [k \in 1 .. n |-> x'[o[k]] - off[k]]
    BY <1>4 DEF Adjusted, off
  <2>2. \A k \in 1 .. n : x'[o[k]] - off[k] = solved[k]
    <3>. TAKE k \in 1 .. n
    <3>1. x'[o[k]] = solved[k] + off[k] /\ solved[k] \in Int /\ off[k] \in Int
      BY <1>5, <1>8, <1>10
    <3>. QED
      BY <3>1
  <2>3. solved = [k \in 1 .. n |-> solved[k]]
    BY <1>7
  <2>4. Adjusted(x', o) = solved
    BY <2>1, <2>2, <2>3
  <2>. QED
    BY <2>4, <1>7
<1>. QED
  BY <1>9, <1>10, <1>12, <1>13 DEF h, o, left

\* A compaction.
LEMMA CompactFacts ==
    ASSUME GraphInv, StageInv, ValuesInv, Compact
    PROVE  LET layer == layers[Head(todo)]
               o == ByPreference(layer)
           IN /\ x' \in [Nodes -> Int]
              /\ \A k \in 1 .. Len(o) : x'[o[k]] = Compacted(o)[k]
              /\ \A v \in Nodes : v \notin Range(layer) => x'[v] = x[v]
<1>. DEFINE h == Head(todo)
            o == ByPreference(layers[h])
            n == Len(o)
            at == Compacted(o)
<1>1. todo # <<>> /\ x' = Placed(x, o, at)
  BY DEF Compact
<1>2. x \in [Nodes -> Int]
  BY DEF ValuesInv
<1>3. h \in DOMAIN layers
  BY <1>1, NextLayer
<1>4. /\ o \in Seq(Nodes) /\ n \in Nat /\ DOMAIN o = 1 .. n
      /\ \A i, j \in DOMAIN o : o[i] = o[j] => i = j
      /\ Range(o) = Range(layers[h])
  BY <1>3, PreferenceLayer
<1>. HIDE DEF h, o
<1>5. at \in [1 .. n -> Int]
  BY <1>4, CompactedAt
<1>. HIDE DEF at, n
<1>6. x' \in [Nodes -> Int]
  BY <1>1, <1>2, <1>4, <1>5, PlacedTyped
<1>7. /\ \A k \in 1 .. n : x'[o[k]] = at[k]
      /\ \A v \in Nodes : v \notin Range(layers[h]) => x'[v] = x[v]
  <2>1. \A k \in 1 .. n : o[k] \in DOMAIN x
    BY <1>2, <1>4
  <2>2. DOMAIN x = Nodes /\ \A i, j \in DOMAIN o : o[i] = o[j] => i = j
    BY <1>2, <1>4
  <2>3. /\ \A k \in DOMAIN o : o[k] \in DOMAIN x => x'[o[k]] = at[k]
        /\ \A v \in DOMAIN x : v \notin Range(o) => x'[v] = x[v]
    BY <2>2, <1>1, PlacedAt
  <2>. QED
    BY <2>1, <2>2, <2>3, <1>4
<1>. QED
  BY <1>6, <1>7 DEF h, o, at, n

\* The centre of some numbers, doubled, is a number.
LEMMA CenterTyped ==
    ASSUME IsFiniteSet(Nodes), Nodes # {}, NEW at \in [Nodes -> Int], NEW h \in [Nodes -> Int]
    PROVE  TwiceCenter(at, h) \in Int
<1>. DEFINE low == [v \in Nodes |-> at[v] - h[v]]
            high == [v \in Nodes |-> at[v] + h[v]]
            L == {low[v] : v \in Nodes}
            H == {high[v] : v \in Nodes}
<1>1. \A v \in Nodes : low[v] \in Int /\ high[v] \in Int
  OBVIOUS
<1>2. L = {at[v] - h[v] : v \in Nodes} /\ H = {at[v] + h[v] : v \in Nodes}
  OBVIOUS
<1>. HIDE DEF low, high
<1>3. IsFiniteSet(L) /\ IsFiniteSet(H)
  BY ImageIsFinite
<1>4. (\A b \in L : b \in Int) /\ (\A b \in H : b \in Int) /\ L # {} /\ H # {}
  BY <1>1
<1>5. TwiceCenter(at, h) = Min(L) + Max(H)
  BY <1>2 DEF TwiceCenter
<1>. HIDE DEF L, H
<1>6. Min(L) \in L /\ Max(H) \in H
  BY <1>3, <1>4, LeastOfFinite, GreatestOfFinite
<1>7. Min(L) \in Int /\ Max(H) \in Int
  BY <1>4, <1>6
<1>. QED
  BY <1>5, <1>7

\* The centering shifts all nodes alike.
LEMMA CenterFacts ==
    ASSUME GraphInv, ValuesInv, Center
    PROVE  \E cx, cy \in Int : pos' = [v \in Nodes |-> [x |-> 2 * PlaceX(v) - cx, y |-> 2 * PlaceY(v) - cy]]
<1>. DEFINE xs == [v \in Nodes |-> PlaceX(v)]
            ys == [v \in Nodes |-> PlaceY(v)]
            ws == [v \in Nodes |-> half[v].width]
            hs == [v \in Nodes |-> half[v].height]
            cx == TwiceCenter(xs, ws)
            cy == TwiceCenter(ys, hs)
<1>1. pos' = [v \in Nodes |-> [x |-> 2 * xs[v] - cx, y |-> 2 * ys[v] - cy]]
  BY DEF Center
<1>2. \A v \in Nodes : PlaceX(v) \in Int /\ PlaceY(v) \in Int
  BY DEF PlaceX, PlaceY, ValuesInv
<1>3. \A v \in Nodes : half[v].width \in Int /\ half[v].height \in Int
  BY DEF GraphInv
<1>4. xs \in [Nodes -> Int] /\ ys \in [Nodes -> Int] /\ ws \in [Nodes -> Int] /\ hs \in [Nodes -> Int]
  BY <1>2, <1>3
<1>5. \A v \in Nodes : xs[v] = PlaceX(v) /\ ys[v] = PlaceY(v)
  OBVIOUS
<1>. HIDE DEF xs, ys, ws, hs
<1>6. CASE Nodes = {}
  <2>1. pos' = [v \in Nodes |-> [x |-> 2 * PlaceX(v) - 0, y |-> 2 * PlaceY(v) - 0]]
    BY <1>1, <1>6
  <2>. QED
    BY <2>1
<1>7. CASE Nodes # {}
  <2>1. IsFiniteSet(Nodes)
    BY DEF GraphInv
  <2>2. cx \in Int /\ cy \in Int
    BY <2>1, <1>4, <1>7, CenterTyped
  <2>. HIDE DEF cx, cy
  <2>3. pos' = [v \in Nodes |-> [x |-> 2 * PlaceX(v) - cx, y |-> 2 * PlaceY(v) - cy]]
    BY <1>1, <1>5
  <2>. QED
    BY <2>2, <2>3
<1>. QED
  BY <1>6, <1>7

\* Coordinates stay numbers.
LEMMA StepValues == GraphInv /\ StageInv /\ ValuesInv /\ [Next]_vars => ValuesInv'
<1>. SUFFICES ASSUME GraphInv, StageInv, ValuesInv, [Next]_vars PROVE ValuesInv'
  OBVIOUS
<1>1. Nodes' = Nodes
  BY GraphValues
<1>2. /\ rankCoords \in [Nodes -> Nat]
      /\ x \in [Nodes -> Int]
      /\ DOMAIN preferred \subseteq Nodes /\ \A v \in DOMAIN preferred : preferred[v] \in Int
      /\ aligned \in Seq([Nodes -> Int]) /\ Len(aligned) <= 4
      /\ pos \in [Nodes -> [x : Int, y : Int]]
  BY DEF ValuesInv
<1>3. CASE AssignRankCoords
  <2>1. UNCHANGED <<x, preferred, aligned, pos>>
    BY <1>3 DEF AssignRankCoords
  <2>2. rankCoords' \in [Nodes -> Nat]
    <3>. DEFINE Layer(v) == CHOOSE k \in DOMAIN layers : v \in Range(layers[k])
                c(v) == IF \E k \in DOMAIN layers : v \in Range(layers[k]) THEN LayerCoord(Layer(v)) ELSE 0
    <3>1. rankCoords' = [v \in Nodes |-> c(v)]
      BY <1>3 DEF AssignRankCoords
    <3>2. ASSUME NEW v \in Nodes PROVE c(v) \in Nat
      <4>1. CASE \E k \in DOMAIN layers : v \in Range(layers[k])
        <5>1. Layer(v) \in DOMAIN layers
          BY <4>1
        <5>. HIDE DEF Layer
        <5>2. LayerCoord(Layer(v)) \in Nat
          BY <5>1, CoordsGrow
        <5>. QED
          BY <4>1, <5>2
      <4>2. CASE ~\E k \in DOMAIN layers : v \in Range(layers[k])
        BY <4>2
      <4>. QED
        BY <4>1, <4>2
    <3>. HIDE DEF c
    <3>. QED
      BY <3>1, <3>2
  <2>. QED
    BY <2>1, <2>2, <1>1, <1>2 DEF ValuesInv
<1>4. CASE PlaceInitially
  <2>1. UNCHANGED <<rankCoords, preferred, aligned, pos>> /\ x' = [v \in Nodes |-> InitialX(v)]
    BY <1>4 DEF PlaceInitially
  <2>2. ASSUME NEW v \in Nodes PROVE InitialX(v) \in Int
    <3>1. CASE \E k \in DOMAIN layers : v \in Range(layers[k])
      <4>1. PICK k \in DOMAIN layers : v \in Range(layers[k])
        BY <3>1
      <4>2. (CHOOSE j \in DOMAIN layers : v \in Range(layers[j])) = k
        BY <4>1, LayerOfNode
      <4>. DEFINE p == CHOOSE p \in DOMAIN layers[k] : layers[k][p] = v
      <4>3. InitialX(v) = (p - 1) * (WidestOf(k) + HGap)
        BY <3>1, <4>2 DEF InitialX
      <4>4. p \in DOMAIN layers[k]
        BY <4>1, LayerFacts
      <4>. HIDE DEF p
      <4>5. p - 1 \in Int /\ WidestOf(k) + HGap \in Int
        <5>1. p \in Int
          BY <4>4, LayerFacts
        <5>2. WidestOf(k) \in Nat /\ HGap \in Nat
          BY Extents, ConfigAssumption
        <5>. QED
          BY <5>1, <5>2
      <4>. QED
        BY <4>3, <4>5
    <3>2. CASE ~\E k \in DOMAIN layers : v \in Range(layers[k])
      BY <3>2 DEF InitialX
    <3>. QED
      BY <3>1, <3>2
  <2>3. x' \in [Nodes -> Int]
    BY <2>1, <2>2
  <2>. QED
    BY <2>1, <2>3, <1>1, <1>2 DEF ValuesInv
<1>5. CASE BeginPass
  <2>. DEFINE up == pass % 2 = 0
              Of(v) == Neighbors(v, up)
              D == {u \in Nodes : DOMAIN Of(u) # {}}
  <2>1. UNCHANGED <<rankCoords, x, aligned, pos>> /\ preferred' = [v \in D |-> MedianOf(Of(v))] /\ pc = "relax"
    BY <1>5 DEF BeginPass
  <2>2. up \in BOOLEAN /\ AllGood
    BY <2>1 DEF StageInv
  <2>. HIDE DEF up
  <2>3. \A v \in D : MedianOf(Of(v)) \in Int
    BY <2>2, <1>2, MedianIsOneOf
  <2>4. DOMAIN preferred' \subseteq Nodes /\ \A v \in DOMAIN preferred' : preferred'[v] \in Int
    BY <2>1, <2>3
  <2>. QED
    BY <2>1, <2>4, <1>1, <1>2 DEF ValuesInv
<1>6. CASE Compact
  <2>1. UNCHANGED <<rankCoords, preferred, aligned, pos>>
    BY <1>6 DEF Compact
  <2>2. x' \in [Nodes -> Int]
    BY <1>6, CompactFacts
  <2>. QED
    BY <2>1, <2>2, <1>1, <1>2 DEF ValuesInv
<1>7. CASE BeginAlignment
  <2>. DEFINE zero == [v \in Nodes |-> 0]
  <2>1. UNCHANGED <<rankCoords, x, preferred, pos>> /\ aligned' = Append(aligned, zero)
    BY <1>7 DEF BeginAlignment
  <2>2. zero \in [Nodes -> Int]
    OBVIOUS
  <2>. HIDE DEF zero
  <2>3. aligned' \in Seq([Nodes -> Int]) /\ Len(aligned') = Len(aligned) + 1
    BY <2>1, <2>2, <1>2
  <2>4. Len(aligned) < 4
    <3>1. Len(<<>>) = 0
      OBVIOUS
    <3>2. (pc = "place" => aligned = <<>>) /\ (pc = "align" => Len(aligned) < 4)
      BY <1>7 DEF BeginAlignment, StageInv
    <3>3. pc = "place" \/ pc = "align"
      BY <1>7 DEF BeginAlignment
    <3>. QED
      BY <3>1, <3>2, <3>3
  <2>5. Len(aligned') <= 4
    BY <2>3, <2>4, <1>2
  <2>. QED
    BY <2>1, <2>3, <2>5, <1>1, <1>2 DEF ValuesInv
<1>8. CASE AlignLayer
  <2>1. UNCHANGED <<rankCoords, x, preferred, pos>>
    BY <1>8 DEF AlignLayer
  <2>2. PICK g \in [Nodes -> Int] : aligned' = [aligned EXCEPT ![Len(aligned)] = g]
    BY <1>8, AlignFacts
  <2>3. aligned' \in Seq([Nodes -> Int]) /\ Len(aligned') = Len(aligned)
    <3>. DEFINE T == [Nodes -> Int]
                a == Len(aligned)
    <3>1. aligned \in Seq(T) /\ a \in DOMAIN aligned /\ g \in T /\ aligned' = [aligned EXCEPT ![a] = g]
      BY <2>2, <1>2, <1>8, AlignFacts
    <3>. HIDE DEF T, a
    <3>2. aligned' \in Seq(T) /\ Len(aligned') = Len(aligned)
      BY <3>1, ListExchanged
    <3>. QED
      BY <3>2 DEF T
  <2>. QED
    BY <2>1, <2>3, <1>1, <1>2 DEF ValuesInv
<1>9. CASE Average
  <2>. DEFINE sum(v) == aligned[1][v] + aligned[2][v] + aligned[3][v] + aligned[4][v]
  <2>1. UNCHANGED <<rankCoords, preferred, aligned, pos>> /\ x' = [v \in Nodes |-> sum(v) \div 4] /\ Len(aligned) = 4
    BY <1>9 DEF Average
  <2>2. \A i \in 1 .. 4 : aligned[i] \in [Nodes -> Int]
    BY <2>1, AlignmentsTyped
  <2>3. \A v \in Nodes : sum(v) \in Int
    BY <2>2
  <2>. HIDE DEF sum
  <2>4. \A v \in Nodes : sum(v) \div 4 \in Int
    BY <2>3
  <2>5. x' \in [Nodes -> Int]
    BY <2>1, <2>4
  <2>. QED
    BY <2>1, <2>5, <1>1, <1>2 DEF ValuesInv
<1>10. CASE RepairLayer
  <2>1. UNCHANGED <<rankCoords, preferred, aligned, pos>>
    BY <1>10 DEF RepairLayer
  <2>2. x' \in [Nodes -> Int]
    BY <1>10, RepairFacts
  <2>. QED
    BY <2>1, <2>2, <1>1, <1>2 DEF ValuesInv
<1>11. CASE Blend
  <2>. DEFINE n(v) == Cardinality(DOMAIN AllNeighbors(v))
              sum(v) == n(v) * x[v] + SumOf(x, AllNeighbors(v))
              b(v) == IF n(v) = 0 THEN x[v] ELSE sum(v) \div (2 * n(v))
  <2>1. UNCHANGED <<rankCoords, preferred, aligned, pos>> /\ x' = [v \in Nodes |-> b(v)] /\ pc = "repair"
    BY <1>11 DEF Blend
  <2>2. AllGood
    BY <2>1 DEF StageInv
  <2>3. ASSUME NEW v \in Nodes PROVE b(v) \in Int
    <3>1. n(v) \in Nat
      BY <2>2, NeighborsTyped
    <3>2. SumOf(x, AllNeighbors(v)) \in Int
      BY <2>2, <1>2, SumTyped
    <3>3. x[v] \in Int
      BY <1>2
    <3>. HIDE DEF n
    <3>4. sum(v) \in Int
      BY <3>1, <3>2, <3>3
    <3>5. n(v) # 0 => 2 * n(v) \in Nat \ {0}
      BY <3>1
    <3>. HIDE DEF sum
    <3>6. n(v) # 0 => sum(v) \div (2 * n(v)) \in Int
      BY <3>4, <3>5, QuotientTyped
    <3>. QED
      BY <3>3, <3>6
  <2>. HIDE DEF b
  <2>4. x' \in [Nodes -> Int]
    BY <2>1, <2>3
  <2>. QED
    BY <2>1, <2>4, <1>1, <1>2 DEF ValuesInv
<1>12. CASE Center
  <2>1. UNCHANGED <<rankCoords, x, preferred, aligned>>
    BY <1>12 DEF Center
  <2>2. PICK cx \in Int, cy \in Int :
            pos' = [v \in Nodes |-> [x |-> 2 * PlaceX(v) - cx, y |-> 2 * PlaceY(v) - cy]]
    BY <1>12, CenterFacts
  <2>3. \A v \in Nodes : PlaceX(v) \in Int /\ PlaceY(v) \in Int
    BY <1>2 DEF PlaceX, PlaceY
  <2>4. \A v \in Nodes : 2 * PlaceX(v) - cx \in Int /\ 2 * PlaceY(v) - cy \in Int
    BY <2>3
  <2>5. pos' \in [Nodes -> [x : Int, y : Int]]
    BY <2>2, <2>4
  <2>. QED
    BY <2>1, <2>5, <1>1, <1>2 DEF ValuesInv
<1>13. CASE Reject \/ SkipSmallLayer \/ Returned \/ UNCHANGED vars
  <2>1. UNCHANGED <<rankCoords, x, preferred, aligned, pos>>
    BY <1>13 DEF Reject, SkipSmallLayer, Returned, vars
  <2>. QED
    BY <2>1, <1>1, <1>2 DEF ValuesInv
<1>. QED
  BY <1>3, <1>4, <1>5, <1>6, <1>7, <1>8, <1>9, <1>10, <1>11, <1>12, <1>13 DEF Next, Step, RelaxStep, BlendStep

\* The coordinates of the ranks are assigned once.
LEMMA StepRanks == GraphInv /\ RanksInv /\ [Next]_vars => RanksInv'
<1>. SUFFICES ASSUME GraphInv, RanksInv, [Next]_vars PROVE RanksInv'
  OBVIOUS
<1>1. layers' = layers /\ \A k : LayerCoord(k)' = LayerCoord(k)
  BY GraphKept, GraphValues
<1>2. CASE AssignRankCoords
  <2>1. ASSUME NEW k \in DOMAIN layers, NEW v \in Range(layers[k])
        PROVE  rankCoords'[v] = LayerCoord(k)
    <3>1. v \in Nodes
      BY LayerFacts
    <3>2. (CHOOSE j \in DOMAIN layers : v \in Range(layers[j])) = k
      BY LayerOfNode
    <3>. QED
      BY <3>1, <3>2, <1>2 DEF AssignRankCoords
  <2>. QED
    BY <2>1, <1>1 DEF RanksInv
<1>3. CASE ~AssignRankCoords
  <2>1. rankCoords' = rankCoords /\ (pc' # "ranks" => pc # "ranks")
    BY <1>3 DEF Next, Step, Reject, RelaxStep, BlendStep, Center, Returned, PlaceInitially,
                BeginPass, Compact, SkipSmallLayer, BeginAlignment, AlignLayer, Average, RepairLayer, Blend,
                Relaxed, Blended, vars
  <2>. QED
    BY <2>1, <1>1 DEF RanksInv
<1>. QED
  BY <1>2, <1>3

\* The result is the coordinates, shifted.
LEMMA StepResult == GraphInv /\ StageInv /\ ValuesInv /\ ResultInv /\ [Next]_vars => ResultInv'
<1>. SUFFICES ASSUME GraphInv, StageInv, ValuesInv, ResultInv, [Next]_vars PROVE ResultInv'
  OBVIOUS
<1>1. Nodes' = Nodes /\ direction' = direction
  BY GraphKept, GraphValues
<1>2. CASE UNCHANGED <<rankCoords, x>> /\ result' = "Ok"
  <2>1. \A v : PlaceX(v)' = PlaceX(v) /\ PlaceY(v)' = PlaceY(v)
    BY <1>1, <1>2 DEF PlaceX, PlaceY
  <2>2. CASE Center
    <3>1. todo' = <<>> /\ pc' = "returned"
      BY <2>2 DEF Center, Relaxed, Blended
    <3>2. PICK cx \in Int, cy \in Int :
              pos' = [v \in Nodes |-> [x |-> 2 * PlaceX(v) - cx, y |-> 2 * PlaceY(v) - cy]]
      BY <2>2, CenterFacts
    <3>. QED
      BY <3>1, <3>2, <2>1, <1>1 DEF ResultInv
  <2>3. CASE ~Center
    <3>1. UNCHANGED <<todo, pc, pos, result>>
      BY <2>3, <1>2 DEF Next, Step, AssignRankCoords, Reject, RelaxStep, BlendStep, Returned, PlaceInitially,
                BeginPass, Compact, SkipSmallLayer, BeginAlignment, AlignLayer, Average, RepairLayer, Blend,
                vars, StageInv
    <3>. QED
      BY <3>1, <2>1, <1>1, <1>2 DEF ResultInv
  <2>. QED
    BY <2>2, <2>3
<1>3. CASE ~UNCHANGED <<rankCoords, x>>
  <2>1. pc # "returned" /\ result' = result
    BY <1>3 DEF Next, Step, AssignRankCoords, Reject, RelaxStep, BlendStep, Center, Returned, PlaceInitially,
                BeginPass, Compact, SkipSmallLayer, BeginAlignment, AlignLayer, Average, RepairLayer, Blend,
                vars
  <2>. QED
    BY <2>1 DEF ResultInv, StageInv
<1>. QED
  BY <1>2, <1>3 DEF ResultInv

\* The inductive invariant that the theorems share.
CoreInv == GraphInv /\ StageInv /\ ValuesInv /\ RanksInv /\ ResultInv

\* assign_coordinates keeps the graph, goes through its stages in their order,
\* gives every node of a layer the coordinate of its rank, and returns the
\* coordinates it has computed, shifted by one amount in x and one in y.
THEOREM CoordinatesAreAssigned == Spec => []CoreInv
<1>1. Init => CoreInv
  BY InitInv DEF CoreInv
<1>2. CoreInv /\ [Next]_vars => CoreInv'
  BY GraphValues, StepStage, StepValues, StepRanks, StepResult DEF CoreInv
<1>. QED
  BY <1>1, <1>2, PTL DEF Spec

\* Type correctness: every coordinate is a number, there are at most four
\* alignments, and the passes and rounds stay within the numbers of the
\* configuration.
THEOREM CoordinateTypes == Spec => []TypeOK
<1>1. ASSUME CoreInv PROVE TypeOK
  <2>1. GraphInv /\ StageInv /\ ValuesInv
    BY <1>1 DEF CoreInv
  <2>2. /\ rankCoords \in [Nodes -> Nat] /\ x \in [Nodes -> Int]
        /\ DOMAIN preferred \subseteq Nodes /\ \A v \in DOMAIN preferred : preferred[v] \in Int
        /\ Len(aligned) <= 4 /\ pos \in [Nodes -> [x : Int, y : Int]]
    BY <2>1 DEF ValuesInv
  <2>3. \A a \in DOMAIN aligned : aligned[a] \in [Nodes -> Int]
    BY <2>1 DEF ValuesInv
  <2>4. Range(todo) \subseteq DOMAIN layers
    BY <2>1 DEF StageInv, Range
  <2>5. pass \in 0 .. (IF algorithm = "MedianRelax" THEN RelaxPasses ELSE BlendRounds)
    <3>1. RelaxPasses \in Nat /\ BlendRounds \in Nat
      BY ConfigAssumption
    <3>2. algorithm \in {"MedianRelax", "BrandesKopf"}
      BY <2>1 DEF GraphInv
    <3>. QED
      BY <2>1, <3>1, <3>2 DEF StageInv
  <2>6. /\ pc \in {"ranks", "place", "relax", "align", "repair", "returned"}
        /\ result \in {"none", "Ok", "DanglingEdge", "MissingRank"}
    BY <2>1 DEF StageInv
  <2>. QED
    BY <2>2, <2>3, <2>4, <2>5, <2>6 DEF TypeOK
<1>. QED
  BY <1>1, CoordinatesAreAssigned, PTL

\* Where a node of the result stands, against another one.
LEMMA ResultShifts ==
    ASSUME CoreInv, result = "Ok", NEW a \in Nodes, NEW b \in Nodes
    PROVE  LET Place(v) == IF direction = "LeftToRight" THEN pos[v].y ELSE pos[v].x IN
           /\ MainCoordinate(a) \in Int /\ MainCoordinate(b) \in Int
           /\ Place(a) \in Int /\ Place(b) \in Int
           /\ MainCoordinate(b) - MainCoordinate(a) = 2 * (rankCoords[b] - rankCoords[a])
           /\ Place(b) - Place(a) = 2 * (x[b] - x[a])
<1>1. PICK cx \in Int, cy \in Int :
          pos = [v \in Nodes |-> [x |-> 2 * PlaceX(v) - cx, y |-> 2 * PlaceY(v) - cy]]
  BY DEF CoreInv, ResultInv
<1>2. /\ pos[a].x = 2 * PlaceX(a) - cx /\ pos[b].x = 2 * PlaceX(b) - cx
      /\ pos[a].y = 2 * PlaceY(a) - cy /\ pos[b].y = 2 * PlaceY(b) - cy
  BY <1>1
<1>3. rankCoords[a] \in Int /\ rankCoords[b] \in Int /\ x[a] \in Int /\ x[b] \in Int
  BY DEF CoreInv, ValuesInv
<1>4. CASE direction = "LeftToRight"
  <2>1. /\ PlaceX(a) = rankCoords[a] /\ PlaceX(b) = rankCoords[b]
        /\ PlaceY(a) = x[a] /\ PlaceY(b) = x[b]
        /\ MainCoordinate(a) = pos[a].x /\ MainCoordinate(b) = pos[b].x
    BY <1>4 DEF PlaceX, PlaceY, MainCoordinate
  <2>. QED
    BY <2>1, <1>2, <1>3, <1>4
<1>5. CASE direction # "LeftToRight"
  <2>1. /\ PlaceX(a) = x[a] /\ PlaceX(b) = x[b]
        /\ PlaceY(a) = rankCoords[a] /\ PlaceY(b) = rankCoords[b]
        /\ MainCoordinate(a) = pos[a].y /\ MainCoordinate(b) = pos[b].y
    BY <1>5 DEF PlaceX, PlaceY, MainCoordinate
  <2>. QED
    BY <2>1, <1>2, <1>3, <1>5
<1>. QED
  BY <1>4, <1>5

\* Every node comes after all nodes of the ranks above it, by their whole extent
\* and the gap: no edge of the layers points backwards.
THEOREM RanksComeInOrder == Spec => []RanksDescend
<1>1. ASSUME CoreInv PROVE RanksDescend
  <2>. SUFFICES ASSUME result = "Ok", NEW j \in DOMAIN layers, NEW k \in DOMAIN layers, j < k,
                       NEW a \in Range(layers[j]), NEW b \in Range(layers[k])
                PROVE  MainCoordinate(b) - MainCoordinate(a) >= 2 * (2 * Along(a) + VGap)
    BY DEF RanksDescend
  <2>1. GraphInv /\ StageInv /\ ResultInv /\ RanksInv
    BY <1>1 DEF CoreInv
  <2>2. a \in Nodes /\ b \in Nodes
    BY <2>1, LayerFacts
  <2>3. rankCoords[a] = LayerCoord(j) /\ rankCoords[b] = LayerCoord(k)
    BY <2>1 DEF ResultInv, RanksInv
  <2>4. /\ LayerCoord(j) \in Nat /\ LayerCoord(k) \in Nat
        /\ LayerCoord(k) >= LayerCoord(j) + LayerExtent(j) + VGap
    BY <2>1, CoordsGrow
  <2>5. LayerExtent(j) \in Nat /\ 2 * Along(a) <= LayerExtent(j)
    BY <2>1, Extents
  <2>6. Along(a) \in Nat /\ VGap \in Nat
    BY <2>1, <2>2, Halves, ConfigAssumption
  <2>7. MainCoordinate(b) - MainCoordinate(a) = 2 * (rankCoords[b] - rankCoords[a])
    BY <1>1, <2>2, ResultShifts
  <2>. QED
    BY <2>3, <2>4, <2>5, <2>6, <2>7
<1>. QED
  BY <1>1, CoordinatesAreAssigned, PTL

-----------------------------------------------------------------------------
(* Siblings keep their order and their gap.                                 *)

\* The nodes of a list that each keep the gap to the one before keep it to all.
LEMMA ListApart ==
    ASSUME GraphInv, NEW o \in Seq(Nodes), NEW f \in [Nodes -> Int],
           \A k \in 1 .. Len(o) - 1 : f[o[k + 1]] - f[o[k]] >= Distance(o[k], o[k + 1]),
           NEW j \in 1 .. Len(o), NEW k \in 1 .. Len(o), j < k
    PROVE  f[o[k]] - f[o[j]] >= Distance(o[j], o[k])
<1>. DEFINE n == Len(o)
            at == [i \in 1 .. n |-> f[o[i]]]
            h == [i \in 1 .. n |-> Across(o[i])]
<1>1. n \in Nat /\ HGap \in Nat /\ \A i \in 1 .. n : o[i] \in Nodes
  BY ConfigAssumption
<1>2. /\ \A i \in 1 .. n : at[i] = f[o[i]] /\ h[i] = Across(o[i])
      /\ \A i \in 1 .. n : at[i] \in Int /\ h[i] \in Nat
  <2>1. \A i \in 1 .. n : at[i] = f[o[i]] /\ h[i] = Across(o[i])
    OBVIOUS
  <2>. HIDE DEF at, h
  <2>2. \A i \in 1 .. n : f[o[i]] \in Int /\ Across(o[i]) \in Nat
    BY <1>1, Halves
  <2>. QED
    BY <2>1, <2>2
<1>. HIDE DEF at, h, n
<1>3. \A i \in 1 .. n - 1 : at[i + 1] - at[i] >= h[i] + HGap + h[i + 1]
  <2>. TAKE i \in 1 .. n - 1
  <2>1. i \in 1 .. n /\ i + 1 \in 1 .. n
    BY <1>1
  <2>2. Distance(o[i], o[i + 1]) = Across(o[i]) + HGap + Across(o[i + 1])
    BY <1>1, <2>1, Distances
  <2>3. f[o[i + 1]] - f[o[i]] >= Distance(o[i], o[i + 1])
    BY DEF n
  <2>. QED
    BY <2>1, <2>2, <2>3, <1>2
<1>4. j \in 1 .. n /\ k \in 1 .. n
  BY DEF n
<1>5. at[k] - at[j] >= h[j] + HGap + h[k]
  BY <1>1, <1>2, <1>3, <1>4, ApartFromAll
<1>6. Distance(o[j], o[k]) = Across(o[j]) + HGap + Across(o[k])
  BY <1>1, <1>4, Distances
<1>. QED
  BY <1>2, <1>4, <1>5, <1>6

\* Any two nodes of layer k keep the gap in f.
GapKept(f, k) ==
    \A a, b \in Range(layers[k]) : a # b => Clearance(f[a], Across(a), f[b], Across(b)) >= HGap

\* Centres that are the halves and a gap apart leave the gap between the sides.
LEMMA ClearanceKept ==
    ASSUME NEW fa \in Int, NEW fb \in Int, NEW ha \in Nat, NEW hb \in Nat, NEW gap \in Nat,
           fb - fa >= ha + gap + hb
    PROVE  Clearance(fa, ha, fb, hb) >= gap /\ Clearance(fb, hb, fa, ha) >= gap
  BY DEF Clearance

\* It is enough that the nodes of the layer can be listed so.
LEMMA ListedApart ==
    ASSUME GraphInv, NEW k \in DOMAIN layers, NEW o \in Seq(Nodes), Range(o) = Range(layers[k]),
           NEW f \in [Nodes -> Int],
           \A i \in 1 .. Len(o) - 1 : f[o[i + 1]] - f[o[i]] >= Distance(o[i], o[i + 1])
    PROVE  GapKept(f, k)
<1>. SUFFICES ASSUME NEW a \in Range(layers[k]), NEW b \in Range(layers[k]), a # b
              PROVE  Clearance(f[a], Across(a), f[b], Across(b)) >= HGap
  BY DEF GapKept
<1>a. a \in Range(o) /\ b \in Range(o)
  OBVIOUS
<1>b. PICK i \in 1 .. Len(o) : o[i] = a
  BY <1>a, ListMembers
<1>c. PICK j \in 1 .. Len(o) : o[j] = b
  BY <1>a, ListMembers
<1>1. o[i] = a /\ o[j] = b
  BY <1>b, <1>c
<1>2. i \in Int /\ j \in Int /\ i # j
  BY <1>1
<1>3. a \in Nodes /\ b \in Nodes
  BY <1>1
<1>4. /\ Distance(a, b) = Across(a) + HGap + Across(b) /\ Distance(b, a) = Across(b) + HGap + Across(a)
      /\ Across(a) \in Nat /\ Across(b) \in Nat /\ HGap \in Nat /\ f[a] \in Int /\ f[b] \in Int
  BY <1>3, Distances, Halves, ConfigAssumption
<1>5. CASE i < j
  <2>1. f[b] - f[a] >= Distance(a, b)
    BY <1>1, <1>5, ListApart
  <2>2. f[b] - f[a] >= Across(a) + HGap + Across(b)
    BY <2>1, <1>4
  <2>. QED
    BY <2>2, <1>4, ClearanceKept
<1>6. CASE j < i
  <2>1. f[a] - f[b] >= Distance(b, a)
    BY <1>1, <1>6, ListApart
  <2>2. f[a] - f[b] >= Across(b) + HGap + Across(a)
    BY <2>1, <1>4
  <2>. QED
    BY <2>2, <1>4, ClearanceKept
<1>. QED
  BY <1>2, <1>5, <1>6

\* The order of the layers and the distances are those of the graph.
LEMMA OrderNext ==
    ASSUME [Next]_vars,
           \A a \in DOMAIN aligned', k \in DOMAIN layers :
              a < Len(aligned') \/ pc' # "align" \/ k \notin Range(todo') => InOrder(aligned'[a], layers[k]),
           pc' = "repair" => \A k \in DOMAIN layers : pass' = 0 \/ k \notin Range(todo') => InOrder(x', layers[k])
    PROVE  OrderIsKept'
<1>1. /\ order' = order /\ half' = half /\ layers' = layers /\ direction' = direction
  BY GraphKept
<1>2. \A v : Across(v)' = Across(v)
  BY GraphValues
<1>3. \A u, v : Distance(u, v)' = Distance(u, v)
  BY <1>2 DEF Distance
<1>a. \A k : Ordered(layers[k])' = Ordered(layers[k])
  BY <1>1 DEF Ordered, StableSort
<1>b. ASSUME NEW a, NEW k, InOrder(aligned'[a], layers[k])
      PROVE  InOrder(aligned[a], layers[k])'
  BY <1>b, <1>a, <1>3 DEF InOrder
<1>c. ASSUME NEW k, InOrder(x', layers[k])
      PROVE  InOrder(x, layers[k])'
  BY <1>c, <1>a, <1>3 DEF InOrder
<1>d. ASSUME NEW a \in DOMAIN aligned', NEW k \in DOMAIN layers,
             a < Len(aligned') \/ pc' # "align" \/ k \notin Range(todo')
      PROVE  InOrder(aligned[a], layers[k])'
  <2>1. InOrder(aligned'[a], layers[k])
    BY <1>d
  <2>. QED
    BY <2>1, <1>b
<1>e. ASSUME pc' = "repair", NEW k \in DOMAIN layers, pass' = 0 \/ k \notin Range(todo')
      PROVE  InOrder(x, layers[k])'
  <2>1. InOrder(x', layers[k])
    BY <1>e
  <2>. QED
    BY <2>1, <1>c
<1>. QED
  BY <1>1, <1>d, <1>e DEF OrderIsKept

\* And so are the gaps.
GapInv == pc = "relax" \/ result = "Ok" => \A k \in DOMAIN layers : GapKept(x, k)

\* It is enough to look at the coordinates after the step.
LEMMA GapNext ==
    ASSUME [Next]_vars, pc' = "relax" \/ result' = "Ok" => \A k \in DOMAIN layers : GapKept(x', k)
    PROVE  GapInv'
<1>1. layers' = layers
  BY GraphKept
<1>2. \A v : Across(v)' = Across(v)
  BY GraphValues
<1>3. ASSUME NEW k \in DOMAIN layers, GapKept(x', k) PROVE GapKept(x, k)'
  BY <1>1, <1>2, <1>3 DEF GapKept, Clearance
<1>. QED
  BY <1>1, <1>3 DEF GapInv

\* A quarter of a sum, rounded down.
LEMMA Quarters ==
    ASSUME NEW a \in Int, NEW b \in Int, NEW d \in Int, b - a >= 4 * d
    PROVE  /\ a \div 4 \in Int /\ b \div 4 \in Int
           /\ (b \div 4) - (a \div 4) >= d
  OBVIOUS

\* The average of four alignments that keep the order keeps it too.
LEMMA AverageInOrder ==
    ASSUME GraphInv, NEW k \in DOMAIN layers, NEW f, \A i \in 1 .. 4 : f[i] \in [Nodes -> Int],
           \A i \in 1 .. 4 : InOrder(f[i], layers[k]),
           NEW g, g = [v \in Nodes |-> (f[1][v] + f[2][v] + f[3][v] + f[4][v]) \div 4]
    PROVE  InOrder(g, layers[k])
<1>. DEFINE o == Ordered(layers[k])
            n == Len(o)
<1>1. o \in Seq(Nodes) /\ n \in Nat
  BY OrderedLayer
<1>2. \A i \in 1 .. 4 : \A j \in 1 .. n - 1 : f[i][o[j + 1]] - f[i][o[j]] >= Distance(o[j], o[j + 1])
  BY DEF InOrder
<1>. SUFFICES ASSUME NEW j \in 1 .. n - 1
              PROVE  g[o[j + 1]] - g[o[j]] >= Distance(o[j], o[j + 1])
  BY DEF InOrder
<1>3. o[j] \in Nodes /\ o[j + 1] \in Nodes
  <2>1. j \in 1 .. n /\ j + 1 \in 1 .. n
    <3>. HIDE DEF n
    <3>. QED
      BY <1>1
  <2>2. \A i \in 1 .. n : o[i] \in Nodes
    BY <1>1, ListMembers
  <2>. HIDE DEF o, n
  <2>. QED
    BY <2>1, <2>2
<1>. DEFINE u == o[j]
            v == o[j + 1]
            d == Distance(u, v)
            sum(w) == f[1][w] + f[2][w] + f[3][w] + f[4][w]
<1>4. d \in Int
  BY <1>3, Distances
<1>5. \A i \in 1 .. 4 : f[i][v] - f[i][u] >= d
  BY <1>2
<1>. HIDE DEF u, v, d, o, n
<1>6. u \in Nodes /\ v \in Nodes
  BY <1>3 DEF u, v
<1>7. /\ f[1][u] \in Int /\ f[2][u] \in Int /\ f[3][u] \in Int /\ f[4][u] \in Int
      /\ f[1][v] \in Int /\ f[2][v] \in Int /\ f[3][v] \in Int /\ f[4][v] \in Int
  BY <1>6
<1>8. /\ f[1][v] - f[1][u] >= d /\ f[2][v] - f[2][u] >= d
      /\ f[3][v] - f[3][u] >= d /\ f[4][v] - f[4][u] >= d
  BY <1>5
<1>9. sum(u) \in Int /\ sum(v) \in Int /\ sum(v) - sum(u) >= 4 * d
  BY <1>4, <1>7, <1>8
<1>10. g[u] = sum(u) \div 4 /\ g[v] = sum(v) \div 4
  BY <1>6
<1>. HIDE DEF sum
<1>11. g[v] - g[u] >= d
  BY <1>4, <1>9, <1>10, Quarters
<1>. QED
  BY <1>11 DEF u, v, d

\* Whoever does not change the alignments or the coordinates, or takes them
\* elsewhere, keeps their order.
LEMMA StepOrder == GraphInv /\ StageInv /\ ValuesInv /\ OrderIsKept /\ [Next]_vars => OrderIsKept'
<1>. SUFFICES ASSUME GraphInv, StageInv, ValuesInv, OrderIsKept, [Next]_vars PROVE OrderIsKept'
  OBVIOUS
<1>1. /\ \A a \in DOMAIN aligned, k \in DOMAIN layers :
            a < Len(aligned) \/ pc # "align" \/ k \notin Range(todo) => InOrder(aligned[a], layers[k])
      /\ pc = "repair" => \A k \in DOMAIN layers : pass = 0 \/ k \notin Range(todo) => InOrder(x, layers[k])
  BY DEF OrderIsKept
<1>2. Range(<<>>) = {} /\ DOMAIN <<>> = {}
  BY DEF Range
<1>3. /\ aligned \in Seq([Nodes -> Int]) /\ x \in [Nodes -> Int]
      /\ Len(aligned) \in Nat /\ DOMAIN aligned = 1 .. Len(aligned)
  BY DEF ValuesInv
<1>. DEFINE Aligned == \A a \in DOMAIN aligned', k \in DOMAIN layers :
                           a < Len(aligned') \/ pc' # "align" \/ k \notin Range(todo')
                              => InOrder(aligned'[a], layers[k])
            Spaced == pc' = "repair" => \A k \in DOMAIN layers :
                           pass' = 0 \/ k \notin Range(todo') => InOrder(x', layers[k])
<1>. SUFFICES Aligned /\ Spaced
  BY OrderNext
<1>4. CASE pc \in {"ranks", "place"} /\ ~BeginAlignment
  <2>1. aligned' = <<>> /\ pc' # "repair"
    BY <1>4 DEF StageInv, Next, Step, AssignRankCoords, Reject, RelaxStep, BlendStep, Center, Returned,
                PlaceInitially, BeginPass, Compact, SkipSmallLayer, AlignLayer, Average, RepairLayer,
                Blend, Relaxed, Blended, vars
  <2>. QED
    BY <2>1, <1>2
<1>5. CASE BeginAlignment
  <2>. DEFINE zero == [v \in Nodes |-> 0]
              all == [k \in DOMAIN layers |-> k]
              m == Len(aligned)
  <2>a. aligned' = Append(aligned, zero) /\ pc' = "align"
    BY <1>5 DEF BeginAlignment
  <2>b. todo' = all \/ todo' = Reverse(all)
    BY <1>5 DEF BeginAlignment
  <2>c. pc # "place" => pc = "align" /\ todo = <<>>
    BY <1>5 DEF BeginAlignment
  <2>1. /\ aligned' = Append(aligned, zero) /\ pc' = "align"
        /\ (todo' = all \/ todo' = Reverse(all))
        /\ (pc # "place" => pc = "align" /\ todo = <<>>)
    BY <2>a, <2>b, <2>c
  <2>2. Range(todo') = DOMAIN layers
    BY <2>1, AllLayers
  <2>3. pc = "place" => aligned = <<>>
    BY DEF StageInv
  <2>4. zero \in [Nodes -> Int]
    OBVIOUS
  <2>. HIDE DEF zero, m
  <2>5. /\ Len(aligned') = m + 1 /\ DOMAIN aligned' = 1 .. m + 1
        /\ \A a \in 1 .. m : aligned'[a] = aligned[a]
    BY <2>1, <2>4, <1>3 DEF m
  <2>6. ASSUME NEW a \in DOMAIN aligned', NEW k \in DOMAIN layers,
               a < Len(aligned') \/ pc' # "align" \/ k \notin Range(todo')
        PROVE  InOrder(aligned'[a], layers[k])
    <3>1. a < m + 1 /\ a \in 1 .. m + 1 /\ m \in Nat
      BY <2>1, <2>2, <2>5, <2>6, <1>3 DEF m
    <3>2. a \in 1 .. m
      BY <3>1
    <3>3. a \in DOMAIN aligned
      BY <3>2, <1>3 DEF m
    <3>4. pc # "place" /\ todo = <<>>
      BY <3>3, <2>1, <2>3, <1>2
    <3>5. InOrder(aligned[a], layers[k])
      BY <3>3, <3>4, <1>1, <1>2
    <3>. QED
      BY <3>2, <3>5, <2>5
  <2>. QED
    BY <2>1, <2>6
<1>6. CASE AlignLayer
  <2>. DEFINE m == Len(aligned)
              h == Head(todo)
  <2>1. todo' = Tail(todo) /\ todo # <<>> /\ pc = "align" /\ pc' = "align"
    BY <1>6 DEF AlignLayer
  <2>2. h \in DOMAIN layers /\ Range(todo) = {h} \union Range(todo')
    BY <2>1, NextLayer
  <2>. HIDE DEF h
  <2>3. PICK g \in [Nodes -> Int] :
            /\ aligned' = [aligned EXCEPT ![m] = g]
            /\ InOrder(g, layers[h])
            /\ \A v \in Nodes : v \notin Range(layers[h]) => g[v] = aligned[m][v]
    BY <1>6, AlignFacts DEF h
  <2>4. m \in DOMAIN aligned
    BY <1>6, AlignFacts
  <2>5. /\ Len(aligned') = m /\ DOMAIN aligned' = DOMAIN aligned
        /\ \A a \in DOMAIN aligned : aligned'[a] = IF a = m THEN g ELSE aligned[a]
    BY <2>3, <2>4, <1>3
  <2>6. ASSUME NEW a \in DOMAIN aligned', NEW k \in DOMAIN layers,
               a < Len(aligned') \/ pc' # "align" \/ k \notin Range(todo')
        PROVE  InOrder(aligned'[a], layers[k])
    <3>1. CASE a # m
      <4>1. a < m /\ a \in DOMAIN aligned
        BY <3>1, <2>5, <1>3
      <4>. QED
        BY <4>1, <3>1, <2>5, <1>1
    <3>2. CASE a = m
      <4>1. aligned'[a] = g /\ k \notin Range(todo')
        BY <3>2, <2>1, <2>4, <2>5, <2>6, <1>3
      <4>2. CASE k = h
        BY <4>1, <4>2, <2>3
      <4>3. CASE k # h
        <5>. DEFINE o == Ordered(layers[k])
        <5>1. k \notin Range(todo)
          BY <4>1, <4>3, <2>2
        <5>2. InOrder(aligned[m], layers[k])
          BY <5>1, <2>4, <1>1
        <5>3. o \in Seq(Nodes) /\ Len(o) \in Nat /\ Range(o) = Range(layers[k])
          BY OrderedLayer
        <5>4. \A i \in 1 .. Len(o) : o[i] \in Nodes /\ o[i] \in Range(layers[k])
          <6>. HIDE DEF o
          <6>. QED
            BY <5>3, ListMembers
        <5>5. \A v \in Range(layers[k]) : v \notin Range(layers[h])
          BY <4>3, <2>2, LayerFacts
        <5>6. \A i \in 1 .. Len(o) : g[o[i]] = aligned[m][o[i]]
          BY <5>4, <5>5, <2>3
        <5>7. \A i \in 1 .. Len(o) - 1 : i \in 1 .. Len(o) /\ i + 1 \in 1 .. Len(o)
          BY <5>3
        <5>8. InOrder(g, layers[k])
          <6>. HIDE DEF m
          <6>. QED
            BY <5>2, <5>6, <5>7 DEF InOrder
        <5>. QED
          BY <4>1, <5>8
      <4>. QED
        BY <4>2, <4>3
    <3>. QED
      BY <3>1, <3>2
  <2>. QED
    BY <2>1, <2>6
<1>7. CASE Average
  <2>1. /\ todo = <<>> /\ pc = "align" /\ Len(aligned) = 4 /\ aligned' = aligned
        /\ x' = [v \in Nodes |-> (aligned[1][v] + aligned[2][v] + aligned[3][v] + aligned[4][v]) \div 4]
    BY <1>7 DEF Average
  <2>2. \A a \in DOMAIN aligned, k \in DOMAIN layers : InOrder(aligned[a], layers[k])
    BY <2>1, <1>1, <1>2
  <2>3. \A a \in 1 .. 4 : a \in DOMAIN aligned /\ aligned[a] \in [Nodes -> Int]
    BY <2>1, AlignmentsTyped
  <2>4. \A k \in DOMAIN layers : InOrder(x', layers[k])
    BY <2>1, <2>2, <2>3, AverageInOrder
  <2>. QED
    BY <2>1, <2>2, <2>4
<1>8. CASE RepairLayer
  <2>. DEFINE h == Head(todo)
  <2>1. /\ todo' = Tail(todo) /\ todo # <<>> /\ pc = "repair" /\ pc' = "repair"
        /\ aligned' = aligned /\ pass' = pass
    BY <1>8 DEF RepairLayer
  <2>2. h \in DOMAIN layers /\ Range(todo) = {h} \union Range(todo')
    BY <2>1, NextLayer
  <2>3. /\ x' \in [Nodes -> Int] /\ InOrder(x', layers[h])
        /\ \A v \in Nodes : v \notin Range(layers[h]) => x'[v] = x[v]
    BY <1>8, RepairFacts
  <2>. HIDE DEF h
  <2>4. ASSUME NEW k \in DOMAIN layers, pass' = 0 \/ k \notin Range(todo')
        PROVE  InOrder(x', layers[k])
    <3>1. CASE k = h
      BY <3>1, <2>3
    <3>2. CASE k # h
      <4>. DEFINE o == Ordered(layers[k])
      <4>1. pass = 0 \/ k \notin Range(todo)
        BY <3>2, <2>1, <2>2, <2>4
      <4>2. InOrder(x, layers[k])
        BY <4>1, <2>1, <1>1
      <4>3. o \in Seq(Nodes) /\ Len(o) \in Nat /\ Range(o) = Range(layers[k])
        BY OrderedLayer
      <4>4. \A i \in 1 .. Len(o) : o[i] \in Nodes /\ o[i] \in Range(layers[k])
        <5>. HIDE DEF o
        <5>. QED
          BY <4>3, ListMembers
      <4>5. \A v \in Range(layers[k]) : v \notin Range(layers[h])
        BY <3>2, <2>2, LayerFacts
      <4>6. \A i \in 1 .. Len(o) : x'[o[i]] = x[o[i]]
        BY <4>4, <4>5, <2>3
      <4>7. \A i \in 1 .. Len(o) - 1 : i \in 1 .. Len(o) /\ i + 1 \in 1 .. Len(o)
        BY <4>3
      <4>. QED
        BY <4>2, <4>6, <4>7 DEF InOrder
    <3>. QED
      BY <3>1, <3>2
  <2>5. Aligned
    BY <2>1, <1>1
  <2>. QED
    BY <2>4, <2>5
<1>9. CASE Blend
  <2>1. /\ todo' = [k \in DOMAIN layers |-> k] /\ pass' = pass + 1 /\ pc = "repair" /\ pc' = "repair"
        /\ aligned' = aligned
    BY <1>9 DEF Blend
  <2>2. Range(todo') = DOMAIN layers
    BY <2>1, AllLayers
  <2>3. pass' # 0
    BY <2>1 DEF StageInv
  <2>4. Aligned
    BY <2>1, <1>1
  <2>5. Spaced
    BY <2>2, <2>3
  <2>. QED
    BY <2>4, <2>5
<1>10. CASE pc \notin {"ranks", "place"} /\ (RelaxStep \/ Center \/ Reject \/ AssignRankCoords \/ Returned \/ UNCHANGED vars)
  <2>1. aligned' = aligned
    BY <1>10 DEF RelaxStep, Center, Reject, AssignRankCoords, Returned, PlaceInitially, BeginPass, Compact, SkipSmallLayer, vars
  <2>2. \/ pc = "relax"
        \/ pc' = "returned" /\ (pc = "repair" \/ pc = "returned")
        \/ UNCHANGED <<x, todo, pc, pass>>
    BY <1>10 DEF RelaxStep, Center, Relaxed, Blended, Reject, AssignRankCoords, Returned, PlaceInitially, BeginPass,
                 Compact, SkipSmallLayer, vars
  <2>3. CASE pc = "relax"
    <3>1. aligned = <<>>
      BY <2>3 DEF StageInv
    <3>2. pc' # "repair"
      BY <1>10, <2>3 DEF RelaxStep, Center, Reject, AssignRankCoords, Returned, PlaceInitially, BeginPass,
                         Compact, SkipSmallLayer, vars
    <3>. QED
      BY <3>1, <3>2, <2>1, <1>2
  <2>4. CASE pc' = "returned" /\ (pc = "repair" \/ pc = "returned")
    <3>1. Aligned
      BY <2>1, <2>4, <1>1
    <3>. QED
      BY <3>1, <2>4
  <2>5. CASE UNCHANGED <<x, todo, pc, pass>>
    BY <2>1, <2>5, <1>1
  <2>. QED
    BY <2>2, <2>3, <2>4, <2>5
<1>. QED
  BY <1>4, <1>5, <1>6, <1>7, <1>8, <1>9, <1>10 DEF Next, Step, BlendStep, RelaxStep

\* The initial places keep the gap.
LEMMA InitialApart ==
    ASSUME GraphInv, NEW k \in DOMAIN layers, NEW f \in [Nodes -> Int],
           \A v \in Nodes : f[v] = InitialX(v)
    PROVE  GapKept(f, k)
<1>. DEFINE o == layers[k]
            n == Len(o)
            c == WidestOf(k) + HGap
<1>1. /\ o \in Seq(Nodes) /\ n \in Nat /\ DOMAIN o = 1 .. n
      /\ \A p, q \in DOMAIN o : o[p] = o[q] => p = q
      /\ \A p \in DOMAIN o : o[p] \in Range(o)
  BY LayerFacts
<1>2. WidestOf(k) \in Nat /\ HGap \in Nat /\ \A v \in Range(o) : 2 * Across(v) <= WidestOf(k)
  BY Extents, ConfigAssumption
<1>3. ASSUME NEW p \in 1 .. n
      PROVE  f[o[p]] = (p - 1) * c
  <2>1. o[p] \in Nodes /\ o[p] \in Range(o)
    BY <1>1
  <2>2. (CHOOSE j \in DOMAIN layers : o[p] \in Range(layers[j])) = k
    BY <2>1, LayerOfNode
  <2>3. (CHOOSE q \in DOMAIN layers[k] : layers[k][q] = o[p]) = p
    BY <1>1
  <2>4. InitialX(o[p]) = (p - 1) * (WidestOf(k) + HGap)
    <3>1. \E j \in DOMAIN layers : o[p] \in Range(layers[j])
      BY <2>1
    <3>. QED
      BY <2>2, <2>3, <3>1 DEF InitialX
  <2>. QED
    BY <2>1, <2>4
<1>4. ASSUME NEW p \in 1 .. n - 1
      PROVE  f[o[p + 1]] - f[o[p]] >= Distance(o[p], o[p + 1])
  <2>1. p \in 1 .. n /\ p + 1 \in 1 .. n /\ (p + 1) - 1 = p
    BY <1>1
  <2>2. /\ o[p] \in Nodes /\ o[p + 1] \in Nodes
        /\ o[p] \in Range(o) /\ o[p + 1] \in Range(o)
    BY <2>1, <1>1
  <2>3. f[o[p]] = (p - 1) * c /\ f[o[p + 1]] = p * c
    BY <2>1, <1>3
  <2>4. c \in Nat /\ c = WidestOf(k) + HGap
    BY <1>2
  <2>5. /\ Distance(o[p], o[p + 1]) = Across(o[p]) + HGap + Across(o[p + 1])
        /\ Across(o[p]) \in Nat /\ Across(o[p + 1]) \in Nat
        /\ 2 * Across(o[p]) <= WidestOf(k) /\ 2 * Across(o[p + 1]) <= WidestOf(k)
    BY <2>2, <1>2, Distances, Halves
  <2>. HIDE DEF c
  <2>6. (p - 1) * c \in Int /\ p * c \in Int /\ p * c - (p - 1) * c = c
    BY <2>1, <2>4
  <2>7. c >= Distance(o[p], o[p + 1])
    BY <2>4, <2>5, <1>2
  <2>8. Distance(o[p], o[p + 1]) \in Int
    BY <2>5, <1>2
  <2>. QED
    BY <2>3, <2>6, <2>7, <2>8, <2>4
<1>. QED
  BY <1>1, <1>4, ListedApart

\* Compacted nodes keep the gap to the one before.
LEMMA CompactedApart ==
    ASSUME GraphInv, StageInv, ValuesInv, Compact
    PROVE  LET o == ByPreference(layers[Head(todo)]) IN
           \A i \in 1 .. Len(o) - 1 : x'[o[i + 1]] - x'[o[i]] >= Distance(o[i], o[i + 1])
<1>. DEFINE h == Head(todo)
            o == ByPreference(layers[h])
            n == Len(o)
            at == Compacted(o)
            wish(k) == Preferred(o[k], x[o[k]])
            bound(k) == at[k - 1] + Distance(o[k - 1], o[k])
<1>1. h \in DOMAIN layers
  BY NextLayer DEF Compact
<1>2. o \in Seq(Nodes) /\ n \in Nat
  BY <1>1, PreferenceLayer
<1>3. \A k \in 1 .. n : x'[o[k]] = at[k]
  BY CompactFacts
<1>. HIDE DEF o, n
<1>4. /\ at \in [1 .. n -> Int]
      /\ \A k \in 1 .. n : wish(k) \in Int
      /\ \A k \in 2 .. n : bound(k) \in Int /\ at[k] = IF wish(k) < bound(k) THEN bound(k) ELSE wish(k)
  BY <1>2, CompactedAt DEF n
<1>5. ASSUME NEW i \in 1 .. n - 1
      PROVE  x'[o[i + 1]] - x'[o[i]] >= Distance(o[i], o[i + 1])
  <2>1. i \in 1 .. n /\ i + 1 \in 1 .. n /\ i + 1 \in 2 .. n /\ (i + 1) - 1 = i
    BY <1>2
  <2>2. o[i] \in Nodes /\ o[i + 1] \in Nodes
    BY <2>1, <1>2 DEF n
  <2>3. at[i + 1] >= bound(i + 1) /\ bound(i + 1) = at[i] + Distance(o[i], o[i + 1])
    <3>1. bound(i + 1) \in Int /\ wish(i + 1) \in Int
      BY <2>1, <1>4
    <3>2. at[i + 1] = IF wish(i + 1) < bound(i + 1) THEN bound(i + 1) ELSE wish(i + 1)
      BY <2>1, <1>4
    <3>3. bound(i + 1) = at[i] + Distance(o[i], o[i + 1])
      BY <2>1
    <3>. HIDE DEF bound, wish, at
    <3>. QED
      BY <3>1, <3>2, <3>3
  <2>4. at[i] \in Int /\ at[i + 1] \in Int
    BY <2>1, <1>4
  <2>5. Distance(o[i], o[i + 1]) \in Int
    BY <2>2, Distances
  <2>6. x'[o[i]] = at[i] /\ x'[o[i + 1]] = at[i + 1]
    BY <2>1, <1>3
  <2>. HIDE DEF at
  <2>. QED
    BY <2>3, <2>4, <2>5, <2>6
<1>. QED
  BY <1>5 DEF o, n, h

\* The gaps are kept from the initial placement on, and in the result.
LEMMA StepGaps == GraphInv /\ StageInv /\ ValuesInv /\ OrderIsKept /\ GapInv /\ [Next]_vars => GapInv'
<1>. SUFFICES ASSUME GraphInv, StageInv, ValuesInv, OrderIsKept, GapInv, [Next]_vars,
                     pc' = "relax" \/ result' = "Ok", NEW k \in DOMAIN layers
              PROVE  GapKept(x', k)
  BY GapNext
<1>1. CASE PlaceInitially
  <2>1. x' = [v \in Nodes |-> InitialX(v)]
    BY <1>1 DEF PlaceInitially
  <2>2. x' \in [Nodes -> Int]
    <3>1. ValuesInv' /\ Nodes' = Nodes
      BY StepValues, GraphValues
    <3>. QED
      BY <3>1 DEF ValuesInv
  <2>. QED
    BY <2>1, <2>2, InitialApart
<1>2. CASE Compact
  <2>. DEFINE h == Head(todo)
              o == ByPreference(layers[h])
  <2>1. h \in DOMAIN layers /\ pc = "relax"
    BY <1>2, NextLayer DEF Compact
  <2>2. /\ x' \in [Nodes -> Int]
        /\ \A v \in Nodes : v \notin Range(layers[h]) => x'[v] = x[v]
    BY <1>2, CompactFacts
  <2>3. o \in Seq(Nodes) /\ Range(o) = Range(layers[h])
    BY <2>1, PreferenceLayer
  <2>4. \A i \in 1 .. Len(o) - 1 : x'[o[i + 1]] - x'[o[i]] >= Distance(o[i], o[i + 1])
    BY <1>2, CompactedApart
  <2>. HIDE DEF h, o
  <2>5. CASE k = h
    BY <2>2, <2>3, <2>4, <2>5, ListedApart
  <2>6. CASE k # h
    <3>1. \A v \in Range(layers[k]) : v \in Nodes /\ v \notin Range(layers[h])
      BY <2>1, <2>6, LayerFacts
    <3>2. GapKept(x, k)
      BY <2>1 DEF GapInv
    <3>3. \A v \in Range(layers[k]) : x'[v] = x[v]
      BY <3>1, <2>2
    <3>. QED
      BY <3>2, <3>3 DEF GapKept
  <2>. QED
    BY <2>5, <2>6
<1>3. CASE Center
  <2>1. x' = x /\ (Relaxed \/ Blended)
    BY <1>3 DEF Center
  <2>2. CASE Relaxed
    BY <2>1, <2>2 DEF GapInv, Relaxed
  <2>3. CASE Blended
    <3>1. pc = "repair" /\ todo = <<>>
      BY <2>3 DEF Blended
    <3>2. k \notin Range(todo)
      BY <3>1 DEF Range
    <3>3. InOrder(x, layers[k])
      BY <3>1, <3>2 DEF OrderIsKept
    <3>4. x \in [Nodes -> Int]
      BY DEF ValuesInv
    <3>5. Ordered(layers[k]) \in Seq(Nodes) /\ Range(Ordered(layers[k])) = Range(layers[k])
      BY OrderedLayer
    <3>6. GapKept(x, k)
      BY <3>3, <3>4, <3>5, ListedApart DEF InOrder
    <3>. QED
      BY <3>6, <2>1
  <2>. QED
    BY <2>1, <2>2, <2>3
<1>4. CASE ~(PlaceInitially \/ Compact \/ Center)
  <2>1. x' = x /\ (pc = "relax" \/ result = "Ok")
    BY <1>4 DEF StageInv, Next, Step, AssignRankCoords, Reject, RelaxStep, BlendStep, Returned,
                BeginPass, SkipSmallLayer, BeginAlignment, AlignLayer, Average, RepairLayer,
                Blend, vars
  <2>. QED
    BY <2>1 DEF GapInv
<1>. QED
  BY <1>1, <1>2, <1>3, <1>4

\* The order that crossing reduction chose for a layer is kept: by each of the
\* four alignments, by their average and by each round, once the layer is repaired.
THEOREM OrderStaysAsChosen == Spec => []OrderIsKept
<1>1. Init => OrderIsKept
  <2>1. DOMAIN <<>> = {}
    OBVIOUS
  <2>. QED
    BY <2>1 DEF Init, OrderIsKept
<1>2. CoreInv /\ OrderIsKept /\ [Next]_vars => OrderIsKept'
  BY StepOrder DEF CoreInv
<1>. QED
  BY <1>1, <1>2, CoordinatesAreAssigned, PTL DEF Spec

\* Siblings never overlap: from the initial placement on and in the result, their
\* facing sides are at least the gap apart.
THEOREM SiblingsStandApart == Spec => []SiblingsKeepGap
<1>1. Init => GapInv
  BY DEF Init, GapInv
<1>2. CoreInv /\ OrderIsKept /\ GapInv /\ [Next]_vars => GapInv'
  BY StepGaps DEF CoreInv
<1>3. ASSUME CoreInv, GapInv PROVE SiblingsKeepGap
  <2>. DEFINE At(v) == IF direction = "LeftToRight" THEN pos[v].y ELSE pos[v].x
  <2>. SUFFICES ASSUME NEW s \in Siblings
                PROVE  /\ pc = "relax" => Clearance(x[s[1]], Across(s[1]), x[s[2]], Across(s[2])) >= HGap
                       /\ result = "Ok" => Clearance(At(s[1]), 2 * Across(s[1]), At(s[2]), 2 * Across(s[2])) >= 2 * HGap
    BY DEF SiblingsKeepGap
  <2>. DEFINE a == s[1]
              b == s[2]
  <2>1. PICK k \in DOMAIN layers : a \in Range(layers[k]) /\ b \in Range(layers[k])
    BY DEF Siblings
  <2>2. a # b /\ a \in Nodes /\ b \in Nodes
    BY DEF Siblings
  <2>. HIDE DEF a, b
  <2>3. pc = "relax" \/ result = "Ok" => Clearance(x[a], Across(a), x[b], Across(b)) >= HGap
    BY <2>1, <2>2, <1>3 DEF GapInv, GapKept
  <2>4. ASSUME result = "Ok"
        PROVE  Clearance(At(a), 2 * Across(a), At(b), 2 * Across(b)) >= 2 * HGap
    <3>1. At(a) \in Int /\ At(b) \in Int /\ At(b) - At(a) = 2 * (x[b] - x[a])
      BY <1>3, <2>2, <2>4, ResultShifts
    <3>2. GraphInv /\ x \in [Nodes -> Int]
      BY <1>3 DEF CoreInv, ValuesInv
    <3>3. x[a] \in Int /\ x[b] \in Int /\ Across(a) \in Nat /\ Across(b) \in Nat /\ HGap \in Nat
      BY <3>2, <2>2, Halves, ConfigAssumption
    <3>4. Clearance(x[a], Across(a), x[b], Across(b)) >= HGap
      BY <2>3, <2>4
    <3>. HIDE DEF At
    <3>. QED
      BY <3>1, <3>3, <3>4 DEF Clearance
  <2>. QED
    BY <2>3, <2>4 DEF a, b
<1>. QED
  BY <1>1, <1>2, <1>3, OrderStaysAsChosen, CoordinatesAreAssigned, PTL DEF Spec

-----------------------------------------------------------------------------
(* The relaxation wastes no room.                                           *)

\* A compaction leaves every node on its wish, at the gap to its left neighbour, or
\* first; and it keeps the order of those with equal wishes.
LEMMA CompactIsTight ==
    ASSUME GraphInv, StageInv, ValuesInv, Compact
    PROVE  LET layer == layers[Head(todo)]
               Wish(v) == Preferred(v, x[v])
           IN /\ \A v \in Range(layer) :
                   \/ x'[v] = Wish(v)
                   \/ \A w \in Range(layer) : x'[w] >= x'[v]
                   \/ \E w \in Range(layer) : x'[v] = x'[w] + Distance(w, v)
              /\ \A j, k \in DOMAIN layer :
                   j < k /\ Wish(layer[j]) = Wish(layer[k]) =>
                       x'[layer[j]] + Distance(layer[j], layer[k]) <= x'[layer[k]]
<1>. DEFINE h == Head(todo)
            s == layers[h]
            o == ByPreference(s)
            n == Len(s)
            at == Compacted(o)
            Wish(v) == Preferred(v, x[v])
            bound(k) == at[k - 1] + Distance(o[k - 1], o[k])
<1>1. h \in DOMAIN layers
  BY NextLayer DEF Compact
<1>2. /\ o \in Seq(Nodes) /\ Len(o) = n /\ n \in Nat /\ DOMAIN o = 1 .. n
      /\ Range(o) = Range(s)
      /\ \E from \in [1 .. n -> 1 .. n] :
            /\ \A p \in 1 .. n : o[p] = s[from[p]]
            /\ \A q \in 1 .. n : \E p \in 1 .. n : from[p] = q
            /\ \A p, q \in 1 .. n : p < q /\ Wish(o[p]) = Wish(o[q]) => from[p] < from[q]
  <2>1. /\ o \in Seq(Nodes) /\ Len(o) = n /\ Len(o) \in Nat /\ Range(o) = Range(s)
        /\ \E from \in [1 .. n -> 1 .. n] :
              /\ \A p \in 1 .. n : o[p] = s[from[p]]
              /\ \A q \in 1 .. n : \E p \in 1 .. n : from[p] = q
              /\ \A p, q \in 1 .. n : p < q /\ Wish(o[p]) = Wish(o[q]) => from[p] < from[q]
    BY <1>1, PreferenceLayer
  <2>. HIDE DEF o, n, Wish
  <2>2. DOMAIN o = 1 .. n
    BY <2>1
  <2>. QED
    BY <2>1, <2>2
<1>3. x' \in [Nodes -> Int] /\ \A k \in 1 .. n : x'[o[k]] = at[k]
  BY <1>2, CompactFacts
<1>4. \A i \in 1 .. n - 1 : x'[o[i + 1]] - x'[o[i]] >= Distance(o[i], o[i + 1])
  BY <1>2, CompactedApart
<1>5. DOMAIN s = 1 .. n
  BY <1>1, LayerFacts
<1>. HIDE DEF s, n, o
<1>6. \A k \in 2 .. n : at[k] = Wish(o[k]) \/ at[k] = bound(k)
  <2>a. o \in Seq(Nodes)
    BY <1>2
  <2>1. \A k \in 2 .. Len(o) : at[k] = IF Wish(o[k]) < bound(k) THEN bound(k) ELSE Wish(o[k])
    BY <2>a, CompactedAt
  <2>. HIDE DEF at, bound, Wish
  <2>. QED
    BY <2>1, <1>2
<1>. HIDE DEF at, bound
<1>7. \A j, k \in 1 .. n : j < k => x'[o[k]] - x'[o[j]] >= Distance(o[j], o[k])
  BY <1>2, <1>3, <1>4, ListApart
<1>a. \A k \in 1 .. n : o[k] \in Nodes /\ o[k] \in Range(s)
  BY <1>2, ListMembers
<1>8. \A k \in 1 .. n : o[k] \in Nodes /\ o[k] \in Range(s) /\ x'[o[k]] \in Int
  BY <1>a, <1>3
<1>b. \A w \in Range(s) : \E j \in 1 .. n : o[j] = w
  BY <1>2, ListMembers
<1>9. ASSUME NEW v \in Range(s)
      PROVE  \/ x'[v] = Wish(v)
             \/ \A w \in Range(s) : x'[w] >= x'[v]
             \/ \E w \in Range(s) : x'[v] = x'[w] + Distance(w, v)
  <2>1. PICK k \in 1 .. n : o[k] = v
    BY <1>b
  <2>2. CASE k = 1
    <3>1. ASSUME NEW w \in Range(s) PROVE x'[w] >= x'[v]
      <4>1. PICK j \in 1 .. n : o[j] = w
        BY <1>b
      <4>2. CASE j = 1
        BY <4>1, <4>2, <2>1, <2>2, <1>8
      <4>3. CASE j # 1
        <5>1. k < j
          BY <4>3, <2>2
        <5>2. x'[w] - x'[v] >= Distance(v, w)
          BY <5>1, <4>1, <2>1, <1>7
        <5>3. Distance(v, w) \in Nat
          BY <4>1, <2>1, <1>8, Distances
        <5>. QED
          BY <5>2, <5>3, <4>1, <2>1, <1>8
      <4>. QED
        BY <4>2, <4>3
    <3>. QED
      BY <3>1
  <2>3. CASE k # 1
    <3>1. k \in 2 .. n /\ k - 1 \in 1 .. n
      BY <2>1, <2>3, <1>2
    <3>2. CASE at[k] = Wish(o[k])
      BY <3>2, <2>1, <1>3
    <3>3. CASE at[k] = bound(k)
      <4>1. bound(k) = at[k - 1] + Distance(o[k - 1], o[k])
        BY DEF bound
      <4>2. x'[v] = x'[o[k - 1]] + Distance(o[k - 1], v) /\ o[k - 1] \in Range(s)
        BY <4>1, <3>1, <3>3, <2>1, <1>3, <1>8
      <4>. QED
        BY <4>2
    <3>. QED
      BY <3>1, <3>2, <3>3, <1>6
  <2>. QED
    BY <2>2, <2>3
<1>10. ASSUME NEW j \in 1 .. n, NEW k \in 1 .. n, j < k, Wish(s[j]) = Wish(s[k])
       PROVE  x'[s[j]] + Distance(s[j], s[k]) <= x'[s[k]]
  <2>1. PICK from \in [1 .. n -> 1 .. n] :
            /\ \A p \in 1 .. n : o[p] = s[from[p]]
            /\ \A q \in 1 .. n : \E p \in 1 .. n : from[p] = q
            /\ \A p, q \in 1 .. n : p < q /\ Wish(o[p]) = Wish(o[q]) => from[p] < from[q]
    BY <1>2
  <2>2. PICK p \in 1 .. n, q \in 1 .. n : from[p] = j /\ from[q] = k
    BY <2>1
  <2>3. o[p] = s[j] /\ o[q] = s[k]
    BY <2>1, <2>2
  <2>4. ~(q < p)
    <3>1. q < p => from[q] < from[p]
      BY <2>1, <2>3, <1>10
    <3>. QED
      BY <3>1, <2>2, <1>10
  <2>5. p # q
    BY <2>2, <1>10
  <2>6. p < q
    BY <2>4, <2>5
  <2>7. x'[s[k]] - x'[s[j]] >= Distance(s[j], s[k])
    BY <2>3, <2>6, <1>7
  <2>8. Distance(s[j], s[k]) \in Nat /\ x'[s[j]] \in Int /\ x'[s[k]] \in Int
    BY <2>3, <1>8, Distances
  <2>. QED
    BY <2>7, <2>8
<1>. QED
  BY <1>5, <1>9, <1>10 DEF s, h

\* Only a compaction moves nodes in a pass.
LEMMA OnlyCompactions ==
    ASSUME [Next]_vars, pc = "relax", todo # <<>>, x' # x
    PROVE  Compact
  BY DEF Next, Step, AssignRankCoords, Reject, RelaxStep, BlendStep, Center, Returned, PlaceInitially,
         BeginPass, SkipSmallLayer, BeginAlignment, AlignLayer, Average, RepairLayer, Blend, Relaxed, Blended, vars

\* A pass wastes no room, and siblings that wish for the same place do not change
\* their order.
THEOREM CompactionsAreTight == Spec => CompactionIsTight
<1>1. CoreInv /\ [Next]_vars =>
        [pc = "relax" /\ todo # <<>> /\ x' # x =>
          LET layer == layers[Head(todo)]
              Wish(v) == Preferred(v, x[v])
          IN /\ \A v \in Range(layer) :
                  \/ x'[v] = Wish(v)
                  \/ \A w \in Range(layer) : x'[w] >= x'[v]
                  \/ \E w \in Range(layer) : x'[v] = x'[w] + Distance(w, v)
             /\ \A j, k \in DOMAIN layer :
                  j < k /\ Wish(layer[j]) = Wish(layer[k]) =>
                      x'[layer[j]] + Distance(layer[j], layer[k]) <= x'[layer[k]]]_vars
  BY OnlyCompactions, CompactIsTight DEF CoreInv
<1>. QED
  BY <1>1, CoordinatesAreAssigned, PTL DEF Spec, CompactionIsTight

\* Before a round ends, only repairs move nodes.
LEMMA OnlyRepairs ==
    ASSUME Next, pc = "repair", todo # <<>>
    PROVE  RepairLayer
  BY DEF Next, Step, AssignRankCoords, Reject, RelaxStep, BlendStep, Center, Returned, PlaceInitially,
         BeginPass, SkipSmallLayer, Compact, BeginAlignment, AlignLayer, Average, Blend, Relaxed, Blended

\* A repair leaves the least-squares fit of what it found, so it moves the nodes of a
\* layer no more than the gaps ask for (repair_layer_spacing, coordinates.rs:329-389).
THEOREM RepairsFitBest == Spec => RepairIsBestFit
<1>1. CoreInv /\ [Next]_vars =>
        [pc = "repair" /\ todo # <<>> =>
          LET ordered == Ordered(layers[Head(todo)])
          IN Adjusted(x', ordered) = BestFit(Adjusted(x, ordered))]_vars
  BY OnlyRepairs, RepairFacts DEF CoreInv
<1>. QED
  BY <1>1, CoordinatesAreAssigned, PTL DEF Spec, RepairIsBestFit

-----------------------------------------------------------------------------
(* The relaxation does not drift.                                           *)

\* A sum of n equal numbers.
LEMMA SumOfEqual ==
    ASSUME NEW n \in Nat, NEW c \in Nat
    PROVE  SumFunctionOnSet([p \in 1 .. n |-> c], 1 .. n) = n * c
<1>. DEFINE f == [p \in 1 .. n |-> c]
            S(m) == SumFunctionOnSet(f, 1 .. m)
            Wrong == {m \in 0 .. n : S(m) # m * c}
<1>1. \A p \in 1 .. n : f[p] = c /\ f[p] \in Int
  OBVIOUS
<1>. HIDE DEF f
<1>. SUFFICES ASSUME Wrong # {} PROVE FALSE
  <2>1. n \in 0 .. n
    OBVIOUS
  <2>. QED
    BY <2>1 DEF f
<1>2. Wrong \in SUBSET Nat
  OBVIOUS
<1>. HIDE DEF Wrong, S
<1>3. PICK m \in Wrong : \A l \in Wrong : m <= l
  BY <1>2, LeastNatural
<1>4. m \in 0 .. n /\ S(m) # m * c
  BY <1>3 DEF Wrong
<1>5. S(0) = 0
  <2>1. 1 .. 0 = {}
    OBVIOUS
  <2>. QED
    BY <2>1, SumOfNone DEF S
<1>6. m # 0
  BY <1>4, <1>5
<1>7. m - 1 \in 0 .. n /\ m \in 1 .. n /\ m - 1 \in Nat /\ ~(m <= m - 1)
  BY <1>4, <1>6
<1>8. S(m - 1) = (m - 1) * c
  BY <1>3, <1>7 DEF Wrong
<1>9. S(m) = c + S(m - 1)
  <2>1. m \in 1 .. m /\ (1 .. m) \ {m} = 1 .. m - 1 /\ \A p \in 1 .. m : p \in 1 .. n
    BY <1>7
  <2>2. IsFiniteSet(1 .. m) /\ \A p \in 1 .. m : f[p] \in Int
    BY <2>1, <1>1, <1>7, FS_Interval
  <2>3. SumFunctionOnSet(f, 1 .. m) = f[m] + SumFunctionOnSet(f, (1 .. m) \ {m})
    BY <2>1, <2>2, SumOfRest
  <2>. QED
    BY <2>1, <2>3, <1>1, <1>7 DEF S
<1>10. c + (m - 1) * c = m * c
  BY <1>7
<1>. QED
  BY <1>4, <1>8, <1>9, <1>10

\* The nodes of no layer take up more than those of the widest one.
LEMMA WidestTakesMost ==
    ASSUME GraphInv
    PROVE  /\ WidestLayer \in Nat
           /\ \A k \in DOMAIN layers : Len(layers[k]) * (WidestOf(k) + HGap) <= WidestLayer
<1>. DEFINE room == [k \in DOMAIN layers |-> SumFunction([p \in DOMAIN layers[k] |-> WidestOf(k) + HGap])]
            R == {room[k] : k \in DOMAIN layers}
<1>1. WidestLayer = Max({0} \union R)
  BY DEF WidestLayer
<1>2. ASSUME NEW k \in DOMAIN layers
      PROVE  room[k] = Len(layers[k]) * (WidestOf(k) + HGap) /\ room[k] \in Nat
  <2>. DEFINE n == Len(layers[k])
              c == WidestOf(k) + HGap
              f == [p \in 1 .. n |-> c]
  <2>1. n \in Nat /\ DOMAIN layers[k] = 1 .. n
    BY LayerFacts
  <2>2. c \in Nat
    BY Extents, ConfigAssumption
  <2>3. room[k] = SumFunctionOnSet(f, 1 .. n)
    BY <2>1 DEF SumFunction
  <2>. HIDE DEF n, c
  <2>4. room[k] = n * c
    BY <2>1, <2>2, <2>3, SumOfEqual
  <2>5. n * c \in Nat
    BY <2>1, <2>2
  <2>. QED
    BY <2>4, <2>5 DEF n, c
<1>3. IsFiniteSet(DOMAIN layers)
  <2>1. Len(layers) \in Int /\ DOMAIN layers = 1 .. Len(layers) /\ 1 \in Int
    BY DEF GraphInv
  <2>. QED
    BY <2>1, FS_Interval
<1>. HIDE DEF room
<1>4. IsFiniteSet({0} \union R)
  <2>1. IsFiniteSet(R) /\ {0} \union R = R \union {0}
    BY <1>3, ImageIsFinite
  <2>. QED
    BY <2>1, FS_AddElement
<1>5. \A r \in {0} \union R : r \in Nat /\ r \in Int
  BY <1>2
<1>6. (\A r \in {0} \union R : r \in Int) /\ {0} \union R # {}
  BY <1>5
<1>7. WidestLayer \in {0} \union R /\ \A r \in {0} \union R : r <= WidestLayer
  BY <1>1, <1>4, <1>6, GreatestOfFinite
<1>8. WidestLayer \in Nat
  BY <1>5, <1>7
<1>9. \A k \in DOMAIN layers : room[k] \in {0} \union R
  OBVIOUS
<1>. HIDE DEF R
<1>10. \A k \in DOMAIN layers : room[k] <= WidestLayer
  BY <1>7, <1>9
<1>. QED
  BY <1>2, <1>8, <1>10

\* A compaction keeps a layer within its room to the right of the wishes.
LEMMA CompactedWithin ==
    ASSUME GraphInv, StageInv, ValuesInv, Compact, NEW b \in Nat,
           \A v \in Nodes : x[v] >= 0,
           \A v \in Range(layers[Head(todo)]) : x[v] <= b,
           \A v \in DOMAIN preferred : preferred[v] >= 0 /\ preferred[v] <= b
    PROVE  \A v \in Range(layers[Head(todo)]) : x'[v] >= 0 /\ x'[v] <= b + WidestLayer
<1>. DEFINE h == Head(todo)
            s == layers[h]
            o == ByPreference(s)
            n == Len(s)
            c == WidestOf(h) + HGap
            at == Compacted(o)
            wish(k) == Preferred(o[k], x[o[k]])
            bound(k) == at[k - 1] + Distance(o[k - 1], o[k])
            Wrong == {k \in 1 .. n : ~(at[k] >= 0 /\ at[k] <= b + (k - 1) * c)}
<1>1. h \in DOMAIN layers
  BY NextLayer DEF Compact
<1>2. o \in Seq(Nodes) /\ Len(o) = n /\ n \in Nat /\ Range(o) = Range(s)
  BY <1>1, PreferenceLayer
<1>3. \A k \in 1 .. n : x'[o[k]] = at[k]
  BY <1>2, CompactFacts
<1>4. WidestLayer \in Nat /\ n * c <= WidestLayer
  BY <1>1, WidestTakesMost
<1>5. /\ WidestOf(h) \in Nat /\ HGap \in Nat /\ c \in Nat
      /\ \A v \in Range(s) : 2 * Across(v) <= WidestOf(h)
  BY <1>1, Extents, ConfigAssumption
<1>6. \A v \in Range(s) : x[v] <= b
  OBVIOUS
<1>. HIDE DEF s, n, o
<1>7. \A k \in 1 .. n : o[k] \in Nodes /\ o[k] \in Range(s)
  BY <1>2 DEF Range
<1>8. /\ at \in [1 .. n -> Int]
      /\ \A k \in 1 .. n : wish(k) \in Int
      /\ o # <<>> => at[1] = Preferred(o[1], 0)
      /\ \A k \in 2 .. n : bound(k) \in Int /\ at[k] = IF wish(k) < bound(k) THEN bound(k) ELSE wish(k)
  <2>1. /\ at \in [1 .. Len(o) -> Int]
        /\ \A k \in 1 .. Len(o) : wish(k) \in Int
        /\ o # <<>> => at[1] = Preferred(o[1], 0)
        /\ \A k \in 2 .. Len(o) : bound(k) \in Int /\ at[k] = IF wish(k) < bound(k) THEN bound(k) ELSE wish(k)
    BY <1>2, CompactedAt
  <2>. HIDE DEF at, wish, bound
  <2>. QED
    BY <2>1, <1>2
<1>9. \A k \in 1 .. n : wish(k) >= 0 /\ wish(k) <= b
  BY <1>6, <1>7 DEF Preferred
<1>10. \A k \in 2 .. n : bound(k) = at[k - 1] + Distance(o[k - 1], o[k])
  OBVIOUS
<1>11. \A k \in 2 .. n : k - 1 \in 1 .. n /\ Distance(o[k - 1], o[k]) \in Nat /\ Distance(o[k - 1], o[k]) <= c
  <2>. TAKE k \in 2 .. n
  <2>1. k - 1 \in 1 .. n /\ k \in 1 .. n
    BY <1>2
  <2>2. /\ o[k - 1] \in Nodes /\ o[k] \in Nodes
        /\ 2 * Across(o[k - 1]) <= WidestOf(h) /\ 2 * Across(o[k]) <= WidestOf(h)
    BY <2>1, <1>5, <1>7
  <2>3. /\ Distance(o[k - 1], o[k]) = Across(o[k - 1]) + HGap + Across(o[k])
        /\ Across(o[k - 1]) \in Nat /\ Across(o[k]) \in Nat
    BY <2>2, Distances, Halves
  <2>. QED
    BY <2>1, <2>2, <2>3, <1>5
<1>. HIDE DEF at, wish, bound, c
<1>12. Wrong = {}
  <2>. SUFFICES ASSUME Wrong # {} PROVE FALSE
    OBVIOUS
  <2>1. Wrong \in SUBSET Nat
    BY <1>2
  <2>. HIDE DEF Wrong
  <2>2. PICK k \in Wrong : \A l \in Wrong : k <= l
    BY <2>1, LeastNatural
  <2>3. k \in 1 .. n /\ ~(at[k] >= 0 /\ at[k] <= b + (k - 1) * c)
    BY <2>2 DEF Wrong
  <2>4. CASE k = 1
    <3>1. o # <<>>
      BY <2>3, <2>4, <1>2
    <3>2. at[1] = Preferred(o[1], 0)
      BY <3>1, <1>8
    <3>3. at[1] >= 0 /\ at[1] <= b
      BY <3>2 DEF Preferred
    <3>4. (k - 1) * c = 0
      BY <2>4, <1>5
    <3>. QED
      BY <3>3, <3>4, <2>3, <2>4
  <2>5. CASE k # 1
    <3>1. k \in 2 .. n /\ k - 1 \in 1 .. n /\ ~(k <= k - 1) /\ k \in Int
      BY <2>3, <2>5, <1>2
    <3>2. at[k - 1] >= 0 /\ at[k - 1] <= b + ((k - 1) - 1) * c
      BY <3>1, <2>2 DEF Wrong
    <3>3. /\ at[k - 1] \in Int /\ at[k] \in Int /\ bound(k) \in Int /\ wish(k) \in Int
          /\ at[k] = IF wish(k) < bound(k) THEN bound(k) ELSE wish(k)
          /\ wish(k) >= 0 /\ wish(k) <= b
          /\ bound(k) = at[k - 1] + Distance(o[k - 1], o[k])
          /\ Distance(o[k - 1], o[k]) \in Nat /\ Distance(o[k - 1], o[k]) <= c
      BY <3>1, <1>8, <1>9, <1>10, <1>11
    <3>4. ((k - 1) - 1) * c + c = (k - 1) * c /\ (k - 1) * c \in Nat /\ ((k - 1) - 1) * c \in Nat
      BY <3>1, <1>5
    <3>. DEFINE before == ((k - 1) - 1) * c
                allowed == (k - 1) * c
                gap == Distance(o[k - 1], o[k])
                w == wish(k)
                u == bound(k)
                here == at[k]
                there == at[k - 1]
    <3>5. /\ before \in Nat /\ allowed \in Nat /\ before + c = allowed /\ c \in Nat /\ b \in Nat
          /\ gap \in Nat /\ gap <= c
          /\ there \in Int /\ there >= 0 /\ there <= b + before
          /\ w \in Int /\ w >= 0 /\ w <= b
          /\ u = there + gap
          /\ (here = u \/ here = w)
      BY <3>2, <3>3, <3>4, <1>5
    <3>. HIDE DEF before, allowed, gap, w, u, here, there
    <3>6. here >= 0 /\ here <= b + allowed
      BY <3>5
    <3>. QED
      BY <3>6, <2>3 DEF here, allowed
  <2>. QED
    BY <2>4, <2>5
<1>13. ASSUME NEW v \in Range(s)
       PROVE  x'[v] >= 0 /\ x'[v] <= b + WidestLayer
  <2>1. PICK k \in 1 .. n : o[k] = v
    BY <1>2 DEF Range
  <2>2. at[k] >= 0 /\ at[k] <= b + (k - 1) * c /\ at[k] \in Int
    BY <1>8, <1>12
  <2>3. (k - 1) * c <= n * c /\ (k - 1) * c \in Int /\ n * c \in Int
    BY <1>2, <1>5
  <2>. QED
    BY <2>1, <2>2, <2>3, <1>3, <1>4
<1>. QED
  BY <1>13 DEF s, h

\* Within a pass, the nodes of the layers still to visit, and all preferences, are
\* where the pass before left the nodes.
DriftInv ==
    algorithm = "MedianRelax" =>
        /\ \A v \in Nodes : x[v] >= 0 /\ x[v] <= (pass + 1) * WidestLayer
        /\ \A k \in Range(todo) : \A v \in Range(layers[k]) : x[v] <= pass * WidestLayer
        /\ todo # <<>> => \A v \in DOMAIN preferred : preferred[v] >= 0 /\ preferred[v] <= pass * WidestLayer

\* All nodes begin at the origin.
LEMMA InitDrift == GraphInv /\ Init => DriftInv
<1>. SUFFICES ASSUME GraphInv, Init PROVE DriftInv
  OBVIOUS
<1>1. Nodes = DOMAIN rank /\ x = [v \in DOMAIN rank |-> 0] /\ pass = 0 /\ todo = <<>>
  BY DEF Init, Nodes
<1>2. WidestLayer \in Nat
  BY WidestTakesMost
<1>3. Range(todo) = {}
  BY <1>1 DEF Range
<1>4. (pass + 1) * WidestLayer = WidestLayer
  BY <1>1, <1>2
<1>. QED
  BY <1>1, <1>2, <1>3, <1>4 DEF DriftInv

\* The room of the widest layer is that of the graph.
LEMMA WidestLayerKept == [Next]_vars => WidestLayer' = WidestLayer
<1>. SUFFICES ASSUME [Next]_vars PROVE WidestLayer' = WidestLayer
  OBVIOUS
<1>1. layers' = layers
  BY GraphKept
<1>2. \A k : WidestOf(k)' = WidestOf(k)
  BY GraphValues
<1>. QED
  BY <1>1, <1>2 DEF WidestLayer

\* It is enough to look at the coordinates after the step.
LEMMA DriftNext ==
    ASSUME [Next]_vars, algorithm = "MedianRelax" =>
              /\ \A v \in Nodes : x'[v] >= 0 /\ x'[v] <= (pass' + 1) * WidestLayer
              /\ \A k \in Range(todo') : \A v \in Range(layers[k]) : x'[v] <= pass' * WidestLayer
              /\ todo' # <<>> => \A v \in DOMAIN preferred' :
                                    preferred'[v] >= 0 /\ preferred'[v] <= pass' * WidestLayer
    PROVE  DriftInv'
<1>1. Nodes' = Nodes /\ layers' = layers /\ algorithm' = algorithm
  BY GraphKept, GraphValues
<1>2. WidestLayer' = WidestLayer
  BY WidestLayerKept
<1>. QED
  BY <1>1, <1>2 DEF DriftInv

\* A pass moves the right end by at most the widest layer.
LEMMA StepDrift == GraphInv /\ StageInv /\ ValuesInv /\ DriftInv /\ [Next]_vars => DriftInv'
<1>. SUFFICES ASSUME GraphInv, StageInv, ValuesInv, DriftInv, [Next]_vars, algorithm = "MedianRelax"
              PROVE  /\ \A v \in Nodes : x'[v] >= 0 /\ x'[v] <= (pass' + 1) * WidestLayer
                     /\ \A k \in Range(todo') : \A v \in Range(layers[k]) : x'[v] <= pass' * WidestLayer
                     /\ todo' # <<>> => \A v \in DOMAIN preferred' :
                                    preferred'[v] >= 0 /\ preferred'[v] <= pass' * WidestLayer
  BY DriftNext
<1>. DEFINE W == WidestLayer
            low == pass * W
            high == (pass + 1) * W
<1>1. /\ \A v \in Nodes : x[v] >= 0 /\ x[v] <= high
      /\ \A k \in Range(todo) : \A v \in Range(layers[k]) : x[v] <= low
      /\ todo # <<>> => \A v \in DOMAIN preferred : preferred[v] >= 0 /\ preferred[v] <= low
  BY DEF DriftInv
<1>2. W \in Nat /\ pass \in Nat
  BY WidestTakesMost DEF StageInv
<1>. HIDE DEF W
<1>3. low \in Nat /\ high \in Nat /\ high = low + W /\ (pass + 1) + 1 \in Nat
  BY <1>2
<1>. HIDE DEF low, high
<1>4. Range(<<>>) = {}
  BY DEF Range
<1>5. \A v \in Nodes : x[v] \in Int
  BY DEF ValuesInv
<1>6. CASE PlaceInitially
  <2>1. /\ x' = [v \in Nodes |-> InitialX(v)] /\ pass' = pass /\ todo' = todo /\ pc = "place"
    BY <1>6 DEF PlaceInitially
  <2>2. pass = 0 /\ todo = <<>>
    BY <2>1 DEF StageInv
  <2>3. high = W
    BY <2>2, <1>2 DEF high
  <2>4. ASSUME NEW v \in Nodes PROVE x'[v] >= 0 /\ x'[v] <= W
    <3>1. x'[v] = InitialX(v)
      BY <2>1
    <3>2. CASE \E k \in DOMAIN layers : v \in Range(layers[k])
      <4>1. PICK k \in DOMAIN layers : v \in Range(layers[k])
        BY <3>2
      <4>. DEFINE p == CHOOSE p \in DOMAIN layers[k] : layers[k][p] = v
                  c == WidestOf(k) + HGap
                  n == Len(layers[k])
      <4>2. (CHOOSE j \in DOMAIN layers : v \in Range(layers[j])) = k
        BY <4>1, LayerOfNode
      <4>3. InitialX(v) = (p - 1) * c
        BY <3>2, <4>2 DEF InitialX
      <4>4. p \in DOMAIN layers[k] /\ n \in Nat /\ DOMAIN layers[k] = 1 .. n
        BY <4>1, LayerFacts
      <4>5. c \in Nat
        BY Extents, ConfigAssumption
      <4>6. n * c <= W
        BY WidestTakesMost DEF W
      <4>. HIDE DEF p, c, n
      <4>7. p - 1 \in Nat /\ p \in 1 .. n
        BY <4>4
      <4>8. (p - 1) * c <= n * c /\ (p - 1) * c \in Nat /\ n * c \in Nat
        BY <4>4, <4>5, <4>7
      <4>. QED
        BY <3>1, <4>3, <4>6, <4>8, <1>2
    <3>3. CASE ~\E k \in DOMAIN layers : v \in Range(layers[k])
      BY <3>1, <3>3, <1>2 DEF InitialX
    <3>. QED
      BY <3>2, <3>3
  <2>. QED
    BY <2>1, <2>2, <2>3, <2>4, <1>4 DEF high, W
<1>7. CASE BeginPass
  <2>. DEFINE up == pass % 2 = 0
              Of(v) == Neighbors(v, up)
              D == {u \in Nodes : DOMAIN Of(u) # {}}
  <2>1. /\ x' = x /\ preferred' = [v \in D |-> MedianOf(Of(v))] /\ pc = "relax" /\ pass' = pass + 1
        /\ todo' = [k \in DOMAIN layers |-> k]
    BY <1>7 DEF BeginPass
  <2>2. up \in BOOLEAN /\ AllGood /\ x \in [Nodes -> Int]
    BY <2>1 DEF StageInv, ValuesInv
  <2>. HIDE DEF up
  <2>3. ASSUME NEW v \in D PROVE MedianOf(Of(v)) >= 0 /\ MedianOf(Of(v)) <= high
    <3>1. \E u \in Nodes : MedianOf(Of(v)) = x[u]
      BY <2>2, MedianIsOneOf
    <3>. QED
      BY <3>1, <1>1
  <2>4. pass' * W = high /\ (pass' + 1) * W = high + W
    <3>1. pass' * W = (pass + 1) * W /\ (pass' + 1) * W = ((pass + 1) + 1) * W
      BY <2>1
    <3>2. ((pass + 1) + 1) * W = (pass + 1) * W + W
      BY <1>2
    <3>. QED
      BY <3>1, <3>2 DEF high
  <2>5. Range(todo') = DOMAIN layers
    BY <2>1, AllLayers
  <2>6. \A k \in DOMAIN layers : \A v \in Range(layers[k]) : v \in Nodes
    BY LayerFacts
  <2>7. \A v \in Nodes : x[v] <= high + W
    BY <1>1, <1>2, <1>3, <1>5
  <2>8. \A v \in DOMAIN preferred' : preferred'[v] >= 0 /\ preferred'[v] <= high
    <3>. HIDE DEF D, high
    <3>1. DOMAIN preferred' = D /\ \A v \in D : preferred'[v] = MedianOf(Of(v))
      BY <2>1
    <3>. QED
      BY <3>1, <2>3
  <2>. QED
    BY <2>1, <2>4, <2>5, <2>6, <2>7, <2>8, <1>1 DEF W
<1>8. CASE Compact
  <2>. DEFINE h == Head(todo)
  <2>1. todo # <<>> /\ todo' = Tail(todo) /\ pass' = pass /\ preferred' = preferred
    BY <1>8 DEF Compact
  <2>2. /\ h \in DOMAIN layers /\ Range(todo) = {h} \union Range(todo') /\ h \notin Range(todo')
        /\ todo' \in Seq(DOMAIN layers)
    BY <2>1, NextLayer
  <2>3. \A v \in Nodes : v \notin Range(layers[h]) => x'[v] = x[v]
    BY <1>8, CompactFacts
  <2>4. \A v \in Range(layers[h]) : x[v] <= low
    BY <2>2, <1>1
  <2>5. \A v \in Range(layers[h]) : x'[v] >= 0 /\ x'[v] <= low + W
    BY <2>1, <2>4, <1>1, <1>3, <1>8, CompactedWithin DEF W
  <2>. HIDE DEF h
  <2>6. \A v \in Nodes : x'[v] >= 0 /\ x'[v] <= high
    BY <2>3, <2>5, <1>1, <1>3
  <2>7. ASSUME NEW k \in Range(todo'), NEW v \in Range(layers[k])
        PROVE  x'[v] <= low
    <3>a. k \in DOMAIN layers
      BY <2>2, ListMembers
    <3>1. k \in DOMAIN layers /\ k # h /\ k \in Range(todo)
      BY <3>a, <2>2
    <3>2. v \in Nodes /\ v \notin Range(layers[h])
      BY <3>1, <2>2, LayerFacts
    <3>. QED
      BY <3>1, <3>2, <2>3, <1>1
  <2>. QED
    BY <2>1, <2>6, <2>7, <1>1 DEF low, high, W
<1>9. CASE SkipSmallLayer
  <2>1. todo # <<>> /\ todo' = Tail(todo) /\ UNCHANGED <<pass, preferred, x>>
    BY <1>9 DEF SkipSmallLayer
  <2>2. Range(todo') \subseteq Range(todo)
    BY <2>1, NextLayer
  <2>. QED
    BY <2>1, <2>2, <1>1 DEF low, high, W
<1>10. CASE ~(PlaceInitially \/ BeginPass \/ Compact \/ SkipSmallLayer)
  <2>1. pc \notin {"align", "repair"} /\ ~BeginAlignment
    BY DEF StageInv, BeginAlignment
  <2>2. UNCHANGED <<x, todo, pass, preferred>>
    BY <1>10, <2>1 DEF Next, Step, RelaxStep, BlendStep, AssignRankCoords, Reject, Center, Returned, AlignLayer,
                       Average, RepairLayer, Blend, vars
  <2>. QED
    BY <2>2, <1>1 DEF low, high, W
<1>. QED
  BY <1>6, <1>7, <1>8, <1>9, <1>10

\* No relaxation moves a node left of the origin, and one pass moves the right end
\* by at most the widest layer.
THEOREM RelaxationStaysNear == Spec => []NoDrift
<1>1. Init => GraphInv /\ DriftInv
  BY InitInv, InitDrift
<1>2. CoreInv /\ DriftInv /\ [Next]_vars => DriftInv'
  BY StepDrift DEF CoreInv
<1>3. DriftInv => NoDrift
  BY DEF DriftInv, NoDrift
<1>. QED
  BY <1>1, <1>2, <1>3, CoordinatesAreAssigned, PTL DEF Spec

=============================================================================
