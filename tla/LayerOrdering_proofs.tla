------------------------ MODULE LayerOrdering_proofs -------------------------
(****************************************************************************)
(* order_layers for every layered graph and every number of sweeps: the     *)
(* type invariant, that `order` and the layers stay two copies of one       *)
(* order, that a transpose which ends by itself leaves no pair to swap,     *)
(* that every swap lowers the crossings of the whole drawing, and that the  *)
(* passes of a transpose are therefore bounded.                             *)
(****************************************************************************)
EXTENDS LayerOrdering, LayoutTheorems

-----------------------------------------------------------------------------
(* The inductive invariant.                                                 *)

\* The layers hold each ranked node once, at the place that is its order.
PlacesInv ==
    /\ edges \in Seq(Edge)
    /\ rank \in [DOMAIN rank -> Nat \union {NoRank}]
    /\ layers \in Seq(Seq(DOMAIN rank))
    /\ order \in [DOMAIN rank -> Nat \union {NoRank}]
    /\ \A k \in DOMAIN layers : \A p \in DOMAIN layers[k] :
          rank[layers[k][p]] = k - 1 /\ order[layers[k][p]] = p - 1
    /\ \A v \in DOMAIN rank : rank[v] # NoRank =>
          rank[v] + 1 \in DOMAIN layers /\ \E p \in DOMAIN layers[rank[v] + 1] : layers[rank[v] + 1][p] = v

\* Which stage touches which variable, and the bounds of the loops.
StageInv ==
    /\ sweep \in 0 .. Sweeps /\ pass \in 0 .. MaxTransposePasses
    /\ todo \in Seq(DOMAIN layers)
    /\ improved \in BOOLEAN
    /\ at \in (1 .. Len(layers) + 1) \X (Nat \ {0})
    /\ pc \in {"check", "sweep", "barycenter", "transpose", "returned"}
    /\ result \in {"none", "Ok", "DanglingEdge", "MissingRank"}
    /\ pc = "check" => sweep = 0
    /\ pc \in {"barycenter", "transpose"} => sweep < Sweeps
    /\ pc \in {"sweep", "barycenter", "transpose"} => \A i \in DOMAIN edges : Good(i)

-----------------------------------------------------------------------------
(* Barycenters are ordered like the quotients they stand for.               *)

Weight == [sum : Int, count : Nat \ {0}]

\* Multiplying by a positive number keeps an order.
LEMMA ProductsKeepOrder ==
    ASSUME NEW a \in Int, NEW b \in Int, NEW c \in Nat \ {0}
    PROVE  (a < b <=> a * c < b * c) /\ (a <= b <=> a * c <= b * c)
  BY Z3

\* Below is the order of quotients: transitive, also with the ties it leaves.
LEMMA BelowIsTransitive ==
    ASSUME NEW r \in Weight, NEW s \in Weight, NEW t \in Weight, ~Below(s, r), ~Below(t, s)
    PROVE  /\ ~Below(t, r)
           /\ Below(r, s) \/ Below(s, t) => Below(r, t)
<1>. DEFINE a == r.sum
            b == r.count
            c == s.sum
            d == s.count
            e == t.sum
            f == t.count
<1>1. /\ a \in Int /\ c \in Int /\ e \in Int
      /\ b \in Nat \ {0} /\ d \in Nat \ {0} /\ f \in Nat \ {0}
  BY DEF Weight
<1>2. /\ Below(r, s) <=> a * d < c * b
      /\ Below(s, r) <=> c * b < a * d
      /\ Below(s, t) <=> c * f < e * d
      /\ Below(t, s) <=> e * d < c * f
      /\ Below(r, t) <=> a * f < e * b
      /\ Below(t, r) <=> e * b < a * f
  BY DEF Below
<1>. HIDE DEF a, b, c, d, e, f
<1>3. /\ a * d \in Int /\ c * b \in Int /\ c * f \in Int /\ e * d \in Int
      /\ a * f \in Int /\ e * b \in Int
  BY <1>1
<1>4. a * d <= c * b /\ c * f <= e * d
  BY <1>2, <1>3
<1>5. (a * d) * f <= (c * b) * f /\ (a * d < c * b => (a * d) * f < (c * b) * f)
  BY <1>1, <1>3, <1>4, ProductsKeepOrder
<1>6. (c * f) * b <= (e * d) * b /\ (c * f < e * d => (c * f) * b < (e * d) * b)
  BY <1>1, <1>3, <1>4, ProductsKeepOrder
<1>7. /\ (a * d) * f = (a * f) * d
      /\ (c * b) * f = (c * f) * b
      /\ (e * d) * b = (e * b) * d
  BY <1>1
<1>8. /\ (a * f) * d \in Int /\ (c * f) * b \in Int /\ (e * b) * d \in Int
  BY <1>1, <1>3
<1>9. /\ (a * f) * d <= (e * b) * d
      /\ (a * d < c * b) \/ (c * f < e * d) => (a * f) * d < (e * b) * d
  BY <1>5, <1>6, <1>7, <1>8
<1>10. /\ a * f <= e * b
       /\ (a * d < c * b) \/ (c * f < e * d) => a * f < e * b
  BY <1>1, <1>3, <1>9, ProductsKeepOrder
<1>. QED
  BY <1>2, <1>3, <1>10

\* Of two barycenters not both are below the other.
LEMMA BelowIsOneWay ==
    ASSUME NEW r \in Weight, NEW s \in Weight
    PROVE  ~Below(r, r) /\ (Below(r, s) => ~Below(s, r))
<1>1. /\ r.sum * s.count \in Int /\ s.sum * r.count \in Int /\ r.sum * r.count \in Int
  BY DEF Weight
<1>. QED
  BY <1>1 DEF Below

-----------------------------------------------------------------------------
(* Places.                                                                  *)

\* A ranked node stands where its rank and its order say, and nowhere else.
LEMMA PlaceOf ==
    ASSUME PlacesInv, NEW v \in DOMAIN rank, rank[v] # NoRank
    PROVE  /\ rank[v] \in Nat /\ order[v] \in Nat
           /\ rank[v] + 1 \in DOMAIN layers
           /\ order[v] + 1 \in DOMAIN layers[rank[v] + 1]
           /\ layers[rank[v] + 1][order[v] + 1] = v
           /\ \A k \in DOMAIN layers : \A p \in DOMAIN layers[k] :
                 layers[k][p] = v => k = rank[v] + 1 /\ p = order[v] + 1
<1>1. /\ rank[v] + 1 \in DOMAIN layers /\ rank[v] \in Nat
      /\ \E p \in DOMAIN layers[rank[v] + 1] : layers[rank[v] + 1][p] = v
  BY DEF PlacesInv
<1>2. PICK p \in DOMAIN layers[rank[v] + 1] : layers[rank[v] + 1][p] = v
  BY <1>1
<1>3. layers[rank[v] + 1] \in Seq(DOMAIN rank) /\ order[v] = p - 1
  BY <1>1, <1>2 DEF PlacesInv
<1>4. p \in Nat /\ p >= 1
  BY <1>2, <1>3
<1>5. ASSUME NEW k \in DOMAIN layers, NEW q \in DOMAIN layers[k], layers[k][q] = v
      PROVE  k = rank[v] + 1 /\ q = order[v] + 1
  <2>1. rank[v] = k - 1 /\ order[v] = q - 1 /\ layers[k] \in Seq(DOMAIN rank) /\ k \in Nat
    BY <1>5 DEF PlacesInv
  <2>2. q \in Nat
    BY <2>1
  <2>. QED
    BY <2>1, <2>2
<1>. QED
  BY <1>1, <1>2, <1>3, <1>4, <1>5

\* What stands in a layer is a node of the layer's rank.
LEMMA InLayer ==
    ASSUME PlacesInv, NEW k \in DOMAIN layers, NEW p \in DOMAIN layers[k]
    PROVE  /\ k \in Nat \ {0} /\ p \in Nat \ {0}
           /\ layers[k] \in Seq(DOMAIN rank) /\ DOMAIN layers[k] = 1 .. Len(layers[k])
           /\ layers[k][p] \in DOMAIN rank
           /\ rank[layers[k][p]] = k - 1 /\ rank[layers[k][p]] # NoRank
           /\ order[layers[k][p]] = p - 1
<1>1. layers[k] \in Seq(DOMAIN rank) /\ k \in Nat \ {0}
  BY DEF PlacesInv
<1>2. p \in Nat \ {0} /\ layers[k][p] \in DOMAIN rank /\ DOMAIN layers[k] = 1 .. Len(layers[k])
  BY <1>1
<1>3. rank[layers[k][p]] = k - 1 /\ order[layers[k][p]] = p - 1
  BY DEF PlacesInv
<1>. QED
  BY <1>1, <1>2, <1>3 DEF NoRank

\* The orders that the caller set are the places in its layers.
LEMMA InitPlaces == Init => PlacesInv /\ StageInv
<1>. SUFFICES ASSUME Init PROVE PlacesInv /\ StageInv
  OBVIOUS
<1>1. PICK g \in Inputs :
        /\ edges = g.edges /\ rank = g.rank /\ layers = g.layers
        /\ order = [v \in DOMAIN g.rank |->
                      IF \E k \in DOMAIN g.layers : v \in Range(g.layers[k])
                      THEN CHOOSE p \in 0 .. Cardinality(DOMAIN g.rank) :
                             \E k \in DOMAIN g.layers :
                                p + 1 \in DOMAIN g.layers[k] /\ g.layers[k][p + 1] = v
                      ELSE NoRank]
  BY DEF Init
<1>. DEFINE n == Cardinality(DOMAIN rank)
            At(v, p) == \E k \in DOMAIN layers : p + 1 \in DOMAIN layers[k] /\ layers[k][p + 1] = v
<1>2. /\ edges \in Seq(Edge)
      /\ IsFiniteSet(DOMAIN rank) /\ n \in Nat
      /\ rank \in [DOMAIN rank -> Nat \union {NoRank}]
      /\ layers \in Seq(Seq(DOMAIN rank))
  BY <1>1, InputsAssumption, FS_CardinalityType
<1>3. Layered(rank, layers)
  BY <1>1, InputsAssumption
<1>4. order = [v \in DOMAIN rank |-> IF \E k \in DOMAIN layers : v \in Range(layers[k])
                                     THEN CHOOSE p \in 0 .. n : At(v, p) ELSE NoRank]
  BY <1>1
<1>5. ASSUME NEW k \in DOMAIN layers, NEW p \in DOMAIN layers[k]
      PROVE  order[layers[k][p]] = p - 1 /\ order[layers[k][p]] \in Nat
  <2>. DEFINE v == layers[k][p]
  <2>1. layers[k] \in Seq(DOMAIN rank) /\ k \in Nat
    BY <1>2
  <2>2. p \in Nat \ {0} /\ v \in DOMAIN rank
    BY <2>1
  <2>3. p <= n
    <3>. DEFINE L == Len(layers[k])
                D == 1 .. L
    <3>1. L \in Nat /\ p <= L /\ layers[k] \in [D -> DOMAIN rank]
      BY <2>1
    <3>2. \A i, j \in D : layers[k][i] = layers[k][j] => i = j
      BY <2>1, <1>3 DEF Layered
    <3>. HIDE DEF L
    <3>3. Cardinality(D) = L
      BY <3>1, FS_Interval
    <3>. HIDE DEF D
    <3>4. layers[k] \in Injection(D, DOMAIN rank)
      BY <3>1, <3>2, Fun_IsInj
    <3>5. Cardinality(D) <= n
      BY <3>4, <1>2, FS_Injection
    <3>6. n \in Nat /\ p \in Nat
      BY <1>2, <2>2
    <3>. QED
      BY <3>1, <3>3, <3>5, <3>6
  <2>4. p - 1 \in 0 .. n /\ At(v, p - 1)
    <3>1. n \in Nat
      BY <1>2
    <3>2. (p - 1) + 1 = p /\ p - 1 \in 0 .. n
      BY <2>2, <2>3, <3>1
    <3>3. At(v, p - 1)
      BY <3>2
    <3>. QED
      BY <3>2, <3>3
  <2>5. ASSUME NEW q \in 0 .. n, At(v, q)
        PROVE  q = p - 1
    <3>1. PICK l \in DOMAIN layers : q + 1 \in DOMAIN layers[l] /\ layers[l][q + 1] = v
      BY <2>5
    <3>2. rank[v] = k - 1 /\ rank[v] = l - 1 /\ l \in Nat
      BY <3>1, <1>2, <1>3 DEF Layered
    <3>3. l = k
      BY <3>2, <2>1
    <3>4. q + 1 = p
      BY <3>1, <3>3, <1>3 DEF Layered
    <3>. QED
      BY <3>4, <2>2
  <2>6. v \in Range(layers[k])
    BY DEF Range
  <2>. HIDE DEF At, v
  <2>7. order[v] = CHOOSE q \in 0 .. n : At(v, q)
    BY <2>2, <2>6, <1>4
  <2>8. order[v] = p - 1
    BY <2>4, <2>5, <2>7
  <2>. QED
    BY <2>2, <2>8 DEF v
<1>6. order \in [DOMAIN rank -> Nat \union {NoRank}]
  <2>. SUFFICES ASSUME NEW v \in DOMAIN rank PROVE order[v] \in Nat \union {NoRank}
    BY <1>4
  <2>1. CASE \E k \in DOMAIN layers : v \in Range(layers[k])
    BY <2>1, <1>5 DEF Range
  <2>2. CASE ~\E k \in DOMAIN layers : v \in Range(layers[k])
    BY <2>2, <1>4
  <2>. QED
    BY <2>1, <2>2
<1>7. PlacesInv
  BY <1>2, <1>3, <1>5, <1>6 DEF PlacesInv, Layered
<1>8. StageInv
  <2>1. /\ sweep = 0 /\ todo = <<>> /\ improved = FALSE /\ pass = 0 /\ at = <<1, 1>>
        /\ pc = "check" /\ result = "none"
    BY DEF Init
  <2>2. Len(layers) \in Nat
    BY <1>2
  <2>3. at \in (1 .. Len(layers) + 1) \X (Nat \ {0})
    BY <2>1, <2>2
  <2>4. todo \in Seq(DOMAIN layers)
    BY <2>1
  <2>5. 0 \in 0 .. Sweeps /\ 0 \in 0 .. MaxTransposePasses
    BY SweepsAssumption
  <2>. QED
    BY <2>1, <2>3, <2>4, <2>5 DEF StageInv
<1>. QED
  BY <1>7, <1>8

-----------------------------------------------------------------------------
(* Sorting a layer.                                                         *)

\* A node's barycenter is a quotient: each of its neighbours has an order.
LEMMA BarycenterType ==
    ASSUME PlacesInv, \A i \in DOMAIN edges : Good(i), NEW v \in DOMAIN rank
    PROVE  Barycenter(v, Neighbors(v)) \in Weight
<1>. DEFINE nbs == Neighbors(v)
<1>1. DOMAIN edges = 1 .. Len(edges) /\ Len(edges) \in Nat /\ IsFiniteSet(DOMAIN edges)
  <2>1. DOMAIN edges = 1 .. Len(edges) /\ Len(edges) \in Nat
    BY DEF PlacesInv
  <2>. QED
    BY <2>1, FS_Interval
<1>2. \A i \in DOMAIN edges : Upper(i) \in DOMAIN rank /\ Lower(i) \in DOMAIN rank
  BY DEF Good, Found, Upper, Lower
<1>3. DOMAIN nbs \in SUBSET DOMAIN edges /\ \A i \in DOMAIN nbs : nbs[i] \in Int
  <2>1. \A u \in DOMAIN rank : order[u] \in Int
    BY DEF PlacesInv, NoRank
  <2>. QED
    BY <2>1, <1>2 DEF Neighbors, UpNeighbors, DownNeighbors
<1>4. IsFiniteSet(DOMAIN nbs)
  BY <1>1, <1>3, FS_Subset
<1>5. order[v] \in Int
  BY DEF PlacesInv, NoRank
<1>. HIDE DEF nbs
<1>6. CASE DOMAIN nbs = {}
  <2>1. Barycenter(v, nbs) = [sum |-> order[v], count |-> 1]
    BY <1>6 DEF Barycenter
  <2>. QED
    BY <2>1, <1>5 DEF Weight, nbs
<1>7. CASE DOMAIN nbs # {}
  <2>1. SumFunction(nbs) \in Int
    BY <1>3, <1>4, SumIsNumber DEF SumFunction
  <2>2. Cardinality(DOMAIN nbs) \in Nat \ {0}
    BY <1>4, <1>7, FS_CardinalityType, FS_EmptySet
  <2>3. Barycenter(v, nbs) = [sum |-> SumFunction(nbs), count |-> Cardinality(DOMAIN nbs)]
    BY <1>7 DEF Barycenter
  <2>. QED
    BY <2>1, <2>2, <2>3 DEF Weight, nbs
<1>. QED
  BY <1>6, <1>7

\* A sorted layer has the nodes it had, each once, at other places.
LEMMA SortedIsRearranged ==
    ASSUME NEW n \in Nat, NEW s, DOMAIN s = 1 .. n, NEW key \in [1 .. n -> Weight]
    PROVE  \E from : Rearranges(from, StableSort(s, key, Below), s, n)
<1>. DEFINE D == DOMAIN s
            Earlier(k) == {j \in D : j # k /\ (\/ Below(key[j], key[k])
                                               \/ ~Below(key[k], key[j]) /\ j < k)}
            B == {jk \in D \X D : \/ Below(key[jk[1]], key[jk[2]])
                                  \/ ~Below(key[jk[2]], key[jk[1]]) /\ jk[1] < jk[2]}
            Source(p) == CHOOSE k \in D : 1 + Cardinality(Earlier(k)) = p
            from == [p \in D |-> Source(p)]
<1>1. \A j, k \in D : <<j, k>> \in B <=> \/ Below(key[j], key[k])
                                         \/ ~Below(key[k], key[j]) /\ j < k
  OBVIOUS
<1>2. \A j \in D : key[j] \in Weight /\ j \in Int
  OBVIOUS
<1>. HIDE DEF B
<1>3. Orders(B, D)
  <2>. HIDE DEF D
  <2>1. ASSUME NEW j \in D
        PROVE  <<j, j>> \notin B
    BY <1>1, <1>2, BelowIsOneWay
  <2>2. ASSUME NEW j \in D, NEW k \in D, j # k
        PROVE  <<j, k>> \in B \/ <<k, j>> \in B
    BY <2>2, <1>1, <1>2, BelowIsOneWay
  <2>3. ASSUME NEW i \in D, NEW j \in D, NEW k \in D, <<i, j>> \in B, <<j, k>> \in B
        PROVE  <<i, k>> \in B
    <3>1. ~Below(key[j], key[i]) /\ ~Below(key[k], key[j])
      BY <2>3, <1>1, <1>2, BelowIsOneWay
    <3>2. /\ ~Below(key[k], key[i])
          /\ Below(key[i], key[j]) \/ Below(key[j], key[k]) => Below(key[i], key[k])
      BY <3>1, <1>2, BelowIsTransitive
    <3>. QED
      BY <2>3, <3>2, <1>1, <1>2
  <2>. QED
    BY <2>1, <2>2, <2>3 DEF Orders
<1>4. \A k \in D : Earlier(k) = Before(B, D, k)
  BY <1>1, <1>2, BelowIsOneWay DEF Before
<1>5. StableSort(s, key, Below) = [p \in D |-> s[from[p]]]
  BY DEF StableSort
<1>6. \A p \in D : (\E k \in D : 1 + Cardinality(Earlier(k)) = p)
                     => from[p] \in D /\ 1 + Cardinality(Earlier(from[p])) = p
  OBVIOUS
<1>. HIDE DEF Source
<1>7. from = [p \in D |-> from[p]]
  OBVIOUS
<1>. HIDE DEF Earlier, from
<1>8. \A p \in D : (\E k \in D : 1 + Cardinality(Before(B, D, k)) = p)
                     => from[p] \in D /\ 1 + Cardinality(Before(B, D, from[p])) = p
  BY <1>4, <1>6
<1>9. Rearranges(from, StableSort(s, key, Below), s, n)
  <2>. DEFINE r == StableSort(s, key, Below)
              I == 1 .. n
  <2>1. D = I
    OBVIOUS
  <2>. HIDE DEF D
  <2>2. \A p \in I : r[p] = s[from[p]]
    BY <2>1, <1>5
  <2>3. /\ Orders(B, I) /\ from = [p \in I |-> from[p]]
        /\ \A p \in I : (\E k \in I : 1 + Cardinality(Before(B, I, k)) = p)
                         => from[p] \in I /\ 1 + Cardinality(Before(B, I, from[p])) = p
    BY <2>1, <1>3, <1>7, <1>8
  <2>. HIDE DEF r
  <2>4. Rearranges(from, r, s, n)
    BY <2>2, <2>3, PlacedIsRearranged
  <2>. QED
    BY <2>4 DEF r
<1>. QED
  BY <1>9

-----------------------------------------------------------------------------
(* The steps that rearrange a layer keep layers and orders in step.         *)

\* Sorting one layer.
LEMMA ReorderPlaces ==
    ASSUME PlacesInv, StageInv, ReorderLayer
    PROVE  PlacesInv' /\ DOMAIN layers' = DOMAIN layers /\ Len(layers') = Len(layers)
<1>. DEFINE l == Head(todo)
            s == layers[l]
            n == Len(s)
            key == [k \in DOMAIN s |-> Barycenter(s[k], Neighbors(s[k]))]
            sorted == StableSort(s, key, Below)
<1>1. /\ l \in DOMAIN layers /\ pc = "barycenter"
      /\ \A i \in DOMAIN edges : Good(i)
      /\ layers' = [layers EXCEPT ![l] = sorted]
      /\ order' = [v \in DOMAIN order |->
                     IF v \in Range(layers'[l]) THEN (CHOOSE p \in DOMAIN layers'[l] : layers'[l][p] = v) - 1
                     ELSE order[v]]
      /\ edges' = edges /\ rank' = rank
  BY DEF ReorderLayer, StageInv, Reordered, graph
<1>2. s \in Seq(DOMAIN rank) /\ n \in Nat /\ DOMAIN s = 1 .. n
  BY <1>1 DEF PlacesInv
<1>3. key \in [1 .. n -> Weight]
  BY <1>1, <1>2, BarycenterType
<1>. HIDE DEF key
<1>4. PICK from : Rearranges(from, sorted, s, n)
  BY <1>2, <1>3, SortedIsRearranged
<1>5. DOMAIN sorted = 1 .. n
  BY <1>2 DEF StableSort
<1>. HIDE DEF sorted, n
<1>6. \A p \in 1 .. n : sorted[p] = s[from[p]] /\ from[p] \in 1 .. n
  BY <1>4 DEF Rearranges
<1>7. sorted \in [1 .. n -> DOMAIN rank]
  <2>1. sorted = [p \in 1 .. n |-> sorted[p]]
    BY <1>5 DEF sorted, StableSort
  <2>2. \A p \in 1 .. n : sorted[p] \in DOMAIN rank
    BY <1>2, <1>6
  <2>. QED
    BY <2>1, <2>2
<1>8. sorted \in Seq(DOMAIN rank)
  BY <1>2, <1>7
<1>9. layers'[l] = sorted /\ \A k \in DOMAIN layers : k # l => layers'[k] = layers[k]
  BY <1>1
<1>10. layers \in Seq(Seq(DOMAIN rank)) /\ layers' \in Seq(Seq(DOMAIN rank)) /\ DOMAIN layers' = DOMAIN layers
       /\ Len(layers') = Len(layers)
  BY <1>1, <1>8 DEF PlacesInv
<1>11. \A p, q \in 1 .. n : sorted[p] = sorted[q] => p = q
  <2>. SUFFICES ASSUME NEW p \in 1 .. n, NEW q \in 1 .. n, sorted[p] = sorted[q] PROVE p = q
    OBVIOUS
  <2>1. s[from[p]] = s[from[q]] /\ from[p] \in DOMAIN s /\ from[q] \in DOMAIN s
    BY <1>2, <1>6
  <2>2. from[p] = from[q]
    <3>1. order[s[from[p]]] = from[p] - 1 /\ order[s[from[q]]] = from[q] - 1
      BY <2>1, <1>1, InLayer
    <3>2. from[p] \in Int /\ from[q] \in Int
      BY <1>6
    <3>. QED
      BY <2>1, <3>1, <3>2
  <2>. QED
    BY <2>2, <1>4 DEF Rearranges
<1>12. ASSUME NEW p \in 1 .. n
       PROVE  order'[sorted[p]] = p - 1 /\ rank[sorted[p]] = l - 1
  <2>. DEFINE v == sorted[p]
  <2>1. v \in Range(layers'[l])
    BY <1>5, <1>9 DEF Range
  <2>2. v \in DOMAIN order
    BY <1>7 DEF PlacesInv
  <2>. HIDE DEF v
  <2>3. order'[v] = (CHOOSE q \in 1 .. n : sorted[q] = v) - 1
    BY <2>1, <2>2, <1>1, <1>5, <1>9
  <2>4. (CHOOSE q \in 1 .. n : sorted[q] = v) = p
    BY <1>11 DEF v
  <2>5. rank[v] = l - 1
    BY <1>1, <1>2, <1>6, InLayer DEF v
  <2>. QED
    BY <2>3, <2>4, <2>5 DEF v
<1>13. ASSUME NEW v \in DOMAIN rank, ~\E p \in 1 .. n : sorted[p] = v
       PROVE  order'[v] = order[v]
  <2>1. v \notin Range(layers'[l])
    BY <1>5, <1>9, <1>13 DEF Range
  <2>2. v \in DOMAIN order
    BY DEF PlacesInv
  <2>. QED
    BY <2>1, <2>2, <1>1
<1>14. order' \in [DOMAIN rank -> Nat \union {NoRank}]
  <2>1. DOMAIN order = DOMAIN rank /\ \A v \in DOMAIN rank : order[v] \in Nat \union {NoRank}
    BY DEF PlacesInv
  <2>2. \A p \in 1 .. n : p - 1 \in Nat
    BY <1>2
  <2>3. \A v \in DOMAIN rank : order'[v] \in Nat \union {NoRank}
    BY <2>1, <2>2, <1>12, <1>13
  <2>4. order' = [v \in DOMAIN rank |-> order'[v]]
    BY <2>1, <1>1
  <2>. QED
    BY <2>3, <2>4
<1>15. ASSUME NEW k \in DOMAIN layers, NEW p \in DOMAIN layers'[k]
       PROVE  rank[layers'[k][p]] = k - 1 /\ order'[layers'[k][p]] = p - 1
  <2>1. CASE k = l
    BY <2>1, <1>5, <1>9, <1>12
  <2>2. CASE k # l
    <3>. DEFINE v == layers[k][p]
    <3>1. layers'[k] = layers[k] /\ p \in DOMAIN layers[k]
      BY <2>2, <1>9
    <3>2. v \in DOMAIN rank /\ rank[v] = k - 1 /\ order[v] = p - 1
      BY <3>1, InLayer
    <3>3. ASSUME NEW q \in 1 .. n, sorted[q] = v
          PROVE  FALSE
      <4>1. rank[v] = l - 1
        BY <3>3, <1>12
      <4>2. l \in Int /\ k \in Int
        <5>1. \A i \in DOMAIN layers : i \in Int
          BY <1>10
        <5>. QED
          BY <5>1, <1>1
      <4>. HIDE DEF l, v
      <4>. QED
        BY <4>1, <4>2, <3>2, <2>2
    <3>4. order'[v] = order[v]
      BY <3>2, <3>3, <1>13
    <3>. QED
      BY <3>1, <3>2, <3>4
  <2>. QED
    BY <2>1, <2>2
<1>16. ASSUME NEW v \in DOMAIN rank, rank[v] # NoRank
       PROVE  /\ rank[v] + 1 \in DOMAIN layers'
              /\ \E p \in DOMAIN layers'[rank[v] + 1] : layers'[rank[v] + 1][p] = v
  <2>1. /\ rank[v] + 1 \in DOMAIN layers
        /\ \E p \in DOMAIN layers[rank[v] + 1] : layers[rank[v] + 1][p] = v
    BY <1>16 DEF PlacesInv
  <2>2. CASE rank[v] + 1 = l
    <3>1. PICK k \in 1 .. n : s[k] = v
      BY <2>1, <2>2, <1>2
    <3>2. PICK p \in 1 .. n : from[p] = k
      BY <1>4 DEF Rearranges
    <3>3. sorted[p] = v
      BY <3>1, <3>2, <1>6
    <3>. QED
      BY <3>3, <2>1, <2>2, <1>5, <1>9, <1>10
  <2>3. CASE rank[v] + 1 # l
    BY <2>1, <2>3, <1>9, <1>10
  <2>. QED
    BY <2>2, <2>3
<1>17. /\ edges \in Seq(Edge)
       /\ rank \in [DOMAIN rank -> Nat \union {NoRank}]
  BY DEF PlacesInv
<1>18. PlacesInv'
  <2>1. /\ (edges \in Seq(Edge))'
        /\ (rank \in [DOMAIN rank -> Nat \union {NoRank}])'
        /\ (layers \in Seq(Seq(DOMAIN rank)))'
        /\ (order \in [DOMAIN rank -> Nat \union {NoRank}])'
    BY <1>1, <1>10, <1>14, <1>17
  <2>2. (\A k \in DOMAIN layers : \A p \in DOMAIN layers[k] :
           rank[layers[k][p]] = k - 1 /\ order[layers[k][p]] = p - 1)'
    <3>1. rank' = rank /\ DOMAIN layers' = DOMAIN layers
      BY <1>1, <1>10
    <3>. QED
      BY <3>1, <1>15
  <2>3. (\A v \in DOMAIN rank : rank[v] # NoRank =>
           rank[v] + 1 \in DOMAIN layers /\ \E p \in DOMAIN layers[rank[v] + 1] : layers[rank[v] + 1][p] = v)'
    BY <1>1, <1>10, <1>16
  <2>. QED
    BY <2>1, <2>2, <2>3 DEF PlacesInv
<1>. QED
  BY <1>10, <1>18

\* The pair that the pass is at: two neighbours of one layer.
LEMMA PairFacts ==
    ASSUME PlacesInv, StageInv, AtPair
    PROVE  /\ at[1] \in DOMAIN layers /\ at[1] \in Nat \ {0} /\ at[2] \in Nat \ {0}
           /\ at[2] \in DOMAIN layers[at[1]] /\ at[2] + 1 \in DOMAIN layers[at[1]]
           /\ LeftOfPair \in DOMAIN rank /\ RightOfPair \in DOMAIN rank
           /\ LeftOfPair # RightOfPair
           /\ rank[LeftOfPair] = at[1] - 1 /\ rank[RightOfPair] = at[1] - 1
           /\ order[LeftOfPair] = at[2] - 1 /\ order[RightOfPair] = at[2]
<1>1. /\ at[1] \in 1 .. Len(layers) + 1 /\ at[2] \in Nat \ {0} /\ Len(layers) \in Nat
      /\ at[1] <= Len(layers) /\ at[2] < Len(layers[at[1]])
  BY DEF StageInv, AtPair, PassDone, PlacesInv
<1>2. at[1] \in DOMAIN layers /\ at[1] \in Nat \ {0}
  BY <1>1 DEF PlacesInv
<1>3. layers[at[1]] \in Seq(DOMAIN rank)
  BY <1>2 DEF PlacesInv
<1>4. at[2] \in DOMAIN layers[at[1]] /\ at[2] + 1 \in DOMAIN layers[at[1]]
  BY <1>1, <1>3
<1>5. /\ LeftOfPair \in DOMAIN rank /\ rank[LeftOfPair] = at[1] - 1 /\ order[LeftOfPair] = at[2] - 1
  BY <1>2, <1>4, InLayer DEF LeftOfPair
<1>6. /\ RightOfPair \in DOMAIN rank /\ rank[RightOfPair] = at[1] - 1
      /\ order[RightOfPair] = (at[2] + 1) - 1
  BY <1>2, <1>4, InLayer DEF RightOfPair
<1>. QED
  BY <1>1, <1>2, <1>4, <1>5, <1>6

\* What a swap writes.
LEMMA SwapFacts ==
    ASSUME PlacesInv, StageInv, SwapPair
    PROVE  /\ layers' \in Seq(Seq(DOMAIN rank))
           /\ DOMAIN layers' = DOMAIN layers /\ Len(layers') = Len(layers)
           /\ \A k \in DOMAIN layers : DOMAIN layers'[k] = DOMAIN layers[k]
           /\ \A k \in DOMAIN layers : \A q \in DOMAIN layers[k] :
                 layers'[k][q] = IF k = at[1] /\ q = at[2] THEN RightOfPair
                                 ELSE IF k = at[1] /\ q = at[2] + 1 THEN LeftOfPair
                                 ELSE layers[k][q]
           /\ order' \in [DOMAIN rank -> Nat \union {NoRank}]
           /\ \A v \in DOMAIN rank :
                 order'[v] = IF v = LeftOfPair THEN at[2]
                             ELSE IF v = RightOfPair THEN at[2] - 1 ELSE order[v]
<1>. DEFINE l == at[1]
            p == at[2]
            a == LeftOfPair
            b == RightOfPair
            s == layers[l]
            t == [s EXCEPT ![p] = b, ![p + 1] = a]
<1>1. /\ l \in DOMAIN layers /\ l \in Nat \ {0} /\ p \in Nat \ {0}
      /\ p \in DOMAIN s /\ p + 1 \in DOMAIN s
      /\ a \in DOMAIN rank /\ b \in DOMAIN rank /\ a # b
  BY PairFacts DEF SwapPair
<1>2. layers' = [layers EXCEPT ![l][p] = b, ![l][p + 1] = a]
  BY DEF SwapPair
<1>3. order' = [order EXCEPT ![a] = p, ![b] = p - 1]
  BY DEF SwapPair
<1>4. s \in Seq(DOMAIN rank) /\ layers \in Seq(Seq(DOMAIN rank))
  BY <1>1 DEF PlacesInv
<1>. HIDE DEF l, p, a, b
<1>5. layers' = [layers EXCEPT ![l] = t]
  BY <1>1, <1>2, <1>4
<1>6. t \in Seq(DOMAIN rank) /\ DOMAIN t = DOMAIN s
  BY <1>1, <1>4
<1>7. \A q \in DOMAIN s : t[q] = IF q = p THEN b ELSE IF q = p + 1 THEN a ELSE s[q]
  BY <1>1, <1>4
<1>. HIDE DEF t
<1>8. layers' \in Seq(Seq(DOMAIN rank)) /\ DOMAIN layers' = DOMAIN layers /\ Len(layers') = Len(layers)
  BY <1>1, <1>4, <1>5, <1>6
<1>9. layers'[l] = t /\ \A k \in DOMAIN layers : k # l => layers'[k] = layers[k]
  BY <1>1, <1>5
<1>10. order \in [DOMAIN rank -> Nat \union {NoRank}]
  BY DEF PlacesInv
<1>11. order' \in [DOMAIN rank -> Nat \union {NoRank}]
  BY <1>1, <1>3, <1>10
<1>12. \A v \in DOMAIN rank : order'[v] = IF v = a THEN p ELSE IF v = b THEN p - 1 ELSE order[v]
  BY <1>1, <1>3, <1>10
<1>13. \A k \in DOMAIN layers : DOMAIN layers'[k] = DOMAIN layers[k]
  BY <1>6, <1>9
<1>14. \A k \in DOMAIN layers : \A q \in DOMAIN layers[k] :
          layers'[k][q] = IF k = l /\ q = p THEN b ELSE IF k = l /\ q = p + 1 THEN a ELSE layers[k][q]
  BY <1>7, <1>9
<1>. QED
  BY <1>8, <1>11, <1>12, <1>13, <1>14 DEF l, p, a, b

\* Swapping one pair.
LEMMA SwapPlaces ==
    ASSUME PlacesInv, StageInv, SwapPair
    PROVE  PlacesInv'
<1>. DEFINE l == at[1]
            p == at[2]
            a == LeftOfPair
            b == RightOfPair
<1>1. /\ l \in DOMAIN layers /\ l \in Nat \ {0} /\ p \in Nat \ {0}
      /\ p \in DOMAIN layers[l] /\ p + 1 \in DOMAIN layers[l]
      /\ a \in DOMAIN rank /\ b \in DOMAIN rank /\ a # b
      /\ rank[a] = l - 1 /\ rank[b] = l - 1 /\ order[a] = p - 1 /\ order[b] = p
  BY PairFacts DEF SwapPair
<1>2. edges' = edges /\ rank' = rank
  BY DEF SwapPair, graph
<1>3. /\ layers' \in Seq(Seq(DOMAIN rank)) /\ order' \in [DOMAIN rank -> Nat \union {NoRank}]
      /\ DOMAIN layers' = DOMAIN layers
      /\ \A k \in DOMAIN layers : DOMAIN layers'[k] = DOMAIN layers[k]
  BY SwapFacts
<1>4. /\ \A k \in DOMAIN layers : \A q \in DOMAIN layers[k] :
            layers'[k][q] = IF k = l /\ q = p THEN b ELSE IF k = l /\ q = p + 1 THEN a ELSE layers[k][q]
      /\ \A v \in DOMAIN rank : order'[v] = IF v = a THEN p ELSE IF v = b THEN p - 1 ELSE order[v]
  BY SwapFacts
<1>5. layers[l][p] = a /\ layers[l][p + 1] = b
  BY DEF LeftOfPair, RightOfPair
<1>. HIDE DEF l, p, a, b
<1>6. ASSUME NEW k \in DOMAIN layers, NEW q \in DOMAIN layers[k]
      PROVE  rank[layers'[k][q]] = k - 1 /\ order'[layers'[k][q]] = q - 1
  <2>. DEFINE v == layers[k][q]
  <2>1. /\ v \in DOMAIN rank /\ rank[v] = k - 1 /\ order[v] = q - 1
        /\ k \in Nat \ {0} /\ q \in Nat \ {0}
    BY InLayer
  <2>2. CASE k = l /\ q = p
    <3>1. layers'[k][q] = b
      BY <2>2, <1>4
    <3>. QED
      BY <3>1, <2>2, <1>1, <1>4
  <2>3. CASE k = l /\ q = p + 1
    <3>1. layers'[k][q] = a
      BY <2>3, <1>1, <1>4
    <3>. QED
      BY <3>1, <2>3, <1>1, <1>4
  <2>4. CASE ~(k = l /\ q = p) /\ ~(k = l /\ q = p + 1)
    <3>1. layers'[k][q] = v
      BY <2>4, <1>4
    <3>2. v # a /\ v # b
      BY <2>1, <2>4, <1>1
    <3>. QED
      BY <3>1, <3>2, <2>1, <1>4
  <2>. QED
    BY <2>2, <2>3, <2>4
<1>7. ASSUME NEW v \in DOMAIN rank, rank[v] # NoRank
      PROVE  rank[v] + 1 \in DOMAIN layers /\ \E q \in DOMAIN layers[rank[v] + 1] : layers'[rank[v] + 1][q] = v
  <2>1. PICK q \in DOMAIN layers[rank[v] + 1] : layers[rank[v] + 1][q] = v
    BY <1>7 DEF PlacesInv
  <2>2. rank[v] + 1 \in DOMAIN layers /\ rank[v] \in Nat
    BY <1>7 DEF PlacesInv
  <2>3. CASE v = a
    BY <2>2, <2>3, <1>1, <1>4
  <2>4. CASE v = b
    BY <2>2, <2>4, <1>1, <1>4
  <2>5. CASE v # a /\ v # b
    <3>1. ~(rank[v] + 1 = l /\ q = p) /\ ~(rank[v] + 1 = l /\ q = p + 1)
      BY <2>1, <2>5, <1>5
    <3>. QED
      BY <3>1, <2>1, <2>2, <1>4
  <2>. QED
    BY <2>3, <2>4, <2>5
<1>8. /\ (edges \in Seq(Edge))'
      /\ (rank \in [DOMAIN rank -> Nat \union {NoRank}])'
      /\ (layers \in Seq(Seq(DOMAIN rank)))'
      /\ (order \in [DOMAIN rank -> Nat \union {NoRank}])'
  BY <1>2, <1>3 DEF PlacesInv
<1>9. (\A k \in DOMAIN layers : \A q \in DOMAIN layers[k] :
         rank[layers[k][q]] = k - 1 /\ order[layers[k][q]] = q - 1)'
  BY <1>2, <1>3, <1>6
<1>10. (\A v \in DOMAIN rank : rank[v] # NoRank =>
          rank[v] + 1 \in DOMAIN layers /\ \E q \in DOMAIN layers[rank[v] + 1] : layers[rank[v] + 1][q] = v)'
  BY <1>2, <1>3, <1>7
<1>. QED
  BY <1>8, <1>9, <1>10 DEF PlacesInv

-----------------------------------------------------------------------------
(* The invariant is inductive.                                              *)

\* Neither sorting nor swapping nor anything else breaks PlacesInv.
LEMMA StepPlaces == PlacesInv /\ StageInv /\ [Next]_vars => PlacesInv' /\ DOMAIN layers' = DOMAIN layers /\ Len(layers') = Len(layers)
<1>. SUFFICES ASSUME PlacesInv, StageInv, [Next]_vars
              PROVE  PlacesInv' /\ DOMAIN layers' = DOMAIN layers /\ Len(layers') = Len(layers)
  OBVIOUS
<1>1. CASE UNCHANGED <<edges, rank, layers, order>>
  BY <1>1 DEF PlacesInv
<1>2. CASE ReorderLayer
  BY <1>2, ReorderPlaces
<1>3. CASE SwapPair
  BY <1>3, SwapPlaces, SwapFacts
<1>4. CASE \/ Reject \/ Accept \/ BeginSweep \/ BeginTranspose \/ BeginPass \/ KeepPair
           \/ NextLayer \/ EndTranspose \/ Return \/ Returned \/ UNCHANGED vars
  <2>1. UNCHANGED <<edges, rank, layers, order>>
    BY <1>4 DEF Reject, Accept, BeginSweep, BeginTranspose, BeginPass, KeepPair, NextLayer,
                EndTranspose, Return, Returned, vars, graph
  <2>. QED
    BY <2>1, <1>1
<1>. QED
  BY <1>2, <1>3, <1>4 DEF Next, Step

\* The edges and ranks are never written.
LEMMA GraphIsKept == [Next]_vars => edges' = edges /\ rank' = rank
  BY DEF Next, Step, Reject, Accept, BeginSweep, ReorderLayer, BeginTranspose, BeginPass, SwapPair,
         KeepPair, NextLayer, EndTranspose, Return, Returned, vars, graph

\* The loops stay within their bounds.
LEMMA StepStage == PlacesInv /\ StageInv /\ [Next]_vars => StageInv'
<1>. SUFFICES ASSUME PlacesInv, StageInv, [Next]_vars PROVE StageInv'
  OBVIOUS
<1>1. /\ PlacesInv' /\ DOMAIN layers' = DOMAIN layers /\ Len(layers') = Len(layers)
      /\ edges' = edges /\ rank' = rank
  BY StepPlaces, GraphIsKept
<1>2. layers \in Seq(Seq(DOMAIN rank)) /\ Len(layers) \in Nat /\ DOMAIN layers = 1 .. Len(layers)
  BY DEF PlacesInv
<1>3. (\A i \in DOMAIN edges : Good(i)) => (\A i \in DOMAIN edges : Good(i))'
  BY <1>1 DEF Good, Found, Ranked
<1>4. Sweeps \in Nat /\ MaxTransposePasses \in Nat
  BY SweepsAssumption
<1>5. /\ sweep \in 0 .. Sweeps /\ pass \in 0 .. MaxTransposePasses
      /\ todo \in Seq(DOMAIN layers) /\ improved \in BOOLEAN
      /\ at \in (1 .. Len(layers) + 1) \X (Nat \ {0})
      /\ pc \in {"check", "sweep", "barycenter", "transpose", "returned"}
      /\ result \in {"none", "Ok", "DanglingEdge", "MissingRank"}
      /\ pc = "check" => sweep = 0
      /\ pc \in {"barycenter", "transpose"} => sweep < Sweeps
      /\ pc \in {"sweep", "barycenter", "transpose"} => \A i \in DOMAIN edges : Good(i)
  BY DEF StageInv
<1>6. CASE Reject
  BY <1>1, <1>3, <1>5, <1>6 DEF StageInv, Reject
<1>7. CASE Accept
  <2>1. \A i \in DOMAIN edges : Good(i)
    BY <1>7 DEF Accept
  <2>. QED
    BY <2>1, <1>1, <1>3, <1>5, <1>7 DEF StageInv, Accept
<1>8. CASE BeginSweep
  <2>. DEFINE m == Len(layers) - 1
              down == [k \in 1 .. m |-> k + 1]
              up == [k \in DOMAIN down |-> Len(layers) - k]
  <2>1. down \in Seq(DOMAIN layers) /\ up \in Seq(DOMAIN layers)
    <3>1. CASE m \in Nat
      <4>1. down \in [1 .. m -> DOMAIN layers] /\ up \in [1 .. m -> DOMAIN layers]
        BY <1>2
      <4>. QED
        BY <4>1, <3>1
    <3>2. CASE m \notin Nat
      <4>1. 1 .. m = {} /\ 1 .. m = 1 .. 0
        BY <1>2, <3>2
      <4>. HIDE DEF m
      <4>2. down \in [1 .. 0 -> DOMAIN layers] /\ up \in [1 .. 0 -> DOMAIN layers]
        BY <4>1
      <4>3. \A q \in [1 .. 0 -> DOMAIN layers] : q \in Seq(DOMAIN layers)
        OBVIOUS
      <4>. QED
        BY <4>2, <4>3
    <3>. QED
      BY <3>1, <3>2
  <2>2. todo' \in Seq(DOMAIN layers)
    <3>. HIDE DEF up
    <3>1. todo' = down \/ todo' = up
      BY <1>8 DEF BeginSweep, up
    <3>. QED
      BY <2>1, <3>1
  <2>. HIDE DEF down, up
  <2>3. /\ pc = "sweep" /\ sweep < Sweeps /\ pc' = "barycenter"
        /\ UNCHANGED <<sweep, improved, pass, at, result>>
    BY <1>8 DEF BeginSweep
  <2>. QED
    BY <2>2, <2>3, <1>1, <1>3, <1>5 DEF StageInv
<1>9. CASE ReorderLayer
  <2>1. todo' \in Seq(DOMAIN layers)
    BY <1>5, <1>9 DEF ReorderLayer
  <2>2. UNCHANGED <<sweep, improved, pass, at, pc, result>>
    BY <1>9 DEF ReorderLayer
  <2>. QED
    BY <2>1, <2>2, <1>1, <1>3, <1>5 DEF StageInv
<1>10. CASE BeginTranspose
  <2>1. at' \in (1 .. Len(layers) + 1) \X (Nat \ {0})
    BY <1>2, <1>10 DEF BeginTranspose
  <2>. QED
    BY <2>1, <1>1, <1>3, <1>4, <1>5, <1>10 DEF StageInv, BeginTranspose
<1>11. CASE BeginPass
  <2>1. at' \in (1 .. Len(layers) + 1) \X (Nat \ {0})
    BY <1>2, <1>11 DEF BeginPass
  <2>2. pass' \in 0 .. MaxTransposePasses
    BY <1>4, <1>5, <1>11 DEF BeginPass
  <2>. QED
    BY <2>1, <2>2, <1>1, <1>3, <1>5, <1>11 DEF StageInv, BeginPass
<1>12. CASE SwapPair \/ KeepPair
  <2>1. /\ at' = <<at[1], at[2] + 1>> /\ improved' \in BOOLEAN
        /\ UNCHANGED <<sweep, todo, pass, pc, result>>
    BY <1>5, <1>12 DEF SwapPair, KeepPair
  <2>2. at' \in (1 .. Len(layers) + 1) \X (Nat \ {0})
    BY <2>1, <1>5
  <2>. QED
    BY <2>1, <2>2, <1>1, <1>3, <1>5 DEF StageInv
<1>13. CASE NextLayer
  <2>1. at' \in (1 .. Len(layers) + 1) \X (Nat \ {0})
    BY <1>2, <1>5, <1>13 DEF NextLayer, PassDone
  <2>. QED
    BY <2>1, <1>1, <1>3, <1>5, <1>13 DEF StageInv, NextLayer
<1>14. CASE EndTranspose
  <2>1. sweep' \in 0 .. Sweeps
    BY <1>4, <1>5, <1>14 DEF EndTranspose
  <2>. QED
    BY <2>1, <1>1, <1>3, <1>5, <1>14 DEF StageInv, EndTranspose
<1>15. CASE Return
  BY <1>1, <1>3, <1>5, <1>15 DEF StageInv, Return
<1>16. CASE Returned \/ UNCHANGED vars
  <2>1. UNCHANGED <<sweep, todo, improved, pass, at, pc, result>>
    BY <1>16 DEF Returned, vars
  <2>. QED
    BY <2>1, <1>1, <1>3, <1>5 DEF StageInv
<1>. QED
  BY <1>6, <1>7, <1>8, <1>9, <1>10, <1>11, <1>12, <1>13, <1>14, <1>15, <1>16 DEF Next, Step

\* order_layers keeps the layers and the orders in step, at every stage.
THEOREM PlacesAndStages == Spec => [](PlacesInv /\ StageInv)
<1>1. PlacesInv /\ StageInv /\ [Next]_vars => PlacesInv' /\ StageInv'
  BY StepPlaces, StepStage
<1>. QED
  BY InitPlaces, <1>1, PTL DEF Spec

\* Type correctness: the order of a node is a place or none, the loop counters
\* stay within the arguments they count to.
THEOREM OrderingTypes == Spec => []TypeOK
<1>1. ASSUME PlacesInv, StageInv
      PROVE  TypeOK
  <2>1. \A k \in DOMAIN layers : Range(layers[k]) \subseteq DOMAIN rank
    BY <1>1, InLayer DEF Range
  <2>2. DOMAIN order = DOMAIN rank /\ Range(order) \subseteq Nat \union {NoRank}
    BY <1>1 DEF PlacesInv, Range
  <2>3. Range(todo) \subseteq DOMAIN layers
    BY <1>1 DEF StageInv, Range
  <2>4. at[1] \in 1 .. Len(layers) + 1 /\ at[2] \in Nat \ {0}
    BY <1>1 DEF StageInv
  <2>. QED
    BY <2>1, <2>2, <2>3, <2>4, <1>1 DEF TypeOK, StageInv
<1>. QED
  BY <1>1, PlacesAndStages, PTL

\* Each ranked node stands once in the layers, at the place its order names,
\* after every sort and swap.
THEOREM OrdersArePlaces == Spec => []OrderMatchesLayers
<1>1. ASSUME PlacesInv
      PROVE  OrderMatchesLayers
  BY <1>1, PlaceOf DEF OrderMatchesLayers
<1>. QED
  BY <1>1, PlacesAndStages, PTL

-----------------------------------------------------------------------------
(* What a transpose leaves.                                                 *)

\* A pass that has not swapped yet found nothing to swap so far, and one that
\* ended without a swap found nothing at all.
Settled ==
    /\ pc = "transpose" /\ ~improved =>
          \A l \in DOMAIN layers : \A p \in 1 .. Len(layers[l]) - 1 :
             l < at[1] \/ (l = at[1] /\ p < at[2]) => ~SwapSaves(layers[l][p], layers[l][p + 1])
    /\ NoPairLeftToSwap

\* The passes look at every pair.
LEMMA StepSettled == PlacesInv /\ StageInv /\ Settled /\ [Next]_vars => Settled'
<1>. SUFFICES ASSUME PlacesInv, StageInv, Settled, [Next]_vars PROVE Settled'
  OBVIOUS
<1>. DEFINE Saves(l, p) == SwapSaves(layers[l][p], layers[l][p + 1])
            Passed(l, p) == l < at[1] \/ (l = at[1] /\ p < at[2])
<1>1. /\ edges' = edges /\ rank' = rank
      /\ \A l \in DOMAIN layers : layers[l] \in Seq(DOMAIN rank) /\ Len(layers[l]) \in Nat /\ l \in Nat \ {0}
      /\ DOMAIN layers = 1 .. Len(layers) /\ Len(layers) \in Nat
  BY GraphIsKept DEF PlacesInv
<1>2. /\ pc = "transpose" /\ ~improved =>
            \A l \in DOMAIN layers : \A p \in 1 .. Len(layers[l]) - 1 : Passed(l, p) => ~Saves(l, p)
      /\ pc \in {"sweep", "returned"} /\ sweep > 0 /\ ~improved =>
            \A l \in DOMAIN layers : \A p \in 1 .. Len(layers[l]) - 1 : ~Saves(l, p)
  BY DEF Settled, NoPairLeftToSwap
<1>3. ASSUME layers' = layers, order' = order
      PROVE  \A l \in DOMAIN layers : \A p : Saves(l, p)' <=> Saves(l, p)
  BY <1>1, <1>3 DEF SwapSaves, LocalCrossings, UpNeighbors, DownNeighbors, Adjacent, Upper, Lower
<1>4. /\ at[1] \in Nat \ {0} /\ at[2] \in Nat \ {0} /\ at[1] \in 1 .. Len(layers) + 1
  BY <1>1 DEF StageInv
<1>5. /\ (pc' = "transpose" /\ ~improved' =>
            \A l \in DOMAIN layers' : \A p \in 1 .. Len(layers'[l]) - 1 : Passed(l, p)' => ~Saves(l, p)')
      /\ (pc' \in {"sweep", "returned"} /\ sweep' > 0 /\ ~improved' =>
            \A l \in DOMAIN layers' : \A p \in 1 .. Len(layers'[l]) - 1 : ~Saves(l, p)')
  <2>. HIDE DEF Saves
  <2>1. CASE Reject
    <3>1. sweep' = 0 /\ pc' = "returned"
      BY <2>1 DEF Reject, StageInv
    <3>. QED
      BY <3>1
  <2>2. CASE Accept
    <3>1. sweep' = 0 /\ pc' = "sweep"
      BY <2>2 DEF Accept, StageInv
    <3>. QED
      BY <3>1
  <2>3. CASE BeginSweep \/ ReorderLayer
    <3>1. pc' = "barycenter"
      BY <2>3 DEF BeginSweep, ReorderLayer
    <3>. QED
      BY <3>1
  <2>4. CASE BeginTranspose \/ SwapPair
    <3>1. improved' /\ pc' = "transpose"
      BY <2>4 DEF BeginTranspose, SwapPair
    <3>. QED
      BY <3>1
  <2>5. CASE BeginPass
    <3>1. at' = <<1, 1>> /\ pc' = "transpose" /\ layers' = layers
      BY <2>5 DEF BeginPass
    <3>2. \A l \in DOMAIN layers : \A p \in 1 .. Len(layers[l]) - 1 : ~Passed(l, p)'
      BY <3>1, <1>1
    <3>. HIDE DEF Passed
    <3>. QED
      BY <3>1, <3>2
  <2>6. CASE KeepPair
    <3>1. /\ pc = "transpose" /\ pc' = "transpose" /\ improved' = improved
          /\ layers' = layers /\ order' = order /\ at' = <<at[1], at[2] + 1>>
          /\ ~Saves(at[1], at[2])
      BY <2>6 DEF KeepPair, LeftOfPair, RightOfPair, Saves
    <3>2. ASSUME NEW l \in DOMAIN layers, NEW p \in 1 .. Len(layers[l]) - 1, Passed(l, p)'
          PROVE  Passed(l, p) \/ (l = at[1] /\ p = at[2])
      BY <3>1, <3>2, <1>1, <1>4
    <3>. HIDE DEF Passed
    <3>. QED
      BY <3>1, <3>2, <1>2, <1>3
  <2>7. CASE NextLayer
    <3>1. /\ pc = "transpose" /\ pc' = "transpose" /\ improved' = improved
          /\ layers' = layers /\ order' = order /\ at' = <<at[1] + 1, 1>>
          /\ at[2] >= Len(layers[at[1]]) /\ at[1] \in DOMAIN layers
      <4>1. ~PassDone /\ ~(at[2] < Len(layers[at[1]]))
        BY <2>7 DEF NextLayer, AtPair
      <4>2. at[1] \in DOMAIN layers
        BY <4>1, <1>1, <1>4 DEF PassDone
      <4>3. at[2] >= Len(layers[at[1]])
        BY <4>1, <4>2, <1>1, <1>4
      <4>. QED
        BY <4>2, <4>3, <2>7 DEF NextLayer
    <3>2. ASSUME NEW l \in DOMAIN layers, NEW p \in 1 .. Len(layers[l]) - 1, Passed(l, p)'
          PROVE  Passed(l, p)
      BY <3>1, <3>2, <1>1, <1>4
    <3>. HIDE DEF Passed
    <3>. QED
      BY <3>1, <3>2, <1>2, <1>3
  <2>8. CASE EndTranspose
    <3>1. /\ pc = "transpose" /\ pc' = "sweep" /\ improved' = improved
          /\ layers' = layers /\ order' = order /\ at[1] > Len(layers)
      BY <2>8 DEF EndTranspose, PassDone
    <3>2. \A l \in DOMAIN layers : \A p \in 1 .. Len(layers[l]) - 1 : Passed(l, p)
      BY <3>1, <1>1, <1>4
    <3>. HIDE DEF Passed
    <3>. QED
      BY <3>1, <3>2, <1>2, <1>3
  <2>9. CASE Return
    <3>1. /\ pc = "sweep" /\ pc' = "returned" /\ improved' = improved /\ sweep' = sweep
          /\ layers' = layers /\ order' = order
      BY <2>9 DEF Return
    <3>. QED
      BY <3>1, <1>2, <1>3
  <2>10. CASE Returned \/ UNCHANGED vars
    <3>1. UNCHANGED <<layers, order, sweep, improved, at, pc>>
      BY <2>10 DEF Returned, vars
    <3>2. \A l, p : Passed(l, p)' <=> Passed(l, p)
      BY <3>1
    <3>. HIDE DEF Passed
    <3>. QED
      BY <3>1, <3>2, <1>2, <1>3
  <2>. QED
    BY <2>1, <2>2, <2>3, <2>4, <2>5, <2>6, <2>7, <2>8, <2>9, <2>10 DEF Next, Step
<1>6. (pc = "transpose" /\ ~improved =>
         \A l \in DOMAIN layers : \A p \in 1 .. Len(layers[l]) - 1 :
            l < at[1] \/ (l = at[1] /\ p < at[2]) => ~SwapSaves(layers[l][p], layers[l][p + 1]))'
  BY <1>5
<1>7. NoPairLeftToSwap'
  BY <1>5 DEF NoPairLeftToSwap
<1>. QED
  BY <1>6, <1>7 DEF Settled

\* A transpose that ended by itself leaves no adjacent pair, in any layer, whose
\* swap would save a crossing.
THEOREM TransposeLeavesNoPair == Spec => []NoPairLeftToSwap
<1>1. Init => Settled
  BY DEF Init, Settled, NoPairLeftToSwap
<1>2. Settled => NoPairLeftToSwap
  BY DEF Settled
<1>. QED
  BY <1>1, <1>2, StepSettled, PlacesAndStages, PTL DEF Spec

-----------------------------------------------------------------------------
(* The crossings of the drawing, read from the orders.                      *)

\* The edges drawn between adjacent layers.
Segments == {i \in DOMAIN edges : Adjacent(i)}

\* The pairs of them that cross, when o gives the order of each node.
Crossed(o) ==
    {ij \in Segments \X Segments :
        /\ rank[Upper(ij[1])] = rank[Upper(ij[2])]
        /\ o[Upper(ij[1])] < o[Upper(ij[2])]
        /\ o[Lower(ij[1])] > o[Lower(ij[2])]}

\* o is the order of the nodes in the layers ls.
Reads(o, ls) ==
    \A v \in DOMAIN rank : rank[v] # NoRank =>
        /\ o[v] \in Int /\ o[v] + 1 \in DOMAIN ls[rank[v] + 1]
        /\ \A p \in DOMAIN ls[rank[v] + 1] : ls[rank[v] + 1][p] = v <=> p = o[v] + 1

\* A segment joins a ranked node to one in the layer below.
LEMMA SegmentEnds ==
    ASSUME PlacesInv, \A i \in DOMAIN edges : Good(i), NEW i \in Segments
    PROVE  /\ Upper(i) \in DOMAIN rank /\ Lower(i) \in DOMAIN rank
           /\ rank[Upper(i)] \in Nat /\ rank[Lower(i)] = rank[Upper(i)] + 1
           /\ rank[Upper(i)] # NoRank /\ rank[Lower(i)] # NoRank
<1>1. i \in DOMAIN edges /\ Adjacent(i) /\ Good(i)
  BY DEF Segments
<1>2. /\ edges[i].from \in DOMAIN rank /\ edges[i].to \in DOMAIN rank
      /\ rank[edges[i].from] # NoRank /\ rank[edges[i].to] # NoRank
  BY <1>1 DEF Good, Found, Ranked
<1>3. rank[edges[i].from] \in Nat /\ rank[edges[i].to] \in Nat
  BY <1>2 DEF PlacesInv
<1>4. \/ rank[edges[i].to] = rank[edges[i].from] + 1
      \/ rank[edges[i].from] = rank[edges[i].to] + 1
  BY <1>1, <1>3 DEF Adjacent
<1>. QED
  BY <1>2, <1>3, <1>4 DEF Upper, Lower

\* The places that count_total_crossings reads are the orders.
LEMMA CrossingsByOrder ==
    ASSUME PlacesInv, \A i \in DOMAIN edges : Good(i), NEW o, NEW ls, Reads(o, ls)
    PROVE  TotalCrossings(ls) = Cardinality(Crossed(o))
<1>. DEFINE Place(v) == CHOOSE p \in DOMAIN ls[rank[v] + 1] : ls[rank[v] + 1][p] = v
            place == [v \in DOMAIN rank |-> Place(v)]
            crossed == {ij \in Segments \X Segments :
                          /\ rank[Upper(ij[1])] = rank[Upper(ij[2])]
                          /\ place[Upper(ij[1])] < place[Upper(ij[2])]
                          /\ place[Lower(ij[1])] > place[Lower(ij[2])]}
<1>1. TotalCrossings(ls) = Cardinality(crossed)
  BY DEF TotalCrossings, Segments
<1>2. ASSUME NEW v \in DOMAIN rank, rank[v] # NoRank
      PROVE  place[v] = o[v] + 1 /\ o[v] \in Int
  <2>1. /\ o[v] \in Int /\ o[v] + 1 \in DOMAIN ls[rank[v] + 1]
        /\ \A p \in DOMAIN ls[rank[v] + 1] : ls[rank[v] + 1][p] = v <=> p = o[v] + 1
    BY <1>2 DEF Reads
  <2>2. Place(v) = o[v] + 1
    BY <2>1
  <2>. HIDE DEF Place
  <2>. QED
    BY <2>1, <2>2
<1>. HIDE DEF place
<1>3. ASSUME NEW i \in Segments, NEW j \in Segments
      PROVE  /\ place[Upper(i)] < place[Upper(j)] <=> o[Upper(i)] < o[Upper(j)]
             /\ place[Lower(i)] > place[Lower(j)] <=> o[Lower(i)] > o[Lower(j)]
  <2>1. /\ place[Upper(i)] = o[Upper(i)] + 1 /\ o[Upper(i)] \in Int
        /\ place[Lower(i)] = o[Lower(i)] + 1 /\ o[Lower(i)] \in Int
    BY <1>2, SegmentEnds
  <2>2. /\ place[Upper(j)] = o[Upper(j)] + 1 /\ o[Upper(j)] \in Int
        /\ place[Lower(j)] = o[Lower(j)] + 1 /\ o[Lower(j)] \in Int
    BY <1>2, SegmentEnds
  <2>. QED
    BY <2>1, <2>2
<1>4. crossed = Crossed(o)
  BY <1>3 DEF Crossed
<1>. QED
  BY <1>1, <1>4

\* Orders that match the places are read from them.
LEMMA OrdersAreRead ==
    ASSUME rank \in [DOMAIN rank -> Nat \union {NoRank}], NEW o, NEW ls \in Seq(Seq(DOMAIN rank)),
           \A k \in DOMAIN ls : \A p \in DOMAIN ls[k] : rank[ls[k][p]] = k - 1 /\ o[ls[k][p]] = p - 1,
           \A v \in DOMAIN rank : rank[v] # NoRank =>
              rank[v] + 1 \in DOMAIN ls /\ \E p \in DOMAIN ls[rank[v] + 1] : ls[rank[v] + 1][p] = v
    PROVE  Reads(o, ls)
<1>. SUFFICES ASSUME NEW v \in DOMAIN rank, rank[v] # NoRank
              PROVE  /\ o[v] \in Int /\ o[v] + 1 \in DOMAIN ls[rank[v] + 1]
                     /\ \A p \in DOMAIN ls[rank[v] + 1] : ls[rank[v] + 1][p] = v <=> p = o[v] + 1
  BY DEF Reads
<1>. DEFINE k == rank[v] + 1
<1>1. k \in DOMAIN ls /\ ls[k] \in Seq(DOMAIN rank) /\ \E p \in DOMAIN ls[k] : ls[k][p] = v
  OBVIOUS
<1>. HIDE DEF k
<1>2. \A p \in DOMAIN ls[k] : p \in Int /\ (ls[k][p] = v => o[v] = p - 1)
  BY <1>1
<1>3. PICK p \in DOMAIN ls[k] : ls[k][p] = v
  BY <1>1
<1>4. o[v] \in Int /\ o[v] + 1 = p
  BY <1>2, <1>3
<1>5. \A q \in DOMAIN ls[k] : ls[k][q] = v <=> q = o[v] + 1
  <2>1. ASSUME NEW q \in DOMAIN ls[k], ls[k][q] = v
        PROVE  q = o[v] + 1
    <3>1. q \in Int /\ o[v] = q - 1
      BY <1>2, <2>1
    <3>. QED
      BY <3>1
  <2>2. ASSUME NEW q \in DOMAIN ls[k], q = o[v] + 1
        PROVE  ls[k][q] = v
    BY <1>3, <1>4, <2>2
  <2>. QED
    BY <2>1, <2>2
<1>. QED
  BY <1>3, <1>4, <1>5 DEF k

-----------------------------------------------------------------------------
(* Sizes of sets of pairs.                                                  *)

\* The pairs of C, turned round.
Turned(C) == {<<ij[2], ij[1]>> : ij \in C}

\* Sets of pairs with the same pairs are equal.
LEMMA SamePairs ==
    ASSUME NEW S, NEW C \in SUBSET (S \X S), NEW D \in SUBSET (S \X S),
           \A i, j \in S : <<i, j>> \in C <=> <<i, j>> \in D
    PROVE  C = D
  OBVIOUS

\* Turning pairs round loses none.
LEMMA TurnedIsAsLarge ==
    ASSUME NEW S, NEW C \in SUBSET (S \X S), IsFiniteSet(C)
    PROVE  IsFiniteSet(Turned(C)) /\ Cardinality(Turned(C)) = Cardinality(C)
<1>. DEFINE turn == [ij \in C |-> <<ij[2], ij[1]>>]
<1>1. turn \in [C -> Turned(C)]
  BY DEF Turned
<1>2. ASSUME NEW x \in C, NEW y \in C, turn[x] = turn[y]
      PROVE  x = y
  <2>1. x = <<x[1], x[2]>> /\ y = <<y[1], y[2]>>
    OBVIOUS
  <2>2. x[1] = y[1] /\ x[2] = y[2]
    BY <1>2
  <2>. QED
    BY <2>1, <2>2
<1>3. \A z \in Turned(C) : \E x \in C : turn[x] = z
  BY DEF Turned
<1>. HIDE DEF turn
<1>4. turn \in Bijection(C, Turned(C))
  <2>1. turn \in Injection(C, Turned(C))
    BY <1>1, <1>2, Fun_IsInj
  <2>2. turn \in Surjection(C, Turned(C))
    BY <1>1, <1>3, Fun_IsSurj
  <2>. QED
    BY <2>1, <2>2 DEF Bijection
<1>5. ExistsBijection(C, Turned(C))
  BY <1>4 DEF ExistsBijection
<1>. QED
  BY <1>5, FS_Bijection

\* The size of a set in three parts.
LEMMA SizeOfThreeParts ==
    ASSUME NEW X, NEW Y, NEW Z, IsFiniteSet(X), IsFiniteSet(Y), IsFiniteSet(Z),
           X \cap Y = {}, X \cap Z = {}, Y \cap Z = {}
    PROVE  /\ Cardinality(X \union Y \union Z) = Cardinality(X) + Cardinality(Y) + Cardinality(Z)
           /\ Cardinality(X) \in Nat /\ Cardinality(Y) \in Nat /\ Cardinality(Z) \in Nat
<1>1. Cardinality(X) \in Nat /\ Cardinality(Y) \in Nat /\ Cardinality(Z) \in Nat
  BY FS_CardinalityType
<1>. DEFINE XY == X \union Y
<1>2. IsFiniteSet(XY) /\ Cardinality(XY) = Cardinality(X) + Cardinality(Y)
  <2>1. IsFiniteSet(XY) /\ Cardinality(XY) = Cardinality(X) + Cardinality(Y) - Cardinality(X \cap Y)
    BY FS_Union
  <2>2. Cardinality(X \cap Y) = 0
    BY FS_EmptySet
  <2>. QED
    BY <2>1, <2>2, <1>1
<1>3. XY \cap Z = {}
  OBVIOUS
<1>. HIDE DEF XY
<1>4. Cardinality(XY \union Z) = Cardinality(XY) + Cardinality(Z)
  <2>1. Cardinality(XY \union Z) = Cardinality(XY) + Cardinality(Z) - Cardinality(XY \cap Z)
    BY <1>2, FS_Union
  <2>2. Cardinality(XY \cap Z) = 0
    BY <1>3, FS_EmptySet
  <2>. QED
    BY <2>1, <2>2, <1>1, <1>2
<1>. QED
  BY <1>1, <1>2, <1>4 DEF XY

-----------------------------------------------------------------------------
(* What a swap does to the crossings.                                       *)

\* The crossings below x and y, and those above, when x is left of y.
CrossedBelow(x, y) ==
    {ij \in Segments \X Segments : Upper(ij[1]) = x /\ Upper(ij[2]) = y /\ order[Lower(ij[1])] > order[Lower(ij[2])]}
CrossedAbove(x, y) ==
    {ij \in Segments \X Segments : Lower(ij[1]) = x /\ Lower(ij[2]) = y /\ order[Upper(ij[1])] > order[Upper(ij[2])]}

\* The local count is that of two sets of pairs of segments.
LEMMA LocalCount ==
    ASSUME NEW x, NEW y
    PROVE  LocalCrossings(x, y) = Cardinality(CrossedAbove(x, y)) + Cardinality(CrossedBelow(x, y))
<1>1. Crossings(UpNeighbors(x), UpNeighbors(y)) = Cardinality(CrossedAbove(x, y))
  <2>1. {ij \in (DOMAIN UpNeighbors(x)) \X (DOMAIN UpNeighbors(y)) :
            UpNeighbors(x)[ij[1]] > UpNeighbors(y)[ij[2]]} = CrossedAbove(x, y)
    BY DEF UpNeighbors, CrossedAbove, Segments
  <2>. QED
    BY <2>1 DEF Crossings
<1>2. Crossings(DownNeighbors(x), DownNeighbors(y)) = Cardinality(CrossedBelow(x, y))
  <2>1. {ij \in (DOMAIN DownNeighbors(x)) \X (DOMAIN DownNeighbors(y)) :
            DownNeighbors(x)[ij[1]] > DownNeighbors(y)[ij[2]]} = CrossedBelow(x, y)
    BY DEF DownNeighbors, CrossedBelow, Segments
  <2>. QED
    BY <2>1 DEF Crossings
<1>. QED
  BY <1>1, <1>2 DEF LocalCrossings

\* Two nodes of one layer have different orders.
LEMMA OrdersDiffer ==
    ASSUME PlacesInv, NEW v \in DOMAIN rank, NEW w \in DOMAIN rank, rank[v] # NoRank, rank[v] = rank[w], v # w
    PROVE  order[v] \in Nat /\ order[w] \in Nat /\ order[v] # order[w]
  BY PlaceOf

\* The swap of two neighbours of one layer changes the crossings of the whole
\* drawing by what the local counts say.
LEMMA SwapChangesLocally ==
    ASSUME PlacesInv, \A i \in DOMAIN edges : Good(i),
           NEW a \in DOMAIN rank, NEW b \in DOMAIN rank, rank[a] # NoRank, rank[a] = rank[b],
           order[b] = order[a] + 1,
           NEW o, \A v \in DOMAIN rank :
                     o[v] = IF v = a THEN order[b] ELSE IF v = b THEN order[a] ELSE order[v]
    PROVE  /\ Cardinality(Crossed(order)) \in Nat /\ Cardinality(Crossed(o)) \in Nat
           /\ LocalCrossings(a, b) \in Nat /\ LocalCrossings(b, a) \in Nat
           /\ Cardinality(Crossed(o)) + LocalCrossings(a, b) = Cardinality(Crossed(order)) + LocalCrossings(b, a)
<1>0. a # b /\ order[a] \in Nat /\ order[b] \in Nat /\ order[a] < order[b]
  <2>1. order[a] \in Nat
    BY PlaceOf
  <2>. QED
    BY <2>1
<1>. DEFINE Both(u, w) == (u = a /\ w = b) \/ (u = b /\ w = a)
            others == {ij \in Crossed(order) : /\ ~Both(Upper(ij[1]), Upper(ij[2]))
                                               /\ ~Both(Lower(ij[1]), Lower(ij[2]))}
<1>1. \A i \in Segments : /\ Upper(i) \in DOMAIN rank /\ Lower(i) \in DOMAIN rank
                          /\ rank[Upper(i)] \in Nat /\ rank[Lower(i)] = rank[Upper(i)] + 1
                          /\ rank[Upper(i)] # NoRank /\ rank[Lower(i)] # NoRank
                          /\ order[Upper(i)] \in Int /\ order[Lower(i)] \in Int
  BY SegmentEnds, PlaceOf
<1>2. ASSUME NEW u \in DOMAIN rank, NEW w \in DOMAIN rank, rank[u] # NoRank, rank[u] = rank[w], ~Both(u, w)
      PROVE  o[u] < o[w] <=> order[u] < order[w]
  <2>1. \A x \in DOMAIN rank : rank[x] = rank[u] => order[x] \in Nat
    BY <1>2, PlaceOf
  <2>2. CASE u = w
    BY <2>2, <2>1, <1>0
  <2>3. CASE u \notin {a, b} /\ w \notin {a, b}
    BY <2>3, <2>1
  <2>4. CASE u \in {a, b} /\ w \notin {a, b}
    <3>1. order[w] # order[a] /\ order[w] # order[b] /\ order[w] \in Nat
      BY <2>4, <1>2, OrdersDiffer
    <3>. QED
      BY <3>1, <2>4, <1>0
  <2>5. CASE u \notin {a, b} /\ w \in {a, b}
    <3>1. order[u] # order[a] /\ order[u] # order[b] /\ order[u] \in Nat
      BY <2>5, <1>2, OrdersDiffer
    <3>. QED
      BY <3>1, <2>5, <1>0
  <2>. QED
    BY <2>2, <2>3, <2>4, <2>5, <1>2
<1>3. ASSUME NEW i \in Segments, NEW j \in Segments
      PROVE  /\ <<i, j>> \in Crossed(order) <=> \/ <<i, j>> \in others
                                                \/ <<i, j>> \in CrossedBelow(a, b)
                                                \/ <<j, i>> \in CrossedAbove(a, b)
             /\ <<i, j>> \in Crossed(o) <=> \/ <<i, j>> \in others
                                            \/ <<i, j>> \in CrossedBelow(b, a)
                                            \/ <<j, i>> \in CrossedAbove(b, a)
  <2>. DEFINE u == Upper(i)
              v == Upper(j)
              x == Lower(i)
              y == Lower(j)
  <2>1. /\ u \in DOMAIN rank /\ v \in DOMAIN rank /\ x \in DOMAIN rank /\ y \in DOMAIN rank
        /\ rank[u] \in Nat /\ rank[v] \in Nat /\ rank[x] = rank[u] + 1 /\ rank[y] = rank[v] + 1
        /\ rank[u] # NoRank /\ rank[x] # NoRank
        /\ order[u] \in Int /\ order[v] \in Int /\ order[x] \in Int /\ order[y] \in Int
    BY <1>1
  <2>2. /\ <<i, j>> \in Crossed(order) <=> rank[u] = rank[v] /\ order[u] < order[v] /\ order[x] > order[y]
        /\ <<i, j>> \in Crossed(o) <=> rank[u] = rank[v] /\ o[u] < o[v] /\ o[x] > o[y]
        /\ <<i, j>> \in others <=> <<i, j>> \in Crossed(order) /\ ~Both(u, v) /\ ~Both(x, y)
        /\ \A s, t : <<i, j>> \in CrossedBelow(s, t) <=> u = s /\ v = t /\ order[x] > order[y]
        /\ \A s, t : <<j, i>> \in CrossedAbove(s, t) <=> y = s /\ x = t /\ order[v] > order[u]
    BY DEF Crossed, CrossedBelow, CrossedAbove
  <2>. HIDE DEF others, Both, u, v, x, y
  <2>3. CASE Both(u, v)
    <3>1. rank[u] = rank[v] /\ ~Both(x, y) /\ rank[x] = rank[y] /\ x \notin {a, b} /\ y \notin {a, b}
      BY <2>1, <2>3 DEF Both
    <3>2. o[x] = order[x] /\ o[y] = order[y]
      BY <3>1, <2>1
    <3>3. CASE u = a /\ v = b
      <4>1. order[u] < order[v] /\ ~(o[u] < o[v])
        BY <3>3, <1>0
      <4>. QED
        BY <2>2, <2>3, <3>1, <3>2, <3>3, <4>1, <1>0
    <3>4. CASE u = b /\ v = a
      <4>1. ~(order[u] < order[v]) /\ o[u] < o[v]
        BY <3>4, <1>0
      <4>. QED
        BY <2>2, <2>3, <3>1, <3>2, <3>4, <4>1, <1>0
    <3>. QED
      BY <2>3, <3>3, <3>4 DEF Both
  <2>4. CASE Both(x, y)
    <3>1. rank[u] = rank[v] /\ ~Both(u, v) /\ rank[x] = rank[y] /\ u \notin {a, b} /\ v \notin {a, b}
      BY <2>1, <2>4 DEF Both
    <3>2. o[u] = order[u] /\ o[v] = order[v]
      BY <3>1, <2>1
    <3>3. CASE x = a /\ y = b
      <4>1. ~(order[x] > order[y]) /\ o[x] > o[y]
        BY <3>3, <1>0
      <4>2. order[v] > order[u] <=> order[u] < order[v]
        BY <2>1
      <4>. QED
        BY <2>2, <2>4, <3>1, <3>2, <3>3, <4>1, <4>2, <1>0
    <3>4. CASE x = b /\ y = a
      <4>1. order[x] > order[y] /\ ~(o[x] > o[y])
        BY <3>4, <1>0
      <4>2. order[v] > order[u] <=> order[u] < order[v]
        BY <2>1
      <4>. QED
        BY <2>2, <2>4, <3>1, <3>2, <3>4, <4>1, <4>2, <1>0
    <3>. QED
      BY <2>4, <3>3, <3>4 DEF Both
  <2>5. CASE ~Both(u, v) /\ ~Both(x, y)
    <3>1. CASE rank[u] = rank[v]
      <4>1. o[u] < o[v] <=> order[u] < order[v]
        BY <2>1, <2>5, <3>1, <1>2
      <4>2. rank[y] = rank[x] /\ ~Both(y, x) /\ rank[y] # NoRank
        BY <2>1, <2>5, <3>1 DEF Both
      <4>3. o[y] < o[x] <=> order[y] < order[x]
        BY <2>1, <4>2, <1>2
      <4>4. /\ order[x] > order[y] <=> order[y] < order[x]
            /\ o[x] > o[y] <=> o[y] < o[x]
        <5>1. o[x] \in Int /\ o[y] \in Int
          BY <2>1, <1>0
        <5>. QED
          BY <5>1, <2>1
      <4>5. /\ ~(u = a /\ v = b) /\ ~(u = b /\ v = a)
            /\ ~(y = a /\ x = b) /\ ~(y = b /\ x = a)
        BY <2>5 DEF Both
      <4>. QED
        BY <2>2, <2>5, <4>1, <4>3, <4>4, <4>5
    <3>2. CASE rank[u] # rank[v]
      <4>1. /\ ~(u = a /\ v = b) /\ ~(u = b /\ v = a)
            /\ ~(y = a /\ x = b) /\ ~(y = b /\ x = a)
        BY <2>5 DEF Both
      <4>. QED
        BY <2>2, <3>2, <4>1
    <3>. QED
      BY <3>1, <3>2
  <2>. QED
    BY <2>3, <2>4, <2>5
<1>4. /\ Crossed(order) = others \union CrossedBelow(a, b) \union Turned(CrossedAbove(a, b))
      /\ Crossed(o) = others \union CrossedBelow(b, a) \union Turned(CrossedAbove(b, a))
  <2>1. /\ Crossed(order) \in SUBSET (Segments \X Segments) /\ Crossed(o) \in SUBSET (Segments \X Segments)
        /\ others \in SUBSET (Segments \X Segments)
    BY DEF Crossed
  <2>2. \A s, t : /\ CrossedBelow(s, t) \in SUBSET (Segments \X Segments)
                  /\ CrossedAbove(s, t) \in SUBSET (Segments \X Segments)
    BY DEF CrossedBelow, CrossedAbove
  <2>. HIDE DEF others
  <2>3. \A s, t : \A i, j \in Segments : <<i, j>> \in Turned(CrossedAbove(s, t)) <=> <<j, i>> \in CrossedAbove(s, t)
    BY <2>2 DEF Turned
  <2>4. \A s, t : Turned(CrossedAbove(s, t)) \in SUBSET (Segments \X Segments)
    BY <2>2 DEF Turned
  <2>. DEFINE before == others \union CrossedBelow(a, b) \union Turned(CrossedAbove(a, b))
              after == others \union CrossedBelow(b, a) \union Turned(CrossedAbove(b, a))
  <2>5. before \in SUBSET (Segments \X Segments) /\ after \in SUBSET (Segments \X Segments)
    BY <2>1, <2>2, <2>4
  <2>6. \A i, j \in Segments : /\ <<i, j>> \in Crossed(order) <=> <<i, j>> \in before
                               /\ <<i, j>> \in Crossed(o) <=> <<i, j>> \in after
    BY <1>3, <2>3
  <2>. HIDE DEF before, after
  <2>7. Crossed(order) = before
    <3>1. \A i, j \in Segments : <<i, j>> \in Crossed(order) <=> <<i, j>> \in before
      BY <2>6
    <3>. QED
      BY <2>1, <2>5, <3>1, SamePairs, Zenon
  <2>8. Crossed(o) = after
    <3>1. \A i, j \in Segments : <<i, j>> \in Crossed(o) <=> <<i, j>> \in after
      BY <2>6
    <3>. QED
      BY <2>1, <2>5, <3>1, SamePairs, Zenon
  <2>. QED
    BY <2>7, <2>8 DEF before, after
<1>5. IsFiniteSet(Segments \X Segments)
  <2>1. DOMAIN edges = 1 .. Len(edges) /\ Len(edges) \in Nat
    BY DEF PlacesInv
  <2>2. IsFiniteSet(DOMAIN edges) /\ Segments \in SUBSET DOMAIN edges
    BY <2>1, FS_Interval DEF Segments
  <2>3. IsFiniteSet(Segments)
    BY <2>2, FS_Subset
  <2>. QED
    BY <2>3, FS_Product
<1>6. ASSUME NEW s \in {a, b}, NEW t \in {a, b}, s # t
      PROVE  LET all == others \union CrossedBelow(s, t) \union Turned(CrossedAbove(s, t)) IN
             /\ Cardinality(all) = Cardinality(others) + LocalCrossings(s, t)
             /\ Cardinality(all) \in Nat /\ Cardinality(others) \in Nat /\ LocalCrossings(s, t) \in Nat
  <2>1. /\ others \in SUBSET (Segments \X Segments) /\ CrossedBelow(s, t) \in SUBSET (Segments \X Segments)
        /\ CrossedAbove(s, t) \in SUBSET (Segments \X Segments)
    BY DEF Crossed, CrossedBelow, CrossedAbove
  <2>2. IsFiniteSet(others) /\ IsFiniteSet(CrossedBelow(s, t)) /\ IsFiniteSet(CrossedAbove(s, t))
    BY <2>1, <1>5, FS_Subset
  <2>3. /\ IsFiniteSet(Turned(CrossedAbove(s, t)))
        /\ Cardinality(Turned(CrossedAbove(s, t))) = Cardinality(CrossedAbove(s, t))
    BY <2>1, <2>2, TurnedIsAsLarge
  <2>4. \A ij \in CrossedBelow(s, t) : Both(Upper(ij[1]), Upper(ij[2]))
    BY <1>6 DEF CrossedBelow
  <2>5. \A ij \in Turned(CrossedAbove(s, t)) : Both(Lower(ij[1]), Lower(ij[2])) /\ ij \in Segments \X Segments
    BY <1>6 DEF CrossedAbove, Turned
  <2>6. \A ij \in Segments \X Segments : ~(Both(Upper(ij[1]), Upper(ij[2])) /\ Both(Lower(ij[1]), Lower(ij[2])))
    BY <1>1
  <2>7. /\ others \cap CrossedBelow(s, t) = {} /\ others \cap Turned(CrossedAbove(s, t)) = {}
        /\ CrossedBelow(s, t) \cap Turned(CrossedAbove(s, t)) = {}
    <3>. HIDE DEF Both
    <3>. QED
      BY <2>4, <2>5, <2>6
  <2>. HIDE DEF others
  <2>8. /\ Cardinality(others \union CrossedBelow(s, t) \union Turned(CrossedAbove(s, t)))
             = Cardinality(others) + Cardinality(CrossedBelow(s, t)) + Cardinality(Turned(CrossedAbove(s, t)))
        /\ Cardinality(others) \in Nat /\ Cardinality(CrossedBelow(s, t)) \in Nat
        /\ Cardinality(Turned(CrossedAbove(s, t))) \in Nat
    BY <2>2, <2>3, <2>7, SizeOfThreeParts
  <2>. QED
    BY <2>3, <2>8, LocalCount
<1>. HIDE DEF others
<1>7. /\ Cardinality(Crossed(order)) = Cardinality(others) + LocalCrossings(a, b)
      /\ Cardinality(Crossed(order)) \in Nat /\ Cardinality(others) \in Nat /\ LocalCrossings(a, b) \in Nat
  BY <1>0, <1>4, <1>6
<1>8. /\ Cardinality(Crossed(o)) = Cardinality(others) + LocalCrossings(b, a)
      /\ Cardinality(Crossed(o)) \in Nat /\ LocalCrossings(b, a) \in Nat
  BY <1>0, <1>4, <1>6
<1>. QED
  BY <1>7, <1>8

\* What the sizes say of one swap: the whole drawing loses crossings.
LEMMA SwapLowersTotal ==
    ASSUME PlacesInv, StageInv, SwapPair
    PROVE  /\ TotalCrossings(layers') < TotalCrossings(layers)
           /\ TotalCrossings(layers) \in Nat /\ TotalCrossings(layers') \in Nat
<1>. DEFINE a == LeftOfPair
            b == RightOfPair
<1>1. /\ a \in DOMAIN rank /\ b \in DOMAIN rank /\ at[2] \in Nat \ {0} /\ at[1] \in Nat \ {0}
      /\ rank[a] = at[1] - 1 /\ rank[b] = at[1] - 1
      /\ order[a] = at[2] - 1 /\ order[b] = at[2]
  BY PairFacts DEF SwapPair
<1>2. LocalCrossings(b, a) < LocalCrossings(a, b) /\ \A i \in DOMAIN edges : Good(i)
  BY DEF SwapPair, SwapSaves, StageInv
<1>3. \A v \in DOMAIN rank : order'[v] = IF v = a THEN order[b] ELSE IF v = b THEN order[a] ELSE order[v]
  BY <1>1, SwapFacts
<1>. HIDE DEF a, b
<1>4. rank[a] # NoRank /\ rank[a] = rank[b] /\ order[b] = order[a] + 1
  BY <1>1 DEF NoRank
<1>5. /\ Cardinality(Crossed(order)) \in Nat /\ Cardinality(Crossed(order')) \in Nat
      /\ LocalCrossings(a, b) \in Nat /\ LocalCrossings(b, a) \in Nat
      /\ Cardinality(Crossed(order')) + LocalCrossings(a, b) = Cardinality(Crossed(order)) + LocalCrossings(b, a)
  BY <1>1, <1>2, <1>3, <1>4, SwapChangesLocally
<1>6. TotalCrossings(layers) = Cardinality(Crossed(order))
  <2>1. Reads(order, layers)
    BY OrdersAreRead DEF PlacesInv
  <2>. QED
    BY <2>1, <1>2, CrossingsByOrder
<1>7. TotalCrossings(layers') = Cardinality(Crossed(order'))
  <2>1. PlacesInv' /\ rank' = rank
    BY SwapPlaces DEF SwapPair, graph
  <2>2. /\ rank \in [DOMAIN rank -> Nat \union {NoRank}] /\ layers' \in Seq(Seq(DOMAIN rank))
        /\ \A k \in DOMAIN layers' : \A p \in DOMAIN layers'[k] :
              rank[layers'[k][p]] = k - 1 /\ order'[layers'[k][p]] = p - 1
        /\ \A v \in DOMAIN rank : rank[v] # NoRank =>
              rank[v] + 1 \in DOMAIN layers' /\ \E p \in DOMAIN layers'[rank[v] + 1] : layers'[rank[v] + 1][p] = v
    BY <2>1 DEF PlacesInv
  <2>3. Reads(order', layers')
    BY <2>2, OrdersAreRead
  <2>. QED
    BY <2>3, <1>2, CrossingsByOrder
<1>. QED
  BY <1>2, <1>5, <1>6, <1>7

\* A step of the transpose that changes a layer is a swap.
LEMMA OnlySwapsRearrange ==
    ASSUME [Next]_vars, pc = "transpose", ~SwapPair
    PROVE  layers' = layers /\ order' = order
  BY DEF Next, Step, Reject, Accept, BeginSweep, ReorderLayer, BeginTranspose, BeginPass,
         KeepPair, NextLayer, EndTranspose, Return, Returned, vars

\* Every swap of the transpose pass lowers the crossings of the whole drawing,
\* though the code only counts around the two nodes.
THEOREM SwapsLowerTheTotal == Spec => SwapsReduceCrossings
<1>1. PlacesInv /\ StageInv /\ [Next]_vars
        => [pc = "transpose" /\ layers' # layers => TotalCrossings(layers') < TotalCrossings(layers)]_vars
  BY SwapLowersTotal, OnlySwapsRearrange
<1>. QED
  BY <1>1, PlacesAndStages, PTL DEF Spec, SwapsReduceCrossings

-----------------------------------------------------------------------------
(* The cap on the passes.                                                   *)

\* The pairs of edges that can cross.
MostPairs == (Len(edges) * (Len(edges) - 1)) \div 2

\* Each pass after the first was paid for with a crossing.
PassesPaid ==
    pc = "transpose" => TotalCrossings(layers) + pass <= MostPairs + (IF improved THEN 0 ELSE 1)

\* No drawing has more crossings than its edges have pairs.
LEMMA TotalIsBounded ==
    ASSUME PlacesInv, \A i \in DOMAIN edges : Good(i)
    PROVE  TotalCrossings(layers) \in Nat /\ MostPairs \in Nat /\ TotalCrossings(layers) <= MostPairs
<1>. DEFINE n == Len(edges)
            D == DOMAIN edges
            C == Crossed(order)
            same == {<<i, i>> : i \in D}
            c == Cardinality(C)
<1>1. n \in Nat /\ D = 1 .. n /\ IsFiniteSet(D) /\ Cardinality(D) = n
  <2>1. n \in Nat /\ D = 1 .. n
    BY DEF PlacesInv
  <2>. QED
    BY <2>1, FS_Interval
<1>2. TotalCrossings(layers) = c
  <2>1. Reads(order, layers)
    BY OrdersAreRead DEF PlacesInv
  <2>. QED
    BY <2>1, CrossingsByOrder
<1>3. \A i \in Segments : order[Upper(i)] \in Int /\ order[Lower(i)] \in Int
  BY SegmentEnds, PlaceOf
<1>4. C \in SUBSET (D \X D)
  BY DEF Crossed, Segments
<1>5. C \cap Turned(C) = {} /\ C \cap same = {} /\ Turned(C) \cap same = {}
  <2>1. ASSUME NEW i, NEW j, <<i, j>> \in C
        PROVE  <<j, i>> \notin C /\ i # j
    BY <2>1, <1>3 DEF Crossed
  <2>. HIDE DEF C
  <2>. QED
    BY <2>1, <1>4 DEF Turned
<1>. HIDE DEF D, C, c
<1>6. IsFiniteSet(D \X D) /\ Cardinality(D \X D) = n * n
  BY <1>1, FS_Product
<1>7. IsFiniteSet(C) /\ c \in Nat
  BY <1>4, <1>6, FS_Subset, FS_CardinalityType DEF c
<1>8. IsFiniteSet(Turned(C)) /\ Cardinality(Turned(C)) = c
  BY <1>4, <1>7, TurnedIsAsLarge DEF c
<1>9. IsFiniteSet(same) /\ Cardinality(same) = n
  <2>. DEFINE twice == [i \in D |-> <<i, i>>]
  <2>1. twice \in [D -> same] /\ (\A i, j \in D : twice[i] = twice[j] => i = j)
        /\ \A z \in same : \E i \in D : twice[i] = z
    OBVIOUS
  <2>. HIDE DEF twice, same
  <2>2. twice \in Injection(D, same) /\ twice \in Surjection(D, same)
    BY <2>1, Fun_IsInj, Fun_IsSurj
  <2>3. ExistsBijection(D, same)
    BY <2>2 DEF ExistsBijection, Bijection
  <2>. QED
    BY <2>3, <1>1, FS_Bijection
<1>. DEFINE all == C \union Turned(C) \union same
<1>10. all \in SUBSET (D \X D)
  BY <1>4 DEF Turned
<1>. HIDE DEF same
<1>11. Cardinality(all) = c + c + n
  BY <1>5, <1>7, <1>8, <1>9, SizeOfThreeParts DEF c
<1>. HIDE DEF all
<1>12. c + c + n <= n * n
  BY <1>6, <1>10, <1>11, FS_Subset
<1>. HIDE DEF n
<1>13. n * n \in Int /\ n * (n - 1) = n * n - n
  BY <1>1
<1>14. c + c <= n * (n - 1) /\ n * (n - 1) \in Nat
  BY <1>1, <1>7, <1>12, <1>13
<1>15. c <= (n * (n - 1)) \div 2 /\ (n * (n - 1)) \div 2 \in Nat
  <2>. DEFINE m == n * (n - 1)
  <2>1. m \in Nat /\ c + c <= m
    BY <1>14
  <2>. HIDE DEF m
  <2>2. c <= m \div 2 /\ m \div 2 \in Nat
    BY <2>1, <1>7
  <2>. QED
    BY <2>2 DEF m
<1>. QED
  BY <1>2, <1>7, <1>15 DEF MostPairs, n

\* A swap pays for the pass that follows it.
LEMMA StepPaid == PlacesInv /\ StageInv /\ PassesPaid /\ [Next]_vars => PassesPaid'
<1>. SUFFICES ASSUME PlacesInv, StageInv, PassesPaid, [Next]_vars, pc' = "transpose"
              PROVE  (TotalCrossings(layers) + pass <= MostPairs + (IF improved THEN 0 ELSE 1))'
  BY DEF PassesPaid
<1>. DEFINE T == TotalCrossings(layers)
            T2 == TotalCrossings(layers')
            Paid(t, p, i) == t + p <= MostPairs + (IF i THEN 0 ELSE 1)
<1>1. edges' = edges /\ rank' = rank
  BY GraphIsKept
<1>2. TotalCrossings(layers)' = T2 /\ MostPairs' = MostPairs
  BY <1>1 DEF TotalCrossings, Adjacent, Upper, Lower, MostPairs
<1>3. pc \in {"barycenter", "transpose"}
  BY DEF StageInv, Next, Step, Reject, Accept, BeginSweep, ReorderLayer, BeginTranspose, BeginPass,
         SwapPair, KeepPair, NextLayer, EndTranspose, Return, Returned, vars
<1>4. T \in Nat /\ MostPairs \in Nat /\ T <= MostPairs
  <2>1. \A i \in DOMAIN edges : Good(i)
    BY <1>3 DEF StageInv
  <2>. QED
    BY <2>1, TotalIsBounded
<1>5. pass \in Nat /\ improved \in BOOLEAN
  BY SweepsAssumption DEF StageInv
<1>6. pc = "transpose" => Paid(T, pass, improved)
  BY DEF PassesPaid
<1>. HIDE DEF T, T2
<1>7. Paid(T2, pass', improved')
  <2>1. CASE BeginTranspose
    <3>1. T2 = T /\ pass' = 0 /\ improved' = TRUE
      BY <2>1 DEF BeginTranspose, T, T2
    <3>. QED
      BY <3>1, <1>4
  <2>2. CASE BeginPass
    <3>1. T2 = T /\ pass' = pass + 1 /\ improved /\ improved' = FALSE /\ pc = "transpose"
      BY <2>2 DEF BeginPass, T, T2
    <3>. QED
      BY <3>1, <1>4, <1>5, <1>6
  <2>3. CASE SwapPair
    <3>1. T2 < T /\ T2 \in Nat
      BY <2>3, SwapLowersTotal DEF T, T2
    <3>2. pass' = pass /\ improved' = TRUE /\ pc = "transpose"
      BY <2>3 DEF SwapPair
    <3>3. T + pass <= MostPairs + 1
      BY <3>2, <1>4, <1>5, <1>6
    <3>. QED
      BY <3>1, <3>2, <3>3, <1>4, <1>5
  <2>4. CASE pc = "transpose" /\ UNCHANGED <<layers, pass, improved>>
    BY <2>4, <1>6 DEF T, T2
  <2>. QED
    BY <2>1, <2>2, <2>3, <2>4, <1>3
       DEF Next, Step, Reject, Accept, BeginSweep, ReorderLayer, KeepPair, NextLayer,
           EndTranspose, Return, Returned, vars
<1>. QED
  BY <1>2, <1>7

\* However large the cap, a transpose stops by itself after at most one pass more
\* than the edges have pairs.
THEOREM PassesAreBounded == Spec => []CapIsNotReached
<1>1. Init => PassesPaid
  BY DEF Init, PassesPaid
<1>2. ASSUME PlacesInv, StageInv, PassesPaid
      PROVE  CapIsNotReached
  <2>. SUFFICES ASSUME pc = "transpose" PROVE pass <= 1 + MostPairs
    BY DEF CapIsNotReached, MostPairs
  <2>1. TotalCrossings(layers) \in Nat /\ MostPairs \in Nat
    BY <1>2, TotalIsBounded DEF StageInv
  <2>2. pass \in Nat /\ TotalCrossings(layers) + pass <= MostPairs + (IF improved THEN 0 ELSE 1)
    BY <1>2, SweepsAssumption DEF StageInv, PassesPaid
  <2>. QED
    BY <2>1, <2>2
<1>. QED
  BY <1>1, <1>2, StepPaid, PlacesAndStages, PTL DEF Spec

=============================================================================
