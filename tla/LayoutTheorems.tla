--------------------------- MODULE LayoutTheorems ----------------------------
(****************************************************************************)
(* Facts about the operators that the modules share: cycles in graphs, the  *)
(* listing of ids in their order, the stable sort, sums, the flattening of  *)
(* sequences, the paths of dummies, extremes of finite sets and loops that  *)
(* carry a value along a list. They rest on three forms of induction that   *)
(* need no predicate as a parameter: a nonempty set of naturals has a least *)
(* member, a bounded one a greatest, and a nonempty family of finite sets   *)
(* has a minimal one.                                                       *)
(****************************************************************************)
EXTENDS PhaseContracts, Sorting, SequencesExt, FiniteSetTheorems, WellFoundedInduction, FunctionTheorems, TLAPS

-----------------------------------------------------------------------------
(* Induction.                                                               *)

\* A nonempty set of naturals has a least member.
LEMMA LeastNatural ==
    ASSUME NEW S \in SUBSET Nat, S # {}
    PROVE  \E n \in S : \A m \in S : n <= m
<1>1. IsWellFoundedOn(OpToRel(<, Nat), Nat)
  BY NatLessThanWellFounded
<1>2. PICK n \in S : \A m \in S : ~(<<m, n>> \in OpToRel(<, Nat))
  BY <1>1, WFMin
<1>3. \A m \in S : ~(m < n)
  BY <1>2 DEF OpToRel
<1>. QED
  BY <1>3

\* A nonempty set of naturals that are at most b has a greatest member.
LEMMA GreatestNatural ==
    ASSUME NEW b \in Nat, NEW S \in SUBSET (0 .. b), S # {}
    PROVE  \E n \in S : \A m \in S : m <= n
<1>. DEFINE Below == {b - n : n \in S}
<1>1. Below \in SUBSET Nat /\ Below # {}
  <2>1. \A n \in S : n \in Int /\ n <= b
    OBVIOUS
  <2>2. \A n \in S : b - n \in Nat
    BY <2>1
  <2>. QED
    BY <2>2
<1>. HIDE DEF Below
<1>2. PICK k \in Below : \A l \in Below : k <= l
  BY <1>1, LeastNatural
<1>3. PICK n \in S : k = b - n
  BY <1>2 DEF Below
<1>4. ASSUME NEW m \in S
      PROVE  m <= n
  <2>1. b - m \in Below
    BY DEF Below
  <2>2. b - n <= b - m
    BY <2>1, <1>2, <1>3
  <2>. QED
    BY <2>2
<1>. QED
  BY <1>4

\* A nonempty family of subsets of a finite set has a minimal member.
LEMMA MinimalSubset ==
    ASSUME NEW S, IsFiniteSet(S), NEW F \in SUBSET SUBSET S, F # {}
    PROVE  \E T \in F : \A U \in F : U \subseteq T => U = T
<1>1. IsWellFoundedOn(StrictSubsetOrdering(S), FiniteSubsetsOf(S))
  BY FS_StrictSubsetOrderingWellFounded
<1>2. FiniteSubsetsOf(S) = SUBSET S
  BY FS_FiniteSubsetsOfFinite
<1>3. PICK T \in F : \A U \in F : <<U, T>> \notin StrictSubsetOrdering(S)
  BY <1>1, <1>2, WFMin
<1>. QED
  BY <1>3 DEF StrictSubsetOrdering

-----------------------------------------------------------------------------
(* Graphs.                                                                  *)

\* A cycle may also be told by its arcs into it: a nonempty set whose members
\* all have an arc from a member holds a nonempty set whose members all have one
\* to a member. (A minimal set of the first kind is one of the second.)
LEMMA SourcelessSetHasCycle ==
    ASSUME NEW V, IsFiniteSet(V), NEW R, NEW S \in SUBSET V, S # {},
           \A w \in S : \E v \in S : <<v, w>> \in R
    PROVE  ~Acyclic(V, R)
<1>. DEFINE Sourceless == {T \in SUBSET V : T # {} /\ \A w \in T : \E v \in T : <<v, w>> \in R}
<1>1. Sourceless \in SUBSET SUBSET V /\ S \in Sourceless
  OBVIOUS
<1>. HIDE DEF Sourceless
<1>2. PICK T \in Sourceless : \A U \in Sourceless : U \subseteq T => U = T
  BY <1>1, MinimalSubset
<1>. USE DEF Sourceless
<1>. SUFFICES ASSUME Acyclic(V, R) PROVE FALSE
  OBVIOUS
<1>3. PICK v \in T : \A w \in T : <<v, w>> \notin R
  BY <1>2 DEF Acyclic
<1>4. \A w \in T \ {v} : \E u \in T \ {v} : <<u, w>> \in R
  BY <1>2, <1>3
<1>5. T \ {v} # {}
  <2>1. PICK u \in T : <<u, v>> \in R
    BY <1>3
  <2>. QED
    BY <2>1, <1>3
<1>6. T \ {v} \in Sourceless
  BY <1>2, <1>4, <1>5
<1>. QED
  BY <1>2, <1>3, <1>6

-----------------------------------------------------------------------------
(* Orders.                                                                  *)

\* B is a strict total order of D, as a set of pairs.
Orders(B, D) ==
    /\ \A j \in D : <<j, j>> \notin B
    /\ \A j, k \in D : j # k => <<j, k>> \in B \/ <<k, j>> \in B
    /\ \A i, j, k \in D : <<i, j>> \in B /\ <<j, k>> \in B => <<i, k>> \in B

\* The members of D that come before k.
Before(B, D, k) == {j \in D : <<j, k>> \in B}

\* How many come before a member grows along the order.
LEMMA CountGrows ==
    ASSUME NEW D, IsFiniteSet(D), NEW B, Orders(B, D), NEW j \in D, NEW k \in D, <<j, k>> \in B
    PROVE  Cardinality(Before(B, D, j)) < Cardinality(Before(B, D, k))
<1>1. Before(B, D, k) \in SUBSET D /\ Before(B, D, j) \in SUBSET Before(B, D, k)
  BY DEF Before, Orders
<1>2. j \in Before(B, D, k) /\ j \notin Before(B, D, j)
  BY DEF Before, Orders
<1>3. IsFiniteSet(Before(B, D, k)) /\ IsFiniteSet(Before(B, D, j))
  BY <1>1, FS_Subset
<1>4. /\ Cardinality(Before(B, D, j)) <= Cardinality(Before(B, D, k))
      /\ Cardinality(Before(B, D, k)) = Cardinality(Before(B, D, j))
           => Before(B, D, k) = Before(B, D, j)
  BY <1>1, <1>3, FS_Subset
<1>5. Cardinality(Before(B, D, k)) \in Nat /\ Cardinality(Before(B, D, j)) \in Nat
  BY <1>3, FS_CardinalityType
<1>. QED
  BY <1>2, <1>4, <1>5

\* A one-to-one function between finite sets of one size misses no member.
LEMMA OneToOneIsOnto ==
    ASSUME NEW S, NEW T, IsFiniteSet(T), Cardinality(S) = Cardinality(T),
           NEW f \in [S -> T], \A a, b \in S : f[a] = f[b] => a = b
    PROVE  \A t \in T : \E a \in S : f[a] = t
<1>1. f \in Injection(S, T)
  BY Fun_IsInj
<1>2. f \in Surjection(S, T)
  BY <1>1, FS_Injection
<1>. QED
  BY <1>2 DEF Surjection

\* The members of a finite ordered set have the places 1, 2, ... : one each, and
\* none is empty.
LEMMA PlacesAreTaken ==
    ASSUME NEW D, IsFiniteSet(D), NEW B, Orders(B, D)
    PROVE  LET place == [k \in D |-> 1 + Cardinality(Before(B, D, k))] IN
           /\ Cardinality(D) \in Nat
           /\ place \in [D -> 1 .. Cardinality(D)]
           /\ \A j, k \in D : place[j] < place[k] <=> <<j, k>> \in B
           /\ \A j, k \in D : place[j] = place[k] => j = k
           /\ \A p \in 1 .. Cardinality(D) : \E k \in D : place[k] = p
<1>. DEFINE place == [k \in D |-> 1 + Cardinality(Before(B, D, k))]
            n == Cardinality(D)
<1>0. n \in Nat
  BY FS_CardinalityType
<1>1. ASSUME NEW k \in D
      PROVE  Cardinality(Before(B, D, k)) \in 0 .. n - 1
  <2>1. Before(B, D, k) \in SUBSET D /\ k \notin Before(B, D, k)
    BY DEF Before, Orders
  <2>2. IsFiniteSet(Before(B, D, k)) /\ Cardinality(Before(B, D, k)) <= n
    BY <2>1, FS_Subset
  <2>3. Cardinality(Before(B, D, k)) # n
    BY <2>1, FS_Subset
  <2>4. Cardinality(Before(B, D, k)) \in Nat
    BY <2>2, FS_CardinalityType
  <2>. QED
    BY <2>2, <2>3, <2>4, <1>0
<1>2. place \in [D -> 1 .. n]
  BY <1>0, <1>1
<1>3. \A j, k \in D : <<j, k>> \in B => place[j] < place[k]
  BY <1>0, <1>1, CountGrows
<1>. HIDE DEF place, n
<1>4. ASSUME NEW j \in D, NEW k \in D
      PROVE  /\ place[j] < place[k] <=> <<j, k>> \in B
             /\ place[j] = place[k] => j = k
  <2>1. place[j] \in Int /\ place[k] \in Int
    BY <1>0, <1>2
  <2>2. j # k => <<j, k>> \in B \/ <<k, j>> \in B
    BY DEF Orders
  <2>3. (<<j, k>> \in B => place[j] < place[k]) /\ (<<k, j>> \in B => place[k] < place[j])
    BY <1>3
  <2>. QED
    BY <2>1, <2>2, <2>3
<1>5. \A p \in 1 .. n : \E k \in D : place[k] = p
  <2>. DEFINE T == 1 .. n
  <2>1. IsFiniteSet(T) /\ Cardinality(T) = Cardinality(D)
    BY <1>0, FS_Interval DEF n
  <2>2. place \in [D -> T] /\ \A j, k \in D : place[j] = place[k] => j = k
    BY <1>2, <1>4
  <2>. HIDE DEF T
  <2>3. \A p \in T : \E k \in D : place[k] = p
    BY <2>1, <2>2, OneToOneIsOnto
  <2>. QED
    BY <2>3 DEF T
<1>. QED
  BY <1>0, <1>2, <1>4, <1>5 DEF place, n

-----------------------------------------------------------------------------
(* The two sorts.                                                           *)

\* InIdOrder lists each id of a set once, the smaller ones first.
LEMMA InIdOrderLists ==
    ASSUME NEW n \in Nat, NEW S \in SUBSET NodeIds(n)
    PROVE  LET q == InIdOrder(S) IN
           /\ Cardinality(S) \in Nat
           /\ q \in [1 .. Cardinality(S) -> S] /\ q \in Seq(S) /\ Len(q) = Cardinality(S)
           /\ \A j, k \in 1 .. Cardinality(S) : j < k => q[j] < q[k]
           /\ \A v \in S : /\ Cardinality({w \in S : w < v}) + 1 \in 1 .. Cardinality(S)
                           /\ q[Cardinality({w \in S : w < v}) + 1] = v
<1>. DEFINE B == {vw \in S \X S : vw[1] < vw[2]}
            c == Cardinality(S)
            Place(v) == 1 + Cardinality(Before(B, S, v))
            place == [v \in S |-> 1 + Cardinality(Before(B, S, v))]
            q == InIdOrder(S)
<1>0. S \in SUBSET Int
  BY DEF NodeIds
<1>1. IsFiniteSet(S)
  <2>1. IsFiniteSet(0 .. n - 1)
    BY FS_Interval
  <2>. QED
    BY <2>1, FS_Subset DEF NodeIds
<1>2. Orders(B, S)
  BY <1>0 DEF Orders
<1>. HIDE DEF B
<1>3. /\ c \in Nat
      /\ place \in [S -> 1 .. c]
      /\ \A v, w \in S : place[v] < place[w] <=> <<v, w>> \in B
      /\ \A v, w \in S : place[v] = place[w] => v = w
      /\ \A p \in 1 .. c : \E v \in S : place[v] = p
  BY <1>1, <1>2, PlacesAreTaken
<1>. HIDE DEF place
<1>. USE DEF B
<1>4. \E f \in [1 .. c -> S] : \A j, k \in DOMAIN f : j < k => f[j] < f[k]
  <2>. DEFINE f == [p \in 1 .. c |-> CHOOSE v \in S : place[v] = p]
  <2>1. \A p \in 1 .. c : f[p] \in S /\ place[f[p]] = p
    BY <1>3
  <2>2. f \in [1 .. c -> S]
    BY <2>1
  <2>. HIDE DEF f
  <2>3. ASSUME NEW j \in 1 .. c, NEW k \in 1 .. c, j < k
        PROVE  f[j] < f[k]
    <3>1. <<f[j], f[k]>> \in B
      BY <1>3, <2>1, <2>3
    <3>. QED
      BY <3>1
  <2>. QED
    BY <2>2, <2>3
<1>5. q \in [1 .. c -> S] /\ \A j, k \in DOMAIN q : j < k => q[j] < q[k]
  BY <1>4 DEF InIdOrder
<1>. HIDE DEF q
<1>6. q \in Seq(S) /\ Len(q) = c
  BY <1>3, <1>5
<1>7. ASSUME NEW v \in S
      PROVE  Before(B, S, v) = {w \in S : w < v}
  BY DEF Before
<1>8. \A v \in S : \E k \in 1 .. c : q[k] = v
  <2>1. \A j, k \in 1 .. c : q[j] = q[k] => j = k
    <3>. SUFFICES ASSUME NEW j \in 1 .. c, NEW k \in 1 .. c, q[j] = q[k], j # k
                  PROVE  FALSE
      OBVIOUS
    <3>1. q[j] \in Int /\ q[k] \in Int
      BY <1>0, <1>5
    <3>2. (j < k => q[j] < q[k]) /\ (k < j => q[k] < q[j])
      BY <1>5
    <3>. QED
      BY <3>1, <3>2, <1>3
  <2>. DEFINE T == 1 .. c
  <2>2. Cardinality(T) = Cardinality(S)
    BY <1>3, FS_Interval
  <2>3. q \in [T -> S] /\ \A j, k \in T : q[j] = q[k] => j = k
    BY <2>1, <1>5
  <2>. HIDE DEF T
  <2>4. \A v \in S : \E k \in T : q[k] = v
    BY <2>2, <2>3, <1>1, OneToOneIsOnto
  <2>. QED
    BY <2>4 DEF T
<1>9. ASSUME NEW k \in 1 .. c
      PROVE  place[q[k]] = k
  <2>. DEFINE late == {j \in 1 .. c : place[q[j]] # j}
  <2>. SUFFICES ASSUME late # {} PROVE FALSE
    OBVIOUS
  <2>0. late \in SUBSET Nat
    BY <1>3
  <2>. HIDE DEF late
  <2>1. PICK j \in late : \A i \in late : j <= i
    BY <2>0, LeastNatural
  <2>. USE DEF late
  <2>2. q[j] \in S /\ place[q[j]] \in 1 .. c /\ place[q[j]] # j
    BY <2>1, <1>3, <1>5
  <2>3. ~(place[q[j]] < j)
    <3>. SUFFICES ASSUME place[q[j]] < j PROVE FALSE
      OBVIOUS
    <3>. DEFINE i == place[q[j]]
    <3>1. i \in 1 .. c /\ i \notin late
      BY <2>1, <2>2
    <3>2. place[q[i]] = i
      BY <3>1
    <3>3. q[i] = q[j]
      BY <3>1, <3>2, <2>2, <1>3, <1>5
    <3>4. q[i] < q[j]
      BY <1>5, <3>1, <2>1
    <3>5. q[i] = q[j] /\ q[j] \in Int
      BY <3>3, <2>2, <1>0
    <3>. QED
      BY <3>4, <3>5
  <2>4. PICK v \in S : place[v] = j
    BY <1>3, <2>1
  <2>5. PICK l \in 1 .. c : q[l] = v
    BY <1>8
  <2>6. place[v] < place[q[j]]
    BY <2>2, <2>3, <2>4, <2>1, <1>3
  <2>7. v < q[j]
    BY <2>6, <2>2, <1>3
  <2>8. l < j
    <3>1. ~(j < l)
      <4>1. j < l => q[j] < q[l]
        BY <1>5, <2>1, <2>5
      <4>2. q[j] \in Int /\ v \in Int
        BY <2>2, <1>0
      <4>. QED
        BY <4>1, <4>2, <2>5, <2>7
    <3>2. l # j
      BY <2>5, <2>7, <1>0, <2>2
    <3>. QED
      BY <3>1, <3>2, <2>5, <2>1, <1>3
  <2>9. l \notin late
    BY <2>8, <2>1, <2>5, <1>3
  <2>. QED
    BY <2>9, <2>8, <2>5, <2>4, <2>1, <1>3
<1>10. ASSUME NEW v \in S
       PROVE  /\ Cardinality({w \in S : w < v}) + 1 \in 1 .. c
              /\ q[Cardinality({w \in S : w < v}) + 1] = v
  <2>1. PICK k \in 1 .. c : q[k] = v
    BY <1>8
  <2>2. place[v] = 1 + Cardinality({w \in S : w < v})
    BY <1>7 DEF place
  <2>3. place[v] = k
    BY <2>1, <1>9
  <2>4. Cardinality({w \in S : w < v}) \in Nat
    <3>1. {w \in S : w < v} \in SUBSET S
      OBVIOUS
    <3>. QED
      BY <3>1, <1>1, FS_Subset, FS_CardinalityType
  <2>. QED
    BY <2>1, <2>2, <2>3, <2>4
<1>. QED
  BY <1>3, <1>5, <1>6, <1>10 DEF q

-----------------------------------------------------------------------------
(* Sums. SumFunctionOnSet folds over a set by a recursive function; this    *)
(* one exists, and what it computes does not depend on the order in which   *)
(* the members are chosen.                                                  *)

\* The member that the fold takes next.
Taken(T) == CHOOSE x \in T : TRUE

\* it gives the sum of f over every subset of S.
Adds(f, S, it) ==
    it = [T \in SUBSET S |-> IF T = {} THEN 0 ELSE f[Taken(T)] + it[T \ {Taken(T)}]]

\* What it gives for a subset.
LEMMA AddsAt ==
    ASSUME NEW f, NEW S, NEW it, Adds(f, S, it), NEW T \in SUBSET S
    PROVE  /\ it[T] = IF T = {} THEN 0 ELSE f[Taken(T)] + it[T \ {Taken(T)}]
           /\ T # {} => Taken(T) \in T
  BY DEF Adds, Taken

\* Two such functions agree where both are defined.
LEMMA AddsAgree ==
    ASSUME NEW f, NEW S, NEW R, NEW a, NEW b, Adds(f, S, a), Adds(f, R, b),
           NEW T \in SUBSET S, T \in SUBSET R, IsFiniteSet(T)
    PROVE  a[T] = b[T]
<1>. DEFINE Differ == {U \in SUBSET T : a[U] # b[U]}
<1>. SUFFICES ASSUME Differ # {} PROVE FALSE
  OBVIOUS
<1>1. Differ \in SUBSET SUBSET T
  OBVIOUS
<1>. HIDE DEF Differ
<1>2. PICK U \in Differ : \A W \in Differ : W \subseteq U => W = U
  BY <1>1, MinimalSubset
<1>3. U \in SUBSET T /\ U \in SUBSET S /\ U \in SUBSET R /\ a[U] # b[U]
  BY <1>2 DEF Differ
<1>. DEFINE x == Taken(U)
<1>4. /\ a[U] = IF U = {} THEN 0 ELSE f[x] + a[U \ {x}]
      /\ b[U] = IF U = {} THEN 0 ELSE f[x] + b[U \ {x}]
  BY <1>3, AddsAt
<1>5. U # {}
  BY <1>3, <1>4
<1>6. x \in U
  BY <1>3, <1>5, AddsAt
<1>. HIDE DEF x
<1>7. U \ {x} \notin Differ
  BY <1>2, <1>6
<1>8. a[U \ {x}] = b[U \ {x}]
  BY <1>3, <1>7 DEF Differ
<1>. QED
  BY <1>3, <1>4, <1>5, <1>8

\* There is such a function for every finite set.
LEMMA AddsExists ==
    ASSUME NEW f, NEW S, IsFiniteSet(S)
    PROVE  \E it : Adds(f, S, it)
<1>. DEFINE Lacking == {T \in SUBSET S : \A it : ~Adds(f, T, it)}
<1>. SUFFICES ASSUME Lacking # {} PROVE FALSE
  OBVIOUS
<1>1. Lacking \in SUBSET SUBSET S
  OBVIOUS
<1>. HIDE DEF Lacking
<1>2. PICK T \in Lacking : \A W \in Lacking : W \subseteq T => W = T
  BY <1>1, MinimalSubset
<1>3. T \in SUBSET S /\ \A it : ~Adds(f, T, it)
  BY <1>2 DEF Lacking
<1>. DEFINE part(W) == CHOOSE it : Adds(f, W, it)
            whole == [U \in SUBSET T |-> IF U = {} THEN 0
                         ELSE f[Taken(U)] + part(U \ {Taken(U)})[U \ {Taken(U)}]]
<1>4. ASSUME NEW W \in SUBSET T, W # T
      PROVE  Adds(f, W, part(W))
  <2>1. W \in SUBSET S /\ W \notin Lacking
    BY <1>2, <1>3, <1>4
  <2>2. \E it : Adds(f, W, it)
    BY <2>1 DEF Lacking
  <2>. QED
    BY <2>2
<1>. HIDE DEF part
<1>5. ASSUME NEW W \in SUBSET T, W # T
      PROVE  whole[W] = part(W)[W]
  <2>1. part(W)[W] = IF W = {} THEN 0 ELSE f[Taken(W)] + part(W)[W \ {Taken(W)}]
    BY <1>4, <1>5, AddsAt
  <2>2. whole[W] = IF W = {} THEN 0 ELSE f[Taken(W)] + part(W \ {Taken(W)})[W \ {Taken(W)}]
    OBVIOUS
  <2>3. CASE W # {}
    <3>1. Taken(W) \in W
      BY <2>3 DEF Taken
    <3>2. W \ {Taken(W)} \in SUBSET T /\ W \ {Taken(W)} # T /\ W \ {Taken(W)} \in SUBSET W
      BY <1>5, <3>1
    <3>3. Adds(f, W, part(W)) /\ Adds(f, W \ {Taken(W)}, part(W \ {Taken(W)}))
      BY <3>2, <1>4, <1>5
    <3>4. IsFiniteSet(W \ {Taken(W)})
      BY <3>2, <1>3, FS_Subset
    <3>5. part(W)[W \ {Taken(W)}] = part(W \ {Taken(W)})[W \ {Taken(W)}]
      BY <3>2, <3>3, <3>4, AddsAgree
    <3>. QED
      BY <2>1, <2>2, <2>3, <3>5
  <2>. QED
    BY <2>1, <2>2, <2>3
<1>6. ASSUME NEW U \in SUBSET T, U # {}
      PROVE  part(U \ {Taken(U)})[U \ {Taken(U)}] = whole[U \ {Taken(U)}]
  <2>1. Taken(U) \in U
    BY <1>6 DEF Taken
  <2>. HIDE DEF whole
  <2>2. U \ {Taken(U)} \in SUBSET T /\ U \ {Taken(U)} # T
    BY <2>1
  <2>. QED
    BY <2>2, <1>5
<1>7. whole = [U \in SUBSET T |-> IF U = {} THEN 0 ELSE f[Taken(U)] + whole[U \ {Taken(U)}]]
  BY <1>6
<1>8. Adds(f, T, whole)
  BY <1>7 DEF Adds
<1>. QED
  BY <1>3, <1>8

\* The sum over a set is that over its subsets, member by member.
LEMMA SumUnfolds ==
    ASSUME NEW f, NEW S, IsFiniteSet(S), S # {}
    PROVE  /\ Taken(S) \in S
           /\ SumFunctionOnSet(f, S) = f[Taken(S)] + SumFunctionOnSet(f, S \ {Taken(S)})
<1>. DEFINE sum(T) == CHOOSE it : Adds(f, T, it)
            x == Taken(S)
<1>1. \A T : SumFunctionOnSet(f, T) = sum(T)[T]
  BY DEF SumFunctionOnSet, FoldFunctionOnSet, MapThenFoldSet, Adds, Taken
<1>2. IsFiniteSet(S \ {x})
  BY FS_Subset
<1>3. Adds(f, S, sum(S)) /\ Adds(f, S \ {x}, sum(S \ {x}))
  BY <1>2, AddsExists
<1>4. sum(S)[S] = f[x] + sum(S)[S \ {x}] /\ x \in S
  BY <1>3, AddsAt
<1>. HIDE DEF sum, x
<1>5. sum(S)[S \ {x}] = sum(S \ {x})[S \ {x}]
  BY <1>2, <1>3, AddsAgree
<1>. QED
  BY <1>1, <1>4, <1>5 DEF x

\* The sum over no members.
LEMMA SumOfNone ==
    ASSUME NEW f
    PROVE  SumFunctionOnSet(f, {}) = 0
<1>. DEFINE sum == CHOOSE it : Adds(f, {}, it)
<1>1. SumFunctionOnSet(f, {}) = sum[{}]
  BY DEF SumFunctionOnSet, FoldFunctionOnSet, MapThenFoldSet, Adds, Taken
<1>2. Adds(f, {}, sum)
  BY FS_EmptySet, AddsExists
<1>. HIDE DEF sum
<1>3. sum[{}] = 0
  BY <1>2, AddsAt
<1>. QED
  BY <1>1, <1>3

\* A sum of integers is an integer, and one of naturals a natural.
LEMMA SumIsNumber ==
    ASSUME NEW f, NEW S, IsFiniteSet(S), NEW M \in {Int, Nat}, \A x \in S : f[x] \in M
    PROVE  SumFunctionOnSet(f, S) \in M
<1>. DEFINE Bad == {T \in SUBSET S : SumFunctionOnSet(f, T) \notin M}
<1>. SUFFICES ASSUME Bad # {} PROVE FALSE
  OBVIOUS
<1>1. Bad \in SUBSET SUBSET S
  OBVIOUS
<1>. HIDE DEF Bad
<1>2. PICK T \in Bad : \A W \in Bad : W \subseteq T => W = T
  BY <1>1, MinimalSubset
<1>3. T \in SUBSET S /\ SumFunctionOnSet(f, T) \notin M
  BY <1>2 DEF Bad
<1>4. T # {}
  BY <1>3, SumOfNone
<1>. DEFINE x == Taken(T)
<1>5. x \in T
  BY <1>3, <1>4, FS_Subset, SumUnfolds
<1>6. SumFunctionOnSet(f, T) = f[x] + SumFunctionOnSet(f, T \ {x})
  BY <1>3, <1>4, FS_Subset, SumUnfolds
<1>. HIDE DEF x
<1>7. SumFunctionOnSet(f, T \ {x}) \in M
  BY <1>2, <1>3, <1>5 DEF Bad
<1>8. f[x] \in M
  BY <1>3, <1>5
<1>. QED
  BY <1>3, <1>6, <1>7, <1>8

\* Any member may be added last.
LEMMA SumOfRest ==
    ASSUME NEW f, NEW S, IsFiniteSet(S), \A x \in S : f[x] \in Int, NEW y \in S
    PROVE  SumFunctionOnSet(f, S) = f[y] + SumFunctionOnSet(f, S \ {y})
<1>. DEFINE sum(T) == SumFunctionOnSet(f, T)
            Bad == {T \in SUBSET S : \E z \in T : sum(T) # f[z] + sum(T \ {z})}
<1>. SUFFICES ASSUME Bad # {} PROVE FALSE
  OBVIOUS
<1>1. Bad \in SUBSET SUBSET S
  OBVIOUS
<1>. HIDE DEF Bad
<1>2. PICK T \in Bad : \A W \in Bad : W \subseteq T => W = T
  BY <1>1, MinimalSubset
<1>3. T \in SUBSET S /\ \E z \in T : sum(T) # f[z] + sum(T \ {z})
  BY <1>2 DEF Bad
<1>4. PICK z \in T : sum(T) # f[z] + sum(T \ {z})
  BY <1>3
<1>. DEFINE x == Taken(T)
<1>5. x \in T
  BY <1>3, <1>4, FS_Subset, SumUnfolds
<1>6. sum(T) = f[x] + sum(T \ {x})
  BY <1>3, <1>4, FS_Subset, SumUnfolds
<1>. HIDE DEF x
<1>7. x # z
  BY <1>4, <1>6
<1>8. ASSUME NEW v \in T, NEW w \in T, v # w
      PROVE  sum(T \ {v}) = f[w] + sum(T \ {v, w})
  <2>1. T \ {v} \notin Bad /\ T \ {v} \in SUBSET S /\ w \in T \ {v}
    BY <1>2, <1>3, <1>8
  <2>2. (T \ {v}) \ {w} = T \ {v, w}
    OBVIOUS
  <2>. HIDE DEF sum
  <2>3. sum(T \ {v}) = f[w] + sum((T \ {v}) \ {w})
    BY <2>1 DEF Bad
  <2>. QED
    BY <2>2, <2>3
<1>9. f[x] \in Int /\ f[z] \in Int /\ sum(T \ {x, z}) \in Int
  <2>1. IsFiniteSet(T \ {x, z}) /\ \A v \in T \ {x, z} : f[v] \in Int
    BY <1>3, FS_Subset
  <2>. QED
    BY <2>1, <1>3, <1>5, SumIsNumber
<1>10. T \ {x, z} = T \ {z, x}
  OBVIOUS
<1>. HIDE DEF sum
<1>11. sum(T \ {x}) = f[z] + sum(T \ {x, z}) /\ sum(T \ {z}) = f[x] + sum(T \ {x, z})
  BY <1>5, <1>7, <1>8, <1>10
<1>. QED
  BY <1>4, <1>6, <1>9, <1>11

\* The sum depends on the values at the members only.
LEMMA SumOfSame ==
    ASSUME NEW f, NEW g, NEW S, IsFiniteSet(S), \A x \in S : f[x] = g[x]
    PROVE  SumFunctionOnSet(f, S) = SumFunctionOnSet(g, S)
<1>. DEFINE Bad == {T \in SUBSET S : SumFunctionOnSet(f, T) # SumFunctionOnSet(g, T)}
<1>. SUFFICES ASSUME Bad # {} PROVE FALSE
  OBVIOUS
<1>1. Bad \in SUBSET SUBSET S
  OBVIOUS
<1>. HIDE DEF Bad
<1>2. PICK T \in Bad : \A W \in Bad : W \subseteq T => W = T
  BY <1>1, MinimalSubset
<1>3. T \in SUBSET S /\ SumFunctionOnSet(f, T) # SumFunctionOnSet(g, T)
  BY <1>2 DEF Bad
<1>4. T # {}
  BY <1>3, SumOfNone
<1>. DEFINE x == Taken(T)
<1>5. x \in T
  BY <1>3, <1>4, FS_Subset, SumUnfolds
<1>6. /\ SumFunctionOnSet(f, T) = f[x] + SumFunctionOnSet(f, T \ {x})
      /\ SumFunctionOnSet(g, T) = g[x] + SumFunctionOnSet(g, T \ {x})
  BY <1>3, <1>4, FS_Subset, SumUnfolds
<1>. HIDE DEF x
<1>7. SumFunctionOnSet(f, T \ {x}) = SumFunctionOnSet(g, T \ {x})
  BY <1>2, <1>3, <1>5 DEF Bad
<1>. QED
  BY <1>3, <1>5, <1>6, <1>7

\* A sum of terms that are at most b is at most b for each of them.
LEMMA SumIsAtMost ==
    ASSUME NEW f, NEW S, IsFiniteSet(S), NEW b \in Nat, \A x \in S : f[x] \in Nat /\ f[x] <= b
    PROVE  SumFunctionOnSet(f, S) <= b * Cardinality(S)
<1>. DEFINE Bad == {T \in SUBSET S : ~(SumFunctionOnSet(f, T) <= b * Cardinality(T))}
<1>. SUFFICES ASSUME Bad # {} PROVE FALSE
  OBVIOUS
<1>1. Bad \in SUBSET SUBSET S
  OBVIOUS
<1>. HIDE DEF Bad
<1>2. PICK T \in Bad : \A W \in Bad : W \subseteq T => W = T
  BY <1>1, MinimalSubset
<1>3. T \in SUBSET S /\ ~(SumFunctionOnSet(f, T) <= b * Cardinality(T))
  BY <1>2 DEF Bad
<1>4. IsFiniteSet(T)
  BY <1>3, FS_Subset
<1>5. T # {}
  <2>1. SumFunctionOnSet(f, {}) = 0 /\ Cardinality({}) = 0 /\ b * 0 = 0
    BY SumOfNone, FS_EmptySet
  <2>. QED
    BY <1>3, <2>1
<1>6. PICK x \in T : SumFunctionOnSet(f, T) = f[x] + SumFunctionOnSet(f, T \ {x})
  BY <1>4, <1>5, SumUnfolds
<1>7. /\ Cardinality(T \ {x}) = Cardinality(T) - 1 /\ IsFiniteSet(T \ {x})
      /\ Cardinality(T) \in Nat /\ Cardinality(T \ {x}) \in Nat
  BY <1>4, FS_RemoveElement, FS_CardinalityType
<1>8. T \ {x} \notin Bad
  BY <1>2
<1>9. SumFunctionOnSet(f, T \ {x}) <= b * Cardinality(T \ {x})
  BY <1>3, <1>8 DEF Bad
<1>10. SumFunctionOnSet(f, T \ {x}) \in Nat /\ f[x] \in Nat /\ f[x] <= b
  <2>1. \A y \in T \ {x} : f[y] \in Nat
    BY <1>3
  <2>. QED
    BY <2>1, <1>3, <1>7, SumIsNumber
<1>. DEFINE c == Cardinality(T)
            r == b * (c - 1)
<1>11. b * c = r + b /\ r \in Int /\ c \in Nat
  BY <1>7
<1>12. SumFunctionOnSet(f, T \ {x}) <= r
  BY <1>7, <1>9
<1>. HIDE DEF c, r
<1>13. SumFunctionOnSet(f, T) <= b * c
  BY <1>6, <1>10, <1>11, <1>12
<1>. QED
  BY <1>3, <1>13 DEF c

\* A sum of naturals is at least each of them.
LEMMA SumIsAtLeast ==
    ASSUME NEW f, NEW S, IsFiniteSet(S), \A x \in S : f[x] \in Nat, NEW y \in S
    PROVE  f[y] <= SumFunctionOnSet(f, S)
<1>1. \A x \in S : f[x] \in Int
  OBVIOUS
<1>2. SumFunctionOnSet(f, S) = f[y] + SumFunctionOnSet(f, S \ {y})
  BY <1>1, SumOfRest
<1>3. SumFunctionOnSet(f, S \ {y}) \in Nat
  <2>1. IsFiniteSet(S \ {y}) /\ \A x \in S \ {y} : f[x] \in Nat
    BY FS_Subset
  <2>. QED
    BY <2>1, SumIsNumber
<1>. QED
  BY <1>2, <1>3

-----------------------------------------------------------------------------
(* Sorting.                                                                 *)

\* r is s rearranged: its p-th element is the from[p]-th of s.
Rearranges(from, r, s, n) ==
    /\ from \in [1 .. n -> 1 .. n]
    /\ \A p \in 1 .. n : r[p] = s[from[p]]
    /\ \A k \in 1 .. n : \E p \in 1 .. n : from[p] = k
    /\ \A p, q \in 1 .. n : from[p] = from[q] => p = q

\* The elements of r follow the order B of the positions they had in s.
Follows(from, B, n) == \A p, q \in 1 .. n : p < q <=> <<from[p], from[q]>> \in B

\* A sequence that holds at each place the element with so many before it, in the
\* order B, is the sequence rearranged to follow B.
LEMMA PlacedIsRearranged ==
    ASSUME NEW n \in Nat, NEW B, Orders(B, 1 .. n), NEW s, NEW r,
           NEW from, from = [p \in 1 .. n |-> from[p]],
           \A p \in 1 .. n : r[p] = s[from[p]],
           \A p \in 1 .. n : (\E k \in 1 .. n : 1 + Cardinality(Before(B, 1 .. n, k)) = p)
                => /\ from[p] \in 1 .. n
                   /\ 1 + Cardinality(Before(B, 1 .. n, from[p])) = p
    PROVE  Rearranges(from, r, s, n) /\ Follows(from, B, n)
<1>. DEFINE D == 1 .. n
            place == [k \in D |-> 1 + Cardinality(Before(B, D, k))]
<1>1. IsFiniteSet(D) /\ Cardinality(D) = n
  BY FS_Interval
<1>2. /\ place \in [D -> 1 .. Cardinality(D)]
      /\ \A j, k \in D : place[j] < place[k] <=> <<j, k>> \in B
      /\ \A j, k \in D : place[j] = place[k] => j = k
      /\ \A p \in 1 .. Cardinality(D) : \E k \in D : place[k] = p
  <2>. HIDE DEF D
  <2>1. Orders(B, D)
    BY DEF D
  <2>. QED
    BY <2>1, <1>1, PlacesAreTaken
<1>3. ASSUME NEW p \in D
      PROVE  from[p] \in D /\ place[from[p]] = p
  BY <1>1, <1>2
<1>. HIDE DEF place
<1>4. \A k \in D : from[place[k]] = k /\ place[k] \in D
  BY <1>1, <1>2, <1>3
<1>5. \A p, q \in D : p < q <=> <<from[p], from[q]>> \in B
  BY <1>2, <1>3
<1>6. \A p, q \in D : from[p] = from[q] => p = q
  BY <1>3
<1>7. from \in [D -> D]
  BY <1>3
<1>. QED
  BY <1>4, <1>5, <1>6, <1>7 DEF Rearranges, Follows

-----------------------------------------------------------------------------
(* Sequences of sequences, laid end to end.                                 *)

\* it lays the first n sequences of ss end to end, as FlattenSeq does.
Flattens(ss, n, it) == it = [i \in 1 .. n |-> IF i = 1 THEN ss[i] ELSE it[i - 1] \o ss[i]]

LEMMA FlattensAt ==
    ASSUME NEW ss, NEW n \in Nat, NEW it, Flattens(ss, n, it), NEW i \in 1 .. n
    PROVE  it[i] = IF i = 1 THEN ss[i] ELSE it[i - 1] \o ss[i]
  BY DEF Flattens

\* The first j elements are the same.
SameUpTo(a, b, j) == \A i \in 1 .. j : a[i] = b[i]

\* What it gives for i depends on the first i sequences only.
LEMMA FlattensAgree ==
    ASSUME NEW ss, NEW tt, NEW n \in Nat, NEW m \in Nat, NEW a, NEW b, Flattens(ss, n, a), Flattens(tt, m, b),
           NEW j \in Nat, j <= n, j <= m, SameUpTo(ss, tt, j)
    PROVE  SameUpTo(a, b, j)
<1>. DEFINE Differ == {i \in 1 .. j : a[i] # b[i]}
<1>. SUFFICES ASSUME Differ # {} PROVE FALSE
  BY DEF SameUpTo
<1>1. Differ \in SUBSET Nat
  OBVIOUS
<1>. HIDE DEF Differ
<1>2. PICK i \in Differ : \A k \in Differ : i <= k
  BY <1>1, LeastNatural
<1>3. i \in 1 .. j /\ i \in 1 .. n /\ i \in 1 .. m /\ a[i] # b[i]
  BY <1>2 DEF Differ
<1>4. /\ a[i] = IF i = 1 THEN ss[i] ELSE a[i - 1] \o ss[i]
      /\ b[i] = IF i = 1 THEN tt[i] ELSE b[i - 1] \o tt[i]
  BY <1>3, FlattensAt
<1>0. ss[i] = tt[i]
  BY <1>3 DEF SameUpTo
<1>5. i # 1
  BY <1>0, <1>3, <1>4
<1>6. i - 1 \in 1 .. j /\ i - 1 \notin Differ
  BY <1>2, <1>3, <1>5
<1>7. a[i - 1] = b[i - 1]
  BY <1>6 DEF Differ
<1>. QED
  BY <1>0, <1>3, <1>4, <1>7

\* There is such a function for every number of sequences.
LEMMA FlattensExists ==
    ASSUME NEW ss, NEW n \in Nat
    PROVE  \E it : Flattens(ss, n, it)
<1>. DEFINE Lacking == {m \in Nat : \A it : ~Flattens(ss, m, it)}
<1>. SUFFICES ASSUME Lacking # {} PROVE FALSE
  OBVIOUS
<1>1. Lacking \in SUBSET Nat
  OBVIOUS
<1>. HIDE DEF Lacking
<1>2. PICK m \in Lacking : \A k \in Lacking : m <= k
  BY <1>1, LeastNatural
<1>3. m \in Nat /\ \A it : ~Flattens(ss, m, it)
  BY <1>2 DEF Lacking
<1>4. m # 0
  <2>1. ASSUME m = 0 PROVE FALSE
    <3>. DEFINE none == [i \in 1 .. 0 |-> ss[i]]
    <3>1. none = [i \in 1 .. 0 |-> IF i = 1 THEN ss[i] ELSE none[i - 1] \o ss[i]]
      OBVIOUS
    <3>2. Flattens(ss, 0, none)
      BY <3>1 DEF Flattens
    <3>. QED
      BY <2>1, <3>2, <1>3
  <2>. QED
    BY <2>1
<1>5. PICK part : Flattens(ss, m - 1, part)
  <2>1. m - 1 \in Nat /\ m - 1 \notin Lacking
    BY <1>2, <1>3, <1>4
  <2>. QED
    BY <2>1 DEF Lacking
<1>. DEFINE whole == [i \in 1 .. m |-> IF i = 1 THEN ss[i] ELSE part[i - 1] \o ss[i]]
<1>6. ASSUME NEW i \in 1 .. m, i # 1
      PROVE  whole[i - 1] = part[i - 1]
  <2>1. i - 1 \in 1 .. m - 1 /\ i - 1 \in 1 .. m /\ m - 1 \in Nat
    BY <1>3, <1>4, <1>6
  <2>2. part[i - 1] = IF i - 1 = 1 THEN ss[i - 1] ELSE part[(i - 1) - 1] \o ss[i - 1]
    BY <1>5, <2>1, FlattensAt
  <2>. QED
    BY <2>1, <2>2
<1>7. whole = [i \in 1 .. m |-> IF i = 1 THEN ss[i] ELSE whole[i - 1] \o ss[i]]
  BY <1>6
<1>8. Flattens(ss, m, whole)
  BY <1>7 DEF Flattens
<1>. QED
  BY <1>3, <1>8

\* One more sequence is laid at the end.
LEMMA FlattenAppends ==
    ASSUME NEW S, NEW ss \in Seq(Seq(S)), NEW s \in Seq(S)
    PROVE  FlattenSeq(Append(ss, s)) = FlattenSeq(ss) \o s
<1>. DEFINE flat(uu) == CHOOSE it : Flattens(uu, Len(uu), it)
            tt == Append(ss, s)
            n == Len(ss)
<1>1. /\ n \in Nat /\ Len(tt) = n + 1 /\ tt[n + 1] = s
      /\ \A i \in 1 .. n : tt[i] = ss[i]
  OBVIOUS
<1>2. \A uu : FlattenSeq(uu) = IF Len(uu) = 0 THEN uu ELSE flat(uu)[Len(uu)]
  BY DEF FlattenSeq, Flattens
<1>3. Flattens(ss, n, flat(ss)) /\ Flattens(tt, n + 1, flat(tt))
  <2>. HIDE DEF tt, n
  <2>1. \E it : Flattens(ss, n, it)
    BY <1>1, FlattensExists
  <2>2. \E it : Flattens(tt, n + 1, it)
    <3>1. n + 1 \in Nat
      BY <1>1
    <3>. QED
      BY <3>1, FlattensExists
  <2>. QED
    BY <1>1, <2>1, <2>2 DEF n
<1>. HIDE DEF tt, flat
<1>4. FlattenSeq(tt) = flat(tt)[n + 1]
  BY <1>1, <1>2
<1>5. flat(tt)[n + 1] = IF n + 1 = 1 THEN tt[n + 1] ELSE flat(tt)[(n + 1) - 1] \o tt[n + 1]
  BY <1>1, <1>3, FlattensAt
<1>6. CASE n = 0
  <2>1. ss = <<>>
    BY <1>6
  <2>2. FlattenSeq(ss) = <<>>
    BY <1>2, <1>6, <2>1
  <2>. QED
    BY <1>1, <1>4, <1>5, <1>6, <2>2 DEF tt
<1>7. CASE n # 0
  <2>1. n <= n + 1 /\ n + 1 \in Nat
    BY <1>1
  <2>2. \A i \in 1 .. n : flat(ss)[i] = flat(tt)[i]
    <3>. DEFINE a == flat(ss)
                b == flat(tt)
                m == n + 1
    <3>1. /\ n \in Nat /\ m \in Nat /\ n <= m /\ n <= n
          /\ Flattens(ss, n, a) /\ Flattens(tt, m, b) /\ SameUpTo(ss, tt, n)
      BY <1>1, <1>3, <2>1 DEF SameUpTo
    <3>. HIDE DEF a, b, m, n
    <3>2. SameUpTo(a, b, n)
      BY <3>1, FlattensAgree
    <3>. QED
      BY <3>2 DEF a, b, SameUpTo
  <2>3. flat(ss)[n] = flat(tt)[n] /\ (n + 1) - 1 = n /\ n + 1 # 1
    BY <1>1, <1>7, <2>2
  <2>4. FlattenSeq(ss) = flat(ss)[n]
    BY <1>2, <1>7
  <2>. QED
    BY <1>1, <1>4, <1>5, <2>3, <2>4 DEF tt
<1>. QED
  BY <1>6, <1>7

-----------------------------------------------------------------------------
(* The elements picked from a sequence, in their order.                     *)

\* Of naturals, the one at place k of the list has k - 1 before it.
LEMMA PlaceInList ==
    ASSUME NEW n \in Nat, NEW S \in SUBSET NodeIds(n), NEW k \in 1 .. Cardinality(S)
    PROVE  /\ InIdOrder(S)[k] \in S
           /\ Cardinality({w \in S : w < InIdOrder(S)[k]}) + 1 = k
<1>. DEFINE q == InIdOrder(S)
            c == Cardinality(S)
            Place(v) == Cardinality({w \in S : w < v}) + 1
<1>1. /\ c \in Nat /\ q \in [1 .. c -> S]
      /\ \A i, j \in 1 .. c : i < j => q[i] < q[j]
      /\ \A v \in S : Place(v) \in 1 .. c /\ q[Place(v)] = v
  BY InIdOrderLists
<1>2. S \subseteq Int /\ k \in 1 .. c
  BY DEF NodeIds
<1>. HIDE DEF q, c, Place
<1>3. q[k] \in S /\ Place(q[k]) \in 1 .. c /\ q[Place(q[k])] = q[k]
  BY <1>1, <1>2
<1>4. Place(q[k]) = k
  <2>. DEFINE i == Place(q[k])
  <2>1. i \in 1 .. c /\ q[i] = q[k] /\ q[k] \in Int
    BY <1>2, <1>3
  <2>. HIDE DEF i
  <2>2. ~(i < k) /\ ~(k < i)
    BY <2>1, <1>1, <1>2
  <2>3. i \in Int /\ k \in Int
    BY <2>1, <1>1, <1>2
  <2>4. i = k
    BY <2>2, <2>3
  <2>. QED
    BY <2>4 DEF i
<1>. QED
  BY <1>3, <1>4 DEF Place, q

\* A position behind all others comes last.
LEMMA PickedAppends ==
    ASSUME NEW T, NEW s, NEW n \in Nat, NEW I \in SUBSET NodeIds(n), s[n] \in T,
           \A i \in I : s[i] \in T
    PROVE  /\ Picked(s, I) \in Seq(T)
           /\ Picked(s, I \union {n}) = Append(Picked(s, I), s[n])
<1>. DEFINE J == I \union {n}
            c == Cardinality(I)
            p == InIdOrder(I)
            q == InIdOrder(J)
<1>1. /\ n + 1 \in Nat /\ J \in SUBSET NodeIds(n + 1) /\ I \subseteq Int /\ n \notin I
      /\ \A i \in I : i < n
  BY DEF NodeIds
<1>2. /\ c \in Nat /\ p \in [1 .. c -> I]
      /\ \A k \in 1 .. c : p[k] \in I /\ Cardinality({w \in I : w < p[k]}) + 1 = k
  BY InIdOrderLists, PlaceInList
<1>3. IsFiniteSet(I) /\ Cardinality(J) = c + 1
  <2>1. IsFiniteSet(NodeIds(n))
    <3>1. 0 \in Int /\ n - 1 \in Int
      OBVIOUS
    <3>2. IsFiniteSet(0 .. n - 1)
      BY <3>1, FS_Interval
    <3>. QED
      BY <3>2 DEF NodeIds
  <2>2. IsFiniteSet(I)
    BY <2>1, FS_Subset
  <2>. QED
    BY <2>2, <1>1, FS_AddElement
<1>4. \A v \in J : q[Cardinality({w \in J : w < v}) + 1] = v
  BY <1>1, InIdOrderLists
<1>5. ASSUME NEW k \in 1 .. c
      PROVE  q[k] = p[k]
  <2>. DEFINE v == p[k]
  <2>1. v \in I /\ v \in J /\ v \in Int /\ v < n /\ Cardinality({w \in I : w < v}) + 1 = k
    BY <1>1, <1>2
  <2>2. {w \in J : w < v} = {w \in I : w < v}
    <3>. HIDE DEF v
    <3>1. ~(n < v)
      BY <2>1
    <3>. QED
      BY <3>1
  <2>3. q[Cardinality({w \in J : w < v}) + 1] = v
    BY <2>1, <1>4
  <2>. QED
    BY <2>1, <2>2, <2>3
<1>6. q[c + 1] = n
  <2>1. {w \in J : w < n} = I /\ n \in J
    <3>1. ~(n < n) /\ \A w \in I : w < n
      BY <1>1
    <3>. QED
      BY <3>1
  <2>2. q[Cardinality({w \in J : w < n}) + 1] = n
    BY <2>1, <1>4
  <2>. QED
    BY <2>1, <2>2
<1>. HIDE DEF c, p, q, J
<1>7. Picked(s, I) = [k \in 1 .. c |-> s[p[k]]] /\ Picked(s, J) = [k \in 1 .. c + 1 |-> s[q[k]]]
  BY <1>3 DEF Picked, c, p, q
<1>8. \A k \in 1 .. c : p[k] \in I /\ s[p[k]] \in T
  BY <1>2
<1>9. [k \in 1 .. c |-> s[p[k]]] \in Seq(T) /\ Len([k \in 1 .. c |-> s[p[k]]]) = c
  BY <1>2, <1>8
<1>10. [k \in 1 .. c + 1 |-> s[q[k]]] = Append([k \in 1 .. c |-> s[p[k]]], s[n])
  <2>. DEFINE a == [k \in 1 .. c |-> s[p[k]]]
              b == [k \in 1 .. c + 1 |-> s[q[k]]]
  <2>1. c + 1 \in Nat /\ \A k \in 1 .. c + 1 : k \in 1 .. c \/ k = c + 1
    BY <1>2
  <2>2. \A k \in 1 .. c + 1 : s[q[k]] \in T
    BY <2>1, <1>5, <1>6, <1>8
  <2>3. b \in Seq(T) /\ Len(b) = c + 1 /\ \A k \in 1 .. c + 1 : b[k] = s[q[k]]
    BY <2>1, <2>2
  <2>4. a \in Seq(T) /\ Len(a) = c /\ \A k \in 1 .. c : a[k] = s[p[k]]
    BY <1>9
  <2>. HIDE DEF a, b
  <2>5. /\ Append(a, s[n]) \in Seq(T) /\ Len(Append(a, s[n])) = c + 1
        /\ Append(a, s[n])[c + 1] = s[n] /\ \A k \in 1 .. c : Append(a, s[n])[k] = a[k]
    BY <2>4, <1>2
  <2>6. \A k \in 1 .. c + 1 : b[k] = Append(a, s[n])[k]
    BY <2>1, <2>3, <2>4, <2>5, <1>5, <1>6
  <2>7. b = Append(a, s[n])
    BY <2>3, <2>5, <2>6
  <2>. QED
    BY <2>7 DEF a, b
<1>. QED
  BY <1>7, <1>9, <1>10 DEF J

-----------------------------------------------------------------------------
(* Blocks of m elements, laid end to end.                                   *)

\* f holds n sequences of m elements.
IsBlocks(f, n, m, S) == f \in Seq(Seq(S)) /\ Len(f) = n /\ \A i \in 1 .. n : Len(f[i]) = m

\* t holds the elements of the first n blocks of f.
HoldsBlocks(t, f, n, m, S) ==
    /\ t \in Seq(S) /\ Len(t) = m * n
    /\ \A i \in 1 .. n : \A j \in 1 .. m : t[m * (i - 1) + j] = f[i][j]

LEMMA BlockAdds ==
    ASSUME NEW S, NEW m \in {2, 3}, NEW n \in Nat, NEW f, NEW t, NEW g, NEW b \in Seq(S), Len(b) = m,
           HoldsBlocks(t, f, n, m, S), \A i \in 1 .. n : g[i] = f[i], g[n + 1] = b
    PROVE  HoldsBlocks(t \o b, g, n + 1, m, S)
<1>1. t \in Seq(S) /\ Len(t) = m * n /\ m * n \in Nat /\ m * (n + 1) = m * n + m /\ m \in Nat
  BY DEF HoldsBlocks
<1>2. t \o b \in Seq(S) /\ Len(t \o b) = m * (n + 1)
  BY <1>1
<1>3. ASSUME NEW i \in 1 .. n + 1, NEW j \in 1 .. m
      PROVE  (t \o b)[m * (i - 1) + j] = g[i][j]
  <2>1. CASE i \in 1 .. n
    <3>1. m * (i - 1) + j \in 1 .. m * n
      <4>1. m = 2 \/ m = 3
        OBVIOUS
      <4>2. CASE m = 2
        BY <4>2, <2>1
      <4>3. CASE m = 3
        BY <4>3, <2>1
      <4>. QED
        BY <4>1, <4>2, <4>3
    <3>2. (t \o b)[m * (i - 1) + j] = t[m * (i - 1) + j]
      BY <3>1, <1>1
    <3>. QED
      BY <3>2, <2>1 DEF HoldsBlocks
  <2>2. CASE i = n + 1
    <3>1. m * (i - 1) + j = m * n + j
      BY <2>2
    <3>2. (t \o b)[m * n + j] = b[j]
      <4>. DEFINE l == m * n
      <4>1. l \in Nat /\ Len(t) = l /\ t \in Seq(S) /\ j \in 1 .. Len(b)
        BY <1>1
      <4>. HIDE DEF l
      <4>2. (t \o b)[l + j] = b[j]
        BY <4>1
      <4>. QED
        BY <4>2 DEF l
    <3>3. g[i] = b
      BY <2>2
    <3>. QED
      BY <3>1, <3>2, <3>3
  <2>3. i \in 1 .. n \/ i = n + 1
    OBVIOUS
  <2>. QED
    BY <2>1, <2>2, <2>3
<1>. QED
  BY <1>2, <1>3 DEF HoldsBlocks

LEMMA FlattenBlocks ==
    ASSUME NEW S, NEW m \in {2, 3}, NEW n \in Nat, NEW f, IsBlocks(f, n, m, S)
    PROVE  HoldsBlocks(FlattenSeq(f), f, n, m, S)
<1>. DEFINE Part(k) == [i \in 1 .. k |-> f[i]]
            Bad == {k \in 0 .. n : ~HoldsBlocks(FlattenSeq(Part(k)), f, k, m, S)}
<1>1. f \in Seq(Seq(S)) /\ Len(f) = n /\ \A i \in 1 .. n : f[i] \in Seq(S) /\ Len(f[i]) = m
  BY DEF IsBlocks
<1>2. f = Part(n)
  BY <1>1
<1>3. \A k \in 0 .. n : Part(k) \in Seq(Seq(S)) /\ Len(Part(k)) = k
  BY <1>1
<1>4. Bad = {}
  <2>. SUFFICES ASSUME Bad # {} PROVE FALSE
    OBVIOUS
  <2>1. Bad \in SUBSET Nat
    OBVIOUS
  <2>2. PICK k \in Bad : \A l \in Bad : k <= l
    <3>. HIDE DEF Bad
    <3>. QED
      BY <2>1, LeastNatural
  <2>3. k \in 0 .. n /\ ~HoldsBlocks(FlattenSeq(Part(k)), f, k, m, S)
    BY <2>2
  <2>4. CASE k = 0
    <3>1. Part(k) = <<>>
      BY <2>4, <1>3
    <3>2. FlattenSeq(<<>>) = <<>>
      BY DEF FlattenSeq
    <3>3. HoldsBlocks(<<>>, f, 0, m, S)
      BY DEF HoldsBlocks
    <3>. QED
      BY <2>3, <2>4, <3>1, <3>2, <3>3
  <2>5. CASE k # 0
    <3>1. k - 1 \in 0 .. n /\ k - 1 \notin Bad /\ k - 1 \in Nat /\ (k - 1) + 1 = k /\ k \in 1 .. n
      BY <2>2, <2>3, <2>5
    <3>2. HoldsBlocks(FlattenSeq(Part(k - 1)), f, k - 1, m, S)
      BY <3>1
    <3>3. Part(k) = Append(Part(k - 1), f[k])
      <4>1. f[k] \in Seq(S)
        BY <3>1, <1>1
      <4>. DEFINE a == Part(k - 1)
                  b == Part(k)
      <4>2. a \in Seq(Seq(S)) /\ b \in Seq(Seq(S)) /\ Len(a) = k - 1 /\ Len(b) = k
        BY <1>3, <3>1, <2>3
      <4>3. /\ \A i \in 1 .. k - 1 : a[i] = f[i]
            /\ \A i \in 1 .. k : b[i] = f[i]
        OBVIOUS
      <4>. HIDE DEF a, b
      <4>4. /\ Append(a, f[k]) \in Seq(Seq(S)) /\ Len(Append(a, f[k])) = k
            /\ Append(a, f[k])[k] = f[k] /\ \A i \in 1 .. k - 1 : Append(a, f[k])[i] = a[i]
        BY <4>1, <4>2, <3>1
      <4>5. \A i \in 1 .. k : b[i] = Append(a, f[k])[i]
        BY <4>3, <4>4, <3>1
      <4>6. b = Append(a, f[k])
        BY <4>2, <4>4, <4>5
      <4>. QED
        BY <4>6 DEF a, b
    <3>4. FlattenSeq(Part(k)) = FlattenSeq(Part(k - 1)) \o f[k]
      <4>1. Part(k - 1) \in Seq(Seq(S)) /\ f[k] \in Seq(S)
        BY <3>1, <1>1, <1>3
      <4>. HIDE DEF Part
      <4>. QED
        BY <4>1, <3>3, FlattenAppends
    <3>5. HoldsBlocks(FlattenSeq(Part(k - 1)) \o f[k], f, (k - 1) + 1, m, S)
      <4>. DEFINE t == FlattenSeq(Part(k - 1))
                  l == k - 1
                  b == f[k]
      <4>1. HoldsBlocks(t, f, l, m, S) /\ l \in Nat /\ b \in Seq(S) /\ Len(b) = m /\ f[l + 1] = b
        BY <3>1, <3>2, <1>1
      <4>. HIDE DEF t, l, b
      <4>2. HoldsBlocks(t \o b, f, l + 1, m, S)
        BY <4>1, BlockAdds
      <4>. QED
        BY <4>2 DEF t, l, b
    <3>. QED
      BY <2>3, <3>1, <3>4, <3>5
  <2>. QED
    BY <2>4, <2>5
<1>5. HoldsBlocks(FlattenSeq(Part(n)), f, n, m, S)
  <2>1. n \in 0 .. n /\ n \notin Bad
    BY <1>4
  <2>. QED
    BY <2>1
<1>. QED
  BY <1>2, <1>5

-----------------------------------------------------------------------------
(* The paths that replace long edges.                                       *)

\* The ids below a count are as many as the count says.
LEMMA IdsCounted ==
    ASSUME NEW n \in Nat
    PROVE  IsFiniteSet(NodeIds(n)) /\ Cardinality(NodeIds(n)) = n
<1>1. IsFiniteSet(0 .. n - 1) /\ Cardinality(0 .. n - 1) = IF 0 > n - 1 THEN 0 ELSE (n - 1) - 0 + 1
  BY FS_Interval
<1>. QED
  BY <1>1 DEF NodeIds

\* path leads from a to b over m dummies that are numbered from n.
LeadsOver(path, a, b, n, m) ==
    /\ path \in Seq(Nat) /\ Len(path) = m + 2
    /\ path[1] = a /\ path[m + 2] = b
    /\ \A k \in 2 .. m + 1 : path[k] = n + k - 2

\* The path as PathOf writes it.
LEMMA PathLaidOut ==
    ASSUME NEW a \in Nat, NEW b \in Nat, NEW n \in Nat, NEW m \in Nat
    PROVE  LeadsOver(<<a>> \o [k \in 1 .. m |-> n + k - 1] \o <<b>>, a, b, n, m)
<1>. DEFINE ds == [k \in 1 .. m |-> n + k - 1]
            path == <<a>> \o ds \o <<b>>
<1>1. ds \in Seq(Nat) /\ Len(ds) = m /\ \A k \in 1 .. m : ds[k] = n + k - 1
  OBVIOUS
<1>. HIDE DEF ds
<1>2. path \in Seq(Nat) /\ Len(path) = m + 2 /\ path[1] = a /\ path[m + 2] = b
  BY <1>1
<1>3. ASSUME NEW k \in 2 .. m + 1
      PROVE  path[k] = n + k - 2
  <2>1. k - 1 \in 1 .. m
    OBVIOUS
  <2>2. path[k] = ds[k - 1]
    BY <1>1, <2>1
  <2>. QED
    BY <1>1, <2>1, <2>2
<1>. HIDE DEF path
<1>4. LeadsOver(path, a, b, n, m)
  BY <1>2, <1>3 DEF LeadsOver
<1>. QED
  BY <1>4 DEF path, ds

\* The dummies of one more edge.
LEMMA DummiesAdd ==
    ASSUME NEW es, NEW rk, NEW i \in Nat \ {0}, \A j \in 1 .. i : DummiesOn(rk, es[j]) \in Nat
    PROVE  /\ DummiesBefore(es, rk, i) \in Nat
           /\ DummiesBefore(es, rk, i + 1) = DummiesBefore(es, rk, i) + DummiesOn(rk, es[i])
<1>. DEFINE short == [j \in 1 .. i - 1 |-> DummiesOn(rk, es[j])]
            long == [j \in 1 .. i |-> DummiesOn(rk, es[j])]
            S == 1 .. i - 1
            T == 1 .. i
<1>1. (i + 1) - 1 = i /\ S = T \ {i} /\ i \in T
  OBVIOUS
<1>2. /\ DummiesBefore(es, rk, i) = SumFunctionOnSet(short, S)
      /\ DummiesBefore(es, rk, i + 1) = SumFunctionOnSet(long, T)
  BY <1>1 DEF DummiesBefore, SumFunction
<1>3. /\ \A j \in S : short[j] = long[j] /\ short[j] \in Nat
      /\ \A j \in T : long[j] \in Nat /\ long[j] \in Int
      /\ long[i] = DummiesOn(rk, es[i])
  OBVIOUS
<1>4. IsFiniteSet(S) /\ IsFiniteSet(T)
  <2>1. 1 \in Int /\ i - 1 \in Int /\ i \in Int
    OBVIOUS
  <2>2. IsFiniteSet(1 .. i - 1) /\ IsFiniteSet(1 .. i)
    BY <2>1, FS_Interval
  <2>. QED
    BY <2>2
<1>. HIDE DEF short, long, S, T
<1>5. SumFunctionOnSet(short, S) \in Nat
  BY <1>3, <1>4, SumIsNumber
<1>6. SumFunctionOnSet(long, T) = long[i] + SumFunctionOnSet(long, S)
  <2>0. IsFiniteSet(T) /\ i \in T
    BY <1>1, <1>4
  <2>2. \A x \in T : long[x] \in Int
    BY <1>3
  <2>1. SumFunctionOnSet(long, T) = long[i] + SumFunctionOnSet(long, T \ {i})
    BY <2>0, <2>2, SumOfRest, ZenonT(40)
  <2>. QED
    BY <1>1, <2>1
<1>7. SumFunctionOnSet(short, S) = SumFunctionOnSet(long, S)
  BY <1>3, <1>4, SumOfSame
<1>. QED
  BY <1>2, <1>3, <1>5, <1>6, <1>7

\* When ranks descend along the edges, the counts of dummies grow from edge to
\* edge.
DescendingEdges(n, es, rk) ==
    /\ n \in Nat /\ es \in Seq(Edge) /\ rk \in [NodeIds(n) -> Nat]
    /\ \A i \in DOMAIN es : InBounds(n, es[i]) /\ ~IsSelfLoop(es[i])
    /\ Descends(es, rk)

LEMMA DummiesNumbered ==
    ASSUME NEW n, NEW es, NEW rk, DescendingEdges(n, es, rk), NEW i \in DOMAIN es
    PROVE  /\ es[i].from \in NodeIds(n) /\ es[i].to \in NodeIds(n) /\ DummiesOn(rk, es[i]) \in Nat
           /\ rk[es[i].to] = rk[es[i].from] + DummiesOn(rk, es[i]) + 1
<1>1. es[i] \in Edge /\ n \in Nat /\ InBounds(n, es[i])
  BY DEF DescendingEdges
<1>2. es[i].from \in NodeIds(n) /\ es[i].to \in NodeIds(n)
  BY <1>1 DEF Edge, InBounds, NodeIds
<1>3. rk[es[i].from] \in Nat /\ rk[es[i].to] \in Nat /\ rk[es[i].from] < rk[es[i].to]
  BY <1>2 DEF DescendingEdges, Descends
<1>. QED
  BY <1>2, <1>3 DEF DummiesOn

LEMMA DummiesGrow ==
    ASSUME NEW n, NEW es, NEW rk, DescendingEdges(n, es, rk)
    PROVE  LET d(k) == DummiesBefore(es, rk, k) IN
           /\ d(1) = 0
           /\ \A k \in 1 .. Len(es) : d(k) \in Nat /\ d(k + 1) = d(k) + DummiesOn(rk, es[k])
           /\ \A k \in 1 .. Len(es) + 1 : d(k) \in Nat /\ d(k) <= d(Len(es) + 1)
<1>. DEFINE d(k) == DummiesBefore(es, rk, k)
            m == Len(es)
            Bad == {k \in 1 .. m + 1 : ~(d(k) \in Nat /\ d(k) <= d(m + 1))}
<1>1. m \in Nat /\ DOMAIN es = 1 .. m
  BY DEF DescendingEdges
<1>2. d(1) = 0
  <2>1. 1 .. 1 - 1 = {}
    OBVIOUS
  <2>. QED
    BY <2>1, SumOfNone DEF DummiesBefore, SumFunction
<1>3. ASSUME NEW k \in 1 .. m
      PROVE  d(k) \in Nat /\ d(k + 1) = d(k) + DummiesOn(rk, es[k]) /\ DummiesOn(rk, es[k]) \in Nat
  <2>1. k \in Nat \ {0} /\ \A j \in 1 .. k : DummiesOn(rk, es[j]) \in Nat
    BY <1>1, DummiesNumbered
  <2>. QED
    BY <2>1, DummiesAdd
<1>. HIDE DEF d, m
<1>4. ASSUME NEW k \in 1 .. m + 1
      PROVE  d(k) \in Nat
  <2>1. CASE k \in 1 .. m
    BY <1>3, <2>1
  <2>2. CASE k = m + 1 /\ m # 0
    <3>1. m \in 1 .. m
      BY <1>1, <2>2
    <3>. QED
      BY <1>3, <2>2, <3>1
  <2>3. CASE k = m + 1 /\ m = 0
    BY <1>2, <2>3
  <2>. QED
    BY <1>1, <2>1, <2>2, <2>3
<1>5. Bad = {}
  <2>. SUFFICES ASSUME Bad # {} PROVE FALSE
    OBVIOUS
  <2>1. Bad \in SUBSET (0 .. m + 1) /\ m + 1 \in Nat
    BY <1>1
  <2>2. PICK k \in Bad : \A j \in Bad : j <= k
    BY <2>1, GreatestNatural
  <2>3. k \in 1 .. m + 1 /\ ~(d(k) <= d(m + 1)) /\ d(k) \in Nat
    BY <2>2, <1>4
  <2>4. k \in 1 .. m
    BY <2>3, <1>1
  <2>5. k + 1 \in 1 .. m + 1 /\ ~(k + 1 <= k)
    BY <2>4, <1>1
  <2>6. d(k + 1) <= d(m + 1)
    BY <2>2, <2>5
  <2>7. d(m + 1) \in Nat
    <3>1. m + 1 \in 1 .. m + 1
      BY <1>1
    <3>. QED
      BY <3>1, <1>4
  <2>8. d(k) <= d(k + 1) /\ d(k + 1) \in Nat
    BY <1>3, <2>4
  <2>. QED
    BY <2>3, <2>6, <2>7, <2>8
<1>6. \A k \in 1 .. m + 1 : d(k) \in Nat /\ d(k) <= d(m + 1)
  BY <1>5
<1>. QED
  BY <1>2, <1>3, <1>6 DEF d, m

\* The path of an edge runs from end to end over its own dummies, and each
\* dummy is on the path of an edge.
LEMMA PathsAreLaid ==
    ASSUME NEW n, NEW es, NEW rk, DescendingEdges(n, es, rk)
    PROVE  LET d(k) == DummiesBefore(es, rk, k)
               all == n + d(Len(es) + 1)
           IN
           /\ all \in Nat /\ n <= all
           /\ \A i \in DOMAIN es :
                 /\ LeadsOver(PathOf(n, es, rk, i), es[i].from, es[i].to, n + d(i), DummiesOn(rk, es[i]))
                 /\ PathOf(n, es, rk, i) \in Seq(NodeIds(all))
           /\ \A v \in NodeIds(all) \ NodeIds(n) : \E i \in DOMAIN es : v \in Range(PathOf(n, es, rk, i))
<1>. DEFINE d(k) == DummiesBefore(es, rk, k)
            m == Len(es)
            all == n + d(m + 1)
            P(i) == PathOf(n, es, rk, i)
            D(i) == DummiesOn(rk, es[i])
<1>1. /\ n \in Nat /\ m \in Nat /\ DOMAIN es = 1 .. m
      /\ \A i \in DOMAIN es : ~IsSelfLoop(es[i])
  BY DEF DescendingEdges
<1>2. /\ d(1) = 0
      /\ \A k \in 1 .. m : d(k) \in Nat /\ d(k + 1) = d(k) + D(k)
      /\ \A k \in 1 .. m + 1 : d(k) \in Nat /\ d(k) <= d(m + 1)
  BY DummiesGrow
<1>3. \A i \in 1 .. m : es[i].from \in NodeIds(n) /\ es[i].to \in NodeIds(n) /\ D(i) \in Nat
  BY <1>1, DummiesNumbered
<1>4. ASSUME NEW i \in 1 .. m
      PROVE  LeadsOver(P(i), es[i].from, es[i].to, n + d(i), D(i))
  <2>1. P(i) = <<es[i].from>> \o [k \in 1 .. D(i) |-> n + d(i) + k - 1] \o <<es[i].to>>
    BY <1>1 DEF PathOf
  <2>. DEFINE b == n + d(i)
  <2>2. b \in Nat /\ D(i) \in Nat /\ es[i].from \in Nat /\ es[i].to \in Nat
    BY <1>1, <1>2, <1>3 DEF NodeIds
  <2>3. P(i) = <<es[i].from>> \o [k \in 1 .. D(i) |-> b + k - 1] \o <<es[i].to>>
    BY <2>1
  <2>. HIDE DEF b, D, P
  <2>4. LeadsOver(P(i), es[i].from, es[i].to, b, D(i))
    BY <2>2, <2>3, PathLaidOut
  <2>. QED
    BY <2>4 DEF b
<1>. HIDE DEF d, m, P, D
<1>5. m + 1 \in 1 .. m + 1 /\ d(m + 1) \in Nat /\ all \in Nat /\ n <= all
  BY <1>1, <1>2
<1>6. ASSUME NEW i \in 1 .. m
      PROVE  P(i) \in Seq(NodeIds(all))
  <2>1. /\ P(i) \in Seq(Nat) /\ Len(P(i)) = D(i) + 2 /\ P(i)[1] = es[i].from /\ P(i)[D(i) + 2] = es[i].to
        /\ \A k \in 2 .. D(i) + 1 : P(i)[k] = (n + d(i)) + k - 2
    BY <1>4 DEF LeadsOver
  <2>2. D(i) \in Nat /\ d(i) \in Nat /\ d(i) + D(i) <= d(m + 1)
    <3>1. i + 1 \in 1 .. m + 1
      BY <1>1
    <3>. QED
      BY <3>1, <1>2, <1>3
  <2>3. ASSUME NEW k \in 1 .. D(i) + 2
        PROVE  P(i)[k] \in NodeIds(all)
    <3>1. CASE k = 1 \/ k = D(i) + 2
      <4>1. P(i)[k] = es[i].from \/ P(i)[k] = es[i].to
        BY <2>1, <3>1
      <4>2. es[i].from \in NodeIds(n) /\ es[i].to \in NodeIds(n)
        BY <1>3
      <4>3. NodeIds(n) \subseteq NodeIds(all)
        BY <1>1, <1>5 DEF NodeIds
      <4>. QED
        BY <4>1, <4>2, <4>3
    <3>2. CASE k \in 2 .. D(i) + 1
      <4>1. P(i)[k] = (n + d(i)) + k - 2
        BY <2>1, <3>2
      <4>. DEFINE b == d(i)
                  c == D(i)
                  top == d(m + 1)
      <4>2. n \in Nat /\ b \in Nat /\ c \in Nat /\ top \in Nat /\ b + c <= top /\ k \in 2 .. c + 1
        BY <1>1, <1>5, <2>2, <3>2
      <4>3. P(i)[k] = (n + b) + k - 2 /\ NodeIds(all) = 0 .. (n + top) - 1
        BY <4>1 DEF NodeIds
      <4>. HIDE DEF b, c, top
      <4>4. (n + b) + k - 2 \in 0 .. (n + top) - 1
        BY <4>2
      <4>. QED
        BY <4>3, <4>4
    <3>. QED
      BY <3>1, <3>2, <2>2
  <2>. DEFINE V == NodeIds(all)
  <2>4. P(i) = [k \in 1 .. D(i) + 2 |-> P(i)[k]]
    BY <2>1
  <2>5. \A k \in 1 .. D(i) + 2 : P(i)[k] \in V
    BY <2>3
  <2>. HIDE DEF V
  <2>6. D(i) + 2 \in Nat
    BY <2>2
  <2>7. [k \in 1 .. D(i) + 2 |-> P(i)[k]] \in Seq(V)
    BY <2>5, <2>6
  <2>. QED
    BY <2>4, <2>7 DEF V
<1>7. ASSUME NEW v \in NodeIds(all) \ NodeIds(n)
      PROVE  \E i \in 1 .. m : v \in Range(P(i))
  <2>. DEFINE S == {k \in 1 .. m + 1 : v < n + d(k)}
  <2>1. v \in Nat /\ n <= v /\ v < all
    BY <1>1, <1>5 DEF NodeIds
  <2>2. S \in SUBSET Nat /\ S # {}
    BY <1>5, <2>1
  <2>3. PICK k \in S : \A j \in S : k <= j
    BY <2>2, LeastNatural
  <2>4. k \in 1 .. m + 1 /\ v < n + d(k) /\ k # 1
    BY <1>1, <1>2, <2>1, <2>3
  <2>. DEFINE i == k - 1
  <2>5. i \in 1 .. m /\ k = i + 1 /\ i \in 1 .. m + 1 /\ ~(k <= i)
    BY <1>1, <2>4
  <2>. HIDE DEF i
  <2>6. ~(v < n + d(i)) /\ d(k) = d(i) + D(i) /\ d(i) \in Nat /\ D(i) \in Nat
    BY <1>2, <1>3, <2>3, <2>5
  <2>. DEFINE q == v - (n + d(i)) + 2
  <2>7. q \in 2 .. D(i) + 1 /\ (n + d(i)) + q - 2 = v
    BY <1>1, <2>1, <2>4, <2>6
  <2>. HIDE DEF q
  <2>8. P(i)[q] = v /\ P(i) \in Seq(Nat) /\ Len(P(i)) = D(i) + 2
    BY <1>4, <2>5, <2>7 DEF LeadsOver
  <2>9. q \in DOMAIN P(i)
    BY <2>6, <2>7, <2>8
  <2>. QED
    BY <2>5, <2>8, <2>9 DEF Range
<1>. QED
  BY <1>1, <1>4, <1>5, <1>6, <1>7 DEF d, m, P, D

-----------------------------------------------------------------------------
(* Lists of places, and of anything laid end to end.                        *)

\* What is picked, place by place.
LEMMA PickedAt ==
    ASSUME NEW s, NEW n \in Nat, NEW I \in SUBSET (1 .. n)
    PROVE  /\ Cardinality(I) \in Nat /\ Picked(s, I) = [k \in 1 .. Cardinality(I) |-> s[InIdOrder(I)[k]]]
           /\ \A k \in 1 .. Cardinality(I) : InIdOrder(I)[k] \in I
<1>1. n + 1 \in Nat /\ I \in SUBSET NodeIds(n + 1)
  BY DEF NodeIds
<1>2. Cardinality(I) \in Nat /\ InIdOrder(I) \in [1 .. Cardinality(I) -> I]
  BY <1>1, InIdOrderLists
<1>. QED
  BY <1>2 DEF Picked

\* The list of a set names the set, each member once.
LEMMA ListNamesSet ==
    ASSUME NEW n \in Nat, NEW I \in SUBSET (1 .. n)
    PROVE  Named(InIdOrder(I)) = I
<1>1. n + 1 \in Nat /\ I \in SUBSET NodeIds(n + 1)
  BY DEF NodeIds
<1>. DEFINE c == Cardinality(I)
            Place(v) == Cardinality({w \in I : w < v}) + 1
<1>2. /\ InIdOrder(I) \in [1 .. c -> I]
      /\ \A v \in I : Place(v) \in 1 .. c /\ InIdOrder(I)[Place(v)] = v
  BY <1>1, InIdOrderLists
<1>. HIDE DEF c, Place
<1>. QED
  BY <1>2 DEF Named

\* The nodes of a graph, in the order of their ids.
LEMMA NodesInOrder ==
    ASSUME NEW n \in Nat
    PROVE  InIdOrder(NodeIds(n)) = [k \in 1 .. n |-> k - 1]
<1>. DEFINE q == InIdOrder(NodeIds(n))
            V == NodeIds(n)
<1>1. Cardinality(V) = n
  BY IdsCounted
<1>2. q \in [1 .. n -> V]
  BY <1>1, InIdOrderLists
<1>3. ASSUME NEW k \in 1 .. n
      PROVE  q[k] = k - 1
  <2>1. q[k] \in V /\ Cardinality({w \in V : w < q[k]}) + 1 = k
    BY <1>1, PlaceInList
  <2>2. q[k] \in Nat /\ {w \in V : w < q[k]} = NodeIds(q[k])
    BY <2>1 DEF NodeIds
  <2>3. Cardinality(NodeIds(q[k])) = q[k]
    BY <2>2, IdsCounted
  <2>. HIDE DEF q, V
  <2>. QED
    BY <2>1, <2>2, <2>3
<1>. HIDE DEF q, V
<1>4. q = [k \in 1 .. n |-> k - 1]
  BY <1>2, <1>3
<1>. QED
  BY <1>4 DEF q

\* Sequences over S, laid end to end, are one over S.
LEMMA FlattenTyped ==
    ASSUME NEW S, NEW f \in Seq(Seq(S))
    PROVE  FlattenSeq(f) \in Seq(S)
<1>. DEFINE n == Len(f)
            Part(k) == [i \in 1 .. k |-> f[i]]
            Bad == {k \in 0 .. n : FlattenSeq(Part(k)) \notin Seq(S)}
<1>1. n \in Nat /\ f = Part(n) /\ \A i \in 1 .. n : f[i] \in Seq(S)
  OBVIOUS
<1>2. \A k \in 0 .. n : Part(k) \in Seq(Seq(S)) /\ Len(Part(k)) = k
  <2>. DEFINE T == Seq(S)
  <2>1. \A i \in 1 .. n : f[i] \in T
    BY <1>1
  <2>. HIDE DEF T, n, Bad
  <2>2. ASSUME NEW k \in 0 .. n
        PROVE  Part(k) \in Seq(T) /\ Len(Part(k)) = k
    <3>1. k \in Nat /\ \A i \in 1 .. k : f[i] \in T
      BY <1>1, <2>1
    <3>. QED
      BY <3>1
  <2>. QED
    BY <2>2 DEF T
<1>. HIDE DEF n
<1>3. Bad = {}
  <2>. SUFFICES ASSUME Bad # {} PROVE FALSE
    OBVIOUS
  <2>1. Bad \in SUBSET Nat
    BY <1>1
  <2>2. PICK k \in Bad : \A l \in Bad : k <= l
    <3>. HIDE DEF Bad
    <3>. QED
      BY <2>1, LeastNatural
  <2>3. k \in 0 .. n /\ FlattenSeq(Part(k)) \notin Seq(S)
    BY <2>2
  <2>4. CASE k = 0
    <3>1. Part(k) = <<>>
      BY <2>4, <1>2
    <3>2. FlattenSeq(<<>>) = <<>>
      BY DEF FlattenSeq
    <3>3. <<>> \in Seq(S)
      OBVIOUS
    <3>. QED
      BY <2>3, <3>1, <3>2, <3>3
  <2>5. CASE k # 0
    <3>1. k - 1 \in 0 .. n /\ ~(k <= k - 1) /\ k - 1 \in Nat /\ k \in 1 .. n
      BY <1>1, <2>3, <2>5
    <3>2. FlattenSeq(Part(k - 1)) \in Seq(S)
      BY <2>2, <3>1
    <3>3. Part(k) = Append(Part(k - 1), f[k])
      <4>. DEFINE a == Part(k - 1)
                  b == Part(k)
                  T == Seq(S)
      <4>1. a \in Seq(T) /\ b \in Seq(T) /\ Len(a) = k - 1 /\ Len(b) = k /\ f[k] \in T
        BY <1>1, <1>2, <3>1, <2>3
      <4>2. /\ \A i \in 1 .. k - 1 : a[i] = f[i]
            /\ \A i \in 1 .. k : b[i] = f[i]
        OBVIOUS
      <4>. HIDE DEF a, b, T
      <4>3. /\ Append(a, f[k]) \in Seq(T) /\ Len(Append(a, f[k])) = k
            /\ Append(a, f[k])[k] = f[k] /\ \A i \in 1 .. k - 1 : Append(a, f[k])[i] = a[i]
        BY <4>1, <3>1
      <4>4. \A i \in 1 .. k : b[i] = Append(a, f[k])[i]
        BY <4>2, <4>3, <3>1
      <4>5. b = Append(a, f[k])
        BY <4>1, <4>3, <4>4
      <4>. QED
        BY <4>5 DEF a, b
    <3>4. FlattenSeq(Part(k)) = FlattenSeq(Part(k - 1)) \o f[k]
      <4>1. Part(k - 1) \in Seq(Seq(S)) /\ f[k] \in Seq(S)
        BY <3>1, <1>1, <1>2
      <4>. HIDE DEF Part
      <4>. QED
        BY <4>1, <3>3, FlattenAppends
    <3>5. FlattenSeq(Part(k - 1)) \o f[k] \in Seq(S)
      <4>. DEFINE t == FlattenSeq(Part(k - 1))
      <4>1. t \in Seq(S) /\ f[k] \in Seq(S)
        BY <1>1, <3>1, <3>2
      <4>. HIDE DEF t
      <4>2. t \o f[k] \in Seq(S)
        BY <4>1
      <4>. QED
        BY <4>2 DEF t
    <3>. QED
      BY <2>3, <3>4, <3>5
  <2>. QED
    BY <2>4, <2>5
<1>4. FlattenSeq(Part(n)) \in Seq(S)
  <2>1. n \in 0 .. n
    BY <1>1
  <2>. QED
    BY <1>3, <2>1
<1>. QED
  BY <1>1, <1>4

-----------------------------------------------------------------------------
(* Extremes of finite sets of numbers.                                      *)

\* The image of a finite set is finite.
LEMMA ImageIsFinite ==
    ASSUME NEW S, IsFiniteSet(S), NEW f
    PROVE  IsFiniteSet({f[a] : a \in S})
<1>. DEFINE T == {f[a] : a \in S}
            g == [a \in S |-> f[a]]
<1>1. g \in [S -> T] /\ \A t \in T : \E a \in S : g[a] = t
  OBVIOUS
<1>2. g \in Surjection(S, T)
  BY <1>1, Fun_IsSurj
<1>. QED
  BY <1>2, FS_Surjection

\* A nonempty finite set of integers has a greatest member, which is its Max.
LEMMA GreatestOfFinite ==
    ASSUME NEW S, \A b \in S : b \in Int, IsFiniteSet(S), S # {}
    PROVE  Max(S) \in S /\ \A b \in S : b <= Max(S)
<1>. DEFINE From(a) == {b \in S : a <= b}
            Tails == {T \in SUBSET S : \E a \in S : T = From(a)}
<1>1. Tails \in SUBSET SUBSET S
  OBVIOUS
<1>0. \A a \in S : From(a) \in Tails
  OBVIOUS
<1>. HIDE DEF Tails
<1>a. Tails # {}
  BY <1>0
<1>2. PICK T \in Tails : \A U \in Tails : U \subseteq T => U = T
  <2>. HIDE DEF From
  <2>. QED
    BY <1>1, <1>a, MinimalSubset
<1>3. PICK a \in S : T = From(a)
  BY <1>2 DEF Tails
<1>4. ASSUME NEW b \in S
      PROVE  b <= a
  <2>. SUFFICES ASSUME a < b PROVE FALSE
    BY <1>3, <1>4
  <2>1. From(b) \in Tails
    BY <1>0, <1>4
  <2>4. From(b) \subseteq From(a)
    <3>1. \A c \in S : c \in Int
      OBVIOUS
    <3>. QED
      BY <3>1, <1>3, <1>4
  <2>2. From(b) = From(a)
    BY <2>1, <2>4, <1>2, <1>3
  <2>3. a \in From(a)
    BY <1>3
  <2>. QED
    BY <2>2, <2>3
<1>5. a \in S /\ \A b \in S : a >= b
  BY <1>3, <1>4
<1>. HIDE DEF From
<1>6. Max(S) \in S /\ \A b \in S : Max(S) >= b
  BY <1>5 DEF Max
<1>7. \A b \in S : b \in Int /\ Max(S) \in Int
  BY <1>6
<1>. QED
  BY <1>6, <1>7

\* And a least one, its Min.
LEMMA LeastOfFinite ==
    ASSUME NEW S, \A b \in S : b \in Int, IsFiniteSet(S), S # {}
    PROVE  Min(S) \in S /\ \A b \in S : Min(S) <= b
<1>. DEFINE UpTo(a) == {b \in S : b <= a}
            Heads == {T \in SUBSET S : \E a \in S : T = UpTo(a)}
<1>1. Heads \in SUBSET SUBSET S
  OBVIOUS
<1>0. \A a \in S : UpTo(a) \in Heads
  OBVIOUS
<1>. HIDE DEF Heads
<1>a. Heads # {}
  BY <1>0
<1>2. PICK T \in Heads : \A U \in Heads : U \subseteq T => U = T
  <2>. HIDE DEF UpTo
  <2>. QED
    BY <1>1, <1>a, MinimalSubset
<1>3. PICK a \in S : T = UpTo(a)
  BY <1>2 DEF Heads
<1>4. ASSUME NEW b \in S
      PROVE  a <= b
  <2>. SUFFICES ASSUME b < a PROVE FALSE
    BY <1>3, <1>4
  <2>1. UpTo(b) \in Heads
    BY <1>0, <1>4
  <2>4. UpTo(b) \subseteq UpTo(a)
    <3>1. \A c \in S : c \in Int
      OBVIOUS
    <3>. QED
      BY <3>1, <1>3, <1>4
  <2>2. UpTo(b) = UpTo(a)
    BY <2>1, <2>4, <1>2, <1>3
  <2>3. a \in UpTo(a)
    BY <1>3
  <2>. QED
    BY <2>2, <2>3
<1>5. a \in S /\ \A b \in S : a <= b
  BY <1>3, <1>4
<1>. HIDE DEF UpTo
<1>. QED
  BY <1>5 DEF Min

\* The greater of two integers.
LEMMA MaxOfTwo ==
    ASSUME NEW a \in Int, NEW b \in Int
    PROVE  Max({a, b}) = IF a < b THEN b ELSE a
<1>1. IsFiniteSet({a, b})
  <2>1. {a, b} = {a} \union {b} /\ IsFiniteSet({a})
    BY FS_Singleton
  <2>2. IsFiniteSet({a} \union {b})
    BY <2>1, FS_AddElement
  <2>. QED
    BY <2>1, <2>2
<1>2. Max({a, b}) \in {a, b} /\ \A c \in {a, b} : c <= Max({a, b})
  BY <1>1, GreatestOfFinite
<1>. QED
  BY <1>2

\* The smaller of two integers.
LEMMA MinOfTwo ==
    ASSUME NEW a \in Int, NEW b \in Int
    PROVE  Min({a, b}) = IF a < b THEN a ELSE b
<1>1. IsFiniteSet({a, b})
  <2>1. {a, b} = {a} \union {b} /\ IsFiniteSet({a})
    BY FS_Singleton
  <2>2. IsFiniteSet({a} \union {b})
    BY <2>1, FS_AddElement
  <2>. QED
    BY <2>1, <2>2
<1>2. Min({a, b}) \in {a, b} /\ \A c \in {a, b} : Min({a, b}) <= c
  BY <1>1, LeastOfFinite
<1>. QED
  BY <1>2

-----------------------------------------------------------------------------
(* Recursion along a list.                                                  *)

\* What a recursive function along 1 .. n computes: each value from the one before.
Chained(f, n, s, g) == f = [k \in 1 .. n |-> IF k = 1 THEN s ELSE g[<<k, f[k - 1]>>]]

\* Its values are of the type of its steps.
LEMMA ChainedTyped ==
    ASSUME NEW S, NEW n \in Nat, NEW s \in S, NEW g, NEW f, Chained(f, n, s, g),
           \A k \in 1 .. n : \A v \in S : g[<<k, v>>] \in S
    PROVE  f \in [1 .. n -> S]
<1>. DEFINE Wrong == {k \in 1 .. n : f[k] \notin S}
<1>1. f = [k \in 1 .. n |-> f[k]] /\ \A k \in 1 .. n : f[k] = IF k = 1 THEN s ELSE g[<<k, f[k - 1]>>]
  BY DEF Chained
<1>. SUFFICES ASSUME Wrong # {} PROVE FALSE
  BY <1>1
<1>2. Wrong \in SUBSET Nat
  OBVIOUS
<1>. HIDE DEF Wrong
<1>3. PICK k \in Wrong : \A m \in Wrong : k <= m
  BY <1>2, LeastNatural
<1>4. k \in 1 .. n /\ f[k] \notin S
  BY <1>3 DEF Wrong
<1>5. k # 1
  BY <1>1, <1>4
<1>6. k - 1 \in 1 .. n /\ ~(k <= k - 1)
  BY <1>4, <1>5
<1>7. f[k - 1] \in S
  BY <1>3, <1>6 DEF Wrong
<1>. QED
  BY <1>1, <1>4, <1>5, <1>7

\* There is such a function.
LEMMA ChainedExists ==
    ASSUME NEW n \in Nat, NEW s, NEW g
    PROVE  \E f : Chained(f, n, s, g)
<1>. DEFINE Lacking == {m \in 0 .. n : \A f : ~Chained(f, m, s, g)}
<1>. SUFFICES ASSUME Lacking # {} PROVE FALSE
  OBVIOUS
<1>1. Lacking \in SUBSET Nat
  OBVIOUS
<1>. HIDE DEF Lacking
<1>2. PICK m \in Lacking : \A j \in Lacking : m <= j
  BY <1>1, LeastNatural
<1>3. m \in 0 .. n /\ \A f : ~Chained(f, m, s, g)
  BY <1>2 DEF Lacking
<1>4. m # 0
  <2>. DEFINE e == [k \in 1 .. 0 |-> s]
  <2>1. e = [k \in 1 .. 0 |-> IF k = 1 THEN s ELSE g[<<k, e[k - 1]>>]]
    OBVIOUS
  <2>2. Chained(e, 0, s, g)
    BY <2>1 DEF Chained
  <2>. QED
    BY <1>3, <2>2
<1>5. m - 1 \in 0 .. n /\ ~(m <= m - 1)
  BY <1>3, <1>4
<1>6. PICK f : Chained(f, m - 1, s, g)
  BY <1>2, <1>5 DEF Lacking
<1>. DEFINE h == [k \in 1 .. m |-> IF k = 1 THEN s ELSE g[<<k, f[k - 1]>>]]
<1>7. ASSUME NEW k \in 1 .. m - 1
      PROVE  h[k] = f[k]
  BY <1>3, <1>6 DEF Chained
<1>8. h = [k \in 1 .. m |-> IF k = 1 THEN s ELSE g[<<k, h[k - 1]>>]]
  <2>1. ASSUME NEW k \in 1 .. m, k # 1
        PROVE  h[k - 1] = f[k - 1]
    <3>1. k - 1 \in 1 .. m - 1
      BY <1>3, <2>1
    <3>. HIDE DEF h
    <3>. QED
      BY <3>1, <1>7
  <2>. QED
    BY <2>1
<1>. HIDE DEF h
<1>9. Chained(h, m, s, g)
  BY <1>8 DEF Chained
<1>. QED
  BY <1>3, <1>9

\* Numbers that keep their distance from the one before keep it from all before.
LEMMA ApartFromAll ==
    ASSUME NEW n \in Nat, NEW f, NEW h, NEW gap \in Nat,
           \A k \in 1 .. n : f[k] \in Int /\ h[k] \in Nat,
           \A k \in 1 .. n - 1 : f[k + 1] - f[k] >= h[k] + gap + h[k + 1],
           NEW j \in 1 .. n, NEW k \in 1 .. n, j < k
    PROVE  f[k] - f[j] >= h[j] + gap + h[k]
<1>. DEFINE Wrong == {m \in 1 .. n : j < m /\ f[m] - f[j] < h[j] + gap + h[m]}
<1>. SUFFICES ASSUME Wrong # {} PROVE FALSE
  <2>1. f[k] \in Int /\ f[j] \in Int /\ h[j] \in Nat /\ h[k] \in Nat /\ k \notin Wrong
    OBVIOUS
  <2>. QED
    BY <2>1
<1>1. Wrong \in SUBSET Nat
  OBVIOUS
<1>. HIDE DEF Wrong
<1>2. PICK m \in Wrong : \A l \in Wrong : m <= l
  BY <1>1, LeastNatural
<1>3. m \in 1 .. n /\ j < m /\ f[m] - f[j] < h[j] + gap + h[m]
  BY <1>2 DEF Wrong
<1>4. m - 1 \in 1 .. n - 1 /\ m - 1 \in 1 .. n /\ (m - 1) + 1 = m /\ ~(m <= m - 1)
  BY <1>3
<1>5. f[m] - f[m - 1] >= h[m - 1] + gap + h[m]
  BY <1>4
<1>6. j # m - 1
  BY <1>3, <1>5
<1>7. f[m - 1] - f[j] >= h[j] + gap + h[m - 1]
  <2>1. m - 1 \notin Wrong /\ j < m - 1
    BY <1>2, <1>3, <1>4, <1>6
  <2>2. f[m - 1] \in Int /\ f[j] \in Int /\ h[j] \in Nat /\ h[m - 1] \in Nat
    BY <1>4
  <2>. QED
    BY <2>1, <2>2, <1>4 DEF Wrong
<1>8. /\ f[m] \in Int /\ f[j] \in Int /\ f[m - 1] \in Int
      /\ h[j] \in Nat /\ h[m - 1] \in Nat /\ h[m] \in Nat
  BY <1>3, <1>4
<1>. QED
  BY <1>3, <1>5, <1>7, <1>8

\* The same along 0 .. n: such a function exists, and its values are typed.
ChainedFromZero(f, n, s, g) == f = [k \in 0 .. n |-> IF k = 0 THEN s ELSE g[<<k, f[k - 1]>>]]

LEMMA ChainedFromZeroExists ==
    ASSUME NEW S, NEW n \in Nat, NEW s \in S, NEW g, \A k \in 1 .. n : \A v \in S : g[<<k, v>>] \in S
    PROVE  /\ \E f : ChainedFromZero(f, n, s, g)
           /\ \A f : ChainedFromZero(f, n, s, g) => f \in [0 .. n -> S]
<1>1. ASSUME NEW f, ChainedFromZero(f, n, s, g)
      PROVE  f \in [0 .. n -> S]
  <2>1. f = [k \in 0 .. n |-> f[k]] /\ \A k \in 0 .. n : f[k] = IF k = 0 THEN s ELSE g[<<k, f[k - 1]>>]
    BY <1>1 DEF ChainedFromZero
  <2>. DEFINE Wrong == {k \in 0 .. n : f[k] \notin S}
  <2>. SUFFICES ASSUME Wrong # {} PROVE FALSE
    BY <2>1
  <2>2. Wrong \in SUBSET Nat
    OBVIOUS
  <2>. HIDE DEF Wrong
  <2>3. PICK k \in Wrong : \A m \in Wrong : k <= m
    BY <2>2, LeastNatural
  <2>4. k \in 0 .. n /\ f[k] \notin S
    BY <2>3 DEF Wrong
  <2>5. k # 0
    BY <2>1, <2>4
  <2>6. k - 1 \in 0 .. n /\ ~(k <= k - 1) /\ k \in 1 .. n
    BY <2>4, <2>5
  <2>7. f[k - 1] \in S
    BY <2>3, <2>6 DEF Wrong
  <2>. QED
    BY <2>1, <2>4, <2>5, <2>6, <2>7
<1>2. \E f : ChainedFromZero(f, n, s, g)
  <2>. DEFINE h == [kv \in (1 .. n + 1) \X S |-> IF kv[1] = 1 THEN s ELSE g[<<kv[1] - 1, kv[2]>>]]
  <2>1. \A k \in 1 .. n + 1 : \A v \in S : h[<<k, v>>] = IF k = 1 THEN s ELSE g[<<k - 1, v>>]
    OBVIOUS
  <2>2. \A k \in 1 .. n + 1 : \A v \in S : h[<<k, v>>] \in S
    <3>. TAKE k \in 1 .. n + 1
    <3>1. k # 1 => k - 1 \in 1 .. n
      OBVIOUS
    <3>. HIDE DEF h
    <3>. QED
      BY <2>1, <3>1
  <2>. HIDE DEF h
  <2>3. n + 1 \in Nat
    OBVIOUS
  <2>4. PICK e : Chained(e, n + 1, s, h)
    BY <2>3, ChainedExists
  <2>5. e \in [1 .. n + 1 -> S]
    BY <2>2, <2>3, <2>4, ChainedTyped
  <2>. DEFINE f == [k \in 0 .. n |-> e[k + 1]]
  <2>6. ASSUME NEW k \in 0 .. n
        PROVE  f[k] = IF k = 0 THEN s ELSE g[<<k, f[k - 1]>>]
    <3>1. CASE k = 0
      <4>1. e[1] = s
        BY <2>4 DEF Chained
      <4>. QED
        BY <3>1, <4>1
    <3>2. CASE k # 0
      <4>1. k + 1 \in 1 .. n + 1 /\ k + 1 # 1 /\ (k + 1) - 1 = k /\ k \in 1 .. n + 1
            /\ k - 1 \in 0 .. n /\ (k - 1) + 1 = k
        BY <3>2
      <4>2. e[k + 1] = h[<<k + 1, e[k]>>] /\ e[k] \in S
        BY <4>1, <2>4, <2>5 DEF Chained
      <4>3. f[k - 1] = e[k] /\ f[k] = e[k + 1]
        BY <4>1
      <4>. HIDE DEF f
      <4>. QED
        BY <4>1, <4>2, <4>3, <2>1, <3>2
    <3>. QED
      BY <3>1, <3>2
  <2>7. f = [k \in 0 .. n |-> f[k]]
    OBVIOUS
  <2>. HIDE DEF f
  <2>8. ChainedFromZero(f, n, s, g)
    BY <2>6, <2>7 DEF ChainedFromZero
  <2>. QED
    BY <2>8
<1>. QED
  BY <1>1, <1>2

=============================================================================
