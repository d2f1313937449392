------------------------- MODULE EdgeRouting_proofs --------------------------
(****************************************************************************)
(* route_edges for every list of chains: a route per chain, parallel edges  *)
(* apart, and points that the FFI can cut into segments.                    *)
(*                                                                          *)
(* What the loop leaves in `routes` is said without the loop: the route of  *)
(* a chain depends on the chains before it only through their number, so    *)
(* the routes are those of a fixed list, Drawing, at the places passed.     *)
(*                                                                          *)
(* compute_label_position for every route and graph: where the candidates   *)
(* stand, and that the best of them is.                                     *)
(****************************************************************************)
EXTENDS EdgeRouting, LabelPlacement, LayoutTheorems

-----------------------------------------------------------------------------
(* The inductive invariant, in parts.                                       *)

\* What the caller handed over is never written.
ArgumentsInv ==
    /\ chains \in Seq(EdgeChain) /\ SoundChains(chains)
    /\ Placement(pos) /\ style \in {"Straight", "Orthogonal", "Bezier"}

\* How many of the first k chains have the ends p.
Met(p, k) == Cardinality({i \in 1 .. k : Pair(chains[i]) = p})

\* The last chain the loop has met: the one at which it stops with an error
\* included.
LastMet == IF result = "DanglingEdge" THEN next ELSE next - 1

\* pair_seen counts the chains that the loop has met.
LoopInv ==
    /\ next \in 1 .. Len(chains) + 1
    /\ result \in {"none", "Ok", "DanglingEdge"}
    /\ result = "DanglingEdge" => next <= Len(chains)
    /\ seen = [p \in {Pair(c) : c \in Range(chains)} |->
                  Met(p, LastMet)]

\* The points for the i-th chain.
PointsOf(i) ==
    LET c == chains[i]
        offset == Offset(c, Met(Pair(c), i - 1))
    IN IF IsLoop(c) THEN LoopPoints(c, offset) ELSE Styled(c, offset)

\* What each chain's route is, if it gets one.
Drawing == [i \in DOMAIN chains |-> RouteOf(chains[i], PointsOf(i))]

Behind == {k \in 1 .. next - 1 : IsDrawn(chains[k])}

\* The nodes of the chains passed have places: the code has looked them up.
LookedUpInv == \A k \in 1 .. next - 1 : Looked(chains[k]) \subseteq DOMAIN pos

RoutesInv == routes = Picked(Drawing, Behind)

IInv == ArgumentsInv /\ LoopInv /\ LookedUpInv /\ RoutesInv

-----------------------------------------------------------------------------
(* Counting chains.                                                         *)

LEMMA MetIsNumber ==
    ASSUME NEW p, NEW k \in Nat
    PROVE  IsFiniteSet({i \in 1 .. k : Pair(chains[i]) = p}) /\ Met(p, k) \in Nat
<1>1. IsFiniteSet(1 .. k)
  <2>1. 1 \in Int /\ k \in Int
    OBVIOUS
  <2>. QED
    BY <2>1, FS_Interval
<1>2. IsFiniteSet({i \in 1 .. k : Pair(chains[i]) = p})
  BY <1>1, FS_Subset
<1>. QED
  BY <1>2, FS_CardinalityType DEF Met

\* One chain more.
LEMMA MetGrows ==
    ASSUME NEW p, NEW k \in Nat \ {0}
    PROVE  Met(p, k) = IF Pair(chains[k]) = p THEN Met(p, k - 1) + 1 ELSE Met(p, k - 1)
<1>. DEFINE Hit(n) == {i \in 1 .. n : Pair(chains[i]) = p}
<1>1. k - 1 \in Nat /\ k \notin Hit(k - 1)
  OBVIOUS
<1>2. IsFiniteSet(Hit(k - 1))
  BY <1>1, MetIsNumber
<1>3. CASE Pair(chains[k]) = p
  <2>1. Hit(k) = Hit(k - 1) \union {k}
    BY <1>3
  <2>. HIDE DEF Hit
  <2>2. Cardinality(Hit(k - 1) \union {k}) = Cardinality(Hit(k - 1)) + 1
    BY <1>1, <1>2, FS_AddElement
  <2>3. Met(p, k) = Cardinality(Hit(k)) /\ Met(p, k - 1) = Cardinality(Hit(k - 1))
    BY DEF Met, Hit
  <2>. QED
    BY <1>3, <2>1, <2>2, <2>3
<1>4. CASE Pair(chains[k]) # p
  <2>1. Hit(k) = Hit(k - 1)
    BY <1>4
  <2>. QED
    BY <1>4, <2>1 DEF Met
<1>. QED
  BY <1>3, <1>4

\* The loop never meets more chains of a pair than were counted before.
LEMMA MetIsCounted ==
    ASSUME chains \in Seq(EdgeChain), NEW p, NEW k \in 0 .. Len(chains)
    PROVE  Met(p, k) \in 0 .. PairCount(p) /\ PairCount(p) \in Nat
<1>. DEFINE All == {i \in 1 .. Len(chains) : Pair(chains[i]) = p}
            Hit == {i \in 1 .. k : Pair(chains[i]) = p}
<1>1. k \in Nat /\ Len(chains) \in Nat /\ Hit \subseteq All
  OBVIOUS
<1>2. IsFiniteSet(All) /\ Met(p, k) \in Nat /\ Met(p, Len(chains)) \in Nat
  BY <1>1, MetIsNumber
<1>3. PairCount(p) = Cardinality(All) /\ Met(p, k) = Cardinality(Hit)
      /\ Met(p, Len(chains)) = Cardinality(All)
  <2>1. DOMAIN chains = 1 .. Len(chains)
    OBVIOUS
  <2>. QED
    BY <2>1 DEF PairCount, Met
<1>. HIDE DEF All, Hit
<1>4. Cardinality(Hit) <= Cardinality(All)
  <2>1. IsFiniteSet(All) /\ Hit \in SUBSET All
    BY <1>1, <1>2
  <2>. QED
    BY <2>1, FS_Subset
<1>. QED
  BY <1>2, <1>3, <1>4

\* Of two chains with the same ends the later one has met more, and their
\* displacements differ.
LEMMA DisplacementsDiffer ==
    ASSUME chains \in Seq(EdgeChain), NEW j \in DOMAIN chains, NEW k \in DOMAIN chains, j < k,
           Pair(chains[j]) = Pair(chains[k])
    PROVE  /\ Offset(chains[j], Met(Pair(chains[j]), j - 1)) \in Int
           /\ Offset(chains[k], Met(Pair(chains[k]), k - 1)) \in Int
           /\ Offset(chains[j], Met(Pair(chains[j]), j - 1)) # Offset(chains[k], Met(Pair(chains[k]), k - 1))
<1>. DEFINE p == Pair(chains[j])
            Hit(n) == {i \in 1 .. n : Pair(chains[i]) = p}
<1>1. /\ j - 1 \in 0 .. Len(chains) /\ k - 1 \in 0 .. Len(chains)
      /\ j - 1 \in Nat /\ k - 1 \in Nat /\ j <= k - 1
  OBVIOUS
<1>2. /\ Met(p, j - 1) \in Nat /\ Met(p, k - 1) \in Nat /\ PairCount(p) \in Nat
      /\ IsFiniteSet(Hit(j - 1)) /\ IsFiniteSet(Hit(k - 1))
  BY <1>1, MetIsNumber, MetIsCounted
<1>3. Met(p, j - 1) < Met(p, k - 1)
  <2>1. Hit(j - 1) \subseteq Hit(k - 1) /\ j \in Hit(k - 1) /\ j \notin Hit(j - 1)
    BY <1>1
  <2>2. Met(p, j - 1) = Cardinality(Hit(j - 1)) /\ Met(p, k - 1) = Cardinality(Hit(k - 1))
    BY DEF Met
  <2>. DEFINE S == Hit(j - 1)
              T == Hit(k - 1)
  <2>. HIDE DEF Hit
  <2>3. S \subseteq T /\ S # T /\ IsFiniteSet(T)
    BY <2>1, <1>2
  <2>. HIDE DEF S, T
  <2>4. Cardinality(S) <= Cardinality(T) /\ (Cardinality(S) = Cardinality(T) => S = T)
    BY <2>3, FS_Subset
  <2>5. Met(p, j - 1) = Cardinality(S) /\ Met(p, k - 1) = Cardinality(T)
    BY <2>2 DEF S, T
  <2>. QED
    BY <2>3, <2>4, <2>5, <1>2
<1>. DEFINE a == Met(p, j - 1)
            b == Met(p, k - 1)
            m == PairCount(p)
<1>4. /\ Offset(chains[j], Met(Pair(chains[j]), j - 1)) = 2 * a - (m - 1)
      /\ Offset(chains[k], Met(Pair(chains[k]), k - 1)) = 2 * b - (m - 1)
  BY DEF Offset
<1>5. a \in Nat /\ b \in Nat /\ m \in Nat /\ a < b
  BY <1>2, <1>3
<1>. HIDE DEF a, b, m
<1>6. /\ 2 * a - (m - 1) \in Int /\ 2 * b - (m - 1) \in Int
      /\ 2 * a - (m - 1) # 2 * b - (m - 1)
  BY <1>5
<1>. QED
  BY <1>4, <1>6

-----------------------------------------------------------------------------
(* The points of the routes.                                                *)

LEMMA SpotIsPoint ==
    ASSUME NEW x \in Int, NEW y \in Int
    PROVE  Spot(x, y) \in Points /\ Spot(x, y).x = x /\ Spot(x, y).y = y /\ Spot(x, y).aside = <<0, 0>>
  BY DEF Spot, Points

LEMMA PointFields ==
    ASSUME NEW p \in Points
    PROVE  p.x \in Int /\ p.y \in Int
  BY DEF Points

LEMMA AtIsPoint ==
    ASSUME Placement(pos), NEW v \in DOMAIN pos, NEW i \in Int, NEW j \in Int
    PROVE  /\ At(v, i, j) \in Points /\ At(v, i, j).aside = <<0, 0>>
           /\ At(v, i, j).x = 60 * pos[v].x + 30 * (i * pos[v].width)
           /\ At(v, i, j).y = 60 * pos[v].y + 30 * (j * pos[v].height)
           /\ pos[v].x \in Int /\ pos[v].y \in Int /\ pos[v].width \in Nat /\ pos[v].height \in Nat
<1>1. pos[v] \in [x : Int, y : Int, width : Nat, height : Nat]
  BY DEF Placement
<1>2. pos[v].x \in Int /\ pos[v].y \in Int /\ pos[v].width \in Nat /\ pos[v].height \in Nat
  BY <1>1
<1>3. \A x, w, k \in Int : /\ 60 * x + 30 * k * w \in Int
                           /\ 60 * x + 30 * k * w = 60 * x + 30 * (k * w)
  BY Z3
<1>4. /\ 60 * pos[v].x + 30 * i * pos[v].width \in Int
      /\ 60 * pos[v].x + 30 * i * pos[v].width = 60 * pos[v].x + 30 * (i * pos[v].width)
      /\ 60 * pos[v].y + 30 * j * pos[v].height \in Int
      /\ 60 * pos[v].y + 30 * j * pos[v].height = 60 * pos[v].y + 30 * (j * pos[v].height)
  BY <1>2, <1>3
<1>. DEFINE x == 60 * pos[v].x + 30 * i * pos[v].width
            y == 60 * pos[v].y + 30 * j * pos[v].height
<1>5. At(v, i, j) = Spot(x, y) /\ x \in Int /\ y \in Int
  BY <1>4 DEF At
<1>6. x = 60 * pos[v].x + 30 * (i * pos[v].width) /\ y = 60 * pos[v].y + 30 * (j * pos[v].height)
  BY <1>4
<1>. HIDE DEF x, y
<1>7. At(v, i, j) \in Points /\ At(v, i, j).aside = <<0, 0>> /\ At(v, i, j).x = x /\ At(v, i, j).y = y
  BY <1>5, SpotIsPoint
<1>. QED
  BY <1>2, <1>6, <1>7

LEMMA MiddleIsPoint ==
    ASSUME NEW p \in Points, NEW q \in Points
    PROVE  Middle(p, q) \in Points
<1>1. \A a, b \in Int : (a + b) \div 2 \in Int
  OBVIOUS
<1>2. (p.x + q.x) \div 2 \in Int /\ (p.y + q.y) \div 2 \in Int
  BY <1>1, PointFields
<1>. QED
  BY <1>2, SpotIsPoint DEF Middle

LEMMA MovedIsPoint ==
    ASSUME NEW m \in Points, NEW p \in Points, NEW q \in Points, NEW offset \in Int
    PROVE  /\ MovedAside(m, p, q, offset) \in Points
           /\ MovedAside(m, p, q, offset).aside = <<offset * (p.y - q.y), offset * (q.x - p.x)>>
<1>1. \A a, b, d \in Int : d * (a - b) \in Int
  BY Z3
<1>2. offset * (p.y - q.y) \in Int /\ offset * (q.x - p.x) \in Int
  BY <1>1, PointFields
<1>3. m.x \in Int /\ m.y \in Int
  BY PointFields
<1>. QED
  BY <1>2, <1>3 DEF MovedAside, Points

\* Different displacements move a point to different places, the line having a length.
LEMMA MovedApart ==
    ASSUME NEW m, NEW p \in Points, NEW q \in Points, p # q, p.aside = q.aside,
           NEW a \in Int, NEW b \in Int, NEW n,
           MovedAside(m, p, q, a) = MovedAside(n, p, q, b)
    PROVE  a = b
<1>1. p.x \in Int /\ p.y \in Int /\ q.x \in Int /\ q.y \in Int
  BY PointFields
<1>2. a * (p.y - q.y) = b * (p.y - q.y) /\ a * (q.x - p.x) = b * (q.x - p.x)
  BY DEF MovedAside
<1>3. p.x # q.x \/ p.y # q.y
  BY DEF Points
<1>4. \A c, d, r, s \in Int : r # s /\ c * (r - s) = d * (r - s) => c = d
  BY Z3
<1>. QED
  BY <1>1, <1>2, <1>3, <1>4

\* One element in front of t, and perhaps one behind it.
LEMMA Framed ==
    ASSUME NEW S, NEW a \in S, NEW b \in S, NEW t \in Seq(S), NEW m \in Nat, Len(t) = m
    PROVE  /\ <<a>> \o t \in Seq(S) /\ Len(<<a>> \o t) = m + 1
           /\ (<<a>> \o t)[1] = a /\ \A k \in 1 .. m : (<<a>> \o t)[k + 1] = t[k]
           /\ <<a>> \o t \o <<b>> \in Seq(S) /\ Len(<<a>> \o t \o <<b>>) = m + 2
           /\ (<<a>> \o t \o <<b>>)[1] = a /\ (<<a>> \o t \o <<b>>)[m + 2] = b
           /\ \A k \in 1 .. m : (<<a>> \o t \o <<b>>)[k + 1] = t[k]
<1>. DEFINE u == <<a>> \o t
            w == u \o <<b>>
<1>1. u \in Seq(S) /\ Len(u) = m + 1
  OBVIOUS
<1>2. u[1] = a
  OBVIOUS
<1>3. \A k \in 1 .. m : u[k + 1] = t[k]
  OBVIOUS
<1>. HIDE DEF u
<1>4. w \in Seq(S) /\ Len(w) = m + 2 /\ w[m + 2] = b
  BY <1>1
<1>5. \A k \in 1 .. m + 1 : w[k] = u[k]
  BY <1>1
<1>6. 1 \in 1 .. m + 1 /\ \A k \in 1 .. m : k + 1 \in 1 .. m + 1
  OBVIOUS
<1>7. w[1] = a /\ \A k \in 1 .. m : w[k + 1] = t[k]
  BY <1>2, <1>3, <1>5, <1>6
<1>. QED
  BY <1>1, <1>2, <1>3, <1>4, <1>7 DEF u

Directions == {<<0, 1>>, <<0, -1>>, <<1, 0>>, <<-1, 0>>}

\* A route leaves its first node on one side and meets its last on the other.
LEMMA HeadingIsDirection ==
    ASSUME NEW c
    PROVE  Heading(c) \in Directions
  BY DEF Heading, Directions

LEMMA DirectionParts ==
    ASSUME NEW d \in Directions
    PROVE  /\ d[1] \in {0, 1, -1} /\ d[2] \in {0, 1, -1} /\ d[1] \in Int /\ d[2] \in Int /\ -d[1] \in Int /\ -d[2] \in Int
           /\ <<d[1], d[2]>> \in Directions /\ <<-d[1], -d[2]>> \in Directions
           /\ d = <<d[1], d[2]>>
  BY DEF Directions

LEMMA SideOf ==
    ASSUME NEW v, NEW i, NEW j, <<i, j>> \in Directions
    PROVE  At(v, i, j) \in Sides(v)
<1>1. <<i, j>> = <<0, 1>> \/ <<i, j>> = <<0, -1>> \/ <<i, j>> = <<1, 0>> \/ <<i, j>> = <<-1, 0>>
  BY DEF Directions
<1>2. (i = 0 /\ j = 1) \/ (i = 0 /\ j = -1) \/ (i = 1 /\ j = 0) \/ (i = -1 /\ j = 0)
  BY <1>1
<1>. QED
  BY <1>2 DEF Sides

\* The nodes that the code looks up for a chain have places.
IsPlaced(c) == Placement(pos) /\ Looked(c) \subseteq DOMAIN pos

\* The waypoints: the ends on a side, the dummies in the center.
IsWaypoints(ws, c) ==
    /\ ws \in Seq(Points) /\ Len(ws) = Len(c.chain)
    /\ ws[1] = At(c.chain[1], Heading(c)[1], Heading(c)[2])
    /\ ws[Len(ws)] = At(c.chain[Len(c.chain)], -Heading(c)[1], -Heading(c)[2])
    /\ \A i \in 2 .. Len(ws) - 1 : ws[i] = At(c.chain[i], 0, 0)
    /\ \A i \in 1 .. Len(ws) : ws[i].aside = <<0, 0>>

LEMMA WaypointsOfChain ==
    ASSUME NEW c \in EdgeChain, Len(c.chain) >= 2, ~IsLoop(c), IsPlaced(c)
    PROVE  IsWaypoints(Waypoints(c), c)
<1>. DEFINE n == Len(c.chain)
            ws == Waypoints(c)
            d == Heading(c)
            Dir(i) == IF i = 1 THEN <<d[1], d[2]>> ELSE IF i = n THEN <<-d[1], -d[2]>> ELSE <<0, 0>>
            Mark(i) == At(c.chain[i], Dir(i)[1], Dir(i)[2])
<1>1. c.chain \in Seq(Nat)
  BY DEF EdgeChain
<1>2. n \in Nat /\ n >= 2 /\ DOMAIN c.chain = 1 .. n /\ \A i \in 1 .. n : c.chain[i] \in DOMAIN pos
  <2>1. n \in Nat /\ n >= 2 /\ DOMAIN c.chain = 1 .. n
    BY <1>1
  <2>2. Range(c.chain) \subseteq DOMAIN pos
    BY DEF IsPlaced, Looked
  <2>. QED
    BY <2>1, <2>2 DEF Range
<1>3. d[1] \in Int /\ d[2] \in Int /\ -d[1] \in Int /\ -d[2] \in Int
  BY HeadingIsDirection, DirectionParts
<1>4. ws = [i \in 1 .. n |-> Mark(i)]
  <2>1. ws = [i \in 1 .. n |-> IF i = 1 THEN At(c.chain[i], d[1], d[2])
                               ELSE IF i = n THEN At(c.chain[i], -d[1], -d[2])
                               ELSE At(c.chain[i], 0, 0)]
    BY <1>2 DEF Waypoints
  <2>2. ASSUME NEW i \in 1 .. n
        PROVE  Mark(i) = IF i = 1 THEN At(c.chain[i], d[1], d[2])
                         ELSE IF i = n THEN At(c.chain[i], -d[1], -d[2])
                         ELSE At(c.chain[i], 0, 0)
    <3>. HIDE DEF d, n
    <3>. QED
      OBVIOUS
  <2>. HIDE DEF d, n, ws, Mark
  <2>. QED
    BY <2>1, <2>2
<1>. HIDE DEF d, ws
<1>5. ASSUME NEW i \in 1 .. n
      PROVE  Mark(i) \in Points /\ Mark(i).aside = <<0, 0>>
  <2>. DEFINE a == Dir(i)[1]
              b == Dir(i)[2]
  <2>1. a \in Int /\ b \in Int
    BY <1>3
  <2>2. c.chain[i] \in DOMAIN pos /\ Placement(pos)
    BY <1>2 DEF IsPlaced
  <2>. HIDE DEF a, b
  <2>3. At(c.chain[i], a, b) \in Points /\ At(c.chain[i], a, b).aside = <<0, 0>>
    BY <2>1, <2>2, AtIsPoint
  <2>. QED
    BY <2>3 DEF a, b
<1>6. /\ 1 \in 1 .. n /\ n \in 1 .. n /\ n # 1
      /\ \A i \in 2 .. n - 1 : i \in 1 .. n /\ i # 1 /\ i # n
  BY <1>2
<1>7. /\ Mark(1) = At(c.chain[1], d[1], d[2]) /\ Mark(n) = At(c.chain[n], -d[1], -d[2])
      /\ \A i \in 2 .. n - 1 : Mark(i) = At(c.chain[i], 0, 0)
  <2>. HIDE DEF n
  <2>. QED
    BY <1>6
<1>. HIDE DEF Mark, Dir, n
<1>8. /\ ws \in Seq(Points) /\ Len(ws) = n
      /\ \A i \in 1 .. n : ws[i] = Mark(i)
  BY <1>2, <1>4, <1>5
<1>9. IsWaypoints(ws, c)
  <2>1. ws[1] = At(c.chain[1], d[1], d[2]) /\ ws[n] = At(c.chain[n], -d[1], -d[2])
    BY <1>6, <1>7, <1>8
  <2>2. \A i \in 2 .. n - 1 : ws[i] = At(c.chain[i], 0, 0)
    BY <1>6, <1>7, <1>8
  <2>3. \A i \in 1 .. n : ws[i].aside = <<0, 0>>
    BY <1>5, <1>8
  <2>. QED
    BY <1>8, <2>1, <2>2, <2>3 DEF IsWaypoints, n, d
<1>. QED
  BY <1>9 DEF ws

\* Ends of a route: those of its waypoints.
SameEnds(points, ws) ==
    points \in Seq(Points) /\ Len(points) >= 2 /\ points[1] = ws[1] /\ points[Len(points)] = ws[Len(ws)]

LEMMA StraightPoints ==
    ASSUME NEW ws \in Seq(Points), Len(ws) >= 2, NEW offset \in Int
    PROVE  /\ SameEnds(Straight(ws, offset), ws)
           /\ offset = 0 => Len(Straight(ws, offset)) = 2
           /\ offset # 0 => /\ Len(Straight(ws, offset)) = 3
                            /\ Straight(ws, offset)[2] =
                                 MovedAside(Middle(ws[1], ws[Len(ws)]), ws[1], ws[Len(ws)], offset)
<1>1. ws[1] \in Points /\ ws[Len(ws)] \in Points
  OBVIOUS
<1>2. MovedAside(Middle(ws[1], ws[Len(ws)]), ws[1], ws[Len(ws)], offset) \in Points
  BY <1>1, MiddleIsPoint, MovedIsPoint
<1>. QED
  BY <1>1, <1>2 DEF Straight, SameEnds

\* The height of the bends between the i-th waypoint and the next.
Level(ws, i, offset) == (ws[i].y + ws[i + 1].y) \div 2 + 180 * offset

\* Two bends to each step from waypoint to waypoint.
IsOrthogonal(points, ws, offset) ==
    /\ SameEnds(points, ws) /\ Len(points) = 2 * Len(ws)
    /\ \A i \in 1 .. Len(ws) - 1 : /\ points[2 * i] = Spot(ws[i].x, Level(ws, i, offset))
                                   /\ points[2 * i + 1] = Spot(ws[i + 1].x, Level(ws, i, offset))

LEMMA LevelIsNumber ==
    ASSUME NEW ws \in Seq(Points), NEW offset \in Int, NEW i \in 1 .. Len(ws) - 1
    PROVE  /\ Level(ws, i, offset) \in Int /\ ws[i] \in Points /\ ws[i + 1] \in Points
           /\ Spot(ws[i].x, Level(ws, i, offset)) \in Points
           /\ Spot(ws[i + 1].x, Level(ws, i, offset)) \in Points
<1>1. ws[i] \in Points /\ ws[i + 1] \in Points
  OBVIOUS
<1>2. ws[i].x \in Int /\ ws[i].y \in Int /\ ws[i + 1].x \in Int /\ ws[i + 1].y \in Int
  BY <1>1, PointFields
<1>3. \A a, b, d \in Int : (a + b) \div 2 + 180 * d \in Int
  OBVIOUS
<1>4. Level(ws, i, offset) \in Int
  BY <1>2, <1>3 DEF Level
<1>. QED
  BY <1>1, <1>2, <1>4, SpotIsPoint

LEMMA OrthogonalPoints ==
    ASSUME NEW ws \in Seq(Points), Len(ws) >= 2, NEW offset \in Int
    PROVE  IsOrthogonal(Orthogonal(ws, offset), ws, offset)
<1>. DEFINE n == Len(ws) - 1
            f == [i \in 1 .. n |-> <<Spot(ws[i].x, Level(ws, i, offset)),
                                     Spot(ws[i + 1].x, Level(ws, i, offset))>>]
            t == FlattenSeq(f)
            points == <<ws[1]>> \o t \o <<ws[Len(ws)]>>
            P == Points
<1>1. n \in Nat /\ Len(ws) = n + 1 /\ n >= 1 /\ ws[1] \in P /\ ws[n + 1] \in P
  OBVIOUS
<1>2. ASSUME NEW i \in 1 .. n
      PROVE  /\ Spot(ws[i].x, Level(ws, i, offset)) \in P
             /\ Spot(ws[i + 1].x, Level(ws, i, offset)) \in P
  BY LevelIsNumber
<1>3. points = Orthogonal(ws, offset)
  BY DEF Orthogonal, Level
<1>. HIDE DEF n, P
<1>4. \A i \in 1 .. n : /\ f[i] \in Seq(P) /\ Len(f[i]) = 2
                        /\ f[i][1] = Spot(ws[i].x, Level(ws, i, offset))
                        /\ f[i][2] = Spot(ws[i + 1].x, Level(ws, i, offset))
  BY <1>2
<1>5. IsBlocks(f, n, 2, P)
  <2>. DEFINE S == Seq(P)
  <2>1. \A i \in 1 .. n : f[i] \in S
    BY <1>4
  <2>. HIDE DEF S
  <2>2. f \in Seq(S) /\ Len(f) = n
    BY <2>1, <1>1
  <2>. QED
    BY <2>2, <1>4 DEF IsBlocks, S
<1>. HIDE DEF f
<1>6. HoldsBlocks(t, f, n, 2, P)
  BY <1>1, <1>5, FlattenBlocks
<1>. HIDE DEF t
<1>7. /\ t \in Seq(P) /\ Len(t) = 2 * n
      /\ \A i \in 1 .. n : t[2 * (i - 1) + 1] = f[i][1] /\ t[2 * (i - 1) + 2] = f[i][2]
  BY <1>6 DEF HoldsBlocks
<1>8. /\ points \in Seq(P) /\ Len(points) = 2 * (n + 1)
      /\ points[1] = ws[1] /\ points[2 * (n + 1)] = ws[n + 1]
      /\ \A k \in 1 .. 2 * n : points[k + 1] = t[k]
  <2>. DEFINE m == 2 * n
              a == ws[1]
              b == ws[n + 1]
  <2>1. /\ m \in Nat /\ Len(t) = m /\ t \in Seq(P) /\ a \in P /\ b \in P /\ m + 2 = 2 * (n + 1)
        /\ points = <<a>> \o t \o <<b>>
    BY <1>1, <1>7
  <2>. HIDE DEF m, a, b, points
  <2>2. /\ points \in Seq(P) /\ Len(points) = m + 2 /\ points[1] = a /\ points[m + 2] = b
        /\ \A k \in 1 .. m : points[k + 1] = t[k]
    BY <2>1, Framed
  <2>. QED
    BY <2>1, <2>2 DEF m, a, b
<1>. HIDE DEF points
<1>9. ASSUME NEW i \in 1 .. n
      PROVE  /\ points[2 * i] = Spot(ws[i].x, Level(ws, i, offset))
             /\ points[2 * i + 1] = Spot(ws[i + 1].x, Level(ws, i, offset))
  <2>1. /\ 2 * (i - 1) + 1 \in 1 .. 2 * n /\ 2 * (i - 1) + 2 \in 1 .. 2 * n
        /\ (2 * (i - 1) + 1) + 1 = 2 * i /\ (2 * (i - 1) + 2) + 1 = 2 * i + 1
    BY <1>1
  <2>2. points[2 * i] = t[2 * (i - 1) + 1] /\ points[2 * i + 1] = t[2 * (i - 1) + 2]
    BY <2>1, <1>8
  <2>. QED
    BY <2>2, <1>4, <1>7
<1>10. SameEnds(points, ws)
  BY <1>1, <1>8 DEF SameEnds, P
<1>11. Len(ws) - 1 = n /\ 2 * (n + 1) = 2 * Len(ws)
  BY <1>1
<1>12. IsOrthogonal(points, ws, offset)
  BY <1>8, <1>9, <1>10, <1>11 DEF IsOrthogonal
<1>. QED
  BY <1>3, <1>12

\* The curve from one waypoint to the next: two control points and its end.
LEMMA SinglePoints ==
    ASSUME NEW p \in Points, NEW q \in Points, NEW vertical \in BOOLEAN, NEW offset \in Int
    PROVE  /\ SingleCurve(p, q, vertical, offset) \in Seq(Points)
           /\ Len(SingleCurve(p, q, vertical, offset)) = 3
           /\ SingleCurve(p, q, vertical, offset)[3] = q
           /\ \E m : SingleCurve(p, q, vertical, offset)[1] = MovedAside(m, p, q, offset)
<1>. DEFINE m == Middle(p, q)
            first == IF vertical THEN Spot(p.x, m.y) ELSE Spot(m.x, p.y)
            second == IF vertical THEN Spot(q.x, m.y) ELSE Spot(m.x, q.y)
<1>1. /\ m.x \in Int /\ m.y \in Int /\ p.x \in Int /\ p.y \in Int /\ q.x \in Int /\ q.y \in Int
  BY MiddleIsPoint, PointFields
<1>. HIDE DEF m
<1>2. first \in Points /\ second \in Points
  BY <1>1, SpotIsPoint
<1>3. SingleCurve(p, q, vertical, offset) = <<MovedAside(first, p, q, offset), MovedAside(second, p, q, offset), q>>
  BY DEF SingleCurve, m
<1>. HIDE DEF first, second
<1>4. MovedAside(first, p, q, offset) \in Points /\ MovedAside(second, p, q, offset) \in Points
  BY <1>2, MovedIsPoint
<1>. QED
  BY <1>3, <1>4

LEMMA SmoothPoints ==
    ASSUME NEW ws \in Seq(Points), NEW i \in 1 .. Len(ws) - 1
    PROVE  /\ SmoothCurve(ws, i) \in Seq(Points) /\ Len(SmoothCurve(ws, i)) = 3
           /\ SmoothCurve(ws, i)[3] = ws[i + 1]
<1>. DEFINE p == ws[i]
            q == ws[i + 1]
            before == IF i > 1 THEN ws[i - 1] ELSE Spot(2 * p.x - q.x, 2 * p.y - q.y)
            after == IF i + 1 < Len(ws) THEN ws[i + 2] ELSE Spot(2 * q.x - p.x, 2 * q.y - p.y)
            a == Spot(p.x + (after.x - before.x) \div 6, p.y + (after.y - before.y) \div 6)
            b == Spot(q.x - (after.x - p.x) \div 6, q.y - (after.y - p.y) \div 6)
<1>1. p \in Points /\ q \in Points
  OBVIOUS
<1>2. p.x \in Int /\ p.y \in Int /\ q.x \in Int /\ q.y \in Int
  BY <1>1, PointFields
<1>. HIDE DEF p, q
<1>3. Spot(2 * p.x - q.x, 2 * p.y - q.y) \in Points /\ Spot(2 * q.x - p.x, 2 * q.y - p.y) \in Points
  <2>0. \A x, y \in Int : 2 * x - y \in Int
    OBVIOUS
  <2>1. 2 * p.x - q.x \in Int /\ 2 * p.y - q.y \in Int /\ 2 * q.x - p.x \in Int /\ 2 * q.y - p.y \in Int
    BY <1>2, <2>0
  <2>. QED
    BY <2>1, SpotIsPoint
<1>4. before \in Points
  <2>1. i > 1 => ws[i - 1] \in Points
    OBVIOUS
  <2>. QED
    BY <1>3, <2>1
<1>5. after \in Points
  <2>1. i + 1 < Len(ws) => ws[i + 2] \in Points
    OBVIOUS
  <2>. QED
    BY <1>3, <2>1
<1>. HIDE DEF before, after
<1>6. before.x \in Int /\ before.y \in Int /\ after.x \in Int /\ after.y \in Int
  BY <1>4, <1>5, PointFields
<1>7. \A x, y, z \in Int : x + (y - z) \div 6 \in Int /\ x - (y - z) \div 6 \in Int
  OBVIOUS
<1>8. a \in Points /\ b \in Points
  <2>1. /\ p.x + (after.x - before.x) \div 6 \in Int /\ p.y + (after.y - before.y) \div 6 \in Int
        /\ q.x - (after.x - p.x) \div 6 \in Int /\ q.y - (after.y - p.y) \div 6 \in Int
    BY <1>2, <1>6, <1>7
  <2>. QED
    BY <2>1, SpotIsPoint
<1>9. SmoothCurve(ws, i) = <<a, b, q>>
  BY DEF SmoothCurve, p, q, before, after
<1>. HIDE DEF a, b
<1>10. SmoothCurve(ws, i) \in Seq(Points) /\ Len(SmoothCurve(ws, i)) = 3 /\ SmoothCurve(ws, i)[3] = q
  BY <1>1, <1>8, <1>9 DEF q
<1>. QED
  BY <1>10 DEF q

LEMMA CurvePoints ==
    ASSUME NEW ws \in Seq(Points), Len(ws) >= 2, NEW i \in 1 .. Len(ws) - 1,
           NEW vertical \in BOOLEAN, NEW offset \in Int
    PROVE  /\ Curve(ws, i, vertical, offset) \in Seq(Points) /\ Len(Curve(ws, i, vertical, offset)) = 3
           /\ Curve(ws, i, vertical, offset)[3] = ws[i + 1]
<1>1. CASE Len(ws) = 2
  <2>1. i = 1 /\ i + 1 = 2 /\ ws[1] \in Points /\ ws[2] \in Points
    BY <1>1
  <2>2. Curve(ws, i, vertical, offset) = SingleCurve(ws[1], ws[2], vertical, offset)
    BY <1>1 DEF Curve
  <2>3. /\ SingleCurve(ws[1], ws[2], vertical, offset) \in Seq(Points)
        /\ Len(SingleCurve(ws[1], ws[2], vertical, offset)) = 3
        /\ SingleCurve(ws[1], ws[2], vertical, offset)[3] = ws[2]
    BY <2>1, SinglePoints
  <2>. QED
    BY <2>1, <2>2, <2>3
<1>2. CASE Len(ws) # 2
  BY <1>2, SmoothPoints DEF Curve
<1>. QED
  BY <1>1, <1>2

\* A curve to each step from waypoint to waypoint: every third point is one.
IsBezier(points, ws, vertical, offset) ==
    /\ SameEnds(points, ws) /\ Len(points) = 3 * (Len(ws) - 1) + 1
    /\ \A i \in 1 .. Len(ws) - 1 :
          /\ points[3 * i - 2] = ws[i] /\ points[3 * i + 1] = ws[i + 1]
          /\ points[3 * i - 1] = Curve(ws, i, vertical, offset)[1]

LEMMA BezierPoints ==
    ASSUME NEW ws \in Seq(Points), Len(ws) >= 2, NEW vertical \in BOOLEAN, NEW offset \in Int
    PROVE  IsBezier(Bezier(ws, vertical, offset), ws, vertical, offset)
<1>. DEFINE n == Len(ws) - 1
            Part(i) == Curve(ws, i, vertical, offset)
            f == [i \in 1 .. n |-> Part(i)]
            t == FlattenSeq(f)
            points == <<ws[1]>> \o t
            P == Points
<1>1. n \in Nat /\ Len(ws) = n + 1 /\ n >= 1 /\ ws[1] \in P /\ ws[n + 1] \in P
  OBVIOUS
<1>2. ASSUME NEW i \in 1 .. n
      PROVE  Part(i) \in Seq(P) /\ Len(Part(i)) = 3 /\ Part(i)[3] = ws[i + 1]
  BY CurvePoints
<1>3. points = Bezier(ws, vertical, offset)
  BY DEF Bezier
<1>. HIDE DEF n, P, Part
<1>4. \A i \in 1 .. n : /\ f[i] \in Seq(P) /\ Len(f[i]) = 3
                        /\ f[i][1] = Part(i)[1] /\ f[i][3] = ws[i + 1]
  BY <1>2
<1>5. IsBlocks(f, n, 3, P)
  <2>. DEFINE S == Seq(P)
  <2>1. \A i \in 1 .. n : f[i] \in S
    BY <1>4
  <2>. HIDE DEF S
  <2>2. f \in Seq(S) /\ Len(f) = n
    BY <2>1, <1>1
  <2>. QED
    BY <2>2, <1>4 DEF IsBlocks, S
<1>. HIDE DEF f
<1>6. HoldsBlocks(t, f, n, 3, P)
  BY <1>1, <1>5, FlattenBlocks
<1>. HIDE DEF t
<1>7. /\ t \in Seq(P) /\ Len(t) = 3 * n
      /\ \A i \in 1 .. n : t[3 * (i - 1) + 1] = f[i][1] /\ t[3 * (i - 1) + 3] = f[i][3]
  BY <1>6 DEF HoldsBlocks
<1>8. /\ points \in Seq(P) /\ Len(points) = 3 * n + 1 /\ points[1] = ws[1]
      /\ \A k \in 1 .. 3 * n : points[k + 1] = t[k]
  <2>. DEFINE m == 3 * n
              a == ws[1]
  <2>1. m \in Nat /\ Len(t) = m /\ t \in Seq(P) /\ a \in P /\ points = <<a>> \o t
    BY <1>1, <1>7
  <2>. HIDE DEF m, a, points
  <2>2. /\ points \in Seq(P) /\ Len(points) = m + 1 /\ points[1] = a
        /\ \A k \in 1 .. m : points[k + 1] = t[k]
    BY <2>1, Framed
  <2>. QED
    BY <2>2 DEF m, a
<1>. HIDE DEF points
<1>9. ASSUME NEW i \in 1 .. n
      PROVE  /\ points[3 * i - 1] = Part(i)[1]
             /\ points[3 * i + 1] = ws[i + 1]
  <2>1. /\ 3 * (i - 1) + 1 \in 1 .. 3 * n /\ 3 * (i - 1) + 3 \in 1 .. 3 * n
        /\ (3 * (i - 1) + 1) + 1 = 3 * i - 1 /\ (3 * (i - 1) + 3) + 1 = 3 * i + 1
    BY <1>1
  <2>2. points[3 * i - 1] = t[3 * (i - 1) + 1] /\ points[3 * i + 1] = t[3 * (i - 1) + 3]
    BY <2>1, <1>8
  <2>. QED
    BY <2>2, <1>4, <1>7
<1>10. ASSUME NEW i \in 1 .. n
       PROVE  points[3 * i - 2] = ws[i]
  <2>1. CASE i = 1
    BY <2>1, <1>8
  <2>2. CASE i # 1
    <3>. DEFINE h == i - 1
    <3>1. h \in 1 .. n /\ 3 * h + 1 = 3 * i - 2 /\ h + 1 = i
      BY <2>2, <1>1
    <3>2. points[3 * h + 1] = ws[h + 1]
      BY <3>1, <1>9
    <3>. QED
      BY <3>1, <3>2
  <2>. QED
    BY <2>1, <2>2
<1>11. points[3 * n + 1] = ws[n + 1]
  <2>1. n \in 1 .. n
    BY <1>1
  <2>. QED
    BY <2>1, <1>9
<1>12. SameEnds(points, ws)
  BY <1>1, <1>8, <1>11 DEF SameEnds, P
<1>13. IsBezier(points, ws, vertical, offset)
  <2>1. Len(ws) - 1 = n
    BY <1>1
  <2>. QED
    BY <2>1, <1>8, <1>9, <1>10, <1>12 DEF IsBezier, Part
<1>. QED
  BY <1>3, <1>13


-----------------------------------------------------------------------------
(* The route of a chain.                                                    *)

OffsetOf(i) == Offset(chains[i], Met(Pair(chains[i]), i - 1))

LEMMA OffsetIsNumber ==
    ASSUME chains \in Seq(EdgeChain), NEW i \in DOMAIN chains
    PROVE  OffsetOf(i) \in Int
<1>. DEFINE p == Pair(chains[i])
<1>1. i - 1 \in 0 .. Len(chains)
  OBVIOUS
<1>2. Met(p, i - 1) \in Nat /\ PairCount(p) \in Nat
  BY <1>1, MetIsCounted
<1>. HIDE DEF p
<1>3. 2 * Met(p, i - 1) - (PairCount(p) - 1) \in Int
  BY <1>2
<1>. QED
  BY <1>3 DEF OffsetOf, Offset, p

\* The points of a self-loop: three for lines, else four.
LoopRoute(points) ==
    /\ points \in Seq(Points) /\ Len(points) \in {3, 4}
    /\ Len(points) = 3 <=> style = "Straight"

LEMMA LoopShape ==
    ASSUME ArgumentsInv, NEW i \in DOMAIN chains, IsLoop(chains[i]), IsPlaced(chains[i])
    PROVE  LoopRoute(PointsOf(i))
<1>. DEFINE c == chains[i]
            offset == OffsetOf(i)
            x == pos[c.source].x
            y == pos[c.source].y
            w == Max({16, pos[c.source].width})
            h == Max({16, pos[c.source].height})
            size == pos[c.source].height
            r == 360 * Magnitude(offset)
            Over(dx, dy) == Spot(60 * x + dx, 60 * y - 30 * h - dy)
<1>1. x \in Int /\ y \in Int /\ w \in Int /\ h \in Int /\ r \in Int
  <2>1. c.source \in DOMAIN pos /\ Placement(pos)
    BY DEF IsPlaced, Looked
  <2>2. /\ x \in Int /\ y \in Int /\ pos[c.source].width \in Nat /\ pos[c.source].height \in Nat
    BY <2>1, AtIsPoint
  <2>3. w \in Int /\ h \in Int
    <3>1. \A n \in Int : Max({16, n}) \in Int
      BY MaxOfTwo
    <3>. QED
      BY <2>2, <3>1
  <2>4. offset \in Int
    BY OffsetIsNumber DEF ArgumentsInv
  <2>. QED
    BY <2>2, <2>3, <2>4 DEF Magnitude
<1>2. PointsOf(i) = <<Over(12 * w, 0)>> \o
          (CASE style = "Straight" -> <<Over(0, 1200 + r)>>
             [] style = "Orthogonal" -> <<Over(12 * w, 900 + r), Over(-12 * w, 900 + r)>>
             [] style = "Bezier" -> <<Over(36 * w + 900 + r, 1500 + r), Over(-36 * w - 900 - r, 1500 + r)>>)
          \o <<Over(-12 * w, 0)>>
  BY DEF PointsOf, LoopPoints, OffsetOf
<1>. HIDE DEF x, y, w, h, r
<1>3. ASSUME NEW dx \in Int, NEW dy \in Int
      PROVE  Over(dx, dy) \in Points
  <2>1. 60 * x + dx \in Int /\ 60 * y - 30 * h - dy \in Int
    BY <1>1
  <2>. QED
    BY <2>1, SpotIsPoint
<1>. HIDE DEF Over
<1>4. /\ 12 * w \in Int /\ -12 * w \in Int /\ 0 \in Int /\ 1200 + r \in Int /\ 900 + r \in Int /\ 1500 + r \in Int
      /\ 36 * w + 900 + r \in Int /\ -36 * w - 900 - r \in Int
  BY <1>1
<1>5. /\ Over(12 * w, 0) \in Points /\ Over(-12 * w, 0) \in Points /\ Over(0, 1200 + r) \in Points
      /\ Over(12 * w, 900 + r) \in Points /\ Over(-12 * w, 900 + r) \in Points
      /\ Over(36 * w + 900 + r, 1500 + r) \in Points /\ Over(-36 * w - 900 - r, 1500 + r) \in Points
  BY <1>3, <1>4
<1>6. CASE style = "Straight"
  <2>1. PointsOf(i) = <<Over(12 * w, 0)>> \o <<Over(0, 1200 + r)>> \o <<Over(-12 * w, 0)>>
    BY <1>2, <1>6
  <2>. QED
    BY <1>5, <1>6, <2>1 DEF LoopRoute
<1>7. CASE style = "Orthogonal"
  <2>1. PointsOf(i) = <<Over(12 * w, 0)>> \o <<Over(12 * w, 900 + r), Over(-12 * w, 900 + r)>> \o <<Over(-12 * w, 0)>>
    BY <1>2, <1>7
  <2>. QED
    BY <1>5, <1>7, <2>1 DEF LoopRoute
<1>8. CASE style = "Bezier"
  <2>1. PointsOf(i) = <<Over(12 * w, 0)>>
            \o <<Over(36 * w + 900 + r, 1500 + r), Over(-36 * w - 900 - r, 1500 + r)>> \o <<Over(-12 * w, 0)>>
    BY <1>2, <1>8
  <2>. QED
    BY <1>5, <1>8, <2>1 DEF LoopRoute
<1>. QED
  BY <1>6, <1>7, <1>8 DEF ArgumentsInv

LEMMA VerticalOrNot ==
    ASSUME NEW c, ~IsLoop(c), IsPlaced(c)
    PROVE  /\ Dx(c) \in Int /\ Dy(c) \in Int /\ Vertical(c) \in BOOLEAN
           /\ c.source \in DOMAIN pos /\ c.target \in DOMAIN pos
<1>1. c.source \in DOMAIN pos /\ c.target \in DOMAIN pos /\ Placement(pos)
  BY DEF IsPlaced, Looked
<1>2. /\ pos[c.source].x \in Int /\ pos[c.source].y \in Int
      /\ pos[c.target].x \in Int /\ pos[c.target].y \in Int
  BY <1>1, AtIsPoint
<1>3. Dx(c) \in Int /\ Dy(c) \in Int
  BY <1>2 DEF Dx, Dy
<1>4. Magnitude(Dx(c)) \in Int /\ Magnitude(Dy(c)) \in Int
  BY <1>3 DEF Magnitude
<1>. QED
  BY <1>1, <1>3, <1>4 DEF Vertical

\* The points of any other chain are those of its waypoints, in the style asked
\* for.
ChainPoints(i, ws, points) ==
    /\ IsWaypoints(ws, chains[i]) /\ Len(ws) >= 2 /\ SameEnds(points, ws)
    /\ OffsetOf(i) \in Int /\ Vertical(chains[i]) \in BOOLEAN
    /\ style = "Straight" => points = Straight(ws, OffsetOf(i))
    /\ style = "Orthogonal" => IsOrthogonal(points, ws, OffsetOf(i))
    /\ style = "Bezier" => IsBezier(points, ws, Vertical(chains[i]), OffsetOf(i))

LEMMA ChainShape ==
    ASSUME ArgumentsInv, NEW i \in DOMAIN chains, ~IsLoop(chains[i]), IsDrawn(chains[i]), IsPlaced(chains[i])
    PROVE  ChainPoints(i, Waypoints(chains[i]), PointsOf(i))
<1>. DEFINE ws == Waypoints(chains[i])
            offset == OffsetOf(i)
            vertical == Vertical(chains[i])
            points == PointsOf(i)
<1>1. chains[i] \in EdgeChain /\ Len(chains[i].chain) >= 2 /\ offset \in Int /\ vertical \in BOOLEAN
  BY OffsetIsNumber, VerticalOrNot DEF ArgumentsInv, IsDrawn
<1>2. IsWaypoints(ws, chains[i])
  BY <1>1, WaypointsOfChain
<1>3. ws \in Seq(Points) /\ Len(ws) >= 2
  BY <1>1, <1>2 DEF IsWaypoints
<1>4. points = Styled(chains[i], offset)
  BY DEF PointsOf, OffsetOf
<1>5. /\ style = "Straight" => points = Straight(ws, offset)
      /\ style = "Orthogonal" => points = Orthogonal(ws, offset)
      /\ style = "Bezier" => points = Bezier(ws, vertical, offset)
  BY <1>4 DEF Styled
<1>. HIDE DEF ws, offset, points, vertical
<1>6. CASE style = "Straight"
  <2>1. SameEnds(points, ws)
    BY <1>1, <1>3, <1>5, <1>6, StraightPoints
  <2>. QED
    BY <1>1, <1>2, <1>3, <1>5, <1>6, <2>1 DEF ChainPoints, ws, offset, points, vertical
<1>7. CASE style = "Orthogonal"
  <2>1. IsOrthogonal(points, ws, offset)
    BY <1>1, <1>3, <1>5, <1>7, OrthogonalPoints
  <2>2. SameEnds(points, ws)
    BY <2>1 DEF IsOrthogonal
  <2>. QED
    BY <1>1, <1>2, <1>3, <1>7, <2>1, <2>2 DEF ChainPoints, ws, offset, points, vertical
<1>8. CASE style = "Bezier"
  <2>1. IsBezier(points, ws, vertical, offset)
    BY <1>1, <1>3, <1>5, <1>8, BezierPoints
  <2>2. SameEnds(points, ws)
    BY <2>1 DEF IsBezier
  <2>. QED
    BY <1>1, <1>2, <1>3, <1>8, <2>1, <2>2 DEF ChainPoints, ws, offset, points, vertical
<1>. QED
  BY <1>6, <1>7, <1>8 DEF ArgumentsInv

\* Every route has at least two points.
LEMMA RouteHasPoints ==
    ASSUME ArgumentsInv, NEW i \in DOMAIN chains, IsDrawn(chains[i]), IsPlaced(chains[i])
    PROVE  PointsOf(i) \in Seq(Points) /\ Len(PointsOf(i)) >= 2
<1>1. CASE IsLoop(chains[i])
  <2>1. PointsOf(i) \in Seq(Points) /\ Len(PointsOf(i)) \in {3, 4}
    BY <1>1, LoopShape DEF LoopRoute
  <2>2. \A n \in {3, 4} : n >= 2
    OBVIOUS
  <2>. QED
    BY <2>1, <2>2
<1>2. CASE ~IsLoop(chains[i])
  BY <1>2, ChainShape DEF ChainPoints, SameEnds
<1>. QED
  BY <1>1, <1>2

-----------------------------------------------------------------------------
(* The loop over the chains.                                                *)

LEMMA InitInv == Init => IInv
<1>. SUFFICES ASSUME Init PROVE IInv
  OBVIOUS
<1>1. ArgumentsInv
  BY InputsAssumption, ChainsAssumption, StylesAssumption DEF Init, ArgumentsInv
<1>2. chains \in Seq(EdgeChain) /\ Len(chains) \in Nat
  BY <1>1 DEF ArgumentsInv
<1>3. Behind = {} /\ routes = <<>>
  BY DEF Behind, Init
<1>4. Picked(Drawing, {}) = <<>>
  <2>1. Cardinality({}) = 0
    BY FS_EmptySet
  <2>. QED
    BY <2>1 DEF Picked
<1>5. ASSUME NEW p
      PROVE  Met(p, 0) = 0
  <2>1. {i \in 1 .. 0 : Pair(chains[i]) = p} = {}
    OBVIOUS
  <2>. QED
    BY <2>1, FS_EmptySet DEF Met
<1>6. seen = [p \in {Pair(c) : c \in Range(chains)} |-> Met(p, 0)]
  BY <1>5 DEF Init
<1>7. LoopInv
  <2>1. LastMet = 0
    BY DEF Init, LastMet
  <2>. QED
    BY <1>2, <1>6, <2>1 DEF Init, LoopInv
<1>8. LookedUpInv
  BY DEF Init, LookedUpInv
<1>. QED
  BY <1>1, <1>3, <1>4, <1>7, <1>8 DEF IInv, RoutesInv

\* Nothing of the arguments changes, so neither do the routes of the chains.
LEMMA DrawingIsKept ==
    ASSUME UNCHANGED <<chains, pos, style>>
    PROVE  /\ Drawing' = Drawing
           /\ \A p, k : Met(p, k)' = Met(p, k)
           /\ \A p : PairCount(p)' = PairCount(p)
<1>1. \A c : Heading(c)' = Heading(c) /\ Vertical(c)' = Vertical(c)
  BY DEF Heading, Vertical, Dx, Dy, Magnitude
<1>2. \A c : Waypoints(c)' = Waypoints(c)
  <2>1. \A v, i, j : At(v, i, j)' = At(v, i, j)
    BY DEF At, Spot
  <2>. QED
    BY <1>1, <2>1 DEF Waypoints
<1>3. \A p, k : Met(p, k)' = Met(p, k)
  BY DEF Met, Pair
<1>4. \A p : PairCount(p)' = PairCount(p)
  BY DEF PairCount, Pair
<1>5. \A c, offset : LoopPoints(c, offset)' = LoopPoints(c, offset)
  BY DEF LoopPoints, Spot, Magnitude
<1>6. \A c, offset : Styled(c, offset)' = Styled(c, offset)
  BY <1>1, <1>2 DEF Styled
<1>7. \A c, before : Offset(c, before)' = Offset(c, before)
  BY <1>4 DEF Offset, Pair
<1>8. \A i : PointsOf(i)' = PointsOf(i)
  BY <1>2, <1>3, <1>5, <1>6, <1>7 DEF PointsOf, IsLoop, Pair
<1>9. Drawing' = Drawing
  BY <1>8 DEF Drawing, RouteOf, ArrowheadOf, IsLoop
<1>. QED
  BY <1>3, <1>4, <1>9

\* The loop goes past a chain: the chain is counted, and its route, if it has
\* one, is the last.
LEMMA PastChain ==
    ASSUME IInv, AtChain
    PROVE  /\ next \in DOMAIN chains /\ Pair(C) \in DOMAIN seen /\ seen[Pair(C)] = Met(Pair(C), next - 1)
           /\ IsDrawn(C) => Picked(Drawing, Behind \union {next}) = Append(routes, Drawing[next])
           /\ Counted => seen' = [p \in {Pair(c) : c \in Range(chains)} |-> Met(p, next)]
<1>1. chains \in Seq(EdgeChain) /\ Len(chains) \in Nat /\ result = "none"
  BY DEF IInv, ArgumentsInv, AtChain
<1>2. next \in Nat \ {0} /\ next \in DOMAIN chains
  BY <1>1 DEF IInv, LoopInv, AtChain
<1>. DEFINE P == {Pair(c) : c \in Range(chains)}
<1>3. Pair(C) \in P
  BY <1>2 DEF C, Range
<1>4. seen = [p \in P |-> Met(p, next - 1)]
  <2>1. LastMet = next - 1
    BY <1>1 DEF LastMet
  <2>. QED
    BY <2>1 DEF IInv, LoopInv
<1>5. ASSUME Counted
      PROVE  seen' = [p \in P |-> Met(p, next)]
  <2>1. seen' = [p \in P |-> IF p = Pair(C) THEN Met(p, next - 1) + 1 ELSE Met(p, next - 1)]
    BY <1>3, <1>4, <1>5 DEF Counted
  <2>2. ASSUME NEW p
        PROVE  Met(p, next) = IF p = Pair(C) THEN Met(p, next - 1) + 1 ELSE Met(p, next - 1)
    BY <1>2, MetGrows DEF C
  <2>. HIDE DEF P
  <2>. QED
    BY <2>1, <2>2
<1>6. ASSUME IsDrawn(C)
      PROVE  Picked(Drawing, Behind \union {next}) = Append(routes, Drawing[next])
  <2>. DEFINE T == {Drawing[i] : i \in DOMAIN chains}
  <2>1. /\ next \in Nat /\ Behind \in SUBSET NodeIds(next) /\ Behind \subseteq DOMAIN chains
    BY <1>1, <1>2 DEF Behind, NodeIds
  <2>2. Drawing[next] \in T /\ \A i \in Behind : Drawing[i] \in T
    BY <1>2, <2>1
  <2>. HIDE DEF T
  <2>3. Picked(Drawing, Behind \union {next}) = Append(Picked(Drawing, Behind), Drawing[next])
    BY <2>1, <2>2, PickedAppends
  <2>. QED
    BY <2>3 DEF IInv, RoutesInv
<1>7. Pair(C) \in DOMAIN seen /\ seen[Pair(C)] = Met(Pair(C), next - 1)
  <2>. HIDE DEF P
  <2>. QED
    BY <1>3, <1>4
<1>. QED
  BY <1>2, <1>5, <1>6, <1>7

LEMMA ArgumentsAreKept ==
    ASSUME IInv, UNCHANGED <<chains, pos, style>>
    PROVE  ArgumentsInv'
<1>1. SoundChains(chains)'
  BY DEF IInv, ArgumentsInv
<1>. QED
  BY <1>1 DEF IInv, ArgumentsInv

LEMMA LookedUpIsKept ==
    ASSUME IInv, UNCHANGED <<chains, pos, next>>
    PROVE  LookedUpInv'
  BY DEF IInv, LookedUpInv, Looked, IsLoop

\* The counters in the next state, of the chains that stay the same.
LEMMA SeenIsCounted ==
    ASSUME UNCHANGED chains, NEW k, seen' = [p \in {Pair(c) : c \in Range(chains)} |-> Met(p, k)], LastMet' = k
    PROVE  (seen = [p \in {Pair(c) : c \in Range(chains)} |-> Met(p, LastMet)])'
<1>1. {Pair(c) : c \in Range(chains)}' = {Pair(c) : c \in Range(chains)}
  BY DEF Range
<1>2. \A p : Met(p, LastMet)' = Met(p, k)
  BY DEF Met
<1>. QED
  BY <1>1, <1>2

\* Passing a chain, with its route if it gets one.
LEMMA PassingKeepsInv ==
    ASSUME IInv, AtChain, Counted, next' = next + 1, UNCHANGED <<chains, pos, style, result>>,
           Looked(C) \subseteq DOMAIN pos,
           IF IsDrawn(C) THEN routes' = Append(routes, Drawing[next]) ELSE routes' = routes
    PROVE  IInv'
<1>1. /\ next \in DOMAIN chains /\ next \in 1 .. Len(chains) /\ result = "none"
      /\ seen' = [p \in {Pair(c) : c \in Range(chains)} |-> Met(p, next)]
  BY PastChain DEF IInv, ArgumentsInv, AtChain
<1>2. Drawing' = Drawing /\ \A p, k : Met(p, k)' = Met(p, k)
  BY DrawingIsKept
<1>3. LoopInv'
  <2>1. /\ next' \in 1 .. Len(chains') + 1 /\ result' = "none" /\ next' - 1 = next
    BY <1>1
  <2>. QED
    BY <1>1, <2>1, SeenIsCounted DEF LoopInv, LastMet
<1>4. IF IsDrawn(C) THEN Behind' = Behind \union {next} ELSE Behind' = Behind
  <2>1. next' - 1 = next /\ next \in Nat /\ next \in 1 .. next /\ 1 .. next = (1 .. next - 1) \union {next}
    BY <1>1
  <2>2. \A k : IsDrawn(chains[k])' = IsDrawn(chains[k])
    BY DEF IsDrawn, IsLoop
  <2>3. Behind' = {k \in 1 .. next : IsDrawn(chains[k])}
    BY <2>1, <2>2 DEF Behind
  <2>. QED
    BY <2>1, <2>3 DEF Behind, C
<1>5. RoutesInv'
  <2>1. CASE IsDrawn(C)
    <3>1. Picked(Drawing, Behind') = Append(routes, Drawing[next])
      BY <1>4, <2>1, PastChain
    <3>. QED
      BY <3>1, <1>2, <2>1 DEF RoutesInv, Picked
  <2>2. CASE ~IsDrawn(C)
    BY <1>2, <1>4, <2>2 DEF IInv, RoutesInv, Picked
  <2>. QED
    BY <2>1, <2>2
<1>6. LookedUpInv'
  <2>1. next \in Nat /\ \A k \in 1 .. next' - 1 : k \in 1 .. next - 1 \/ k = next
    BY <1>1
  <2>2. \A k \in 1 .. next' - 1 : Looked(chains[k]) \subseteq DOMAIN pos
    BY <2>1 DEF IInv, LookedUpInv, C
  <2>. QED
    BY <2>2 DEF LookedUpInv, Looked, IsLoop
<1>. QED
  BY <1>3, <1>5, <1>6, ArgumentsAreKept DEF IInv

\* As many waypoints as nodes of the chain.
LEMMA ManyWaypoints ==
    ASSUME IInv, AtChain
    PROVE  Len(Waypoints(C)) = Len(C.chain)
<1>1. C \in EdgeChain
  BY PastChain DEF IInv, ArgumentsInv, C
<1>2. C.chain \in Seq(Nat)
  BY <1>1 DEF EdgeChain
<1>3. DOMAIN C.chain = 1 .. Len(C.chain) /\ Len(C.chain) \in Nat
  BY <1>2
<1>. QED
  BY <1>3 DEF Waypoints

\* With the displacement that the code counts, the route it makes is the one of
\* Drawing.
LEMMA DrawsTheChain ==
    ASSUME IInv, AtChain
    PROVE  /\ IsLoop(C) => RouteOf(C, LoopPoints(C, Offset(C, seen[Pair(C)]))) = Drawing[next]
           /\ ~IsLoop(C) => RouteOf(C, Styled(C, Offset(C, seen[Pair(C)]))) = Drawing[next]
<1>1. next \in DOMAIN chains /\ seen[Pair(C)] = Met(Pair(C), next - 1)
  BY PastChain
<1>. QED
  BY <1>1 DEF Drawing, PointsOf, C

LEMMA StepInv == IInv /\ [Next]_vars => IInv'
<1>. SUFFICES ASSUME IInv, [Next]_vars PROVE IInv'
  OBVIOUS
<1>1. CASE Dangling
  <2>1. AtChain /\ Counted /\ result' = "DanglingEdge" /\ UNCHANGED <<chains, pos, style, next, routes>>
    BY <1>1 DEF Dangling
  <2>2. /\ next \in 1 .. Len(chains)
        /\ seen' = [p \in {Pair(c) : c \in Range(chains)} |-> Met(p, next)]
    BY <2>1, PastChain DEF IInv, ArgumentsInv
  <2>3. LastMet' = next
    BY <2>1 DEF LastMet
  <2>4. LoopInv'
    BY <2>1, <2>2, <2>3, SeenIsCounted DEF LoopInv
  <2>5. RoutesInv'
    <3>1. Drawing' = Drawing
      BY <2>1, DrawingIsKept
    <3>2. Behind' = Behind
      BY <2>1 DEF Behind, IsDrawn, IsLoop
    <3>. QED
      BY <2>1, <3>1, <3>2 DEF IInv, RoutesInv, Picked
  <2>. QED
    BY <2>1, <2>4, <2>5, ArgumentsAreKept, LookedUpIsKept DEF IInv
<1>2. CASE RouteSelfLoop
  <2>1. /\ AtChain /\ Counted /\ next' = next + 1 /\ UNCHANGED <<chains, pos, style, result>>
        /\ Looked(C) \subseteq DOMAIN pos
        /\ IsLoop(C) /\ IsDrawn(C)
    BY <1>2 DEF RouteSelfLoop, IsDrawn
  <2>2. routes' = Append(routes, Drawing[next])
    BY <1>2, <2>1, DrawsTheChain DEF RouteSelfLoop
  <2>. QED
    BY <2>1, <2>2, PassingKeepsInv
<1>3. CASE RouteChain
  <2>1. /\ AtChain /\ Counted /\ next' = next + 1 /\ UNCHANGED <<chains, pos, style, result>>
        /\ Looked(C) \subseteq DOMAIN pos
        /\ ~IsLoop(C) /\ Len(Waypoints(C)) >= 2
    BY <1>3 DEF RouteChain
  <2>2. routes' = Append(routes, Drawing[next])
    BY <1>3, <2>1, DrawsTheChain DEF RouteChain
  <2>3. IsDrawn(C)
    BY <2>1, ManyWaypoints DEF IsDrawn
  <2>. QED
    BY <2>1, <2>2, <2>3, PassingKeepsInv
<1>4. CASE SkipShortChain
  <2>1. /\ AtChain /\ Counted /\ next' = next + 1 /\ UNCHANGED <<chains, pos, style, result>>
        /\ Looked(C) \subseteq DOMAIN pos
        /\ ~IsLoop(C) /\ Len(Waypoints(C)) < 2 /\ routes' = routes
    BY <1>4 DEF SkipShortChain
  <2>2. ~IsDrawn(C)
    BY <2>1, ManyWaypoints DEF IsDrawn
  <2>. QED
    BY <2>1, <2>2, PassingKeepsInv
<1>5. CASE Finish
  <2>1. /\ result = "none" /\ result' = "Ok" /\ UNCHANGED <<chains, pos, style, next, seen, routes>>
    BY <1>5 DEF Finish
  <2>2. Drawing' = Drawing
    BY <2>1, DrawingIsKept
  <2>3. Behind' = Behind
    BY <2>1 DEF Behind, IsDrawn, IsLoop
  <2>4. LastMet' = LastMet
    BY <2>1 DEF LastMet
  <2>5. LoopInv'
    <3>1. seen' = [p \in {Pair(c) : c \in Range(chains)} |-> Met(p, LastMet)]
      BY <2>1 DEF IInv, LoopInv
    <3>. QED
      BY <2>1, <2>4, <3>1, SeenIsCounted DEF IInv, LoopInv
  <2>. QED
    BY <2>1, <2>2, <2>3, <2>5, ArgumentsAreKept, LookedUpIsKept DEF IInv, RoutesInv, Picked
<1>6. CASE UNCHANGED vars
  <2>1. UNCHANGED <<chains, pos, style, next, seen, routes, result>>
    BY <1>6 DEF vars
  <2>2. Drawing' = Drawing
    BY <2>1, DrawingIsKept
  <2>3. Behind' = Behind
    BY <2>1 DEF Behind, IsDrawn, IsLoop
  <2>4. LastMet' = LastMet
    BY <2>1 DEF LastMet
  <2>5. LoopInv'
    <3>1. seen' = [p \in {Pair(c) : c \in Range(chains)} |-> Met(p, LastMet)]
      BY <2>1 DEF IInv, LoopInv
    <3>. QED
      BY <2>1, <2>4, <3>1, SeenIsCounted DEF IInv, LoopInv
  <2>. QED
    BY <2>1, <2>2, <2>3, <2>5, ArgumentsAreKept, LookedUpIsKept DEF IInv, RoutesInv, Picked
<1>. QED
  BY <1>1, <1>2, <1>3, <1>4, <1>5, <1>6 DEF Next, Step, Returned

\* Whatever was handed over: the counters say how many chains of each pair the
\* loop has met, and the routes are those of the chains behind it, each with
\* the displacement of its place among its pair (coordinates.rs, route_edges).
THEOREM RoutesAreOfTheChains == Spec => []IInv
  BY InitInv, StepInv, PTL DEF Spec

-----------------------------------------------------------------------------
(* What the routes are worth.                                               *)

\* The chain of the k-th route.
Place(k) == InIdOrder(Behind)[k]

\* The k-th route is the one of the k-th chain that gets one.
IsRouteOf(k, i) ==
    /\ i \in DOMAIN chains /\ IsDrawn(chains[i]) /\ IsPlaced(chains[i])
    /\ routes[k] = RouteOf(chains[i], PointsOf(i)) /\ Routed[k] = chains[i]

LEMMA RouteAt ==
    ASSUME IInv
    PROVE  /\ Len(routes) = Len(Routed)
           /\ \A k \in DOMAIN routes : IsRouteOf(k, Place(k))
           /\ \A j, k \in DOMAIN routes : j < k => Place(j) < Place(k)
           /\ \A k \in DOMAIN routes : Place(k) \in Int
<1>. DEFINE c == Cardinality(Behind)
<1>1. /\ next \in Nat /\ Behind \in SUBSET NodeIds(next) /\ Behind \subseteq DOMAIN chains
  BY DEF Behind, NodeIds, IInv, LoopInv, ArgumentsInv
<1>2. /\ c \in Nat /\ \A k \in 1 .. c : Place(k) \in Behind
      /\ \A j, k \in 1 .. c : j < k => Place(j) < Place(k)
  <2>1. /\ c \in Nat /\ InIdOrder(Behind) \in [1 .. c -> Behind]
        /\ \A j, k \in 1 .. c : j < k => InIdOrder(Behind)[j] < InIdOrder(Behind)[k]
    BY <1>1, InIdOrderLists
  <2>. QED
    BY <2>1 DEF Place
<1>3. /\ routes = [k \in 1 .. c |-> Drawing[Place(k)]]
      /\ Routed = [k \in 1 .. c |-> chains[Place(k)]]
  BY DEF IInv, RoutesInv, Picked, Place, Routed, Behind
<1>. HIDE DEF c
<1>4. DOMAIN routes = 1 .. c /\ Len(routes) = c /\ Len(Routed) = c
  BY <1>2, <1>3
<1>5. ASSUME NEW k \in 1 .. c
      PROVE  IsRouteOf(k, Place(k)) /\ Place(k) \in Int
  <2>1. Place(k) \in Behind /\ Place(k) \in DOMAIN chains
    BY <1>1, <1>2
  <2>2. IsDrawn(chains[Place(k)])
    BY <2>1 DEF Behind
  <2>3. routes[k] = RouteOf(chains[Place(k)], PointsOf(Place(k)))
    BY <1>3, <2>1 DEF Drawing
  <2>4. Place(k) \in Int
    BY <2>1 DEF Behind
  <2>5. IsPlaced(chains[Place(k)])
    BY <2>1 DEF Behind, IInv, LookedUpInv, ArgumentsInv, IsPlaced
  <2>. QED
    BY <1>3, <2>1, <2>2, <2>3, <2>4, <2>5 DEF IsRouteOf
<1>. QED
  BY <1>2, <1>4, <1>5

LEMMA TypeHolds == IInv => TypeOK
<1>. SUFFICES ASSUME IInv PROVE TypeOK
  OBVIOUS
<1>1. /\ chains \in Seq(EdgeChain) /\ LastMet \in 0 .. Len(chains)
      /\ seen = [p \in {Pair(c) : c \in Range(chains)} |-> Met(p, LastMet)]
      /\ next \in 1 .. Len(chains) + 1 /\ result \in {"none", "Ok", "DanglingEdge"}
  BY DEF IInv, ArgumentsInv, LoopInv, LastMet
<1>2. \A p \in DOMAIN seen : seen[p] \in 0 .. PairCount(p)
  BY <1>1, MetIsCounted
<1>3. ASSUME NEW r \in Range(routes)
      PROVE  r.waypoints \in Seq(Points) /\ Len(r.waypoints) >= 2
  <2>1. PICK k \in DOMAIN routes : r = routes[k]
    BY DEF Range
  <2>2. IsRouteOf(k, Place(k))
    BY RouteAt
  <2>3. r.waypoints = PointsOf(Place(k))
    BY <2>1, <2>2 DEF IsRouteOf, RouteOf
  <2>4. /\ Place(k) \in DOMAIN chains /\ IsDrawn(chains[Place(k)]) /\ ArgumentsInv
        /\ IsPlaced(chains[Place(k)])
    BY <2>2 DEF IsRouteOf, IInv
  <2>5. PointsOf(Place(k)) \in Seq(Points) /\ Len(PointsOf(Place(k))) >= 2
    BY <2>4, RouteHasPoints
  <2>. QED
    BY <2>3, <2>5
<1>. QED
  BY <1>1, <1>2, <1>3 DEF TypeOK

\* The type invariant: no counter exceeds the number of chains of its pair, and
\* every route has two points, the tip of its arrowhead and the one before.
THEOREM RoutingTypes == Spec => []TypeOK
  BY RoutesAreOfTheChains, TypeHolds, PTL

\* The first point of a chain's route is on the side of the chain's first node that
\* its heading names, the last on the other side of its last node.
RunsAlong(points, c) ==
    LET d == Heading(c) IN
    /\ d \in Directions
    /\ Len(points) >= 2 /\ points[1] = Head(points) /\ points[Len(points)] = Last(points)
    /\ Head(c.chain) \in DOMAIN pos /\ Last(c.chain) \in DOMAIN pos
    /\ Head(points) = At(Head(c.chain), d[1], d[2])
    /\ Last(points) = At(Last(c.chain), -d[1], -d[2])

LEMMA RouteFollowsChain ==
    ASSUME ArgumentsInv, NEW i \in DOMAIN chains, ~IsLoop(chains[i]), IsDrawn(chains[i]), IsPlaced(chains[i])
    PROVE  RunsAlong(PointsOf(i), chains[i])
<1>. DEFINE c == chains[i]
            ws == Waypoints(c)
            d == Heading(c)
            points == PointsOf(i)
<1>1. ChainPoints(i, ws, points)
  BY ChainShape
<1>2. IsWaypoints(ws, c) /\ SameEnds(points, ws)
  BY <1>1 DEF ChainPoints
<1>3. c \in EdgeChain /\ Len(c.chain) >= 2
  BY DEF ArgumentsInv, IsDrawn
<1>. HIDE DEF ws, points
<1>4. /\ ws[1] = At(c.chain[1], d[1], d[2]) /\ ws[Len(ws)] = At(c.chain[Len(c.chain)], -d[1], -d[2])
      /\ Len(ws) = Len(c.chain)
  BY <1>2 DEF IsWaypoints
<1>5. /\ points \in Seq(Points) /\ Len(points) >= 2
      /\ points[1] = ws[1] /\ points[Len(points)] = ws[Len(ws)]
  BY <1>2 DEF SameEnds
<1>6. Head(points) = points[1] /\ Last(points) = points[Len(points)]
  BY <1>5 DEF Last
<1>7. /\ Head(c.chain) = c.chain[1] /\ Last(c.chain) = c.chain[Len(c.chain)]
      /\ 1 \in DOMAIN c.chain /\ Len(c.chain) \in DOMAIN c.chain
  <2>1. c.chain \in Seq(Nat)
    BY <1>3 DEF EdgeChain
  <2>. QED
    BY <1>3, <2>1 DEF Last
<1>8. Head(c.chain) \in DOMAIN pos /\ Last(c.chain) \in DOMAIN pos
  <2>1. Range(c.chain) \subseteq DOMAIN pos
    BY DEF IsPlaced, Looked
  <2>. QED
    BY <1>7, <2>1 DEF Range
<1>9. d \in Directions
  BY HeadingIsDirection
<1>. QED
  BY <1>4, <1>5, <1>6, <1>7, <1>8, <1>9 DEF points, RunsAlong

LEMMA OneEach == IInv => OneRoutePerChain
<1>. SUFFICES ASSUME IInv PROVE OneRoutePerChain
  OBVIOUS
<1>1. ASSUME NEW k \in DOMAIN routes
      PROVE  /\ <<routes[k].source, routes[k].target>> = <<Routed[k].source, Routed[k].target>>
             /\ routes[k].reversed = Routed[k].reversed
             /\ routes[k].isSelfLoop = IsLoop(Routed[k])
             /\ ~IsLoop(Routed[k]) => /\ Head(routes[k].waypoints) \in Sides(Head(Routed[k].chain))
                                      /\ Last(routes[k].waypoints) \in Sides(Last(Routed[k].chain))
  <2>. DEFINE i == Place(k)
  <2>1. IsRouteOf(k, i)
    BY RouteAt
  <2>. HIDE DEF i
  <2>2. /\ i \in DOMAIN chains /\ IsDrawn(chains[i]) /\ ArgumentsInv /\ IsPlaced(chains[i])
        /\ routes[k] = RouteOf(chains[i], PointsOf(i)) /\ Routed[k] = chains[i]
    BY <2>1 DEF IsRouteOf, IInv
  <2>3. /\ routes[k].source = chains[i].source /\ routes[k].target = chains[i].target
        /\ routes[k].reversed = chains[i].reversed /\ routes[k].isSelfLoop = IsLoop(chains[i])
        /\ routes[k].waypoints = PointsOf(i)
    BY <2>2 DEF RouteOf
  <2>4. ASSUME ~IsLoop(chains[i])
        PROVE  /\ Head(PointsOf(i)) \in Sides(Head(chains[i].chain))
               /\ Last(PointsOf(i)) \in Sides(Last(chains[i].chain))
    <3>. DEFINE d == Heading(chains[i])
    <3>1. /\ d \in Directions
          /\ Head(PointsOf(i)) = At(Head(chains[i].chain), d[1], d[2])
          /\ Last(PointsOf(i)) = At(Last(chains[i].chain), -d[1], -d[2])
      BY <2>2, <2>4, RouteFollowsChain DEF RunsAlong
    <3>2. <<d[1], d[2]>> \in Directions /\ <<-d[1], -d[2]>> \in Directions
      BY <3>1, DirectionParts
    <3>. QED
      BY <3>1, <3>2, SideOf
  <2>. QED
    BY <2>2, <2>3, <2>4
<1>. QED
  BY <1>1, RouteAt DEF OneRoutePerChain

\* Every chain that can be drawn gets exactly one route, in the chains' order
\* and under its own ends and flags, from a side of its first node to a side of its
\* last.
THEOREM EveryChainHasItsRoute == Spec => []OneRoutePerChain
  BY RoutesAreOfTheChains, OneEach, PTL

\* Two chains between the same ends run the same way, and a dummy is on one chain,
\* once.
LEMMA ChainsRunAlike ==
    ASSUME ArgumentsInv, NEW i \in DOMAIN chains, ~IsLoop(chains[i]), IsDrawn(chains[i]),
           NEW j \in DOMAIN chains, ~IsLoop(chains[j]), IsDrawn(chains[j])
    PROVE  /\ {Head(chains[i].chain), Last(chains[i].chain)} = Pair(chains[i])
           /\ Pair(chains[i]) = Pair(chains[j]) =>
                 /\ Head(chains[i].chain) = Head(chains[j].chain)
                 /\ Last(chains[i].chain) = Last(chains[j].chain)
           /\ \A p \in 2 .. Len(chains[i].chain) - 1, q \in 2 .. Len(chains[j].chain) - 1 :
                 chains[i].chain[p] = chains[j].chain[q] => i = j /\ p = q
<1>. DEFINE Inner(k) == 2 .. Len(chains[k].chain) - 1
<1>1. /\ {Head(chains[i].chain), Last(chains[i].chain)} = Pair(chains[i])
      /\ {Head(chains[j].chain), Last(chains[j].chain)} = Pair(chains[j])
      /\ Pair(chains[i]) = Pair(chains[j]) => Head(chains[i].chain) = Head(chains[j].chain)
      /\ \A p \in Inner(i), q \in Inner(j) : chains[i].chain[p] = chains[j].chain[q] => i = j /\ p = q
  BY DEF ArgumentsInv, SoundChains
<1>2. \A a, b, c : {a, b} = {a, c} => b = c
  OBVIOUS
<1>. QED
  BY <1>1, <1>2

\* The headings of two chains between the same ends are the same or opposite.
LEMMA HeadingsAlign ==
    ASSUME NEW a, NEW b, ~IsLoop(a), ~IsLoop(b), IsPlaced(a), IsPlaced(b), Pair(a) = Pair(b)
    PROVE  LET d == Heading(a)
               e == Heading(b)
           IN e = <<d[1], d[2]>> \/ e = <<-d[1], -d[2]>>
<1>1. Dx(a) \in Int /\ Dy(a) \in Int /\ Dx(b) \in Int /\ Dy(b) \in Int
  BY VerticalOrNot
<1>2. (Dx(b) = Dx(a) /\ Dy(b) = Dy(a)) \/ (Dx(b) = -Dx(a) /\ Dy(b) = -Dy(a))
  <2>1. {a.source, a.target} = {b.source, b.target}
    BY DEF Pair
  <2>2. (b.source = a.source /\ b.target = a.target) \/ (b.source = a.target /\ b.target = a.source)
    BY <2>1
  <2>3. CASE b.source = a.source /\ b.target = a.target
    BY <2>3 DEF Dx, Dy
  <2>4. CASE b.source = a.target /\ b.target = a.source
    <3>1. a.source \in DOMAIN pos /\ a.target \in DOMAIN pos /\ Placement(pos)
      BY VerticalOrNot DEF IsPlaced
    <3>2. /\ pos[a.source].x \in Int /\ pos[a.source].y \in Int
          /\ pos[a.target].x \in Int /\ pos[a.target].y \in Int
      BY <3>1, AtIsPoint
    <3>3. \A x, y \in Int : x - y = -(y - x)
      OBVIOUS
    <3>. QED
      BY <2>4, <3>2, <3>3 DEF Dx, Dy
  <2>. QED
    BY <2>2, <2>3, <2>4
<1>3. Magnitude(Dx(b)) = Magnitude(Dx(a)) /\ Magnitude(Dy(b)) = Magnitude(Dy(a))
  BY <1>1, <1>2 DEF Magnitude
<1>4. Vertical(b) = Vertical(a)
  BY <1>3 DEF Vertical
<1>5. CASE Vertical(a)
  <2>1. /\ Heading(a) = <<0, 1>> \/ Heading(a) = <<0, -1>>
        /\ Heading(b) = <<0, 1>> \/ Heading(b) = <<0, -1>>
    BY <1>4, <1>5 DEF Heading
  <2>. QED
    BY <2>1
<1>6. CASE ~Vertical(a)
  <2>1. /\ Heading(a) = <<1, 0>> \/ Heading(a) = <<-1, 0>>
        /\ Heading(b) = <<1, 0>> \/ Heading(b) = <<-1, 0>>
    BY <1>4, <1>6 DEF Heading
  <2>. QED
    BY <2>1
<1>. QED
  BY <1>5, <1>6

\* A side of one node and the other side of it are the same two points as those of
\* another node only if the two have one center.
LEMMA SidesMeetInCenter ==
    ASSUME Placement(pos), NEW v \in DOMAIN pos, NEW w \in DOMAIN pos, NEW i \in {0, 1, -1}, NEW j \in {0, 1, -1},
           At(v, i, j) = At(w, i, j), At(v, -i, -j) = At(w, -i, -j)
    PROVE  v = w
<1>1. i \in Int /\ j \in Int /\ -i \in Int /\ -j \in Int
  OBVIOUS
<1>. DEFINE x == pos[v].x
            y == pos[v].y
            p == i * pos[v].width
            q == j * pos[v].height
            X == pos[w].x
            Y == pos[w].y
            P == i * pos[w].width
            Q == j * pos[w].height
<1>2. /\ x \in Int /\ y \in Int /\ X \in Int /\ Y \in Int
      /\ pos[v].width \in Nat /\ pos[v].height \in Nat /\ pos[w].width \in Nat /\ pos[w].height \in Nat
  BY <1>1, AtIsPoint
<1>3. /\ 60 * x + 30 * p = 60 * X + 30 * P /\ 60 * y + 30 * q = 60 * Y + 30 * Q
  <2>1. /\ At(v, i, j).x = 60 * x + 30 * p /\ At(w, i, j).x = 60 * X + 30 * P
        /\ At(v, i, j).y = 60 * y + 30 * q /\ At(w, i, j).y = 60 * Y + 30 * Q
    BY <1>1, AtIsPoint
  <2>. QED
    BY <2>1
<1>4. /\ 60 * x + 30 * ((-i) * pos[v].width) = 60 * X + 30 * ((-i) * pos[w].width)
      /\ 60 * y + 30 * ((-j) * pos[v].height) = 60 * Y + 30 * ((-j) * pos[w].height)
  <2>. DEFINE a == -i
              b == -j
  <2>1. a \in Int /\ b \in Int
    BY <1>1
  <2>. HIDE DEF a, b
  <2>2. /\ At(v, a, b).x = 60 * x + 30 * (a * pos[v].width) /\ At(w, a, b).x = 60 * X + 30 * (a * pos[w].width)
        /\ At(v, a, b).y = 60 * y + 30 * (b * pos[v].height) /\ At(w, a, b).y = 60 * Y + 30 * (b * pos[w].height)
    BY <2>1, AtIsPoint
  <2>. QED
    BY <2>2 DEF a, b
<1>5. \A k, m \in Int : (-k) * m = -(k * m) /\ k * m \in Int
  BY Z3
<1>6. /\ p \in Int /\ q \in Int /\ P \in Int /\ Q \in Int
      /\ (-i) * pos[v].width = -p /\ (-j) * pos[v].height = -q /\ (-i) * pos[w].width = -P /\ (-j) * pos[w].height = -Q
  BY <1>1, <1>2, <1>5
<1>7. 60 * x + 30 * (-p) = 60 * X + 30 * (-P) /\ 60 * y + 30 * (-q) = 60 * Y + 30 * (-Q)
  BY <1>4, <1>6
<1>8. x = X /\ y = Y
  <2>. HIDE DEF x, y, p, q, X, Y, P, Q
  <2>1. \A a, b, c, d \in Int : 60 * a + 30 * b = 60 * c + 30 * d /\ 60 * a + 30 * (-b) = 60 * c + 30 * (-d) => a = c
    BY Z3
  <2>2. /\ x \in Int /\ y \in Int /\ X \in Int /\ Y \in Int
        /\ p \in Int /\ q \in Int /\ P \in Int /\ Q \in Int
    BY <1>2, <1>6
  <2>3. x = X
    BY <1>3, <1>7, <2>1, <2>2
  <2>4. y = Y
    BY <1>3, <1>7, <2>1, <2>2
  <2>. QED
    BY <2>3, <2>4
<1>9. <<pos[v].x, pos[v].y>> = <<pos[w].x, pos[w].y>>
  BY <1>8
<1>. QED
  BY <1>9 DEF Placement

\* Chains between the same ends are not each other's routes turned round: those
\* start on the same side, or on opposite ones.
LEMMA NotTurnedRound ==
    ASSUME ArgumentsInv, NEW i \in DOMAIN chains, ~IsLoop(chains[i]), IsDrawn(chains[i]), IsPlaced(chains[i]),
           NEW j \in DOMAIN chains, ~IsLoop(chains[j]), IsDrawn(chains[j]), IsPlaced(chains[j]),
           Pair(chains[i]) = Pair(chains[j]), Head(PointsOf(i)) # Last(PointsOf(i))
    PROVE  PointsOf(j) # Reverse(PointsOf(i))
<1>. DEFINE a == chains[i]
            b == chains[j]
            d == Heading(a)
            e == Heading(b)
            v == Head(a.chain)
            w == Last(a.chain)
            points == PointsOf(i)
            others == PointsOf(j)
<1>. SUFFICES ASSUME others = Reverse(points) PROVE FALSE
  OBVIOUS
<1>1. RunsAlong(points, a) /\ RunsAlong(others, b)
  BY RouteFollowsChain
<1>2. Head(b.chain) = v /\ Last(b.chain) = w /\ {v, w} = Pair(a)
  BY ChainsRunAlike
<1>3. /\ Head(points) = At(v, d[1], d[2]) /\ Last(points) = At(w, -d[1], -d[2])
      /\ Head(others) = At(v, e[1], e[2]) /\ Last(others) = At(w, -e[1], -e[2])
      /\ v \in DOMAIN pos /\ w \in DOMAIN pos /\ d \in Directions
  BY <1>1, <1>2 DEF RunsAlong
<1>4. Head(others) = Last(points) /\ Last(others) = Head(points)
  <2>1. /\ points \in Seq(Points) /\ Len(points) >= 2
        /\ points[1] = Head(points) /\ points[Len(points)] = Last(points)
        /\ others[1] = Head(others) /\ others[Len(others)] = Last(others)
    BY <1>1, RouteHasPoints DEF RunsAlong
  <2>. HIDE DEF points, others
  <2>2. /\ Len(others) = Len(points) /\ others[1] = points[Len(points)] /\ others[Len(points)] = points[1]
    BY <2>1 DEF Reverse
  <2>. QED
    BY <2>1, <2>2
<1>5. e = <<d[1], d[2]>> \/ e = <<-d[1], -d[2]>>
  BY HeadingsAlign
<1>6. CASE e = <<d[1], d[2]>>
  <2>1. Head(others) = Head(points)
    BY <1>3, <1>6
  <2>. QED
    BY <1>4, <2>1
<1>7. CASE e = <<-d[1], -d[2]>>
  <2>. DEFINE p == d[1]
              q == d[2]
  <2>1. p \in {0, 1, -1} /\ q \in {0, 1, -1} /\ e[1] = -p /\ e[2] = -q
    BY <1>3, <1>7, DirectionParts
  <2>2. -e[1] = p /\ -e[2] = q
    BY <2>1
  <2>3. At(v, p, q) = At(w, p, q) /\ At(v, -p, -q) = At(w, -p, -q)
    BY <1>3, <1>4, <2>1, <2>2
  <2>4. Placement(pos)
    BY DEF ArgumentsInv
  <2>. HIDE DEF p, q, v, w
  <2>5. v = w
    BY <1>3, <2>1, <2>3, <2>4, SidesMeetInCenter
  <2>6. a.source = a.target
    BY <1>2, <2>5 DEF Pair, v, w
  <2>. QED
    BY <2>6 DEF IsLoop
<1>. QED
  BY <1>5, <1>6, <1>7

\* Nor are they the same: the displacements of the two differ, or their first dummies
\* do.
LEMMA ChainsAreApart ==
    ASSUME ArgumentsInv, NEW i \in DOMAIN chains, ~IsLoop(chains[i]), IsDrawn(chains[i]), IsPlaced(chains[i]),
           NEW j \in DOMAIN chains, ~IsLoop(chains[j]), IsDrawn(chains[j]), IsPlaced(chains[j]), i # j,
           Pair(chains[i]) = Pair(chains[j]), Displaceable(PointsOf(i))
    PROVE  PointsOf(j) # PointsOf(i)
<1>. DEFINE a == chains[i]
            b == chains[j]
            va == Waypoints(a)
            vb == Waypoints(b)
            da == OffsetOf(i)
            db == OffsetOf(j)
            points == PointsOf(i)
            p == va[1]
            q == va[Len(va)]
<1>. SUFFICES ASSUME PointsOf(j) = points PROVE FALSE
  OBVIOUS
<1>1. ChainPoints(i, va, points) /\ ChainPoints(j, vb, points)
  BY ChainShape
<1>2. /\ IsWaypoints(va, a) /\ IsWaypoints(vb, b) /\ Len(va) >= 2 /\ Len(vb) >= 2
      /\ SameEnds(points, va) /\ SameEnds(points, vb)
  BY <1>1 DEF ChainPoints
<1>3. da \in Int /\ db \in Int /\ da # db
  <2>1. chains \in Seq(EdgeChain) /\ i \in Nat /\ j \in Nat
    BY DEF ArgumentsInv
  <2>2. da \in Int /\ db \in Int
    BY <2>1, OffsetIsNumber
  <2>3. CASE i < j
    BY <2>1, <2>2, <2>3, DisplacementsDiffer DEF OffsetOf
  <2>4. CASE j < i
    BY <2>1, <2>2, <2>4, DisplacementsDiffer DEF OffsetOf
  <2>. QED
    BY <2>1, <2>3, <2>4
<1>4. /\ va \in Seq(Points) /\ vb \in Seq(Points)
      /\ Len(va) = Len(a.chain) /\ Len(vb) = Len(b.chain) /\ Len(va) \in Nat /\ Len(vb) \in Nat
  BY <1>2 DEF IsWaypoints
<1>5. RunsAlong(points, a)
  BY RouteFollowsChain
<1>6. /\ p \in Points /\ q \in Points /\ p # q /\ p.aside = q.aside
      /\ vb[1] = p /\ vb[Len(vb)] = q
  <2>1. Head(points) = points[1] /\ Last(points) = points[Len(points)] /\ Head(points) # Last(points)
    BY <1>5 DEF RunsAlong, Displaceable
  <2>2. points[1] = p /\ points[Len(points)] = q /\ vb[1] = p /\ vb[Len(vb)] = q
    BY <1>2 DEF SameEnds
  <2>3. 1 \in 1 .. Len(va) /\ Len(va) \in 1 .. Len(va)
    BY <1>2, <1>4
  <2>4. p.aside = <<0, 0>> /\ q.aside = <<0, 0>>
    BY <1>2, <2>3 DEF IsWaypoints
  <2>. QED
    BY <1>4, <2>1, <2>2, <2>3, <2>4
<1>7. Displaceable(points) /\ Vertical(a) \in BOOLEAN /\ Vertical(b) \in BOOLEAN
  BY <1>1 DEF ChainPoints
<1>8. /\ style = "Straight" => points = Straight(va, da) /\ points = Straight(vb, db)
      /\ style = "Orthogonal" => IsOrthogonal(points, va, da) /\ IsOrthogonal(points, vb, db)
      /\ style = "Bezier" => IsBezier(points, va, Vertical(a), da) /\ IsBezier(points, vb, Vertical(b), db)
  BY <1>1 DEF ChainPoints
<1>. HIDE DEF da, db, points, va, vb
<1>9. CASE style = "Straight"
  <2>2. /\ da = 0 => Len(points) = 2
        /\ da # 0 => Len(points) = 3 /\ points[2] = MovedAside(Middle(p, q), p, q, da)
        /\ db = 0 => Len(points) = 2
        /\ db # 0 => Len(points) = 3 /\ points[2] = MovedAside(Middle(p, q), p, q, db)
    BY <1>2, <1>3, <1>4, <1>6, <1>8, <1>9, StraightPoints
  <2>3. da # 0 /\ db # 0
    <3>1. 2 # 3
      OBVIOUS
    <3>2. da # 0 \/ db # 0
      BY <1>3
    <3>. QED
      BY <3>1, <3>2, <2>2
  <2>. DEFINE m == Middle(p, q)
  <2>4. MovedAside(m, p, q, da) = MovedAside(m, p, q, db)
    BY <2>2, <2>3
  <2>. HIDE DEF p, q, m
  <2>5. da = db
    BY <1>3, <1>6, <2>4, MovedApart
  <2>. QED
    BY <2>5, <1>3
<1>10. CASE style = "Orthogonal"
  <2>1. IsOrthogonal(points, va, da) /\ IsOrthogonal(points, vb, db) /\ Len(points) = 4
    BY <1>7, <1>8, <1>10 DEF Displaceable
  <2>2. Len(va) = 2 /\ Len(vb) = 2
    <3>1. 4 = 2 * Len(va) /\ 4 = 2 * Len(vb)
      BY <2>1 DEF IsOrthogonal
    <3>2. \A n \in Nat : 4 = 2 * n => n = 2
      OBVIOUS
    <3>. QED
      BY <3>1, <3>2, <1>4
  <2>3. 1 \in 1 .. Len(va) - 1 /\ 1 \in 1 .. Len(vb) - 1
    BY <2>2
  <2>4. points[2] = Spot(va[1].x, Level(va, 1, da)) /\ points[2] = Spot(vb[1].x, Level(vb, 1, db))
    BY <2>1, <2>3 DEF IsOrthogonal
  <2>5. Level(va, 1, da) = Level(vb, 1, db)
    BY <2>4 DEF Spot
  <2>. DEFINE h == (p.y + q.y) \div 2
  <2>6. Level(va, 1, da) = h + 180 * da /\ Level(vb, 1, db) = h + 180 * db
    BY <1>6, <2>2 DEF Level
  <2>7. h \in Int
    <3>1. p.y \in Int /\ q.y \in Int
      BY <1>6, PointFields
    <3>. HIDE DEF p, q
    <3>. QED
      BY <3>1
  <2>. HIDE DEF h
  <2>. QED
    BY <1>3, <2>5, <2>6, <2>7
<1>11. CASE style = "Bezier"
  <2>1. IsBezier(points, va, Vertical(a), da) /\ IsBezier(points, vb, Vertical(b), db)
    BY <1>8, <1>11
  <2>2. 1 \in 1 .. Len(va) - 1 /\ 1 \in 1 .. Len(vb) - 1
    BY <1>2, <1>4
  <2>3. Len(points) = 3 * (Len(va) - 1) + 1 /\ Len(points) = 3 * (Len(vb) - 1) + 1
    BY <2>1 DEF IsBezier
  <2>4. Len(va) = Len(vb)
    BY <2>3, <1>4
  <2>5. CASE Len(va) = 2
    <3>1. points[2] = Curve(va, 1, Vertical(a), da)[1] /\ points[2] = Curve(vb, 1, Vertical(b), db)[1]
      BY <2>1, <2>2 DEF IsBezier
    <3>2. /\ Curve(va, 1, Vertical(a), da) = SingleCurve(p, q, Vertical(a), da)
          /\ Curve(vb, 1, Vertical(b), db) = SingleCurve(p, q, Vertical(b), db)
      BY <1>6, <2>4, <2>5 DEF Curve
    <3>. HIDE DEF p, q
    <3>3. PICK m : points[2] = MovedAside(m, p, q, da)
      BY <1>3, <1>6, <1>7, <3>1, <3>2, SinglePoints
    <3>4. PICK n : points[2] = MovedAside(n, p, q, db)
      BY <1>3, <1>6, <1>7, <3>1, <3>2, SinglePoints
    <3>5. MovedAside(m, p, q, da) = MovedAside(n, p, q, db)
      BY <3>3, <3>4
    <3>6. da = db
      BY <1>3, <1>6, <3>5, MovedApart
    <3>. QED
      BY <3>6, <1>3
  <2>6. CASE Len(va) # 2
    <3>1. /\ 2 \in 2 .. Len(va) - 1 /\ 2 \in 2 .. Len(vb) - 1
          /\ 2 \in 2 .. Len(a.chain) - 1 /\ 2 \in 2 .. Len(b.chain) - 1
      <4>1. \A n \in Nat : n >= 2 /\ n # 2 => 2 \in 2 .. n - 1
        OBVIOUS
      <4>2. 2 \in 2 .. Len(va) - 1
        BY <2>6, <1>2, <1>4, <4>1
      <4>. QED
        BY <4>2, <2>4, <1>4
    <3>2. points[4] = va[2] /\ points[4] = vb[2]
      BY <2>1, <2>2 DEF IsBezier
    <3>. DEFINE v == a.chain[2]
                w == b.chain[2]
    <3>3. va[2] = At(v, 0, 0) /\ vb[2] = At(w, 0, 0)
      BY <3>1, <1>2 DEF IsWaypoints
    <3>4. v \in DOMAIN pos /\ w \in DOMAIN pos /\ Placement(pos)
      <4>1. Range(a.chain) \subseteq DOMAIN pos /\ Range(b.chain) \subseteq DOMAIN pos /\ Placement(pos)
        BY DEF IsPlaced, Looked
      <4>2. a.chain \in Seq(Nat) /\ b.chain \in Seq(Nat)
        <5>1. a \in EdgeChain /\ b \in EdgeChain
          BY DEF ArgumentsInv
        <5>. QED
          BY <5>1 DEF EdgeChain
      <4>3. 2 \in DOMAIN a.chain /\ 2 \in DOMAIN b.chain
        BY <3>1, <4>2
      <4>. QED
        BY <4>1, <4>3 DEF Range
    <3>5. At(v, 0, 0) = At(w, 0, 0)
      BY <3>2, <3>3
    <3>. HIDE DEF v, w
    <3>6. At(v, -0, -0) = At(w, -0, -0)
      BY <3>5
    <3>7. v = w
      BY <3>4, <3>5, <3>6, SidesMeetInCenter
    <3>. QED
      BY <3>1, <3>7, ChainsRunAlike DEF v, w
  <2>. QED
    BY <2>5, <2>6
<1>. QED
  BY <1>9, <1>10, <1>11 DEF ArgumentsInv

LEMMA AllApart == IInv => ParallelEdgesDrawnApart
<1>. SUFFICES ASSUME IInv, NEW j \in DOMAIN routes, NEW k \in DOMAIN routes,
                     j # k, Pair(routes[j]) = Pair(routes[k]),
                     ~routes[j].isSelfLoop, ~routes[k].isSelfLoop,
                     Displaceable(routes[j].waypoints)
              PROVE  /\ routes[k].waypoints # routes[j].waypoints
                     /\ routes[k].waypoints # Reverse(routes[j].waypoints)
  BY DEF ParallelEdgesDrawnApart
<1>. DEFINE a == Place(j)
            b == Place(k)
<1>1. IsRouteOf(j, a) /\ IsRouteOf(k, b)
  BY RouteAt
<1>2. a # b
  <2>2. j \in Int /\ k \in Int
    <3>1. DOMAIN routes = 1 .. Cardinality(Behind)
      BY DEF IInv, RoutesInv, Picked
    <3>. QED
      BY <3>1
  <2>3. a \in Int /\ b \in Int /\ (j < k => a < b) /\ (k < j => b < a)
    BY RouteAt
  <2>. QED
    BY <2>2, <2>3
<1>. HIDE DEF a, b
<1>3. /\ a \in DOMAIN chains /\ IsDrawn(chains[a]) /\ b \in DOMAIN chains /\ IsDrawn(chains[b])
      /\ IsPlaced(chains[a]) /\ IsPlaced(chains[b])
      /\ routes[j] = RouteOf(chains[a], PointsOf(a)) /\ routes[k] = RouteOf(chains[b], PointsOf(b))
      /\ ArgumentsInv
  BY <1>1 DEF IsRouteOf, IInv
<1>4. /\ routes[j].waypoints = PointsOf(a) /\ routes[k].waypoints = PointsOf(b)
      /\ routes[j].isSelfLoop = IsLoop(chains[a]) /\ routes[k].isSelfLoop = IsLoop(chains[b])
      /\ Pair(routes[j]) = Pair(chains[a]) /\ Pair(routes[k]) = Pair(chains[b])
  BY <1>3 DEF RouteOf, Pair
<1>5. PointsOf(b) # PointsOf(a)
  BY <1>2, <1>3, <1>4, ChainsAreApart
<1>6. PointsOf(b) # Reverse(PointsOf(a))
  <2>1. Head(PointsOf(a)) # Last(PointsOf(a))
    BY <1>4 DEF Displaceable
  <2>. QED
    BY <1>3, <1>4, <2>1, NotTurnedRound
<1>. QED
  BY <1>4, <1>5, <1>6

\* Edges between the same two nodes, turned round or not, are different curves,
\* where the displacement moves a route off its line (Displaceable): however many of
\* them there are, and however many dummies they lead over.
THEOREM ParallelEdgesAreApart == Spec => []ParallelEdgesDrawnApart
  BY RoutesAreOfTheChains, AllApart, PTL

-----------------------------------------------------------------------------
(* The segments that the FFI cuts the points into.                          *)

\* The segments of one route draw it.
Draws(points) ==
    LET segments == SegmentsOf(points)
    IN /\ Head(segments).start = Head(points) /\ Last(segments).end = Last(points)
       /\ \A i \in 1 .. Len(segments) - 1 : segments[i].end = segments[i + 1].start
       /\ \A i \in DOMAIN segments : segments[i].kind = "curve" <=> style = "Bezier"

LEMMA LinesDraw ==
    ASSUME NEW points \in Seq(Points), Len(points) >= 2, style # "Bezier"
    PROVE  Draws(points)
<1>. DEFINE n == Len(points) - 1
            s == SegmentsOf(points)
<1>1. n \in Nat /\ n >= 1 /\ Len(points) = n + 1
  OBVIOUS
<1>2. s = [i \in 1 .. n |-> [kind |-> "line", start |-> points[i], end |-> points[i + 1]]]
  BY DEF SegmentsOf, Lines
<1>4. Head(points) = points[1] /\ Last(points) = points[n + 1]
  BY <1>1 DEF Last
<1>. HIDE DEF n, s
<1>5. Len(s) = n /\ DOMAIN s = 1 .. n /\ Head(s) = s[1] /\ Last(s) = s[n]
  BY <1>1, <1>2 DEF Last
<1>6. \A i \in 1 .. n : s[i].kind = "line" /\ s[i].start = points[i] /\ s[i].end = points[i + 1]
  BY <1>2
<1>7. 1 \in 1 .. n /\ n \in 1 .. n /\ \A i \in 1 .. n - 1 : i \in 1 .. n /\ i + 1 \in 1 .. n
  BY <1>1
<1>8. Head(s).start = Head(points) /\ Last(s).end = Last(points)
  BY <1>4, <1>5, <1>6, <1>7
<1>9. \A i \in 1 .. Len(s) - 1 : s[i].end = s[i + 1].start
  BY <1>5, <1>6, <1>7
<1>10. \A i \in DOMAIN s : s[i].kind = "curve" <=> style = "Bezier"
  BY <1>5, <1>6
<1>. QED
  BY <1>8, <1>9, <1>10 DEF Draws, s

\* Every third point is the end of a curve.
LEMMA CurvesDraw ==
    ASSUME NEW points \in Seq(Points), style = "Bezier", NEW n \in Nat, n >= 1,
           Len(points) = 3 * n + 1
    PROVE  Draws(points)
<1>. DEFINE s == SegmentsOf(points)
<1>1. Len(points) >= 4 /\ (Len(points) - 1) % 3 = 0 /\ (Len(points) - 1) \div 3 = n
  <2>1. (3 * n) % 3 = 0 /\ (3 * n) \div 3 = n
    OBVIOUS
  <2>2. Len(points) - 1 = 3 * n /\ Len(points) >= 4
    OBVIOUS
  <2>. QED
    BY <2>1, <2>2
<1>2. s = [i \in 1 .. n |-> [kind |-> "curve", start |-> points[3 * i - 2], end |-> points[3 * i + 1]]]
  BY <1>1 DEF SegmentsOf, Curves
<1>3. Head(points) = points[1] /\ Last(points) = points[3 * n + 1]
  BY DEF Last
<1>. HIDE DEF s
<1>4. Len(s) = n /\ DOMAIN s = 1 .. n /\ Head(s) = s[1] /\ Last(s) = s[n]
  BY <1>2 DEF Last
<1>5. \A i \in 1 .. n : /\ s[i].kind = "curve" /\ s[i].start = points[3 * i - 2]
                        /\ s[i].end = points[3 * i + 1]
  BY <1>2
<1>6. 1 \in 1 .. n /\ n \in 1 .. n /\ \A i \in 1 .. n - 1 : i \in 1 .. n /\ i + 1 \in 1 .. n
  OBVIOUS
<1>7. Head(s).start = Head(points) /\ Last(s).end = Last(points)
  <2>1. 3 * 1 - 2 = 1
    OBVIOUS
  <2>. QED
    BY <2>1, <1>3, <1>4, <1>5, <1>6
<1>8. ASSUME NEW i \in 1 .. Len(s) - 1
      PROVE  s[i].end = s[i + 1].start
  <2>1. i \in 1 .. n - 1 /\ i \in Int
    BY <1>4
  <2>2. 3 * (i + 1) - 2 = 3 * i + 1
    BY <2>1
  <2>3. i \in 1 .. n /\ i + 1 \in 1 .. n
    BY <2>1, <1>6
  <2>. QED
    BY <2>1, <2>2, <2>3, <1>5
<1>9. \A i \in DOMAIN s : s[i].kind = "curve" <=> style = "Bezier"
  BY <1>4, <1>5
<1>. QED
  BY <1>7, <1>8, <1>9 DEF Draws, s

\* A loop: one curve, or lines.
LEMMA LoopIsDrawn ==
    ASSUME ArgumentsInv, NEW i \in DOMAIN chains, IsLoop(chains[i]), IsPlaced(chains[i])
    PROVE  Draws(PointsOf(i))
<1>. DEFINE points == PointsOf(i)
<1>1. LoopRoute(points)
  BY LoopShape
<1>. HIDE DEF points
<1>2. points \in Seq(Points) /\ Len(points) \in {3, 4} /\ (Len(points) = 3 <=> style = "Straight")
  BY <1>1 DEF LoopRoute
<1>3. CASE style = "Bezier"
  <2>1. Len(points) = 3 * 1 + 1
    BY <1>2, <1>3
  <2>2. 1 \in Nat /\ 1 >= 1
    OBVIOUS
  <2>. QED
    BY <1>2, <1>3, <2>1, <2>2, CurvesDraw DEF points
<1>4. CASE style # "Bezier"
  <2>1. Len(points) >= 2
    BY <1>2
  <2>. QED
    BY <1>2, <1>4, <2>1, LinesDraw DEF points
<1>. QED
  BY <1>3, <1>4

LEMMA ChainIsDrawn ==
    ASSUME ArgumentsInv, NEW i \in DOMAIN chains, ~IsLoop(chains[i]), IsDrawn(chains[i]), IsPlaced(chains[i])
    PROVE  Draws(PointsOf(i))
<1>. DEFINE points == PointsOf(i)
            ws == Waypoints(chains[i])
<1>1. ChainPoints(i, ws, points)
  BY ChainShape
<1>2. Len(ws) >= 2 /\ ws \in Seq(Points) /\ points \in Seq(Points) /\ Len(points) >= 2
  BY <1>1 DEF ChainPoints, IsWaypoints, SameEnds
<1>3. style = "Bezier" => Len(points) = 3 * (Len(ws) - 1) + 1
  BY <1>1 DEF ChainPoints, IsBezier
<1>. HIDE DEF points, ws
<1>4. CASE style = "Bezier"
  <2>. DEFINE n == Len(ws) - 1
  <2>1. n \in Nat /\ n >= 1 /\ Len(points) = 3 * n + 1
    BY <1>2, <1>3, <1>4
  <2>. HIDE DEF n
  <2>. QED
    BY <1>2, <1>4, <2>1, CurvesDraw DEF points
<1>5. CASE style # "Bezier"
  BY <1>2, <1>5, LinesDraw DEF points
<1>. QED
  BY <1>4, <1>5

LEMMA SegmentsDraw == IInv => SegmentsDrawTheRoute
<1>. SUFFICES ASSUME IInv PROVE SegmentsDrawTheRoute
  OBVIOUS
<1>1. ASSUME NEW k \in DOMAIN routes
      PROVE  Draws(routes[k].waypoints)
  <2>1. IsRouteOf(k, Place(k))
    BY RouteAt
  <2>2. /\ Place(k) \in DOMAIN chains /\ IsDrawn(chains[Place(k)]) /\ ArgumentsInv
        /\ IsPlaced(chains[Place(k)])
    BY <2>1 DEF IsRouteOf, IInv
  <2>3. routes[k].waypoints = PointsOf(Place(k))
    BY <2>1 DEF IsRouteOf, RouteOf
  <2>4. Draws(PointsOf(Place(k)))
    BY <2>2, LoopIsDrawn, ChainIsDrawn
  <2>. QED
    BY <2>3, <2>4
<1>. QED
  BY <1>1 DEF SegmentsDrawTheRoute, Draws

\* However many dummies a chain has, the count of its points is right for the
\* segments the FFI cuts it into, which draw it from end to end.
THEOREM SegmentsDrawEveryRoute == Spec => []SegmentsDrawTheRoute
  BY RoutesAreOfTheChains, SegmentsDraw, PTL

-----------------------------------------------------------------------------
(* Places for labels: the running length of a route.                        *)

\* The elements of a list.
LEMMA ListElements ==
    ASSUME NEW T, NEW list \in Seq(T)
    PROVE  DOMAIN list = 1 .. Len(list) /\ \A k \in 1 .. Len(list) : list[k] \in T
  OBVIOUS

\* A segment of a route on the grid is a point or at least ten long.
LEMMA SegmentLengths ==
    ASSUME IsRoute(waypoints), NEW i \in Segments
    PROVE  SegLen(i) \in Nat /\ (SegLen(i) = 0 \/ SegLen(i) >= 10)
<1>. DEFINE a == waypoints[i]
            b == waypoints[i + 1]
<1>1. i \in DOMAIN waypoints /\ i + 1 \in DOMAIN waypoints
  BY DEF IsRoute, Segments
<1>2. a.x \in Int /\ a.y \in Int /\ b.x \in Int /\ b.y \in Int
  <2>1. a \in Point /\ b \in Point
    BY <1>1 DEF IsRoute
  <2>. HIDE DEF a, b
  <2>. QED
    BY <2>1 DEF Point
<1>3. a.x % 10 = 0 /\ a.y % 10 = 0 /\ b.x % 10 = 0 /\ b.y % 10 = 0
  BY <1>1 DEF IsRoute
<1>4. a.x = b.x \/ a.y = b.y
  BY DEF IsRoute, Segments
<1>. HIDE DEF a, b
<1>5. \A p, q \in Int : p % 10 = 0 /\ q % 10 = 0 => (Distance(p, q) = 0 \/ Distance(p, q) >= 10)
  BY DEF Distance
<1>6. \A p, q \in Int : Distance(p, q) \in Nat /\ (p = q => Distance(p, q) = 0)
  BY DEF Distance
<1>7. SegLen(i) = Distance(a.x, b.x) + Distance(a.y, b.y)
  BY DEF SegLen, a, b
<1>8. \/ Distance(a.x, b.x) = 0 /\ (Distance(a.y, b.y) = 0 \/ Distance(a.y, b.y) >= 10)
      \/ Distance(a.y, b.y) = 0 /\ (Distance(a.x, b.x) = 0 \/ Distance(a.x, b.x) >= 10)
  BY <1>2, <1>3, <1>4, <1>5, <1>6
<1>9. Distance(a.x, b.x) \in Nat /\ Distance(a.y, b.y) \in Nat
  BY <1>2, <1>6
<1>. QED
  BY <1>7, <1>8, <1>9

\* The length up to a waypoint grows by the segment that starts there.
LEMMA LengthGrows ==
    ASSUME IsRoute(waypoints)
    PROVE  /\ LenUpTo(1) = 0
           /\ \A i \in Segments : LenUpTo(i + 1) = LenUpTo(i) + SegLen(i)
           /\ \A i \in 1 .. Len(waypoints) : LenUpTo(i) \in Nat
<1>. DEFINE lens(i) == [j \in 1 .. i - 1 |-> SegLen(j)]
<1>1. Len(waypoints) \in Nat
  BY DEF IsRoute
<1>2. \A i : LenUpTo(i) = SumFunctionOnSet(lens(i), 1 .. i - 1)
  BY DEF LenUpTo, SumFunction
<1>3. \A i \in 1 .. Len(waypoints) : \A j \in 1 .. i - 1 : lens(i)[j] = SegLen(j) /\ SegLen(j) \in Nat
  BY <1>1, SegmentLengths DEF Segments
<1>. HIDE DEF lens
<1>4. LenUpTo(1) = 0
  <2>1. 1 .. 1 - 1 = {}
    OBVIOUS
  <2>. QED
    BY <1>2, <2>1, SumOfNone
<1>5. \A i \in Int : IsFiniteSet(1 .. i)
  BY FS_Interval
<1>6. ASSUME NEW i \in Segments
      PROVE  LenUpTo(i + 1) = LenUpTo(i) + SegLen(i)
  <2>1. i \in 1 .. Len(waypoints) /\ i + 1 \in 1 .. Len(waypoints) /\ i \in Int /\ (i + 1) - 1 = i
    BY <1>1 DEF Segments
  <2>2. \A j \in 1 .. i : lens(i + 1)[j] = SegLen(j) /\ SegLen(j) \in Nat
    BY <1>3, <2>1
  <2>3. i \in 1 .. i /\ (1 .. i) \ {i} = 1 .. i - 1
    BY <2>1
  <2>4. SumFunctionOnSet(lens(i + 1), 1 .. i)
          = SegLen(i) + SumFunctionOnSet(lens(i + 1), 1 .. i - 1)
    <3>1. \A j \in 1 .. i : lens(i + 1)[j] \in Int
      BY <2>2
    <3>2. SumFunctionOnSet(lens(i + 1), 1 .. i)
            = lens(i + 1)[i] + SumFunctionOnSet(lens(i + 1), (1 .. i) \ {i})
      BY <3>1, <2>1, <2>3, <1>5, SumOfRest
    <3>. QED
      BY <3>2, <2>2, <2>3
  <2>5. SumFunctionOnSet(lens(i + 1), 1 .. i - 1) = SumFunctionOnSet(lens(i), 1 .. i - 1)
    <3>1. \A j \in 1 .. i - 1 : lens(i + 1)[j] = lens(i)[j]
      BY <2>1, <2>2, <1>3
    <3>2. IsFiniteSet(1 .. i - 1)
      BY <2>1, <1>5
    <3>. QED
      BY <3>1, <3>2, SumOfSame
  <2>6. SumFunctionOnSet(lens(i), 1 .. i - 1) \in Nat /\ SegLen(i) \in Nat
    <3>1. IsFiniteSet(1 .. i - 1) /\ \A j \in 1 .. i - 1 : lens(i)[j] \in Nat
      BY <2>1, <1>3, <1>5
    <3>. QED
      BY <3>1, SumIsNumber, SegmentLengths
  <2>. QED
    BY <2>1, <2>4, <2>5, <2>6, <1>2
<1>7. ASSUME NEW i \in 1 .. Len(waypoints)
      PROVE  LenUpTo(i) \in Nat
  <2>1. IsFiniteSet(1 .. i - 1) /\ \A j \in 1 .. i - 1 : lens(i)[j] \in Nat
    BY <1>3, <1>5, <1>1
  <2>. QED
    BY <2>1, <1>2, SumIsNumber
<1>. QED
  BY <1>4, <1>6, <1>7

\* A route is a point or at least ten long, and no waypoint is past its end.
LEMMA LengthOfRoute ==
    ASSUME IsRoute(waypoints), Len(waypoints) >= 2
    PROVE  /\ TotalLen \in Nat /\ (TotalLen = 0 \/ TotalLen >= 10)
           /\ \A i \in 1 .. Len(waypoints) : LenUpTo(i) <= TotalLen
<1>. DEFINE n == Len(waypoints)
            Wrong == {i \in 1 .. n : ~(LenUpTo(i) = 0 \/ LenUpTo(i) >= 10)}
            Past == {k \in 0 .. n - 1 : ~(LenUpTo(n - k) <= TotalLen)}
<1>1. n \in Nat /\ n >= 2
  BY DEF IsRoute
<1>2. \A i \in 1 .. n - 1 : SegLen(i) \in Nat /\ (SegLen(i) = 0 \/ SegLen(i) >= 10)
  BY SegmentLengths DEF Segments
<1>3. /\ LenUpTo(1) = 0 /\ \A i \in 1 .. n : LenUpTo(i) \in Nat
      /\ \A i \in 1 .. n - 1 : LenUpTo(i + 1) = LenUpTo(i) + SegLen(i)
  BY LengthGrows DEF Segments
<1>4. TotalLen = LenUpTo(n)
  BY DEF TotalLen
<1>. HIDE DEF n
<1>5. Wrong = {}
  <2>. SUFFICES ASSUME Wrong # {} PROVE FALSE
    OBVIOUS
  <2>1. Wrong \in SUBSET Nat
    BY <1>1
  <2>2. PICK i \in Wrong : \A j \in Wrong : i <= j
    <3>. HIDE DEF Wrong
    <3>. QED
      BY <2>1, LeastNatural
  <2>3. i \in 1 .. n /\ i # 1
    BY <2>2, <1>3
  <2>4. i - 1 \in 1 .. n - 1 /\ i - 1 \in 1 .. n /\ i - 1 \notin Wrong /\ (i - 1) + 1 = i
    BY <2>2, <2>3, <1>1
  <2>5. LenUpTo(i) = LenUpTo(i - 1) + SegLen(i - 1)
    BY <2>4, <1>3
  <2>. QED
    BY <2>2, <2>4, <2>5, <1>2, <1>3
<1>6. Past = {}
  <2>. SUFFICES ASSUME Past # {} PROVE FALSE
    OBVIOUS
  <2>1. Past \in SUBSET Nat
    BY <1>1
  <2>2. PICK k \in Past : \A j \in Past : k <= j
    <3>. HIDE DEF Past
    <3>. QED
      BY <2>1, LeastNatural
  <2>3. k \in 0 .. n - 1 /\ k # 0
    <3>1. LenUpTo(n - 0) <= TotalLen
      BY <1>1, <1>3, <1>4
    <3>. QED
      BY <2>2, <3>1
  <2>4. k - 1 \in 0 .. n - 1 /\ k - 1 \notin Past /\ n - (k - 1) = (n - k) + 1 /\ n - k \in 1 .. n - 1
    BY <2>2, <2>3, <1>1
  <2>5. LenUpTo((n - k) + 1) = LenUpTo(n - k) + SegLen(n - k)
    BY <2>4, <1>3
  <2>6. LenUpTo((n - k) + 1) <= TotalLen
    BY <2>4
  <2>7. LenUpTo(n - k) \in Nat /\ SegLen(n - k) \in Nat /\ TotalLen \in Nat
    BY <2>4, <1>1, <1>2, <1>3, <1>4
  <2>8. ~(LenUpTo(n - k) <= TotalLen)
    BY <2>2
  <2>. QED
    BY <2>5, <2>6, <2>7, <2>8
<1>7. \A i \in 1 .. n : LenUpTo(i) <= TotalLen
  <2>1. \A i \in 1 .. n : n - i \in 0 .. n - 1 /\ n - (n - i) = i
    BY <1>1
  <2>. QED
    BY <1>6, <2>1
<1>8. n \in 1 .. n
  BY <1>1
<1>9. TotalLen = 0 \/ TotalLen >= 10
  BY <1>5, <1>8, <1>4
<1>. QED
  BY <1>3, <1>4, <1>7, <1>8, <1>9 DEF n

\* The segment for a length on the route begins before it and ends after it, and
\* has a direction unless the length is 0.
LEMMA SegmentReaches ==
    ASSUME IsRoute(waypoints), Len(waypoints) >= 2, NEW len \in 0 .. TotalLen
    PROVE  /\ SegmentAt(len) \in Segments
           /\ LenUpTo(SegmentAt(len)) <= len /\ len <= LenUpTo(SegmentAt(len)) + SegLen(SegmentAt(len))
           /\ len > 0 => SegLen(SegmentAt(len)) > 0
<1>. DEFINE n == Len(waypoints)
            Ends == {j \in 1 .. n - 1 : LenUpTo(j) + SegLen(j) >= len}
            S == {n - 1} \union Ends
            i == SegmentAt(len)
<1>1. n \in Nat /\ n >= 2
  BY DEF IsRoute
<1>2. \A j \in 1 .. n - 1 : SegLen(j) \in Nat
  BY SegmentLengths DEF Segments
<1>3. /\ LenUpTo(1) = 0 /\ \A j \in 1 .. n : LenUpTo(j) \in Nat
      /\ \A j \in 1 .. n - 1 : LenUpTo(j + 1) = LenUpTo(j) + SegLen(j)
  BY LengthGrows DEF Segments
<1>4. TotalLen = LenUpTo(n) /\ TotalLen \in Nat
  BY LengthOfRoute DEF TotalLen
<1>5. i = Min(S)
  BY DEF SegmentAt, Segments
<1>. HIDE DEF n, i
<1>6. S \subseteq 1 .. n - 1 /\ n - 1 \in S
  BY <1>1
<1>7. IsFiniteSet(S) /\ \A b \in S : b \in Int
  <2>1. IsFiniteSet(1 .. n - 1)
    <3>1. 1 \in Int /\ n - 1 \in Int
      BY <1>1
    <3>. QED
      BY <3>1, FS_Interval
  <2>. QED
    BY <2>1, <1>6, FS_Subset
<1>8. i \in S /\ \A b \in S : i <= b
  <2>. HIDE DEF S
  <2>. QED
    BY <1>5, <1>6, <1>7, LeastOfFinite
<1>9. i \in 1 .. n - 1 /\ i \in 1 .. n
  BY <1>6, <1>8, <1>1
<1>10. len <= LenUpTo(i) + SegLen(i)
  <2>1. CASE i \in Ends
    BY <2>1, <1>2, <1>3, <1>9
  <2>2. CASE i = n - 1
    <3>1. LenUpTo((n - 1) + 1) = LenUpTo(n - 1) + SegLen(n - 1) /\ (n - 1) + 1 = n
      BY <1>1, <1>3
    <3>. QED
      BY <2>2, <3>1, <1>4
  <2>. QED
    BY <2>1, <2>2, <1>8
<1>11. i # 1 => LenUpTo(i) < len
  <2>. SUFFICES ASSUME i # 1 PROVE LenUpTo(i) < len
    OBVIOUS
  <2>1. i - 1 \in 1 .. n - 1 /\ (i - 1) + 1 = i /\ i - 1 \in 1 .. n
    BY <1>9, <1>1
  <2>2. i - 1 \notin S
    BY <1>8, <1>9
  <2>3. LenUpTo(i) = LenUpTo(i - 1) + SegLen(i - 1) /\ LenUpTo(i - 1) \in Nat /\ SegLen(i - 1) \in Nat
    BY <2>1, <1>2, <1>3
  <2>4. ~(LenUpTo(i - 1) + SegLen(i - 1) >= len)
    BY <2>1, <2>2
  <2>. QED
    BY <2>3, <2>4
<1>12. LenUpTo(i) <= len /\ (len > 0 => LenUpTo(i) < len)
  BY <1>11, <1>3, <1>4, <1>9
<1>. QED
  BY <1>9, <1>10, <1>12, <1>2, <1>3, <1>4 DEF Segments, n, i

-----------------------------------------------------------------------------
(* Places for labels: the points on a route and beside it.                  *)

\* A point d along the unit vector of a segment from its start is on the segment
\* and d away from the start, if the segment is that long.
LEMMA AlongSegment ==
    ASSUME IsRoute(waypoints), NEW i \in Segments, NEW d \in 0 .. SegLen(i)
    PROVE  LET p == Along(waypoints[i], Tangent(i), d) IN
           /\ p \in Point /\ Tangent(i) \in Point
           /\ OnSegment(p, i)
           /\ Distance(p.x, waypoints[i].x) + Distance(p.y, waypoints[i].y) = d
           /\ SegLen(i) > 0 => (Tangent(i).x # 0 \/ Tangent(i).y # 0)
<1>. DEFINE a == waypoints[i]
            b == waypoints[i + 1]
            t == Tangent(i)
            p == Along(a, t, d)
<1>1. i \in DOMAIN waypoints /\ i + 1 \in DOMAIN waypoints
  BY DEF IsRoute, Segments
<1>2. a.x \in Int /\ a.y \in Int /\ b.x \in Int /\ b.y \in Int
  <2>1. a \in Point /\ b \in Point
    BY <1>1 DEF IsRoute
  <2>. HIDE DEF a, b
  <2>. QED
    BY <2>1 DEF Point
<1>3. a.x = b.x \/ a.y = b.y
  BY DEF IsRoute, Segments
<1>4. SegLen(i) = Distance(a.x, b.x) + Distance(a.y, b.y)
  BY DEF SegLen
<1>5. t = [x |-> Sign(b.x - a.x), y |-> Sign(b.y - a.y)]
  BY DEF Tangent
<1>6. OnSegment(p, i) <=> Within(p.x, a.x, b.x) /\ Within(p.y, a.y, b.y)
  BY DEF OnSegment
<1>. HIDE DEF a, b, t, p
<1>7. t.x = Sign(b.x - a.x) /\ t.y = Sign(b.y - a.y)
  BY <1>5
<1>8. p.x = a.x + d * t.x /\ p.y = a.y + d * t.y /\ p = [x |-> p.x, y |-> p.y]
  BY DEF p, Along
<1>9. \A u, v \in Int : \A e \in 0 .. Distance(u, v) :
          /\ Sign(v - u) \in {-1, 0, 1}
          /\ u + e * Sign(v - u) \in Int
          /\ Within(u + e * Sign(v - u), u, v)
          /\ Distance(u + e * Sign(v - u), u) = e
          /\ Distance(u, v) > 0 => Sign(v - u) # 0
  <2>. SUFFICES ASSUME NEW u \in Int, NEW v \in Int, NEW e \in 0 .. Distance(u, v)
                PROVE  /\ Sign(v - u) \in {-1, 0, 1}
                       /\ u + e * Sign(v - u) \in Int
                       /\ Within(u + e * Sign(v - u), u, v)
                       /\ Distance(u + e * Sign(v - u), u) = e
                       /\ Distance(u, v) > 0 => Sign(v - u) # 0
    OBVIOUS
  <2>1. CASE u < v
    <3>1. Sign(v - u) = 1 /\ e * 1 = e
      BY <2>1 DEF Sign
    <3>. QED
      BY <2>1, <3>1 DEF Within, Distance
  <2>2. CASE v < u
    <3>1. Sign(v - u) = -1 /\ e * (-1) = -e
      BY <2>2 DEF Sign
    <3>. QED
      BY <2>2, <3>1 DEF Within, Distance
  <2>3. CASE u = v
    <3>1. Sign(v - u) = 0 /\ e = 0 /\ e * 0 = 0
      BY <2>3 DEF Sign, Distance
    <3>. QED
      BY <2>3, <3>1 DEF Within, Distance
  <2>. QED
    BY <2>1, <2>2, <2>3
<1>10. \A u \in Int : /\ Distance(u, u) = 0 /\ Sign(u - u) = 0 /\ Within(u, u, u)
                      /\ u + d * 0 = u /\ Distance(u, u) = 0
  BY DEF Distance, Sign, Within
<1>11. Distance(a.x, b.x) \in Nat /\ Distance(a.y, b.y) \in Nat
  BY <1>2 DEF Distance
<1>12. /\ p.x \in Int /\ p.y \in Int /\ t.x \in Int /\ t.y \in Int
       /\ Within(p.x, a.x, b.x) /\ Within(p.y, a.y, b.y)
       /\ Distance(p.x, a.x) + Distance(p.y, a.y) = d
       /\ SegLen(i) > 0 => (t.x # 0 \/ t.y # 0)
  <2>1. CASE a.x = b.x
    <3>1. Distance(a.x, b.x) = 0 /\ t.x = 0 /\ p.x = a.x /\ Within(p.x, a.x, b.x) /\ Distance(p.x, a.x) = 0
      BY <2>1, <1>2, <1>7, <1>8, <1>10
    <3>2. d \in 0 .. Distance(a.y, b.y) /\ SegLen(i) = Distance(a.y, b.y)
      BY <3>1, <1>4, <1>11
    <3>3. /\ t.y \in {-1, 0, 1} /\ p.y \in Int /\ Within(p.y, a.y, b.y) /\ Distance(p.y, a.y) = d
          /\ Distance(a.y, b.y) > 0 => t.y # 0
      BY <3>2, <1>2, <1>7, <1>8, <1>9
    <3>. QED
      BY <3>1, <3>2, <3>3, <1>2
  <2>2. CASE a.y = b.y
    <3>1. Distance(a.y, b.y) = 0 /\ t.y = 0 /\ p.y = a.y /\ Within(p.y, a.y, b.y) /\ Distance(p.y, a.y) = 0
      BY <2>2, <1>2, <1>7, <1>8, <1>10
    <3>2. d \in 0 .. Distance(a.x, b.x) /\ SegLen(i) = Distance(a.x, b.x)
      BY <3>1, <1>4, <1>11
    <3>3. /\ t.x \in {-1, 0, 1} /\ p.x \in Int /\ Within(p.x, a.x, b.x) /\ Distance(p.x, a.x) = d
          /\ Distance(a.x, b.x) > 0 => t.x # 0
      BY <3>2, <1>2, <1>7, <1>8, <1>9
    <3>. QED
      BY <3>1, <3>2, <3>3, <1>2
  <2>. QED
    BY <2>1, <2>2, <1>3
<1>13. p \in Point /\ t \in Point
  BY <1>12, <1>8, <1>5, <1>7 DEF Point
<1>. QED
  BY <1>6, <1>12, <1>13 DEF a, b, t, p

\* What a sample is.
LEMMA SampleOnRoute ==
    ASSUME IsRoute(waypoints), Len(waypoints) >= 2, NEW tenths \in 0 .. 10
    PROVE  /\ Sample(tenths).pos \in Point /\ Sample(tenths).tangent \in Point
           /\ \E i \in Segments : /\ OnSegment(Sample(tenths).pos, i)
                                  /\ Reached(Sample(tenths).pos, i) = (TotalLen * tenths) \div 10
           /\ (TotalLen > 0 /\ tenths > 0)
                => (Sample(tenths).tangent.x # 0 \/ Sample(tenths).tangent.y # 0)
<1>. DEFINE len == (TotalLen * tenths) \div 10
            i == SegmentAt(len)
            p == Along(waypoints[i], Tangent(i), len - LenUpTo(i))
<1>1. TotalLen \in Nat /\ (TotalLen = 0 \/ TotalLen >= 10)
  BY LengthOfRoute
<1>2. len \in 0 .. TotalLen /\ (TotalLen > 0 /\ tenths > 0 => len > 0)
  <2>. HIDE DEF len
  <2>. DEFINE T == TotalLen
  <2>0. len = (T * tenths) \div 10 /\ T \in Nat /\ (T = 0 \/ T >= 10)
    BY <1>1 DEF len
  <2>. HIDE DEF T
  <2>1. tenths \in Int /\ 0 <= tenths /\ tenths <= 10
    OBVIOUS
  <2>2. T * tenths \in Int /\ 0 <= T * tenths /\ T * tenths <= 10 * T
    BY <2>0, <2>1
  <2>3. tenths > 0 => T * tenths >= T
    BY <2>0, <2>1
  <2>. DEFINE m == T * tenths
  <2>4. m \in Int /\ 0 <= m /\ m <= 10 * T /\ (tenths > 0 => m >= T) /\ len = m \div 10
    BY <2>0, <2>2, <2>3
  <2>. HIDE DEF m
  <2>5. len \in 0 .. T /\ (T > 0 /\ tenths > 0 => len > 0)
    BY <2>0, <2>4
  <2>. QED
    BY <2>5 DEF T
<1>. HIDE DEF len
<1>3. /\ i \in Segments /\ LenUpTo(i) <= len /\ len <= LenUpTo(i) + SegLen(i)
      /\ len > 0 => SegLen(i) > 0
  BY <1>2, SegmentReaches
<1>. HIDE DEF i
<1>4. LenUpTo(i) \in Nat /\ SegLen(i) \in Nat
  <2>1. i \in 1 .. Len(waypoints)
    BY <1>3 DEF Segments, IsRoute
  <2>. QED
    BY <2>1, <1>3, LengthGrows, SegmentLengths
<1>5. len - LenUpTo(i) \in 0 .. SegLen(i) /\ len \in Int
  BY <1>2, <1>3, <1>4, <1>1
<1>6. /\ p \in Point /\ Tangent(i) \in Point /\ OnSegment(p, i)
      /\ Distance(p.x, waypoints[i].x) + Distance(p.y, waypoints[i].y) = len - LenUpTo(i)
      /\ SegLen(i) > 0 => (Tangent(i).x # 0 \/ Tangent(i).y # 0)
  BY <1>3, <1>5, AlongSegment
<1>7. Sample(tenths).pos = p /\ Sample(tenths).tangent = Tangent(i)
  BY DEF Sample, len, i
<1>. HIDE DEF p
<1>8. Reached(p, i) = len
  <2>. DEFINE u == Distance(p.x, waypoints[i].x)
              v == Distance(p.y, waypoints[i].y)
  <2>1. u \in Int /\ v \in Int
    <3>1. p.x \in Int /\ p.y \in Int
      BY <1>6 DEF Point
    <3>2. i \in DOMAIN waypoints
      BY <1>3 DEF IsRoute, Segments
    <3>3. waypoints[i] \in Point
      BY <3>2 DEF IsRoute
    <3>4. waypoints[i].x \in Int /\ waypoints[i].y \in Int
      BY <3>3 DEF Point
    <3>. QED
      BY <3>1, <3>4 DEF Distance
  <2>2. Reached(p, i) = LenUpTo(i) + u + v /\ u + v = len - LenUpTo(i)
    BY <1>6 DEF Reached
  <2>. HIDE DEF u, v
  <2>. QED
    BY <2>1, <2>2, <1>4, <1>5
<1>9. (TotalLen > 0 /\ tenths > 0) => (Tangent(i).x # 0 \/ Tangent(i).y # 0)
  BY <1>2, <1>3, <1>6
<1>. QED
  BY <1>3, <1>6, <1>7, <1>8, <1>9 DEF len

\* The three candidates at a point: the point itself last, and apart if the route
\* has a direction there.
LEMMA CandidatesStandAround ==
    ASSUME NEW sample, sample.pos \in Point, sample.tangent \in Point,
           labelSize \in [width : Nat, height : Nat]
    PROVE  LET c == CandidatesAt(sample) IN
           /\ c \in Seq(Point) /\ Len(c) = 3 /\ c[3] = sample.pos
           /\ (sample.tangent.x # 0 \/ sample.tangent.y # 0)
                => (c[1] # c[2] /\ c[1] # c[3] /\ c[2] # c[3])
<1>. DEFINE normal == [x |-> -sample.tangent.y, y |-> sample.tangent.x]
            d == OffsetDist
            p == Along(sample.pos, normal, d)
            q == Along(sample.pos, normal, -d)
            a == sample.pos
<1>1. d \in Int /\ d >= 10
  <2>1. labelSize.width \in Nat /\ labelSize.height \in Nat
    OBVIOUS
  <2>2. Max({labelSize.width, labelSize.height}) \in Nat
    BY <2>1, MaxOfTwo
  <2>. QED
    BY <2>2 DEF OffsetDist
<1>. HIDE DEF d
<1>2. a.x \in Int /\ a.y \in Int /\ a = [x |-> a.x, y |-> a.y]
  BY DEF Point
<1>3. sample.tangent.x \in Int /\ sample.tangent.y \in Int
  BY DEF Point
<1>4. CandidatesAt(sample) = <<p, q, a>>
  BY DEF CandidatesAt, d
<1>. DEFINE u == -sample.tangent.y
            v == sample.tangent.x
<1>5. normal.x = u /\ normal.y = v /\ u \in Int /\ v \in Int
  BY <1>3
<1>6. /\ p = [x |-> a.x + d * u, y |-> a.y + d * v]
      /\ q = [x |-> a.x + (-d) * u, y |-> a.y + (-d) * v]
  BY <1>5 DEF Along
<1>7. (sample.tangent.x # 0 \/ sample.tangent.y # 0) => (u # 0 \/ v # 0)
  BY <1>3
<1>. HIDE DEF p, q, a, u, v, normal
<1>8. \A e, w \in Int : e >= 10 /\ w # 0 =>
          /\ e * w \in Int /\ (-e) * w = -(e * w) /\ e * w # 0
  OBVIOUS
<1>9. /\ d * u \in Int /\ d * v \in Int /\ (-d) * u = -(d * u) /\ (-d) * v = -(d * v)
      /\ u # 0 => d * u # 0
      /\ v # 0 => d * v # 0
  BY <1>1, <1>5, <1>8
<1>. DEFINE du == d * u
            dv == d * v
<1>10. /\ du \in Int /\ dv \in Int
       /\ p.x = a.x + du /\ p.y = a.y + dv /\ q.x = a.x - du /\ q.y = a.y - dv
       /\ (sample.tangent.x # 0 \/ sample.tangent.y # 0) => (du # 0 \/ dv # 0)
  BY <1>1, <1>2, <1>6, <1>7, <1>9
<1>. HIDE DEF du, dv
<1>11. p \in Point /\ q \in Point /\ a \in Point
  BY <1>2, <1>6, <1>9 DEF Point
<1>12. (sample.tangent.x # 0 \/ sample.tangent.y # 0) => (p # q /\ p # a /\ q # a)
  BY <1>2, <1>10
<1>. QED
  BY <1>4, <1>11, <1>12 DEF a

-----------------------------------------------------------------------------
(* Places for labels: what a candidate costs.                               *)

IsLabel == labelSize \in [width : Nat, height : Nat]

\* What a node adds to a candidate's score: at most a hundred hundredths beside it,
\* and a thousand times that and the area where they overlap.
LEMMA NodeScoreBounds ==
    ASSUME IsLabel, NEW c \in Point, NEW n \in Box
    PROVE  /\ OverlapArea(c, n) \in Nat /\ NodeScore(c, n) \in Nat
           /\ OverlapArea(c, n) = 0 => NodeScore(c, n) <= Hundred
           /\ OverlapArea(c, n) # 0 => NodeScore(c, n) >= Hundred * 1001
<1>1. /\ c.x \in Int /\ c.y \in Int /\ n.x \in Int /\ n.y \in Int /\ n.width \in Nat /\ n.height \in Nat
      /\ labelSize.width \in Nat /\ labelSize.height \in Nat
  BY DEF Point, Box, IsLabel
<1>2. \A a, p, b, q \in Int : Overlap(a, p, b, q) \in Nat
  <2>. SUFFICES ASSUME NEW a \in Int, NEW p \in Int, NEW b \in Int, NEW q \in Int
                PROVE  Overlap(a, p, b, q) \in Nat
    OBVIOUS
  <2>1. Min({a + p, b + q}) \in Int /\ Max({a - p, b - q}) \in Int
    <3>1. a + p \in Int /\ b + q \in Int /\ a - p \in Int /\ b - q \in Int
      OBVIOUS
    <3>. QED
      BY <3>1, MinOfTwo, MaxOfTwo
  <2>. DEFINE d == Min({a + p, b + q}) - Max({a - p, b - q})
  <2>2. d \in Int /\ Overlap(a, p, b, q) = Max({0, d})
    BY <2>1 DEF Overlap
  <2>. HIDE DEF d
  <2>. QED
    BY <2>2, MaxOfTwo
<1>3. OverlapArea(c, n) \in Nat
  <2>1. /\ Overlap(c.x, labelSize.width, n.x, n.width) \in Nat
        /\ Overlap(c.y, labelSize.height, n.y, n.height) \in Nat
    <3>1. n.width \in Int /\ n.height \in Int /\ labelSize.width \in Int /\ labelSize.height \in Int
      BY <1>1
    <3>. QED
      BY <3>1, <1>1, <1>2
  <2>. QED
    BY <2>1 DEF OverlapArea
<1>4. \A square \in Int : Closeness(square) \in 0 .. Hundred
  <2>. SUFFICES ASSUME NEW square \in Int PROVE Closeness(square) \in 0 .. Hundred
    OBVIOUS
  <2>. DEFINE m == Max({1, square})
              S == {r \in 0 .. Hundred : r * r * m <= Hundred * Hundred}
  <2>1. m \in Int
    BY MaxOfTwo
  <2>2. Closeness(square) = Max(S)
    BY DEF Closeness
  <2>. HIDE DEF m
  <2>3. 0 \in S
    <3>1. 0 * 0 * m = 0
      BY <2>1
    <3>. QED
      BY <3>1 DEF Hundred
  <2>4. IsFiniteSet(S) /\ \A b \in S : b \in Int
    <3>1. IsFiniteSet(0 .. Hundred)
      <4>1. 0 \in Int /\ 100 \in Int
        OBVIOUS
      <4>. QED
        BY <4>1, FS_Interval DEF Hundred
    <3>. QED
      BY <3>1, FS_Subset DEF Hundred
  <2>5. Max(S) \in S
    <3>. HIDE DEF S
    <3>. QED
      BY <2>3, <2>4, GreatestOfFinite
  <2>. QED
    BY <2>2, <2>5
<1>5. SquareDist(c, n) \in Int
  <2>. DEFINE dx == Max({0, Distance(c.x, n.x) - n.width})
              dy == Max({0, Distance(c.y, n.y) - n.height})
  <2>1. Distance(c.x, n.x) - n.width \in Int /\ Distance(c.y, n.y) - n.height \in Int
    BY <1>1 DEF Distance
  <2>2. dx \in Int /\ dy \in Int
    BY <2>1, MaxOfTwo
  <2>3. SquareDist(c, n) = dx * dx + dy * dy
    BY DEF SquareDist
  <2>. HIDE DEF dx, dy
  <2>. QED
    BY <2>2, <2>3
<1>6. OverlapArea(c, n) = 0 => NodeScore(c, n) \in 0 .. Hundred
  BY <1>4, <1>5 DEF NodeScore
<1>7. OverlapArea(c, n) # 0 => /\ NodeScore(c, n) = Hundred * (OverlapArea(c, n) + 1000)
                               /\ OverlapArea(c, n) >= 1
  BY <1>3 DEF NodeScore
<1>. QED
  BY <1>3, <1>6, <1>7 DEF Hundred

\* The nodes that a label may not cover.
NormalNodes == {k \in DOMAIN nodes : nodes[k].normal}

\* What a candidate costs that covers no node, and one that does.
LEMMA ScoreBounds ==
    ASSUME IsLabel, nodes \in Seq(Box), NEW c \in Point
    PROVE  /\ Score(c) \in Nat /\ Cardinality(NormalNodes) \in Nat
           /\ Free(c) => Score(c) <= Hundred * Cardinality(NormalNodes)
           /\ ~Free(c) => Score(c) >= Hundred * 1001
<1>. DEFINE f == [k \in NormalNodes |-> NodeScore(c, nodes[k])]
<1>1. Score(c) = SumFunctionOnSet(f, NormalNodes)
  BY DEF Score, SumFunction, NormalNodes
<1>2. IsFiniteSet(NormalNodes) /\ Cardinality(NormalNodes) \in Nat
  <2>1. Len(nodes) \in Nat /\ DOMAIN nodes = 1 .. Len(nodes)
    OBVIOUS
  <2>2. IsFiniteSet(DOMAIN nodes)
    BY <2>1, FS_Interval
  <2>. QED
    BY <2>2, FS_Subset, FS_CardinalityType DEF NormalNodes
<1>3. \A k \in NormalNodes : nodes[k] \in Box /\ f[k] = NodeScore(c, nodes[k])
  BY DEF NormalNodes
<1>. HIDE DEF f
<1>4. \A k \in NormalNodes : /\ f[k] \in Nat
                             /\ OverlapArea(c, nodes[k]) = 0 => f[k] <= Hundred
                             /\ OverlapArea(c, nodes[k]) # 0 => f[k] >= Hundred * 1001
  BY <1>3, NodeScoreBounds
<1>5. Free(c) <=> \A k \in NormalNodes : OverlapArea(c, nodes[k]) = 0
  BY DEF Free, NormalNodes
<1>6. SumFunctionOnSet(f, NormalNodes) \in Nat
  BY <1>2, <1>4, SumIsNumber
<1>7. Free(c) => SumFunctionOnSet(f, NormalNodes) <= Hundred * Cardinality(NormalNodes)
  <2>1. Hundred \in Nat
    BY DEF Hundred
  <2>. QED
    BY <2>1, <1>2, <1>4, <1>5, SumIsAtMost
<1>8. ~Free(c) => SumFunctionOnSet(f, NormalNodes) >= Hundred * 1001
  <2>. SUFFICES ASSUME ~Free(c) PROVE SumFunctionOnSet(f, NormalNodes) >= Hundred * 1001
    OBVIOUS
  <2>1. PICK k \in NormalNodes : OverlapArea(c, nodes[k]) # 0
    BY <1>5
  <2>2. f[k] <= SumFunctionOnSet(f, NormalNodes)
    BY <1>2, <1>4, SumIsAtLeast
  <2>. QED
    BY <2>1, <2>2, <1>4, <1>6 DEF Hundred
<1>. QED
  BY <1>1, <1>2, <1>6, <1>7, <1>8

-----------------------------------------------------------------------------
(* Places for labels: the inductive invariant.                              *)

\* What the caller handed over is never written.
CallInv ==
    /\ IsRoute(waypoints) /\ nodes \in Seq(Box)
    /\ labelSize = None \/ IsLabel

Offered == FlattenSeq([s \in 1 .. 7 |-> CandidatesAt(Samples[s])])

\* The list of candidates is the one of the call, and is made for a label and a
\* route that has a segment.
CandidatesInv ==
    candidates # <<>> => /\ candidates = Offered
                         /\ labelSize # None /\ Len(waypoints) >= 2

\* The best candidate so far is one that was judged, with its own score, and no
\* candidate judged so far has a lower one.
ChoiceInv ==
    nextCandidate # 1 =>
        /\ minScore = Score(bestCandidate)
        /\ \A k \in 1 .. nextCandidate - 1 : minScore <= Score(candidates[k])

LabelIInv == CallInv /\ LabelTypeOK /\ CandidatesInv /\ ChoiceInv

\* The candidates of a call: three for each of the seven samples.
LEMMA ThreePerSample ==
    ASSUME CallInv, labelSize # None, Len(waypoints) >= 2
    PROVE  /\ Offered \in Seq(Point) /\ Len(Offered) = 21
           /\ \A s \in 1 .. 7 : \A j \in 1 .. 3 : Offered[3 * (s - 1) + j] = CandidatesAt(Samples[s])[j]
<1>. DEFINE f == [s \in 1 .. 7 |-> CandidatesAt(Samples[s])]
<1>1. \A s \in 1 .. 7 : Samples[s] = Sample(s + 1) /\ s + 1 \in 0 .. 10
  BY DEF Samples
<1>2. \A s \in 1 .. 7 : Samples[s].pos \in Point /\ Samples[s].tangent \in Point
  BY <1>1, SampleOnRoute DEF CallInv
<1>3. \A s \in 1 .. 7 : f[s] \in Seq(Point) /\ Len(f[s]) = 3
  BY <1>2, CandidatesStandAround DEF CallInv, IsLabel
<1>4. IsBlocks(f, 7, 3, Point)
  <2>. DEFINE T == Seq(Point)
  <2>1. f \in [1 .. 7 -> T]
    <3>1. f = [s \in 1 .. 7 |-> f[s]] /\ \A s \in 1 .. 7 : f[s] \in T
      BY <1>3
    <3>. HIDE DEF f, T
    <3>. QED
      BY <3>1
  <2>2. f \in Seq(T) /\ Len(f) = 7
    <3>. HIDE DEF f, T
    <3>1. [s \in 1 .. 7 |-> f[s]] \in Seq(T) /\ Len([s \in 1 .. 7 |-> f[s]]) = 7
      BY <2>1
    <3>. QED
      BY <2>1, <3>1
  <2>. QED
    BY <2>2, <1>3 DEF IsBlocks
<1>5. HoldsBlocks(FlattenSeq(f), f, 7, 3, Point)
  BY <1>4, FlattenBlocks
<1>6. Offered = FlattenSeq(f)
  BY DEF Offered
<1>7. \A s \in 1 .. 7 : f[s] = CandidatesAt(Samples[s])
  OBVIOUS
<1>. HIDE DEF f
<1>8. Offered \in Seq(Point) /\ Len(Offered) = 21
  BY <1>5, <1>6 DEF HoldsBlocks
<1>9. \A s \in 1 .. 7 : \A j \in 1 .. 3 : Offered[3 * (s - 1) + j] = f[s][j]
  BY <1>5, <1>6 DEF HoldsBlocks
<1>10. \A s \in 1 .. 7 : \A j \in 1 .. 3 : Offered[3 * (s - 1) + j] = CandidatesAt(Samples[s])[j]
  BY <1>7, <1>9
<1>. QED
  BY <1>8, <1>10

LEMMA LabelInitInv ==
    ASSUME LabelInit
    PROVE  LabelIInv
<1>1. CallInv
  BY LabelInputsAssumption DEF LabelInit, CallInv, IsLabel
<1>2. LabelTypeOK
  BY DEF LabelInit, LabelTypeOK, Range
<1>. QED
  BY <1>1, <1>2 DEF LabelInit, LabelIInv, CandidatesInv, ChoiceInv

\* The candidates and their scores depend on the call alone.
LEMMA CallIsKept ==
    ASSUME UNCHANGED call
    PROVE  Offered' = Offered /\ \A c : Score(c)' = Score(c)
<1>0. waypoints' = waypoints /\ labelSize' = labelSize /\ nodes' = nodes
  BY DEF call
<1>1. \A i : SegLen(i)' = SegLen(i)
  BY <1>0 DEF SegLen
<1>2. \A i : LenUpTo(i)' = LenUpTo(i)
  BY <1>1 DEF LenUpTo
<1>3. Segments' = Segments /\ TotalLen' = TotalLen
  BY <1>0, <1>2 DEF Segments, TotalLen
<1>4. \A i : Tangent(i)' = Tangent(i)
  BY <1>0 DEF Tangent
<1>5. \A len : SegmentAt(len)' = SegmentAt(len)
  BY <1>0, <1>1, <1>2, <1>3 DEF SegmentAt
<1>6. \A tenths : Sample(tenths)' = Sample(tenths)
  BY <1>0, <1>2, <1>3, <1>4, <1>5 DEF Sample
<1>7. Samples' = Samples
  BY <1>6 DEF Samples
<1>8. \A sample : CandidatesAt(sample)' = CandidatesAt(sample)
  BY <1>0 DEF CandidatesAt, OffsetDist
<1>9. Offered' = Offered
  BY <1>7, <1>8 DEF Offered
<1>10. \A c, n : OverlapArea(c, n)' = OverlapArea(c, n)
  BY <1>0 DEF OverlapArea
<1>11. \A c, n : NodeScore(c, n)' = NodeScore(c, n)
  BY <1>10 DEF NodeScore
<1>12. \A c : Score(c)' = Score(c)
  BY <1>0, <1>11 DEF Score
<1>. QED
  BY <1>9, <1>12

\* A call that returns, or a state in which nothing happens, leaves the list, the
\* place in it and the choice alone.
LEMMA NothingChosen ==
    ASSUME LabelIInv, UNCHANGED <<call, candidates, nextCandidate, bestCandidate, minScore>>,
           outcome' \in {"none", "None", "Some"}
    PROVE  LabelIInv'
<1>1. CallInv'
  BY DEF LabelIInv, CallInv, call, IsRoute, IsLabel
<1>2. LabelTypeOK'
  BY DEF LabelIInv, LabelTypeOK, call
<1>3. Offered' = Offered /\ \A c : Score(c)' = Score(c)
  BY CallIsKept
<1>4. CandidatesInv'
  BY <1>3 DEF LabelIInv, CandidatesInv, call
<1>5. ChoiceInv'
  BY <1>3 DEF LabelIInv, ChoiceInv, call
<1>. QED
  BY <1>1, <1>2, <1>4, <1>5 DEF LabelIInv

LEMMA LabelGenerated ==
    ASSUME LabelIInv, Generate
    PROVE  LabelIInv'
<1>1. labelSize # None /\ Len(waypoints) >= 2 /\ UNCHANGED call /\ candidates = <<>>
  BY DEF Generate
<1>2. CallInv'
  BY <1>1 DEF LabelIInv, CallInv, call, IsRoute, IsLabel
<1>3. /\ candidates' = Offered /\ bestCandidate' = candidates'[1]
      /\ nextCandidate' = nextCandidate /\ minScore' = minScore /\ outcome' = outcome
  BY DEF Generate, Offered
<1>4. Offered \in Seq(Point) /\ Len(Offered) = 21
  BY <1>1, ThreePerSample DEF LabelIInv
<1>5. nextCandidate = 1 /\ minScore = None /\ outcome \in {"none", "None", "Some"}
  BY <1>1 DEF LabelIInv, LabelTypeOK
<1>6. LabelTypeOK'
  <2>. DEFINE o == Offered
  <2>1. o \in Seq(Point) /\ Len(o) = 21 /\ candidates' = o
    BY <1>3, <1>4
  <2>. HIDE DEF o
  <2>2. o # <<>> /\ DOMAIN o = 1 .. 21 /\ 1 \in 1 .. 21
    BY <2>1
  <2>3. Range(o) \subseteq Point /\ o[1] \in Range(o)
    <3>1. \A k \in DOMAIN o : o[k] \in Point
      BY <2>1, <2>2, ListElements
    <3>. QED
      BY <3>1, <2>2 DEF Range
  <2>. QED
    BY <2>1, <2>2, <2>3, <1>3, <1>5 DEF LabelTypeOK
<1>7. CandidatesInv'
  <2>1. Offered' = Offered
    BY <1>1, CallIsKept
  <2>. QED
    BY <2>1, <1>1, <1>3 DEF CandidatesInv, call
<1>8. ChoiceInv'
  BY <1>3, <1>5 DEF ChoiceInv
<1>. QED
  BY <1>2, <1>6, <1>7, <1>8 DEF LabelIInv

\* Judging a candidate keeps the best of those judged.
LEMMA LabelJudged ==
    ASSUME LabelIInv, Judge
    PROVE  LabelIInv'
<1>. DEFINE n == nextCandidate
            c == candidates[n]
<1>1. /\ UNCHANGED call /\ candidates' = candidates /\ outcome' = outcome /\ nextCandidate' = n + 1
      /\ candidates # <<>> /\ n <= Len(candidates)
  BY DEF Judge, call
<1>2. CallInv /\ LabelTypeOK /\ CandidatesInv /\ ChoiceInv
  BY DEF LabelIInv
<1>3. CallInv'
  BY <1>1, <1>2 DEF CallInv, call, IsRoute, IsLabel
<1>4. /\ Offered' = Offered /\ \A p : Score(p)' = Score(p)
  BY <1>1, CallIsKept
<1>5. CandidatesInv'
  BY <1>1, <1>2, <1>4 DEF CandidatesInv, call
<1>6. candidates \in Seq(Point) /\ Len(candidates) = 21 /\ IsLabel /\ nodes \in Seq(Box)
  BY <1>1, <1>2, ThreePerSample DEF CandidatesInv, CallInv
<1>7. n \in 1 .. 21
  BY <1>1, <1>2, <1>6 DEF LabelTypeOK
<1>8. \A k \in 1 .. 21 : candidates[k] \in Point /\ Score(candidates[k]) \in Nat /\ candidates[k] \in Range(candidates)
  <2>1. \A k \in 1 .. 21 : candidates[k] \in Point
    BY <1>6, ListElements
  <2>2. \A k \in 1 .. 21 : k \in DOMAIN candidates
    BY <1>6
  <2>. QED
    BY <2>1, <2>2, <1>6, ScoreBounds DEF Range
<1>9. bestCandidate \in Range(candidates) /\ (n = 1 => minScore = None) /\ (n # 1 => minScore \in Nat)
  BY <1>1, <1>2 DEF LabelTypeOK
<1>10. \/ (minScore = None \/ Score(c) < minScore) /\ minScore' = Score(c) /\ bestCandidate' = c
       \/ ~(minScore = None \/ Score(c) < minScore) /\ minScore' = minScore /\ bestCandidate' = bestCandidate
  BY DEF Judge
<1>. DEFINE s == Score(c)
<1>11. s \in Nat /\ c \in Range(candidates)
  BY <1>7, <1>8
<1>12. \A k \in 1 .. n - 1 : n # 1 /\ minScore <= Score(candidates[k]) /\ Score(candidates[k]) \in Nat
  BY <1>2, <1>7, <1>8 DEF ChoiceInv
<1>13. n # 1 => minScore = Score(bestCandidate)
  BY <1>2 DEF ChoiceInv
<1>14. (n # 1) <=> (minScore # None)
  BY <1>9, NoneAssumption
<1>. HIDE DEF s
<1>15. /\ minScore' \in Nat /\ bestCandidate' \in Range(candidates)
       /\ minScore' <= s /\ \A k \in 1 .. n - 1 : minScore' <= Score(candidates[k])
  <2>1. CASE (minScore = None \/ s < minScore) /\ minScore' = s /\ bestCandidate' = c
    <3>1. minScore' \in Nat /\ bestCandidate' \in Range(candidates) /\ minScore' <= s
      BY <2>1, <1>11
    <3>2. \A k \in 1 .. n - 1 : minScore' <= Score(candidates[k])
      BY <2>1, <1>9, <1>11, <1>12, <1>14
    <3>. QED
      BY <3>1, <3>2
  <2>2. CASE ~(minScore = None \/ s < minScore) /\ minScore' = minScore /\ bestCandidate' = bestCandidate
    <3>1. minScore \in Nat /\ minScore <= s
      BY <2>2, <1>9, <1>11, <1>14
    <3>. QED
      BY <3>1, <2>2, <1>9, <1>12
  <2>. QED
    BY <2>1, <2>2, <1>10 DEF s
<1>16. minScore' = Score(bestCandidate')
  BY <1>10, <1>13, <1>14
<1>17. Score(bestCandidate)' = Score(bestCandidate')
  BY <1>1 DEF Score, NodeScore, OverlapArea, call
<1>18. LabelTypeOK'
  <2>1. /\ Len(candidates) \in {0, 21} /\ Range(candidates) \subseteq Point
        /\ outcome \in {"none", "None", "Some"}
    BY <1>2 DEF LabelTypeOK
  <2>2. nextCandidate' \in 1 .. Len(candidates') + 1 /\ nextCandidate' # 1
    BY <1>1, <1>6, <1>7
  <2>. QED
    BY <2>1, <2>2, <1>1, <1>15 DEF LabelTypeOK
<1>19. ChoiceInv'
  <2>1. \A k \in 1 .. nextCandidate' - 1 : minScore' <= Score(candidates[k])
    <3>1. \A k \in 1 .. nextCandidate' - 1 : k \in 1 .. n - 1 \/ k = n
      BY <1>1, <1>7
    <3>. QED
      BY <3>1, <1>15 DEF s
  <2>2. \A k \in 1 .. nextCandidate' - 1 : minScore' <= Score(candidates[k])'
    BY <2>1, <1>1, <1>4
  <2>. QED
    BY <2>2, <1>16, <1>17 DEF ChoiceInv
<1>. QED
  BY <1>3, <1>5, <1>18, <1>19 DEF LabelIInv

LEMMA LabelStepInv ==
    ASSUME LabelIInv, [LabelNext]_labelVars
    PROVE  LabelIInv'
<1>1. outcome \in {"none", "None", "Some"}
  BY DEF LabelIInv, LabelTypeOK
<1>2. CASE NoPosition
  BY <1>2, NothingChosen DEF NoPosition
<1>3. CASE Generate
  BY <1>3, LabelGenerated
<1>4. CASE Judge
  BY <1>4, LabelJudged
<1>5. CASE Settle
  BY <1>5, NothingChosen DEF Settle
<1>6. CASE LabelReturned
  BY <1>1, <1>6, NothingChosen DEF LabelReturned, labelVars
<1>7. CASE UNCHANGED labelVars
  BY <1>1, <1>7, NothingChosen DEF labelVars
<1>. QED
  BY <1>2, <1>3, <1>4, <1>5, <1>6, <1>7 DEF LabelNext, LabelStep

\* Whatever the call: the candidates are those of its samples, and the best one so
\* far has the lowest score of those judged (coordinates.rs:556-703).
THEOREM BestCandidateIsBest == LabelSpec => []LabelIInv
  BY LabelInitInv, LabelStepInv, PTL DEF LabelSpec

LEMMA LabelTypesHold ==
    ASSUME LabelIInv
    PROVE  LabelTypeOK
  BY DEF LabelIInv

\* The type invariant: 21 candidates or none, and a best one among them.
THEOREM LabelTypes == LabelSpec => []LabelTypeOK
  BY BestCandidateIsBest, LabelTypesHold, PTL

LEMMA SamplesFollow ==
    ASSUME LabelIInv
    PROVE  SamplesFollowRoute
<1>. SUFFICES ASSUME candidates # <<>>, NEW s \in 1 .. 7
              PROVE  /\ \E i \in Segments : /\ OnSegment(candidates[3 * s], i)
                                            /\ Reached(candidates[3 * s], i) = (TotalLen * (s + 1)) \div 10
                     /\ TotalLen > 0 => Cardinality({candidates[3 * s - k] : k \in 0 .. 2}) = 3
  BY DEF SamplesFollowRoute
<1>1. /\ candidates = Offered /\ labelSize # None /\ Len(waypoints) >= 2
      /\ IsRoute(waypoints) /\ IsLabel /\ CallInv
  BY DEF LabelIInv, CandidatesInv, CallInv
<1>. DEFINE c == CandidatesAt(Samples[s])
            t == Samples[s].tangent
<1>2. candidates[3 * s - 2] = c[1] /\ candidates[3 * s - 1] = c[2] /\ candidates[3 * s] = c[3]
  <2>1. \A j \in 1 .. 3 : Offered[3 * (s - 1) + j] = c[j]
    BY <1>1, ThreePerSample
  <2>2. /\ 3 * (s - 1) + 1 = 3 * s - 2 /\ 3 * (s - 1) + 2 = 3 * s - 1 /\ 3 * (s - 1) + 3 = 3 * s
        /\ 1 \in 1 .. 3 /\ 2 \in 1 .. 3 /\ 3 \in 1 .. 3
    OBVIOUS
  <2>. HIDE DEF c
  <2>3. Offered[3 * s - 2] = c[1]
    BY <2>1, <2>2
  <2>4. Offered[3 * s - 1] = c[2]
    BY <2>1, <2>2
  <2>5. Offered[3 * s] = c[3]
    BY <2>1, <2>2
  <2>. QED
    BY <2>3, <2>4, <2>5, <1>1
<1>3. Samples[s] = Sample(s + 1) /\ s + 1 \in 0 .. 10 /\ s + 1 > 0
  BY DEF Samples
<1>4. /\ Samples[s].pos \in Point /\ t \in Point
      /\ \E i \in Segments : /\ OnSegment(Samples[s].pos, i)
                             /\ Reached(Samples[s].pos, i) = (TotalLen * (s + 1)) \div 10
      /\ TotalLen > 0 => (t.x # 0 \/ t.y # 0)
  BY <1>1, <1>3, SampleOnRoute
<1>5. /\ c[3] = Samples[s].pos
      /\ (t.x # 0 \/ t.y # 0) => (c[1] # c[2] /\ c[1] # c[3] /\ c[2] # c[3])
  BY <1>1, <1>4, CandidatesStandAround DEF IsLabel
<1>6. TotalLen > 0 => Cardinality({candidates[3 * s - k] : k \in 0 .. 2}) = 3
  <2>. SUFFICES ASSUME TotalLen > 0 PROVE Cardinality({candidates[3 * s - k] : k \in 0 .. 2}) = 3
    OBVIOUS
  <2>1. c[1] # c[2] /\ c[1] # c[3] /\ c[2] # c[3]
    BY <1>4, <1>5
  <2>. HIDE DEF c
  <2>2. {candidates[3 * s - k] : k \in 0 .. 2} = {candidates[3 * s], candidates[3 * s - 1], candidates[3 * s - 2]}
    <3>1. 0 .. 2 = {0, 1, 2} /\ 3 * s - 0 = 3 * s
      OBVIOUS
    <3>. QED
      BY <3>1
  <2>3. {candidates[3 * s - k] : k \in 0 .. 2} = ({c[1]} \union {c[2]}) \union {c[3]}
    BY <2>2, <1>2
  <2>4. IsFiniteSet({c[1]}) /\ Cardinality({c[1]}) = 1
    BY FS_Singleton
  <2>5. IsFiniteSet({c[1]} \union {c[2]}) /\ Cardinality({c[1]} \union {c[2]}) = 2
    <3>1. c[2] \notin {c[1]}
      BY <2>1
    <3>2. /\ IsFiniteSet({c[1]} \union {c[2]})
          /\ Cardinality({c[1]} \union {c[2]}) = Cardinality({c[1]}) + 1
      BY <2>4, <3>1, FS_AddElement
    <3>. QED
      BY <2>4, <3>2
  <2>6. Cardinality(({c[1]} \union {c[2]}) \union {c[3]}) = 3
    <3>1. c[3] \notin {c[1]} \union {c[2]}
      BY <2>1
    <3>2. Cardinality(({c[1]} \union {c[2]}) \union {c[3]}) = Cardinality({c[1]} \union {c[2]}) + 1
      BY <2>5, <3>1, FS_AddElement
    <3>. QED
      BY <2>5, <3>2
  <2>. QED
    BY <2>3, <2>6
<1>. QED
  BY <1>2, <1>4, <1>5, <1>6

\* However many corners a route has, and over segments without length: the
\* candidates stand by the points at two, three, ... eight tenths of its length, one
\* on either side unless the route is a point.
THEOREM CandidatesFollowRoute == LabelSpec => []SamplesFollowRoute
  BY BestCandidateIsBest, SamplesFollow, PTL

LEMMA FreeWins ==
    ASSUME LabelIInv, Cardinality(NormalNodes) <= 1000
    PROVE  LabelAvoidsNodes
<1>. SUFFICES ASSUME NEW k \in 1 .. nextCandidate - 1, Free(candidates[k]), ~Free(bestCandidate)
              PROVE  FALSE
  BY DEF LabelAvoidsNodes
<1>1. nextCandidate \in 1 .. Len(candidates) + 1 /\ Len(candidates) \in {0, 21}
  BY DEF LabelIInv, LabelTypeOK
<1>2. candidates # <<>> /\ k \in DOMAIN candidates
  <2>. DEFINE l == Len(candidates)
              n == nextCandidate
  <2>0. n \in 1 .. l + 1 /\ (l = 0 \/ l = 21) /\ k \in 1 .. n - 1
    BY <1>1
  <2>. HIDE DEF l, n
  <2>1. l = 21 /\ k \in 1 .. 21
    BY <2>0
  <2>2. candidates # <<>>
    <3>1. Len(<<>>) = 0 /\ 21 # 0
      OBVIOUS
    <3>2. Len(candidates) = 21
      BY <2>1 DEF l
    <3>. QED
      BY <3>1, <3>2, Zenon
  <2>3. candidates \in Seq(Point)
    BY <2>2, ThreePerSample DEF LabelIInv, CandidatesInv
  <2>4. Len(candidates) = 21 /\ DOMAIN candidates = 1 .. 21
    BY <2>1, <2>3 DEF l
  <2>. QED
    BY <2>1, <2>2, <2>4
<1>3. IsLabel /\ nodes \in Seq(Box)
  BY <1>2 DEF LabelIInv, CallInv, CandidatesInv
<1>4. candidates[k] \in Point /\ bestCandidate \in Point
  BY <1>2 DEF LabelIInv, LabelTypeOK, Range
<1>5. Score(bestCandidate) <= Score(candidates[k])
  <2>1. nextCandidate # 1
    BY <1>1
  <2>. QED
    BY <2>1 DEF LabelIInv, ChoiceInv
<1>. DEFINE a == Score(candidates[k])
            b == Score(bestCandidate)
            n == Cardinality(NormalNodes)
<1>6. a \in Nat /\ b \in Nat /\ n \in Nat /\ a <= Hundred * n /\ b >= Hundred * 1001
  BY <1>3, <1>4, ScoreBounds
<1>7. b <= a /\ n <= 1000
  BY <1>5
<1>. HIDE DEF a, b, n
<1>. QED
  BY <1>6, <1>7 DEF Hundred

\* A label covers a node only if every candidate judged so far does, in a graph of
\* at most a thousand nodes that are no dummies: that many terms of at most 1 do
\* not outweigh the 1000 of a single overlap.
THEOREM FreePlacesWin == LabelSpec => [](Cardinality(NormalNodes) <= 1000 => LabelAvoidsNodes)
<1>1. LabelIInv => (Cardinality(NormalNodes) <= 1000 => LabelAvoidsNodes)
  BY FreeWins
<1>. QED
  BY <1>1, BestCandidateIsBest, PTL

=============================================================================
