----------------------------- MODULE EdgeRouting -----------------------------
(****************************************************************************)
(* route_edges (coordinates.rs), one action per branch of its loop over the *)
(* chains, with the arrowhead (compute_arrowhead) and the path segments     *)
(* that the FFI cuts each route into (ffi.rs).                              *)
(*                                                                          *)
(* The points are computed as the code computes them, from the positions    *)
(* and sizes of the nodes and from the displacement of parallel edges.      *)
(* Curve lengths, label places and wing geometry are left out.              *)
(****************************************************************************)
EXTENDS LayoutGraph, SequencesExt

CONSTANTS Inputs,   \* what a caller may hand over: [chains, pos]
          Styles    \* RoutingStyle: subset of {"Straight", "Orthogonal", "Bezier"}

ASSUME StylesAssumption == Styles \subseteq {"Straight", "Orthogonal", "Bezier"}

EdgeChain == [source : Nat, target : Nat, reversed : BOOLEAN, isSelfLoop : BOOLEAN, chain : Seq(Nat)]

\* Nodes with their centers and sizes.
Placement(p) ==
    /\ p \in [DOMAIN p -> [x : Int, y : Int, width : Nat, height : Nat]]
    /\ \A v, w \in DOMAIN p : v # w => <<p[v].x, p[v].y>> # <<p[w].x, p[w].y>>

\* No two nodes have one center: assign_coordinates keeps them apart when both gaps
\* are above 0 (Coordinates, SiblingsKeepGap and RanksDescend).
ASSUME InputsAssumption == \A g \in Inputs : g.chains \in Seq(EdgeChain) /\ Placement(g.pos)

\* The pair of ends under which pair_counts and pair_seen count a chain.
Pair(c) == {c.source, c.target}

IsLoop(c) == c.isSelfLoop \/ c.source = c.target

\* The chains that get a route: all but those too short for one.
IsDrawn(c) == IsLoop(c) \/ Len(c.chain) >= 2

\* Each chain runs between its own ends, those between the same ends run the same
\* way, and a dummy stands on one chain, once.
SoundChains(cs) ==
    LET Inner(k) == 2 .. Len(cs[k].chain) - 1
        Long == {k \in DOMAIN cs : IsDrawn(cs[k]) /\ ~IsLoop(cs[k])}
    IN \A j, k \in Long :
          /\ {Head(cs[j].chain), Last(cs[j].chain)} = Pair(cs[j])
          /\ Pair(cs[j]) = Pair(cs[k]) => Head(cs[j].chain) = Head(cs[k].chain)
          /\ \A p \in Inner(j), q \in Inner(k) : cs[j].chain[p] = cs[k].chain[q] => j = k /\ p = q

\* Such are the chains of insert_dummy_nodes, which all lead down the ranks
\* (DummyInsertion, ChainsCoverEdges and DummiesArePrivate).
ASSUME ChainsAssumption == \A g \in Inputs : SoundChains(g.chains)

VARIABLES chains,   \* the argument `chains`
          pos,      \* node.x, node.y, node.width and node.height, of every node
          style,    \* the argument `style`
          next,     \* the chain the loop is at
          seen,     \* pair_seen: how many chains of each pair are behind the loop
          routes,   \* routes
          result    \* "none" until the call returns, then Ok or DanglingEdge

vars == <<chains, pos, style, next, seen, routes, result>>

\* MUTANT of PairCount: an edge back is another pair.
PairCountOneWay(p) ==
    Cardinality({k \in DOMAIN chains : Pair(chains[k]) = p /\ chains[k].source <= chains[k].target})

PairCount(p) == Cardinality({k \in DOMAIN chains : Pair(chains[k]) = p})

Init ==
    /\ \E g \in Inputs :
        /\ chains = g.chains /\ pos = g.pos
        /\ seen = [p \in {Pair(c) : c \in Range(g.chains)} |-> 0]
    /\ style \in Styles
    /\ next = 1 /\ routes = <<>> /\ result = "none"

-----------------------------------------------------------------------------
(* The points of a route. Coordinates are in sixtieths of the code's unit,  *)
(* which makes all the halves, fifths and sixths of a number whole.         *)

Spot(x, y) == [x |-> x, y |-> y, aside |-> <<0, 0>>]

\* The point p moved across the line between two points by the displacement, which
\* is in tens. `aside` is that many times the normal (-dy, dx); the code divides it
\* by the length of the line, so it tells places apart for one line at a time.
MovedAside(p, from, to, offset) ==
    [x |-> p.x, y |-> p.y, aside |-> <<offset * (from.y - to.y), offset * (to.x - from.x)>>]

Middle(p, q) == Spot((p.x + q.x) \div 2, (p.y + q.y) \div 2)

\* The center of node v, or the middle of the side that lies in direction <<i, j>>.
At(v, i, j) == Spot(60 * pos[v].x + 30 * i * pos[v].width, 60 * pos[v].y + 30 * j * pos[v].height)

\* The displacement of a chain, of whose pair `before` were met already: spread
\* evenly about 0.
Offset(c, before) == 2 * before - (PairCount(Pair(c)) - 1)

Magnitude(i) == IF i < 0 THEN -i ELSE i

\* A loop above its node, wider by the magnitude of the displacement.
LoopPoints(c, offset) ==
    LET w == Max({16, pos[c.source].width})
        h == Max({16, pos[c.source].height})
        r == 360 * Magnitude(offset)
        Over(x, y) == Spot(60 * pos[c.source].x + x, 60 * pos[c.source].y - 30 * h - y)
        Peak == CASE style = "Straight" -> <<Over(0, 1200 + r)>>
                  [] style = "Orthogonal" -> <<Over(12 * w, 900 + r), Over(-12 * w, 900 + r)>>
                  [] style = "Bezier" -> <<Over(36 * w + 900 + r, 1500 + r), Over(-36 * w - 900 - r, 1500 + r)>>
    IN <<Over(12 * w, 0)>> \o Peak \o <<Over(-12 * w, 0)>>

Dx(c) == pos[c.target].x - pos[c.source].x
Dy(c) == pos[c.target].y - pos[c.source].y
Vertical(c) == Magnitude(Dy(c)) >= Magnitude(Dx(c))

\* The direction in which the target lies, up and down or across.
Heading(c) == IF Vertical(c) THEN <<0, IF Dy(c) >= 0 THEN 1 ELSE -1>>
              ELSE <<IF Dx(c) >= 0 THEN 1 ELSE -1, 0>>

\* The points that the chain's nodes give: first and last on a side, the others
\* (dummies) in the center.
Waypoints(c) ==
    LET d == Heading(c) IN
    [i \in DOMAIN c.chain |->
        IF i = 1 THEN At(c.chain[i], d[1], d[2])
        ELSE IF i = Len(c.chain) THEN At(c.chain[i], -d[1], -d[2])
        ELSE At(c.chain[i], 0, 0)]

Straight(ws, offset) ==
    LET p == ws[1]
        q == ws[Len(ws)]
    IN IF offset = 0 THEN <<p, q>> ELSE <<p, MovedAside(Middle(p, q), p, q, offset), q>>

\* Two bends between each waypoint and the next, at one height: only the height is
\* displaced.
Orthogonal(ws, offset) ==
    LET Height(i) == (ws[i].y + ws[i + 1].y) \div 2 + 180 * offset
        Bends(i) == <<Spot(ws[i].x, Height(i)), Spot(ws[i + 1].x, Height(i))>>
    IN <<ws[1]>> \o FlattenSeq([i \in 1 .. Len(ws) - 1 |-> Bends(i)]) \o <<ws[Len(ws)]>>

\* The cubic curve of a chain without dummies, without its start: moved aside.
SingleCurve(p, q, vertical, offset) ==
    LET m == Middle(p, q)
        first == IF vertical THEN Spot(p.x, m.y) ELSE Spot(m.x, p.y)
        second == IF vertical THEN Spot(q.x, m.y) ELSE Spot(m.x, q.y)
    IN <<MovedAside(first, p, q, offset), MovedAside(second, p, q, offset), q>>

\* One of several curves, from the i-th waypoint to the next, without its start: its
\* tangents lean on the waypoints before and after, mirrored where there is none.
SmoothCurve(ws, i) ==
    LET p == ws[i]
        q == ws[i + 1]
        before == IF i > 1 THEN ws[i - 1] ELSE Spot(2 * p.x - q.x, 2 * p.y - q.y)
        after == IF i + 1 < Len(ws) THEN ws[i + 2] ELSE Spot(2 * q.x - p.x, 2 * q.y - p.y)
    IN <<Spot(p.x + (after.x - before.x) \div 6, p.y + (after.y - before.y) \div 6),
         Spot(q.x - (after.x - p.x) \div 6, q.y - (after.y - p.y) \div 6), q>>

Curve(ws, i, vertical, offset) ==
    IF Len(ws) = 2 THEN SingleCurve(ws[1], ws[2], vertical, offset) ELSE SmoothCurve(ws, i)

\* MUTANT of Bezier: each curve brings its start along.
BezierRepeatsStarts(ws, vertical, offset) ==
    FlattenSeq([i \in 1 .. Len(ws) - 1 |-> <<ws[i]>> \o Curve(ws, i, vertical, offset)])

Bezier(ws, vertical, offset) ==
    <<ws[1]>> \o FlattenSeq([i \in 1 .. Len(ws) - 1 |-> Curve(ws, i, vertical, offset)])

\* The points of the route of a chain, in the style of the call.
Styled(c, offset) ==
    CASE style = "Straight" -> Straight(Waypoints(c), offset)
      [] style = "Orthogonal" -> Orthogonal(Waypoints(c), offset)
      [] style = "Bezier" -> Bezier(Waypoints(c), Vertical(c), offset)

\* compute_arrowhead, but for the angle and the wings.
ArrowheadOf(points) == [tip |-> points[Len(points)]]

RouteOf(c, points) ==
    [source |-> c.source, target |-> c.target, reversed |-> c.reversed,
     isSelfLoop |-> IsLoop(c), waypoints |-> points, arrowhead |-> ArrowheadOf(points)]

-----------------------------------------------------------------------------
(* The loop.                                                                *)

AtChain == result = "none" /\ next <= Len(chains)
C == chains[next]

\* The nodes that the code looks up for a chain, in `graph.nodes.get`.
Looked(c) == IF IsLoop(c) THEN {c.source} ELSE {c.source, c.target} \union Range(c.chain)

Counted == seen' = [seen EXCEPT ![Pair(C)] = @ + 1]

Dangling ==
    /\ AtChain /\ ~(Looked(C) \subseteq DOMAIN pos)
    /\ result' = "DanglingEdge" /\ Counted
    /\ UNCHANGED <<chains, pos, style, next, routes>>

RouteSelfLoop ==
    /\ AtChain /\ Looked(C) \subseteq DOMAIN pos /\ IsLoop(C)
    /\ routes' = Append(routes, RouteOf(C, LoopPoints(C, Offset(C, seen[Pair(C)]))))
    /\ Counted /\ next' = next + 1
    /\ UNCHANGED <<chains, pos, style, result>>

\* MUTANT of RouteChain: the chain is not counted as seen.
RouteChainUncounted ==
    /\ AtChain /\ Looked(C) \subseteq DOMAIN pos /\ ~IsLoop(C) /\ Len(Waypoints(C)) >= 2
    /\ routes' = Append(routes, RouteOf(C, Styled(C, Offset(C, seen[Pair(C)]))))
    /\ next' = next + 1
    /\ UNCHANGED <<chains, pos, style, seen, result>>

RouteChain ==
    /\ AtChain /\ Looked(C) \subseteq DOMAIN pos /\ ~IsLoop(C) /\ Len(Waypoints(C)) >= 2
    /\ routes' = Append(routes, RouteOf(C, Styled(C, Offset(C, seen[Pair(C)]))))
    /\ Counted /\ next' = next + 1
    /\ UNCHANGED <<chains, pos, style, result>>

\* MUTANT of SkipShortChain: a chain of one segment is skipped too.
SkipChainWithoutDummies ==
    /\ AtChain /\ Looked(C) \subseteq DOMAIN pos /\ ~IsLoop(C) /\ Len(Waypoints(C)) <= 2
    /\ Counted /\ next' = next + 1
    /\ UNCHANGED <<chains, pos, style, routes, result>>

\* A chain that gives fewer than two points has no route.
SkipShortChain ==
    /\ AtChain /\ Looked(C) \subseteq DOMAIN pos /\ ~IsLoop(C) /\ Len(Waypoints(C)) < 2
    /\ Counted /\ next' = next + 1
    /\ UNCHANGED <<chains, pos, style, routes, result>>

Finish ==
    /\ result = "none" /\ next > Len(chains)
    /\ result' = "Ok"
    /\ UNCHANGED <<chains, pos, style, next, seen, routes>>

Step == Dangling \/ RouteSelfLoop \/ RouteChain \/ SkipShortChain \/ Finish

\* After the return nothing happens: TLC reports a state where the code is stuck.
Returned == result # "none" /\ UNCHANGED vars

Next == Step \/ Returned

Spec == Init /\ [][Next]_vars

-----------------------------------------------------------------------------
(* The FFI's path segments: curves when the number of points allows it,     *)
(* lines otherwise.                                                         *)

Curves(points) ==
    [s \in 1 .. (Len(points) - 1) \div 3 |->
        [kind |-> "curve", start |-> points[3 * s - 2], end |-> points[3 * s + 1]]]

Lines(points) ==
    [i \in 1 .. Len(points) - 1 |-> [kind |-> "line", start |-> points[i], end |-> points[i + 1]]]

SegmentsOf(points) ==
    IF style = "Bezier" /\ Len(points) >= 4 /\ (Len(points) - 1) % 3 = 0
    THEN Curves(points) ELSE Lines(points)

-----------------------------------------------------------------------------
Points == [x : Int, y : Int, aside : Int \X Int]

(* The type invariant. *)
TypeOK ==
    /\ next \in 1 .. Len(chains) + 1
    /\ \A p \in DOMAIN seen : seen[p] \in 0 .. PairCount(p)
    /\ \A r \in Range(routes) : r.waypoints \in Seq(Points) /\ Len(r.waypoints) >= 2
    /\ result \in {"none", "Ok", "DanglingEdge"}

\* The chains behind the loop that get a route.
Routed == Picked(chains, {k \in 1 .. next - 1 : IsDrawn(chains[k])})

\* The middles of the sides of node v.
Sides(v) == {At(v, 0, 1), At(v, 0, -1), At(v, 1, 0), At(v, -1, 0)}

\* Every chain gets exactly one route, in the chains' order, under its own ends
\* and flags: the sequence can be zipped with the caller's edges
\* ("every_chain_gets_exactly_one_route", tests/pipeline_properties.rs:182).
OneRoutePerChain ==
    /\ Len(routes) = Len(Routed)
    /\ \A k \in DOMAIN routes :
          /\ <<routes[k].source, routes[k].target>> = <<Routed[k].source, Routed[k].target>>
          /\ routes[k].reversed = Routed[k].reversed
          /\ routes[k].isSelfLoop = IsLoop(Routed[k])
          /\ ~IsLoop(Routed[k]) =>
                /\ Head(routes[k].waypoints) \in Sides(Head(Routed[k].chain))
                /\ Last(routes[k].waypoints) \in Sides(Last(Routed[k].chain))

\* The displacement moves a route off its line: never between nodes that touch, and
\* in the Orthogonal style, where only the height of the bends is displaced
\* (coordinates.rs:840-842), only on a way from one column to another without dummies:
\* between nodes of one column all points stay on one vertical, and the heights of
\* dummies may make up for it.
Displaceable(points) ==
    /\ Head(points) # Last(points)
    /\ style = "Orthogonal" => Len(points) = 4 /\ Head(points).x # Last(points).x

\* Edges between the same two nodes, turned round or not, have different points, also
\* read backwards: however many there are, each is moved aside by another displacement
\* or leads over dummies of its own (coordinates.rs:710-729). Left out are the routes
\* that the displacement may leave where they are (Displaceable) and self-loops (see
\* LoopsDrawnApart): those can coincide.
ParallelEdgesDrawnApart ==
    \A j, k \in DOMAIN routes :
        /\ j # k /\ Pair(routes[j]) = Pair(routes[k])
        /\ ~routes[j].isSelfLoop /\ ~routes[k].isSelfLoop
        /\ Displaceable(routes[j].waypoints)
        => routes[k].waypoints \notin {routes[j].waypoints, Reverse(routes[j].waypoints)}

\* The segments the FFI hands out draw the whole route, from its first point to
\* its last without a break, as curves in the Bezier style and only there: the
\* count of points is right for it (ffi.rs:441-476, coordinates.rs:509, 597).
SegmentsDrawTheRoute ==
    \A k \in DOMAIN routes :
        LET points == routes[k].waypoints
            segments == SegmentsOf(points)
        IN /\ Head(segments).start = Head(points) /\ Last(segments).end = Last(points)
           /\ \A i \in 1 .. Len(segments) - 1 : segments[i].end = segments[i + 1].start
           /\ \A i \in DOMAIN segments : segments[i].kind = "curve" <=> style = "Bezier"

-----------------------------------------------------------------------------
(* What the comments say.                                                   *)

\* The arrowhead is "at the target node boundary" (types.rs:307); that of a loop is on
\* its node anyway.
ArrowheadAtTarget ==
    \A k \in DOMAIN routes :
        ~routes[k].isSelfLoop => routes[k].arrowhead.tip \in Sides(routes[k].target)

\* Multiplicity between a pair of nodes is tracked "to apply curvature offsets"
\* (coordinates.rs:710): two loops at one node are two curves.
LoopsDrawnApart ==
    \A j, k \in DOMAIN routes :
        /\ j # k /\ routes[j].isSelfLoop /\ routes[k].isSelfLoop
        /\ routes[j].source = routes[k].source
        => routes[j].waypoints # routes[k].waypoints

=============================================================================
