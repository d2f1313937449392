---------------------------- MODULE LabelPlacement ----------------------------
(****************************************************************************)
(* compute_label_position (coordinates.rs): 21 candidates along a route,    *)
(* one action per candidate that is scored against the nodes of the graph.  *)
(*                                                                          *)
(* The route is a polyline with segments along the axes (what Straight and  *)
(* Orthogonal routes between nodes above each other are); curves, which the *)
(* code first turns into polylines, are left out. Scores are in hundredths  *)
(* and rounded down. Names that EdgeRouting has too are prefixed by Label,  *)
(* so that one module can speak of both.                                    *)
(****************************************************************************)
EXTENDS Integers, SequencesExt

CONSTANTS LabelInputs,   \* the calls: [waypoints, labelSize, nodes]
          None           \* a missing value

ASSUME NoneAssumption == None \notin Nat

Point == [x : Int, y : Int]
Box == [x : Int, y : Int, width : Nat, height : Nat, normal : BOOLEAN]

\* A route with segments along the axes, on a grid of ten units: the code does not
\* round the tenths of a route's length, and no tenth of these is rounded either.
IsRoute(ws) ==
    /\ ws \in Seq(Point)
    /\ \A i \in DOMAIN ws : ws[i].x % 10 = 0 /\ ws[i].y % 10 = 0
    /\ \A i \in 1 .. Len(ws) - 1 : ws[i].x = ws[i + 1].x \/ ws[i].y = ws[i + 1].y

ASSUME LabelInputsAssumption ==
    \A c \in LabelInputs :
        /\ IsRoute(c.waypoints) /\ c.nodes \in Seq(Box)
        /\ c.labelSize = None \/ c.labelSize \in [width : Nat, height : Nat]

Hundred == 100

VARIABLES waypoints,    \* the points of the route
          labelSize,    \* half the label's width and height, or None
          nodes,        \* of the graph, as boxes with sizes halved
          candidates, nextCandidate, bestCandidate,
          minScore,     \* min_overlap_score, None for the infinity it starts from
          outcome       \* "none" until the call returns, then "None" or "Some"

call == <<waypoints, labelSize, nodes>>
labelVars == <<call, candidates, nextCandidate, bestCandidate, minScore, outcome>>

LabelInit ==
    /\ \E c \in LabelInputs : waypoints = c.waypoints /\ labelSize = c.labelSize /\ nodes = c.nodes
    /\ candidates = <<>> /\ nextCandidate = 1 /\ bestCandidate = None /\ minScore = None
    /\ outcome = "none"

NoPosition ==
    /\ outcome = "none" /\ (labelSize = None \/ Len(waypoints) < 2)
    /\ outcome' = "None"
    /\ UNCHANGED <<call, candidates, nextCandidate, bestCandidate, minScore>>

-----------------------------------------------------------------------------
(* The candidates.                                                          *)

Sign(i) == IF i > 0 THEN 1 ELSE IF i < 0 THEN -1 ELSE 0
Distance(a, b) == IF a < b THEN b - a ELSE a - b

Segments == 1 .. Len(waypoints) - 1
SegLen(i) ==
    Distance(waypoints[i].x, waypoints[i + 1].x) + Distance(waypoints[i].y, waypoints[i + 1].y)
LenUpTo(i) == SumFunction([j \in 1 .. i - 1 |-> SegLen(j)])   \* accum
TotalLen == LenUpTo(Len(waypoints))

\* The unit vector along segment i; no direction when the segment is a point.
Tangent(i) ==
    [x |-> Sign(waypoints[i + 1].x - waypoints[i].x), y |-> Sign(waypoints[i + 1].y - waypoints[i].y)]

\* MUTANT of SegmentAt: the segment before the one that reaches the length.
SegmentBefore(len) ==
    Max({1} \union {i \in Segments : LenUpTo(i) + SegLen(i) < len})

\* The first segment that reaches the length, or else the last one.
SegmentAt(len) ==
    Min({Len(waypoints) - 1} \union {i \in Segments : LenUpTo(i) + SegLen(i) >= len})

Along(p, t, d) == [x |-> p.x + d * t.x, y |-> p.y + d * t.y]

\* The point of the route at so many tenths of its length.
Sample(tenths) ==
    LET len == (TotalLen * tenths) \div 10
        i == SegmentAt(len)
    IN [pos |-> Along(waypoints[i], Tangent(i), len - LenUpTo(i)), tangent |-> Tangent(i)]

Samples == [s \in 1 .. 7 |-> Sample(s + 1)]

OffsetDist == 10 + (8 * Max({labelSize.width, labelSize.height})) \div 10

\* MUTANT of CandidatesAt: the point itself is no candidate.
CandidatesBeside(sample) ==
    LET normal == [x |-> -sample.tangent.y, y |-> sample.tangent.x]
    IN <<Along(sample.pos, normal, OffsetDist), Along(sample.pos, normal, -OffsetDist)>>

\* Beside the point on either side, and on it.
CandidatesAt(sample) ==
    LET normal == [x |-> -sample.tangent.y, y |-> sample.tangent.x]
    IN <<Along(sample.pos, normal, OffsetDist), Along(sample.pos, normal, -OffsetDist), sample.pos>>

Generate ==
    /\ outcome = "none" /\ labelSize # None /\ Len(waypoints) >= 2 /\ candidates = <<>>
    /\ candidates' = FlattenSeq([s \in 1 .. 7 |-> CandidatesAt(Samples[s])])
    /\ bestCandidate' = candidates'[1]
    /\ UNCHANGED <<call, nextCandidate, minScore, outcome>>

-----------------------------------------------------------------------------
(* The choice.                                                              *)

\* How far the intervals [a - p, a + p] and [b - q, b + q] overlap.
Overlap(a, p, b, q) == Max({0, Min({a + p, b + q}) - Max({a - p, b - q})})

OverlapArea(c, n) ==
    Overlap(c.x, labelSize.width, n.x, n.width) * Overlap(c.y, labelSize.height, n.y, n.height)

\* The square of the distance of c to the box of the node n.
SquareDist(c, n) ==
    LET dx == Max({0, Distance(c.x, n.x) - n.width})
        dy == Max({0, Distance(c.y, n.y) - n.height})
    IN dx * dx + dy * dy

\* 1 divided by a distance of at least 1, given its square.
Closeness(square) ==
    Max({r \in 0 .. Hundred : r * r * Max({1, square}) <= Hundred * Hundred})

NodeScore(c, n) ==
    IF OverlapArea(c, n) > 0 THEN Hundred * (OverlapArea(c, n) + 1000)
    ELSE Closeness(SquareDist(c, n))

\* Dummies are no obstacles.
Score(c) ==
    LET normal == {k \in DOMAIN nodes : nodes[k].normal}
    IN SumFunction([k \in normal |-> NodeScore(c, nodes[k])])

\* MUTANT of Judge: the score to beat is never set.
JudgeForgetsScore ==
    /\ outcome = "none" /\ candidates # <<>> /\ nextCandidate <= Len(candidates)
    /\ bestCandidate' = candidates[nextCandidate]
    /\ nextCandidate' = nextCandidate + 1
    /\ UNCHANGED <<call, candidates, minScore, outcome>>

\* A candidate replaces the best one so far only if it is better.
Judge ==
    /\ outcome = "none" /\ candidates # <<>> /\ nextCandidate <= Len(candidates)
    /\ LET score == Score(candidates[nextCandidate]) IN
       IF minScore = None \/ score < minScore
       THEN minScore' = score /\ bestCandidate' = candidates[nextCandidate]
       ELSE UNCHANGED <<minScore, bestCandidate>>
    /\ nextCandidate' = nextCandidate + 1
    /\ UNCHANGED <<call, candidates, outcome>>

Settle ==
    /\ outcome = "none" /\ candidates # <<>> /\ nextCandidate > Len(candidates)
    /\ outcome' = "Some"
    /\ UNCHANGED <<call, candidates, nextCandidate, bestCandidate, minScore>>

LabelStep == NoPosition \/ Generate \/ Judge \/ Settle

\* After the return nothing happens: TLC reports a state where the code is stuck.
LabelReturned == outcome # "none" /\ UNCHANGED labelVars

LabelNext == LabelStep \/ LabelReturned

LabelSpec == LabelInit /\ [][LabelNext]_labelVars

-----------------------------------------------------------------------------
(* The type invariant. *)
LabelTypeOK ==
    /\ Len(candidates) \in {0, 21} /\ Range(candidates) \subseteq Point
    /\ nextCandidate \in 1 .. Len(candidates) + 1
    /\ IF candidates = <<>> THEN bestCandidate = None ELSE bestCandidate \in Range(candidates)
    /\ IF nextCandidate = 1 THEN minScore = None ELSE minScore \in Nat
    /\ outcome \in {"none", "None", "Some"}

\* How far along the route p is, if it is on segment i.
Reached(p, i) == LenUpTo(i) + Distance(p.x, waypoints[i].x) + Distance(p.y, waypoints[i].y)
Within(p, a, b) == (a <= p /\ p <= b) \/ (b <= p /\ p <= a)
OnSegment(p, i) ==
    /\ Within(p.x, waypoints[i].x, waypoints[i + 1].x)
    /\ Within(p.y, waypoints[i].y, waypoints[i + 1].y)

\* The points that the candidates stand by are those at two, three, ... eight
\* tenths of the route's length, over segments of no length and round corners, and
\* each has a candidate on both sides of the route unless the route is a point
\* (coordinates.rs:619-659).
SamplesFollowRoute ==
    candidates # <<>> =>
        \A s \in 1 .. 7 :
            LET p == candidates[3 * s] IN
            /\ \E i \in Segments : OnSegment(p, i) /\ Reached(p, i) = (TotalLen * (s + 1)) \div 10
            /\ TotalLen > 0 => Cardinality({candidates[3 * s - k] : k \in 0 .. 2}) = 3

Free(c) == \A k \in DOMAIN nodes : nodes[k].normal => OverlapArea(c, nodes[k]) = 0

\* The label covers no node if there is a candidate that covers none, whatever the
\* nodes around it add to the candidate's score and wherever in the list it comes
\* ("obstacle-free label position", coordinates.rs:555).
LabelAvoidsNodes ==
    \A k \in 1 .. nextCandidate - 1 : Free(candidates[k]) => Free(bestCandidate)
=============================================================================
