-------------------------- MODULE OutlineAnalysis --------------------------
(***************************************************************************)
(* What the manufacturing engine reads of a shape: which subpaths are      *)
(* holes, how near edges come to each other, where corners are sharp       *)
(* (analysis_utils.py), and the warnings of its validator (validator.py).  *)
(*                                                                         *)
(* Distances are in tenths of a coordinate unit, rounded up, so that only  *)
(* edges that touch are at distance 0.                                     *)
(***************************************************************************)
EXTENDS Polygons

CONSTANTS
    MinLineWidth, MinBridgeWidth, MinSpacing,   \* of the RuleSet, in coordinate units
    MinEnclosedArea,                            \* in square units
    MaxNodeDensity                              \* nodes per hundred units

ASSUME RuleAssumption ==
    {MinLineWidth, MinBridgeWidth, MinSpacing, MinEnclosedArea, MaxNodeDensity} \subseteq Nat

\* The least r with r * r >= n, by Newton's iteration from a start above it.
RootUp(n) ==
    LET closer[r \in Nat] ==
            LET next == (r + n \div r) \div 2 IN IF next < r THEN closer[next] ELSE r
        root == closer[64 + n \div 64]
    IN  IF n = 0 THEN 0 ELSE IF root * root = n THEN root ELSE root + 1

DistanceTo(p, q) == RootUp(100 * SquaredDistance(p, q))

PointSegmentDistance(p, a, b) ==
    LET along == Dot(a, p, b)
        length == DistanceTo(a, b)
        foot == 100 * Magnitude(Cross(a, b, p))
    IN  IF a = b \/ along <= 0 THEN DistanceTo(p, a)
        ELSE IF along >= SquaredDistance(a, b) THEN DistanceTo(p, b)
        ELSE (foot + length - 1) \div length

\* Strictly: two edges that only touch do not intersect.
SegmentsIntersect(a1, a2, b1, b2) ==
    LET opposite(m, n) == (m < 0 /\ n > 0) \/ (m > 0 /\ n < 0)
    IN  /\ opposite(Cross(b1, b2, a1), Cross(b1, b2, a2))
        /\ opposite(Cross(a1, a2, b1), Cross(a1, a2, b2))

SegmentDistance(a1, a2, b1, b2) ==
    IF SegmentsIntersect(a1, a2, b1, b2) THEN 0
    ELSE Min({PointSegmentDistance(a1, b1, b2), PointSegmentDistance(a2, b1, b2),
              PointSegmentDistance(b1, a1, a2), PointSegmentDistance(b2, a1, a2)})

EdgeDistance(r, i, s, j) == SegmentDistance(r[i], After(r, i), s[j], After(s, j))

DistanceBetweenRings(r, s) ==
    Min({EdgeDistance(r, e[1], s, e[2]) : e \in (DOMAIN r) \X (DOMAIN s)})

\* Length of the boundary from corner i to corner j.
BoundaryLength(ring, i, j) ==
    LET edge(k) == DistanceTo(ring[k], After(ring, k)) IN MapThenSumSet(edge, i .. j - 1)

Separation(ring, i, j) ==
    LET forward == BoundaryLength(ring, i, j)
        total == BoundaryLength(ring, 1, Len(ring) + 1)
    IN  Min({forward, total - forward})

NoNeck == [distance |-> 10000000, i |-> 0, j |-> 0]

\* min_self_distance: the closest pair of edges that are no neighbours and lie
\* at least four times as far apart along the boundary.
MinSelfDistance(ring) ==
    LET n == Len(ring)
        pairs == {e \in (1 .. n) \X (1 .. n) : e[1] + 1 < e[2] /\ (e[2] % n) + 1 # e[1]}
        distance == [e \in pairs |-> EdgeDistance(ring, e[1], ring, e[2])]
        neck(e) == LET apart == Separation(ring, e[1], e[2])
                   IN  apart > 0 /\ apart >= 4 * distance[e]
        necks == {e \in pairs : neck(e)}
        first == CHOOSE e \in necks : \A f \in necks :
                     \/ distance[e] < distance[f]
                     \/ distance[e] = distance[f] /\ (e[1] < f[1] \/ (e[1] = f[1] /\ e[2] <= f[2]))
    IN  IF n < 3 \/ necks = {} THEN NoNeck
        ELSE [distance |-> distance[first], i |-> first[1], j |-> first[2]]

\* interior_angle_degrees below 30 degrees: the tangent is below 1 / sqrt(3).
Sharp(previous, vertex, next) ==
    /\ previous # vertex
    /\ next # vertex
    /\ 1000 * Dot(vertex, previous, next) > 1732 * Magnitude(Cross(vertex, previous, next))

SharpCorners(ring) ==
    {k \in DOMAIN ring : Sharp(Before(ring, k), ring[k], After(ring, k))}

-----------------------------------------------------------------------------
(* classify_subpaths *)

\* Four times _representative_point: between the lowest corner and its neighbours.
RepresentativePoint(ring) ==
    LET lowest == CHOOSE k \in DOMAIN ring : \A m \in DOMAIN ring :
                      \/ ring[k].y < ring[m].y
                      \/ ring[k].y = ring[m].y /\ ring[k].x < ring[m].x
                      \/ ring[k] = ring[m] /\ k <= m
        p == Before(ring, lowest)
        c == ring[lowest]
        q == After(ring, lowest)
    IN  Point(2 * c.x + p.x + q.x, 2 * c.y + p.y + q.y)

FourTimes(ring) == [k \in DOMAIN ring |-> Point(4 * ring[k].x, 4 * ring[k].y)]

\* One of a subpath's points is inside another subpath.
LiesIn(rings, i, j) ==
    PointInPolygon(RepresentativePoint(rings[i]), FourTimes(rings[j]), "nonzero")

\* Inside another subpath of another orientation.
IsHole(rings, i) ==
    /\ Len(rings[i]) >= 3
    /\ \E j \in DOMAIN rings \ {i} :
          /\ Orientation(rings[j]) \notin {"degenerate", Orientation(rings[i])}
          /\ LiesIn(rings, i, j)

\* The infos of the subpaths, each of which knows its place among them.
ClassifySubpaths(compound) ==
    LET rings == [i \in DOMAIN compound |-> Ring(compound[i])]
    IN  [i \in DOMAIN compound |->
            [index |-> i, ring |-> rings[i], hole |-> IsHole(rings, i),
             area |-> Magnitude(DoubledArea(rings[i]))]]

\* 0 < area < min_enclosed_area_mm2; `area` is doubled.
Tiny(info) == 0 < info.area /\ info.area < 2 * MinEnclosedArea

\* max(infos, key=area): the first of the largest.
MainBody(infos) ==
    CHOOSE a \in Range(infos) : \A b \in Range(infos) :
        a.area > b.area \/ (a.area = b.area /\ a.index <= b.index)
=============================================================================
