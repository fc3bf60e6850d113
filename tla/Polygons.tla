------------------------------ MODULE Polygons ------------------------------
(***************************************************************************)
(* The plane geometry that validation, repair and the manufacturing checks *)
(* share: points, segments and paths, flattening, signed area and          *)
(* orientation, and the two fill rules.  Coordinates are integers, so that *)
(* every comparison is exact.                                              *)
(***************************************************************************)
EXTENDS Integers, Sequences, FiniteSetsExt, SequencesExt

Point(x, y) == [x |-> x, y |-> y]

\* A point ring is closed implicitly: the edge after the last leads to the first.
After(ring, i) == ring[(i % Len(ring)) + 1]
Before(ring, i) == ring[((i + Len(ring) - 2) % Len(ring)) + 1]

SquaredDistance(p, q) == (p.x - q.x) * (p.x - q.x) + (p.y - q.y) * (p.y - q.y)

\* distance_to(q) <= tolerance.
Within(p, q, tolerance) == SquaredDistance(p, q) <= tolerance * tolerance

\* Positive when b lies to the left of the ray from o through a.
Cross(o, a, b) == (a.x - o.x) * (b.y - o.y) - (a.y - o.y) * (b.x - o.x)

Dot(o, a, b) == (a.x - o.x) * (b.x - o.x) + (a.y - o.y) * (b.y - o.y)

Magnitude(n) == IF n < 0 THEN -n ELSE n

-----------------------------------------------------------------------------
(* Segments and paths.  A curve carries in `via` the points flattening puts *)
(* between its ends: all that this engine's decisions read of a curve.      *)

Line(a, b) == [kind |-> "line", start |-> a, via |-> <<>>, end |-> b]
Curve(kind, a, via, b) == [kind |-> kind, start |-> a, via |-> via, end |-> b]

Path(segments, closed) == [segments |-> segments, closed |-> closed]

\* Polygon.to_path: a closed polygon has an edge back to its first point.
PolygonPath(points, closed) ==
    Path([i \in 1 .. IF closed THEN Len(points) ELSE Len(points) - 1 |->
              Line(points[i], After(points, i))], closed)

\* The elements at some of a sequence's indices, in their order.
Selected(seq, indices) ==
    FlattenSeq([i \in DOMAIN seq |-> IF i \in indices THEN <<seq[i]>> ELSE <<>>])

AllLines(path) == \A i \in DOMAIN path.segments : path.segments[i].kind = "line"

FlattenSegment(segment) == <<segment.start>> \o segment.via

\* Polyline of one subpath, with the final end point.
FlattenPath(path) ==
    IF path.segments = <<>> THEN <<>>
    ELSE FlattenSeq([i \in DOMAIN path.segments |-> FlattenSegment(path.segments[i])])
             \o <<Last(path.segments).end>>

\* The polyline without its closing point: `flat[:-1] if flat[0] == flat[-1]`.
RingOf(flat) == IF Len(flat) > 1 /\ Head(flat) = Last(flat) THEN Front(flat) ELSE flat
Ring(path) == RingOf(FlattenPath(path))

-----------------------------------------------------------------------------
(* winding.py *)

\* Twice signed_area: the shoelace sum, 0 for fewer than three points.
DoubledArea(ring) ==
    IF Len(ring) < 3 THEN 0
    ELSE LET term(i) == ring[i].x * After(ring, i).y - After(ring, i).x * ring[i].y
         IN  MapThenSumSet(term, DOMAIN ring)

Orientations == {"counter_clockwise", "clockwise", "degenerate"}

Orientation(ring) ==
    LET area == DoubledArea(ring)
    IN  IF area = 0 THEN "degenerate"
        ELSE IF area > 0 THEN "counter_clockwise" ELSE "clockwise"

FillRules == {"nonzero", "evenodd"}

\* Upward edges with the point on their left, less downward ones with it on their right.
WindingNumber(point, polygon) ==
    LET side(i) == Cross(polygon[i], After(polygon, i), point)
        up == {i \in DOMAIN polygon : /\ polygon[i].y <= point.y
                                      /\ After(polygon, i).y > point.y
                                      /\ side(i) > 0}
        down == {i \in DOMAIN polygon : /\ polygon[i].y > point.y
                                        /\ After(polygon, i).y <= point.y
                                        /\ side(i) < 0}
    IN  Cardinality(up) - Cardinality(down)

\* Edges that straddle the point's height to its right.
CrossingCount(point, polygon) ==
    Cardinality({i \in DOMAIN polygon :
        LET p0 == polygon[i]
            p1 == After(polygon, i)
        IN  /\ (p0.y > point.y) # (p1.y > point.y)
            /\ IF p1.y > p0.y
               THEN (point.x - p0.x) * (p1.y - p0.y) < (point.y - p0.y) * (p1.x - p0.x)
               ELSE (point.x - p0.x) * (p1.y - p0.y) > (point.y - p0.y) * (p1.x - p0.x)})

PointInPolygon(point, polygon, rule) ==
    /\ Len(polygon) >= 3
    /\ IF rule = "nonzero" THEN WindingNumber(point, polygon) # 0
                           ELSE CrossingCount(point, polygon) % 2 = 1

\* The same two rules over all subpaths of a shape at once.
PointInCompound(point, subpaths, rule) ==
    LET areas == {i \in DOMAIN subpaths : Len(subpaths[i]) >= 3}
        winding(i) == WindingNumber(point, subpaths[i])
        crossings(i) == CrossingCount(point, subpaths[i])
    IN  IF rule = "nonzero" THEN MapThenSumSet(winding, areas) # 0
                            ELSE MapThenSumSet(crossings, areas) % 2 = 1
=============================================================================
