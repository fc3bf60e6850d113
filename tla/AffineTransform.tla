-------------------------- MODULE AffineTransform --------------------------
(***************************************************************************)
(* The native segments with their control points and arcs (model.py), the  *)
(* affine transforms (transform.py) and the conversion of arcs to Beziers  *)
(* (flatten.py).  Coordinates are multiples of 6, angles are quarter turns *)
(* and kappa, 0.5523 in the code, is 1/2, so that all of it is exact.      *)
(***************************************************************************)
EXTENDS Polygons

\* A Bezier's `via` are its control points; an arc keeps the square of its radius.
Bezier(a, control1, control2, b) == Curve("bezier", a, <<control1, control2>>, b)
Arc(a, b, centre, squaredRadius, clockwise) ==
    [kind |-> "arc", start |-> a, end |-> b, centre |-> centre,
     squaredRadius |-> squaredRadius, clockwise |-> clockwise]

Midway(p, q) == Point((p.x + q.x) \div 2, (p.y + q.y) \div 2)

-----------------------------------------------------------------------------
(* transform.py:  x' = a*x + c*y + e,  y' = b*x + d*y + f *)

Transform(a, b, c, d, e, f) == [a |-> a, b |-> b, c |-> c, d |-> d, e |-> e, f |-> f]
Identity == Transform(1, 0, 0, 1, 0, 0)

ApplyPoint(t, p) == Point(t.a * p.x + t.c * p.y + t.e, t.b * p.x + t.d * p.y + t.f)

\* Composition without the offset of the second transform.
ThenUnmoved(t, other) ==
    Transform(other.a * t.a + other.c * t.b, other.b * t.a + other.d * t.b,
              other.a * t.c + other.c * t.d, other.b * t.c + other.d * t.d,
              other.a * t.e + other.c * t.f, other.b * t.e + other.d * t.f)

\* Apply t first, then the other.
Then(t, other) ==
    Transform(other.a * t.a + other.c * t.b, other.b * t.a + other.d * t.b,
              other.a * t.c + other.c * t.d, other.b * t.c + other.d * t.d,
              other.a * t.e + other.c * t.f + other.e, other.b * t.e + other.d * t.f + other.f)

IsUniformScale(t) == t.a * t.a + t.b * t.b = t.c * t.c + t.d * t.d

Translate(dx, dy) == Transform(1, 0, 0, 1, dx, dy)

About(origin, t) == Then(Then(Translate(-origin.x, -origin.y), t), Translate(origin.x, origin.y))

\* The point (cos, sin) a number of quarter turns from (1, 0).
Compass(quarters) == <<Point(1, 0), Point(0, 1), Point(-1, 0), Point(0, -1)>>[1 + (quarters % 4)]

Rotate(quarters, origin) ==
    LET to == Compass(quarters)
    IN  About(origin, Transform(to.x, to.y, -to.y, to.x, 0, 0))

Scale(sx, sy) == About(Point(0, 0), Transform(sx, 0, 0, sy, 0, 0))

-----------------------------------------------------------------------------
(* arc_to_beziers: one span for every quarter turn begun; that rounding may  *)
(* begin another where the sweep is a multiple of a quarter is left out.    *)

\* A vector turned by a number of quarter turns.
Turned(v, quarters) ==
    LET to == Compass(quarters) IN Point(v.x * to.x - v.y * to.y, v.x * to.y + v.y * to.x)

\* The last span ends where the arc does; an arc that ends where it starts is a full turn.
ArcToBeziers(arc) ==
    LET radius(p) == Point(p.x - arc.centre.x, p.y - arc.centre.y)
        turned(n) == Turned(radius(arc.start), IF arc.clockwise THEN -n ELSE n)
        reach(n) == Dot(Point(0, 0), radius(arc.end), turned(n))
        spans == Min({n \in 1 .. 4 : n = 4 \/ (reach(n) > 0 /\ reach(n - 1) >= 0)})
        at(n) == IF n = spans THEN arc.end
                 ELSE Point(arc.centre.x + turned(n).x, arc.centre.y + turned(n).y)
        corner(n) == Point(arc.centre.x + turned(n).x + turned(n + 1).x,
                           arc.centre.y + turned(n).y + turned(n + 1).y)
    IN  [n \in 1 .. spans |->
            Bezier(at(n - 1), Midway(at(n - 1), corner(n - 1)),
                   Midway(at(n), corner(n - 1)), at(n))]

-----------------------------------------------------------------------------
(* apply_transform_path *)

TransformSegment(segment, t) ==
    IF segment.kind = "arc"
    THEN <<Arc(ApplyPoint(t, segment.start), ApplyPoint(t, segment.end),
               ApplyPoint(t, segment.centre),
               segment.squaredRadius * (t.a * t.a + t.b * t.b),
               IF t.a * t.d - t.b * t.c > 0 THEN segment.clockwise ELSE ~segment.clockwise)>>
    ELSE <<Curve(segment.kind, ApplyPoint(t, segment.start),
                 [i \in DOMAIN segment.via |-> ApplyPoint(t, segment.via[i])],
                 ApplyPoint(t, segment.end))>>

\* An arc that would not stay circular goes through its Beziers.
ApplyTransformPath(path, t) ==
    LET exact(segment) == IF segment.kind = "arc" /\ ~IsUniformScale(t)
                          THEN ArcToBeziers(segment) ELSE <<segment>>
        prepared == FlattenSeq([i \in DOMAIN path.segments |-> exact(path.segments[i])])
    IN  Path(FlattenSeq([i \in DOMAIN prepared |-> TransformSegment(prepared[i], t)]),
             path.closed)

ApplyTransform(compound, t) == [i \in DOMAIN compound |-> ApplyTransformPath(compound[i], t)]
=============================================================================
