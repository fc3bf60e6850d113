----------------------------- MODULE PathRepair -----------------------------
(***************************************************************************)
(* The geometry engine's structural validation (validation.py,             *)
(* boolean_prep.find_intersections) and its repair (geometry/repair.py):   *)
(* five fixed passes over each subpath on its own.                         *)
(***************************************************************************)
EXTENDS Polygons

CONSTANTS
    Grain,             \* the last decimal place that rounding keeps
    ZeroTolerance,     \* zero_length_tolerance
    GapTolerance,      \* gap_tolerance
    FlattenTolerance   \* flatten_tolerance_mm, the tolerance of validation

ASSUME ToleranceAssumption ==
    /\ {Grain, ZeroTolerance, GapTolerance, FlattenTolerance} \subseteq Nat
    /\ Grain > 0
    /\ ZeroTolerance <= GapTolerance
    /\ ZeroTolerance <= FlattenTolerance

-----------------------------------------------------------------------------
(* Validation. *)

IssueTypes == {"corrupt_geometry", "zero_length_segment", "disconnected_geometry",
               "open_curve", "duplicate_consecutive_nodes", "invalid_winding",
               "self_intersection"}

\* Edges that share a point, in their interiors or at an end; parallel ones never do.
EdgesMeet(p1, p2, p3, p4) ==
    LET denom == (p1.x - p2.x) * (p3.y - p4.y) - (p1.y - p2.y) * (p3.x - p4.x)
        t == (p1.x - p3.x) * (p3.y - p4.y) - (p1.y - p3.y) * (p3.x - p4.x)
        u == (p1.x - p3.x) * (p1.y - p2.y) - (p1.y - p3.y) * (p1.x - p2.x)
        unit(n) == IF denom > 0 THEN 0 <= n /\ n <= denom ELSE denom <= n /\ n <= 0
    IN  denom # 0 /\ unit(t) /\ unit(u)

FindIntersections(subject, clip) ==
    {edges \in (DOMAIN subject) \X (DOMAIN clip) :
        EdgesMeet(subject[edges[1]], After(subject, edges[1]),
                  clip[edges[2]], After(clip, edges[2]))}

\* Intersections of edges that are not neighbours on the ring.
SelfIntersections(ring) ==
    {edges \in FindIntersections(ring, ring) :
        Magnitude(edges[1] - edges[2]) % Len(ring) \notin {0, 1, Len(ring) - 1}}

EndGapClosed(path, tolerance) ==
    Within(Last(path.segments).end, Head(path.segments).start, tolerance)

ValidatePath(path) ==
    LET segments == path.segments
        flat == FlattenPath(path)
        ring == IF Head(flat) = Last(flat) THEN Front(flat) ELSE flat
        area == path.closed /\ Len(flat) >= 3
        found ==
            [zero_length_segment |->
                \E i \in DOMAIN segments :
                    Within(segments[i].start, segments[i].end, FlattenTolerance),
             disconnected_geometry |->
                \E i \in 1 .. Len(segments) - 1 :
                    ~Within(segments[i].end, segments[i + 1].start, FlattenTolerance),
             open_curve |-> ~(path.closed /\ EndGapClosed(path, FlattenTolerance)),
             duplicate_consecutive_nodes |->
                \E i \in 1 .. Len(flat) - 1 : flat[i] = flat[i + 1],
             invalid_winding |-> area /\ Orientation(ring) = "degenerate",
             self_intersection |-> area /\ SelfIntersections(ring) # {}]
    IN  IF segments = <<>> THEN {"corrupt_geometry"}
        ELSE {issue \in DOMAIN found : found[issue]}

ValidateCompound(compound) == [i \in DOMAIN compound |-> ValidatePath(compound[i])]

-----------------------------------------------------------------------------
(* Repair. *)

\* round(): to the nearest multiple of Grain, ties to the even one.
RoundCoordinate(n) ==
    LET q == n \div Grain
        r == 2 * (n % Grain)
        up == r > Grain \/ (r = Grain /\ q % 2 = 1)
    IN  Grain * IF up THEN q + 1 ELSE q

RoundPoint(p) == Point(RoundCoordinate(p.x), RoundCoordinate(p.y))

\* Mutant: the new path is built without the old one's flag.
RoundsAndOpens(path) ==
    Path([i \in DOMAIN path.segments |->
             [path.segments[i] EXCEPT !.start = RoundPoint(@), !.end = RoundPoint(@)]],
         FALSE)

NormalizeCoordinatePrecision(path) ==
    Path([i \in DOMAIN path.segments |->
             [path.segments[i] EXCEPT !.start = RoundPoint(@), !.end = RoundPoint(@)]],
         path.closed)

ZeroLength(segment) == Within(segment.start, segment.end, ZeroTolerance)

RemoveZeroLengthSegments(path) ==
    LET long == {i \in DOMAIN path.segments : ~ZeroLength(path.segments[i])}
    IN  Path(Selected(path.segments, long), path.closed)

\* A short segment goes when it starts where the last one kept has ended.
RemoveDuplicateNodes(path) ==
    LET keep(kept, s) ==
            IF kept # <<>> /\ Within(s.start, Last(kept).end, ZeroTolerance) /\ ZeroLength(s)
            THEN kept ELSE Append(kept, s)
    IN  Path(FoldLeft(keep, <<>>, path.segments), path.closed)

\* The last segment is snapped to the first one's start when it nearly ends there.
CloseTinyGaps(path) ==
    IF path.closed /\ path.segments # <<>> /\ EndGapClosed(path, GapTolerance)
    THEN Path([path.segments EXCEPT ![Len(path.segments)].end = Head(path.segments).start], TRUE)
    ELSE path

ReverseSegment(s) == [s EXCEPT !.start = s.end, !.via = Reverse(@), !.end = s.start]

\* Mutant: the segments are turned around but stay in their order.
TurnsSegmentsOnly(path, target) ==
    IF path.closed /\ path.segments # <<>> /\ Orientation(Ring(path)) \notin {"degenerate", target}
    THEN Path([i \in DOMAIN path.segments |-> ReverseSegment(path.segments[i])], path.closed)
    ELSE path

\* The winding every closed path with an area is brought to.
NormalizeWinding(path, target) ==
    IF path.closed /\ path.segments # <<>> /\ Orientation(Ring(path)) \notin {"degenerate", target}
    THEN Path([i \in DOMAIN path.segments |-> ReverseSegment(Reverse(path.segments)[i])],
              path.closed)
    ELSE path

\* Mutant: the winding pass is left out.
RepairPathUnwound(path) ==
    NormalizeCoordinatePrecision(CloseTinyGaps(RemoveZeroLengthSegments(RemoveDuplicateNodes(path))))

RepairPath(path) ==
    NormalizeCoordinatePrecision(
        NormalizeWinding(
            CloseTinyGaps(RemoveZeroLengthSegments(RemoveDuplicateNodes(path))),
            "counter_clockwise"))

RepairGeometry(compound) == [i \in DOMAIN compound |-> RepairPath(compound[i])]
=============================================================================
