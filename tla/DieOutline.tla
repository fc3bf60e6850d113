----------------------------- MODULE DieOutline -----------------------------
(***************************************************************************)
(* The manufacturing engine's validator (validator.py), its four repairs   *)
(* (manufacturing/repair.py) and the offsetting of the dies' outlines      *)
(* (male_female.py, offset.py), as functions of a compound path.           *)
(***************************************************************************)
EXTENDS OutlineAnalysis

CONSTANT MergeRadius   \* island_merge_search_radius_mm

ASSUME MergeAssumption == MergeRadius \in Nat

-----------------------------------------------------------------------------
(* validate_manufacturing: the warnings, each with the subpath it is about. *)

ThinLine(info) ==
    /\ info.area > 0
    /\ Len(info.ring) >= 4
    /\ MinSelfDistance(info.ring).distance < 10 * MinLineWidth

WeakBridge(info) ==
    /\ Len(info.ring) >= 4
    /\ MinSelfDistance(info.ring).distance < 10 * MinBridgeWidth

Floating(infos, info) ==
    ~info.hole /\ info.index # MainBody(infos).index /\ info.area > 0

TooNear(a, b) ==
    /\ Len(a.ring) >= 2 /\ Len(b.ring) >= 2
    /\ ~a.hole /\ ~b.hole
    /\ DistanceBetweenRings(a.ring, b.ring) < 10 * MinSpacing

TooDense(path) ==
    LET flat == FlattenPath(path)
        step(k) == DistanceTo(flat[k], flat[k + 1])
        length == MapThenSumSet(step, 1 .. Len(flat) - 1)
    IN  Len(flat) >= 2 /\ 1000 * Len(flat) > MaxNodeDensity * length

ManufacturingWarnings(compound) ==
    LET infos == ClassifySubpaths(compound)
        about(type, Flagged(_)) ==
            {<<type, info.index>> : info \in {i \in Range(infos) : Flagged(i)}}
    IN  UNION {about("thin_line", ThinLine),
               about("tiny_hole", LAMBDA i : Tiny(i) /\ i.hole),
               about("tiny_island", LAMBDA i : Tiny(i) /\ ~i.hole),
               about("floating_geometry", LAMBDA i : Floating(infos, i)),
               about("weak_bridge", WeakBridge),
               about("sharp_internal_corner",
                     LAMBDA i : Len(i.ring) >= 3 /\ SharpCorners(i.ring) # {}),
               about("min_spacing_violation",
                     LAMBDA a : \E b \in Range(infos) : b.index > a.index /\ TooNear(a, b)),
               about("node_density_violation", LAMBDA i : TooDense(compound[i.index]))}

-----------------------------------------------------------------------------
(* repair.py *)

RemoveTinyHoles(compound) ==
    LET infos == ClassifySubpaths(compound)
    IN  Selected(compound, {i \in DOMAIN infos : ~(infos[i].hole /\ Tiny(infos[i]))})

\* Mutant: the island's first corner stands for all of it.
NearestToFirst(main, island) ==
    LET distance(m) == SquaredDistance(main[m], island[1])
    IN  CHOOSE e \in (DOMAIN main) \X {1} :
            \A m \in DOMAIN main : distance(e[1]) <= distance(m)

\* The first pair of corners at the least distance, the main ring's corner foremost.
NearestCorners(main, island) ==
    LET distance(e) == SquaredDistance(main[e[1]], island[e[2]])
        pairs == (DOMAIN main) \X (DOMAIN island)
        least == Min({distance(e) : e \in pairs})
        nearest == {e \in pairs : distance(e) = least}
    IN  CHOOSE e \in nearest : \A f \in nearest :
            e[1] < f[1] \/ (e[1] = f[1] /\ e[2] <= f[2])

\* Mutant: the way around the island stops before its first corner.
KeyholeUnclosed(main, m, island, k) ==
    SubSeq(main, 1, m) \o SubSeq(island, k, Len(island)) \o SubSeq(island, 1, k - 1)
        \o <<main[m]>> \o SubSeq(main, m + 1, Len(main))

\* Out from corner m to the island's corner k, once around it, and back to m.
Keyhole(main, m, island, k) ==
    SubSeq(main, 1, m)
        \o SubSeq(island, k, Len(island)) \o SubSeq(island, 1, k - 1)
        \o <<island[k], main[m]>>
        \o SubSeq(main, m + 1, Len(main))

\* The islands are spliced one after the other into the growing main ring.
MergeTinyIslands(compound) ==
    LET infos == ClassifySubpaths(compound)
        main == MainBody(infos)
        take(acc, info) ==
            LET near == NearestCorners(acc.ring, info.ring)
                reached == Within(acc.ring[near[1]], info.ring[near[2]], MergeRadius)
            IN  IF info.index = main.index THEN acc
                ELSE IF Tiny(info) /\ ~info.hole /\ reached
                THEN [acc EXCEPT !.ring = Keyhole(@, near[1], info.ring, near[2]),
                                 !.merged = TRUE]
                ELSE [acc EXCEPT !.kept = Append(@, compound[info.index])]
        done == FoldLeft(take, [kept |-> <<>>, ring |-> main.ring, merged |-> FALSE], infos)
        body == IF done.merged THEN PolygonPath(done.ring, TRUE) ELSE compound[main.index]
    IN  IF infos = <<>> THEN compound ELSE <<body>> \o done.kept

-----------------------------------------------------------------------------
(* Rounding and widening.  A fillet's coordinates are irrational; what the *)
(* rest of the code asks of them is which ends coincide.  An end is at a   *)
(* corner, or trimmed back from the corner along the edge to another.      *)

At(p) == [corner |-> p, toward |-> p]
Trimmed(p, q) == [corner |-> p, toward |-> q]

Ends(path) ==
    Path([i \in DOMAIN path.segments |->
             [path.segments[i] EXCEPT !.start = At(@), !.end = At(@)]], path.closed)

\* Where the edge to corner q starts or ends at a rounded corner i.
TrimPoint(pts, i, q) ==
    IF Cross(pts[i], Before(pts, i), After(pts, i)) = 0 THEN At(pts[i]) ELSE Trimmed(pts[i], q)

Fillet(pts, i) ==
    Curve("arc", TrimPoint(pts, i, Before(pts, i)), <<>>, TrimPoint(pts, i, After(pts, i)))

\* Mutant: the edge before a rounded corner is not shortened.
RoundedEdgeUntrimmed(pts, sharp, i) ==
    Line(IF i \in sharp THEN TrimPoint(pts, i, After(pts, i)) ELSE At(pts[i]), At(After(pts, i)))

\* The edge out of corner i.  Its end is shortened when the next corner is rounded
\* after it was appended: never for the last edge, which leads to corner 1.
RoundedEdge(pts, sharp, i) ==
    Line(IF i \in sharp THEN TrimPoint(pts, i, After(pts, i)) ELSE At(pts[i]),
         IF i + 1 \in sharp THEN TrimPoint(pts, i + 1, pts[i]) ELSE At(After(pts, i)))

RoundPath(path) ==
    LET pts == [i \in DOMAIN path.segments |-> path.segments[i].start]
        n == Len(pts)
        sharp == SharpCorners(pts)
    IN  IF path.closed /\ n >= 3 /\ AllLines(path)
        THEN Path(FlattenSeq([i \in 1 .. n |->
                      IF i \in sharp THEN <<Fillet(pts, i), RoundedEdge(pts, sharp, i)>>
                                     ELSE <<RoundedEdge(pts, sharp, i)>>]), TRUE)
        ELSE Ends(path)

RoundSharpCorners(compound) == [k \in DOMAIN compound |-> RoundPath(compound[k])]

\* Mutant: the wrong way.
Against(x, y, length) ==
    LET scale == DistanceTo(Point(0, 0), Point(x, y))
        part(c) == (IF c < 0 THEN 1 ELSE -1) * ((length * Magnitude(c)) \div scale)
    IN  IF scale = 0 THEN Point(0, 0) ELSE Point(part(x), part(y))

\* `length` tenths of a unit along the vector (x, y), to whole units.
Along(x, y, length) ==
    LET scale == DistanceTo(Point(0, 0), Point(x, y))
        part(c) == (IF c < 0 THEN -1 ELSE 1) * ((length * Magnitude(c)) \div scale)
    IN  IF scale = 0 THEN Point(0, 0) ELSE Point(part(x), part(y))

\* From the middle of the corners `a` towards the middle of the corners `b`.
PushVector(pts, a, b, length) ==
    LET middle(e, Axis(_)) == LET axis(k) == Axis(pts[k]) IN MapThenSumSet(axis, e)
        across(Axis(_)) == middle(b, Axis) - middle(a, Axis)
    IN  Along(across(LAMBDA p : p.x), across(LAMBDA p : p.y), length)

PushedApart(pts, a, b, push) ==
    [k \in DOMAIN pts |->
        IF k \in b THEN Point(pts[k].x + push.x, pts[k].y + push.y)
        ELSE IF k \in a THEN Point(pts[k].x - push.x, pts[k].y - push.y)
        ELSE pts[k]]

\* The two edges of the neck are pushed apart by what it lacks.
Widened(pts, neck) ==
    LET edge(i) == {i, (i % Len(pts)) + 1}
        lack == 10 * MinBridgeWidth - neck.distance
    IN  PushedApart(pts, edge(neck.i), edge(neck.j),
                    PushVector(pts, edge(neck.i), edge(neck.j), lack \div 2))

WidenPath(path) ==
    LET pts == [i \in DOMAIN path.segments |-> path.segments[i].start.corner]
        neck == MinSelfDistance(pts)
    IN  IF /\ path.closed /\ Len(pts) >= 4 /\ AllLines(path)
           /\ 0 < neck.distance /\ neck.distance < 10 * MinBridgeWidth
        THEN Ends(PolygonPath(Widened(pts, neck), TRUE))
        ELSE path

WidenWeakBridges(compound) == [k \in DOMAIN compound |-> WidenPath(compound[k])]

-----------------------------------------------------------------------------
(* offset_path takes a ring of three corners or more, and raises otherwise. *)

\* Mutant: an outline needs four corners.
OffsettableQuad(path) ==
    LET flat == FlattenPath(path) IN Len(IF path.closed THEN RingOf(flat) ELSE flat) > 3

Offsettable(path) ==
    LET flat == FlattenPath(path) IN Len(IF path.closed THEN RingOf(flat) ELSE flat) >= 3

GenerateDieSucceeds(compound) == \A k \in DOMAIN compound : Offsettable(compound[k])
=============================================================================
