----------------------------- MODULE SvgScanner -----------------------------
(***************************************************************************)
(* svg_io._parse_path_d: the scanner of path data.  `data` is what is left *)
(* of the attribute, a sequence of tokens, and every turn of the loop is   *)
(* one action, chosen by the command letter that is ahead or, when a       *)
(* number is ahead, by the last command.                                   *)
(*                                                                         *)
(* Circular arcs are half or quarter turns or three quarters, arcs of      *)
(* ellipses small quarter turns along the axes.  The ends of the latter    *)
(* are computed in floating point: each may miss its point by Drift.       *)
(***************************************************************************)
EXTENDS AffineTransform

CONSTANT Drift     \* a rounding error, small against all coordinates
ASSUME DriftAssumption == Drift \in Nat

VARIABLES
    data,           \* the tokens not yet consumed
    scan,           \* "idle", "scanning", "scanned" or "malformed"
    paths, segments,           \* finished subpaths, the segments of the open one
    current, subpathStart,     \* the pen, and where the open subpath began
    lastCubic, lastQuad,       \* {control point} of the last C/S or Q/T, else {}
    lastCommand

pen == <<segments, current, subpathStart, lastCubic, lastQuad, lastCommand>>
scanner == <<data, scan, paths, pen>>

Letters == {"M", "Z", "L", "H", "V", "C", "S", "Q", "T", "A"}

Letter(letter, relative) == [letter |-> letter, relative |-> relative, number |-> 0]
Number(n) == [letter |-> "", relative |-> FALSE, number |-> n]
NoCommand == Number(0)

Tokens == [letter : Letters \cup {""}, relative : BOOLEAN, number : Int]

-----------------------------------------------------------------------------
(* Reading the next turn. *)

LetterAhead == data # <<>> /\ Head(data).letter # ""
Command == IF LetterAhead THEN Head(data) ELSE lastCommand
Numbers == IF LetterAhead THEN Tail(data) ELSE data

Arity == [M |-> 2, Z |-> 0, L |-> 2, H |-> 1, V |-> 1, C |-> 6, S |-> 4, Q |-> 4, T |-> 2, A |-> 7]

\* next_number as often as the command asks for, next_flag for the two flags of an arc.
Complete(letter) ==
    /\ Len(Numbers) >= Arity[letter]
    /\ \A i \in 1 .. Arity[letter] : Numbers[i].letter = ""
    /\ letter = "A" => {Numbers[4].number, Numbers[5].number} \subseteq {0, 1}

Arg(i) == Numbers[i].number

\* The point of arguments i and i + 1.
At(i) == IF Command.relative THEN Point(current.x + Arg(i), current.y + Arg(i + 1))
                             ELSE Point(Arg(i), Arg(i + 1))

Turn(letter) ==
    /\ scan = "scanning"
    /\ data # <<>>
    /\ Command.letter = letter
    /\ Complete(letter)
    /\ data' = SubSeq(Numbers, Arity[letter] + 1, Len(Numbers))
    /\ UNCHANGED scan

\* flush_subpath
Flushed(drawn, closed) == IF drawn = <<>> THEN paths ELSE Append(paths, Path(drawn, closed))

\* The control point of a smooth command: the last one, reflected in the pen.
Reflected(control) ==
    IF control = {} THEN current
    ELSE LET c == CHOOSE p \in control : TRUE
         IN  Point(2 * current.x - c.x, 2 * current.y - c.y)

-----------------------------------------------------------------------------
(* Arcs. *)

\* _quad_to_cubic_controls: two thirds of the way to the control point.
QuadBezier(a, control, b) ==
    LET towards(p) == Point(p.x + (2 * (control.x - p.x)) \div 3, p.y + (2 * (control.y - p.y)) \div 3)
    IN  Bezier(a, towards(a), towards(b), b)

\* The centre: off the middle of the chord, by a multiple of half the chord, on the
\* side the flags choose; in the middle when the radius is too small for the chord.
CircularArc(a, radius, large, sweep, b) ==
    LET half == Point((a.x - b.x) \div 2, (a.y - b.y) \div 2)
        chord == half.x * half.x + half.y * half.y
        offset == Max({k \in 0 .. radius : k * k * chord <= radius * radius - chord})
        signed == IF radius * radius <= chord THEN 0 ELSE IF large = sweep THEN -offset ELSE offset
    IN  Arc(a, b, Point(Midway(a, b).x + signed * half.y, Midway(a, b).y - signed * half.x),
            IF radius * radius <= chord THEN chord ELSE radius * radius, ~sweep)

\* A quarter of an ellipse bulges towards the corner on the side the sweep chooses.
EllipticArc(a, sweep, b, drift) ==
    LET corner == IF sweep <=> Cross(a, Point(a.x, b.y), b) > 0
                  THEN Point(a.x, b.y) ELSE Point(b.x, a.y)
    IN  Bezier(Point(a.x + drift, a.y), Midway(a, corner), Midway(b, corner), Point(b.x + drift, b.y))

\* _svg_arc_to_segments
ArcSegments(a, rx, ry, rotated, large, sweep, b, drift) ==
    IF a = b THEN <<>>
    ELSE IF rx = 0 \/ ry = 0 THEN <<Line(a, b)>>
    ELSE IF Magnitude(rx) = Magnitude(ry) /\ ~rotated
         THEN <<CircularArc(a, Magnitude(rx), large, sweep, b)>>
         ELSE <<EllipticArc(a, sweep, b, drift)>>

-----------------------------------------------------------------------------
(* The turns. *)

\* Implicit repeats of M are L.
MoveTo ==
    /\ Turn("M")
    /\ paths' = Flushed(segments, FALSE)
    /\ segments' = <<>>
    /\ current' = At(1)
    /\ subpathStart' = At(1)
    /\ lastCubic' = {} /\ lastQuad' = {}
    /\ lastCommand' = Letter("L", Command.relative)

\* A closepath that leaves the pen where it is.
ClosePathStays ==
    /\ Turn("Z")
    /\ paths' = Flushed(IF segments # <<>> /\ Last(segments).end # subpathStart
                        THEN Append(segments, Line(Last(segments).end, subpathStart))
                        ELSE segments, TRUE)
    /\ segments' = <<>>
    /\ lastCubic' = {} /\ lastQuad' = {}
    /\ lastCommand' = Command
    /\ UNCHANGED <<current, subpathStart>>

\* A repeat of Z consumes nothing.
ClosePath ==
    /\ Turn("Z")
    /\ LET last == Last(segments).end
           drawn == IF segments # <<>> /\ last # subpathStart
                    THEN Append(segments, Line(last, subpathStart)) ELSE segments
       IN  paths' = Flushed(drawn, TRUE)
    /\ segments' = <<>>
    /\ current' = subpathStart
    /\ lastCubic' = {} /\ lastQuad' = {}
    /\ lastCommand' = Command
    /\ UNCHANGED subpathStart

Draw(drawn, end, cubic, quad) ==
    /\ segments' = segments \o drawn
    /\ current' = end
    /\ lastCubic' = cubic
    /\ lastQuad' = quad
    /\ lastCommand' = Command
    /\ UNCHANGED <<paths, subpathStart>>

DrawLine(end) == Draw(<<Line(current, end)>>, end, {}, {})

LineTo == Turn("L") /\ DrawLine(At(1))

HorizontalTo ==
    Turn("H") /\ DrawLine(Point((IF Command.relative THEN current.x ELSE 0) + Arg(1), current.y))

\* A vertical line that forgets to clear the control point.
VerticalKeepsControl ==
    LET end == Point(current.x, (IF Command.relative THEN current.y ELSE 0) + Arg(1))
    IN  Turn("V") /\ Draw(<<Line(current, end)>>, end, lastCubic, {})

VerticalTo ==
    Turn("V") /\ DrawLine(Point(current.x, (IF Command.relative THEN current.y ELSE 0) + Arg(1)))

\* A cubic that forgets to clear the other control point.
CubicKeepsQuad == Turn("C") /\ Draw(<<Bezier(current, At(1), At(3), At(5))>>, At(5), {At(3)}, lastQuad)

CubicTo == Turn("C") /\ Draw(<<Bezier(current, At(1), At(3), At(5))>>, At(5), {At(3)}, {})

SmoothCubicTo ==
    Turn("S") /\ Draw(<<Bezier(current, Reflected(lastCubic), At(1), At(3))>>, At(3), {At(1)}, {})

QuadTo == Turn("Q") /\ Draw(<<QuadBezier(current, At(1), At(3))>>, At(3), {}, {At(1)})

SmoothQuadTo ==
    LET control == Reflected(lastQuad)
    IN  Turn("T") /\ Draw(<<QuadBezier(current, control, At(1))>>, At(1), {}, {control})

ArcTo ==
    /\ Turn("A")
    /\ \E drift \in {0, Drift} :
           Draw(ArcSegments(current, Arg(1), Arg(2), Arg(3) % 360 # 0,
                            Arg(4) = 1, Arg(5) = 1, At(6), drift), At(6), {}, {})

\* Only the missing command is noticed, not the missing number.
ScanRaisesAtStart ==
    /\ scan = "scanning"
    /\ data # <<>>
    /\ Command.letter = ""
    /\ scan' = "malformed"
    /\ UNCHANGED <<data, paths, pen>>

\* No command yet, or not the numbers it asks for: GeometryFormatException.
ScanRaises ==
    /\ scan = "scanning"
    /\ data # <<>>
    /\ ~(Command.letter # "" /\ Complete(Command.letter))
    /\ scan' = "malformed"
    /\ UNCHANGED <<data, paths, pen>>

EndOfData ==
    /\ scan = "scanning"
    /\ data = <<>>
    /\ paths' = Flushed(segments, FALSE)
    /\ scan' = "scanned"
    /\ UNCHANGED <<data, pen>>

ScanTurn ==
    \/ MoveTo \/ ClosePath \/ LineTo \/ HorizontalTo \/ VerticalTo
    \/ CubicTo \/ SmoothCubicTo \/ QuadTo \/ SmoothQuadTo \/ ArcTo
    \/ ScanRaises \/ EndOfData

\* The local variables of a fresh call.
FreshPen ==
    /\ segments' = <<>>
    /\ current' = Point(0, 0) /\ subpathStart' = Point(0, 0)
    /\ lastCubic' = {} /\ lastQuad' = {}
    /\ lastCommand' = NoCommand

\* A call of _parse_path_d.
StartScan(d) == data' = d /\ scan' = "scanning" /\ paths' = <<>> /\ FreshPen

ScanInit ==
    /\ data = <<>> /\ scan = "idle" /\ paths = <<>> /\ segments = <<>>
    /\ current = Point(0, 0) /\ subpathStart = Point(0, 0)
    /\ lastCubic = {} /\ lastQuad = {} /\ lastCommand = NoCommand

-----------------------------------------------------------------------------
PointsOfPlane == [x : Int, y : Int]

ScannerTypeOK ==
    /\ data \in Seq(Tokens)
    /\ scan \in {"idle", "scanning", "scanned", "malformed"}
    /\ {current, subpathStart} \cup lastCubic \cup lastQuad \subseteq PointsOfPlane
    /\ Cardinality(lastCubic) + Cardinality(lastQuad) <= 1
    /\ lastCommand \in Tokens

Chained(drawn) == \A i \in 1 .. Len(drawn) - 1 : Within(drawn[i].end, drawn[i + 1].start, Drift + Drift)

\* Every subpath is a chain of segments; a closed one comes back to its start, and
\* the open one goes on from the pen (the starts and ends of _parse_path_d).
SubpathsAreChains ==
    /\ Chained(segments)
    /\ segments # <<>> /\ scan = "scanning" => Within(Last(segments).end, current, Drift)
    /\ \A i \in DOMAIN paths :
        LET drawn == paths[i].segments
        IN  /\ drawn # <<>>
            /\ Chained(drawn)
            /\ paths[i].closed => Within(Last(drawn).end, Head(drawn).start, Drift + Drift)

\* The control point kept for S and T is that of the segment drawn last, and it is
\* kept only directly after a command of the same family (lines 397-522).
SmoothControlsAreFresh ==
    scan = "scanning" =>
        /\ lastCubic = IF lastCommand.letter \in {"C", "S"} THEN {Last(segments).via[2]} ELSE {}
        /\ IF lastCommand.letter \in {"Q", "T"}
           THEN LET curve == Last(segments)
                IN  \E control \in lastQuad :
                        /\ lastQuad = {control}
                        /\ curve = QuadBezier(curve.start, control, curve.end)
           ELSE lastQuad = {}
=============================================================================
