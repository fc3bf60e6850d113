----------------------------- MODULE SvgProofs -----------------------------
(***************************************************************************)
(* The import of SVG, for every document, every path data and every        *)
(* rounding error: the types of SvgImport, the chains and the fresh        *)
(* control points of the scanner, what is drawn and in which order, where  *)
(* the transforms put it, the round trip through the wire format, and how  *)
(* the scan ends.                                                          *)
(*                                                                         *)
(* ImportInv has one part for each actor.  ScannerInv follows the pen: the *)
(* open segments run from where the subpath began to where the pen is, to  *)
(* within the drift.  WalkInv says of what waits on the stack that it is   *)
(* the element at its place, with the product of the transform lists the   *)
(* document has around it; ScanningInv says so of the path that is being   *)
(* scanned, and DrawnInv of what was put out.  StageInv says what is on    *)
(* the wire at the end.                                                    *)
(*                                                                         *)
(* WalkOrderInv is about places alone: what was drawn, what is scanned and *)
(* what waits are in document order, and every drawing of the document is  *)
(* one of them or inside one that waits.                                   *)
(***************************************************************************)
EXTENDS SvgImport, SequenceLemmas, FiniteSetTheorems

-----------------------------------------------------------------------------
(* The segments of the engine. *)

Plane == PointsOfPlane

LineSegments == [kind : {"line"}, start : Plane, via : {<<>>}, end : Plane]
BezierSegments == [kind : {"bezier"}, start : Plane, via : Plane \X Plane, end : Plane]
CircleSegments == [kind : {"arc"}, start : Plane, end : Plane, centre : Plane,
                   squaredRadius : Int, clockwise : BOOLEAN]
Strokes == LineSegments \cup BezierSegments \cup CircleSegments
Drawings == [segments : Seq(Strokes), closed : BOOLEAN]

LEMMA PointsAreInThePlane ==
  ASSUME NEW x \in Int, NEW y \in Int
  PROVE  /\ Point(x, y) \in Plane
         /\ Point(x, y).x = x /\ Point(x, y).y = y
BY DEF Point, Plane, PointsOfPlane

LEMMA LineType ==
  ASSUME NEW a \in Plane, NEW b \in Plane
  PROVE  /\ Line(a, b) \in Strokes
         /\ Line(a, b).start = a /\ Line(a, b).end = b
BY DEF Line, Strokes, LineSegments

LEMMA BezierType ==
  ASSUME NEW a \in Plane, NEW c \in Plane, NEW d \in Plane, NEW b \in Plane
  PROVE  /\ Bezier(a, c, d, b) \in Strokes /\ Bezier(a, c, d, b) \in BezierSegments
         /\ Bezier(a, c, d, b).start = a /\ Bezier(a, c, d, b).end = b
         /\ Bezier(a, c, d, b).via[2] = d
BY DEF Bezier, Curve, Strokes, BezierSegments

LEMMA MidwayType ==
  ASSUME NEW p \in Plane, NEW q \in Plane
  PROVE  Midway(p, q) \in Plane
BY DEF Midway, Point, Plane, PointsOfPlane

LEMMA QuadBezierType ==
  ASSUME NEW a \in Plane, NEW c \in Plane, NEW b \in Plane
  PROVE  /\ QuadBezier(a, c, b) \in Strokes
         /\ QuadBezier(a, c, b).start = a /\ QuadBezier(a, c, b).end = b
<1> DEFINE towards(p) == Point(p.x + (2 * (c.x - p.x)) \div 3, p.y + (2 * (c.y - p.y)) \div 3)
<1>1. ASSUME NEW p \in Plane PROVE towards(p) \in Plane
  <2>1. (2 * (c.x - p.x)) \div 3 \in Int /\ (2 * (c.y - p.y)) \div 3 \in Int /\ p.x \in Int /\ p.y \in Int
    BY DEF Plane, PointsOfPlane
  <2>2. QED
    BY <2>1, PointsAreInThePlane
<1>2. QuadBezier(a, c, b) = Bezier(a, towards(a), towards(b), b)
  BY DEF QuadBezier
<1>3. towards(a) \in Plane /\ towards(b) \in Plane
  BY <1>1
<1>4. PICK c1 \in Plane, c2 \in Plane : QuadBezier(a, c, b) = Bezier(a, c1, c2, b)
  BY <1>2, <1>3
<1> HIDE DEF towards
<1>5. QED
  BY <1>4, BezierType

LEMMA MagnitudeType ==
  ASSUME NEW n \in Int
  PROVE  Magnitude(n) \in Nat
BY DEF Magnitude

LEMMA CircularArcType ==
  ASSUME NEW a \in Plane, NEW b \in Plane, NEW radius \in Nat,
         NEW large \in BOOLEAN, NEW sweep \in BOOLEAN
  PROVE  /\ CircularArc(a, radius, large, sweep, b) \in Strokes
         /\ CircularArc(a, radius, large, sweep, b).start = a
         /\ CircularArc(a, radius, large, sweep, b).end = b
<1> DEFINE half == Point((a.x - b.x) \div 2, (a.y - b.y) \div 2)
           chord == half.x * half.x + half.y * half.y
           offset == Max({k \in 0 .. radius : k * k * chord <= radius * radius - chord})
           signed == IF radius * radius <= chord THEN 0 ELSE IF large = sweep THEN -offset ELSE offset
           centre == Point(Midway(a, b).x + signed * half.y, Midway(a, b).y - signed * half.x)
<1>1. half \in Plane
  BY DEF Plane, PointsOfPlane, Point
<1>2. chord \in Int
  <2>1. half.x \in Int /\ half.y \in Int
    BY <1>1 DEF Plane, PointsOfPlane
  <2> HIDE DEF half
  <2>2. QED
    BY <2>1
<1> HIDE DEF chord
<1>3. signed \in Int
  <2>1. CASE radius * radius <= chord
    BY <2>1
  <2>2. CASE ~(radius * radius <= chord)
    <3>1. 0 * 0 * chord <= radius * radius - chord
      <4>1. radius * radius \in Int
        OBVIOUS
      <4>2. QED
        BY <1>2, <2>2, <4>1
    <3>2. {k \in 0 .. radius : k * k * chord <= radius * radius - chord} # {}
      BY <3>1
    <3>3. offset \in 0 .. radius
      BY <3>2, Greatest
    <3>4. QED
      BY <3>3
  <2>3. QED
    BY <2>1, <2>2
<1> HIDE DEF signed
<1>4. centre \in Plane
  <2>1. /\ half.x \in Int /\ half.y \in Int
        /\ Midway(a, b).x \in Int /\ Midway(a, b).y \in Int
    BY <1>1, MidwayType DEF Plane, PointsOfPlane
  <2> HIDE DEF half
  <2>2. Midway(a, b).x + signed * half.y \in Int /\ Midway(a, b).y - signed * half.x \in Int
    BY <1>3, <2>1
  <2>3. QED
    BY <2>2, PointsAreInThePlane
<1>5. (IF radius * radius <= chord THEN chord ELSE radius * radius) \in Int
  BY <1>2
<1>6. CircularArc(a, radius, large, sweep, b)
        = Arc(a, b, centre, IF radius * radius <= chord THEN chord ELSE radius * radius, ~sweep)
  BY DEF CircularArc, chord, signed
<1> HIDE DEF centre
<1>7. QED
  BY <1>4, <1>5, <1>6 DEF Arc, Strokes, CircleSegments

\* A point that missed another by at most the rounding error, in the direction of
\* the model.
Off(p, q) == p.y = q.y /\ (p.x = q.x \/ p.x = q.x + Drift)

\* Two points that missed the same one.
Close(p, q) == p.y = q.y /\ (p.x = q.x \/ p.x = q.x + Drift \/ p.x + Drift = q.x)

LEMMA EllipticArcType ==
  ASSUME NEW a \in Plane, NEW b \in Plane, NEW sweep \in BOOLEAN, NEW drift \in {0, Drift}
  PROVE  /\ EllipticArc(a, sweep, b, drift) \in Strokes
         /\ Off(EllipticArc(a, sweep, b, drift).start, a)
         /\ Off(EllipticArc(a, sweep, b, drift).end, b)
<1> DEFINE corner == IF sweep <=> Cross(a, Point(a.x, b.y), b) > 0
                     THEN Point(a.x, b.y) ELSE Point(b.x, a.y)
           from == Point(a.x + drift, a.y)
           to == Point(b.x + drift, b.y)
<1>1. corner \in Plane
  BY DEF Plane, PointsOfPlane, Point
<1>2. from \in Plane /\ to \in Plane /\ Off(from, a) /\ Off(to, b)
  BY DriftAssumption DEF Plane, PointsOfPlane, Point, Off
<1> HIDE DEF corner, from, to
<1>3. EllipticArc(a, sweep, b, drift) = Bezier(from, Midway(a, corner), Midway(b, corner), to)
  BY DEF EllipticArc, corner, from, to
<1>4. Midway(a, corner) \in Plane /\ Midway(b, corner) \in Plane
  BY <1>1, MidwayType
<1>5. /\ EllipticArc(a, sweep, b, drift) \in Strokes
      /\ EllipticArc(a, sweep, b, drift).start = from
      /\ EllipticArc(a, sweep, b, drift).end = to
  <2> DEFINE c1 == Midway(a, corner)
             c2 == Midway(b, corner)
  <2>1. c1 \in Plane /\ c2 \in Plane
    BY <1>4
  <2>2. EllipticArc(a, sweep, b, drift) = Bezier(from, c1, c2, to)
    BY <1>3
  <2> HIDE DEF c1, c2
  <2>3. Bezier(from, c1, c2, to) \in Strokes
    BY <1>2, <2>1, BezierType
  <2>4. Bezier(from, c1, c2, to).start = from /\ Bezier(from, c1, c2, to).end = to
    BY <1>2, <2>1, BezierType
  <2>5. QED
    BY <2>2, <2>3, <2>4
<1>6. QED
  BY <1>2, <1>5

-----------------------------------------------------------------------------
(* The scanner of path data. *)

\* No control point, or one.
Kept == {{}} \cup {{p} : p \in Plane}

Linked(run) == \A i \in 1 .. Len(run) - 1 : Close(run[i].end, run[i + 1].start)

\* Segments drawn from one place of the pen to another.
Runs(run, from, to) ==
    /\ run \in Seq(Strokes)
    /\ Linked(run)
    /\ run # <<>> => Off(run[1].start, from) /\ Off(run[Len(run)].end, to)
    /\ run = <<>> => from = to

PenTypes ==
    /\ data \in Seq(Tokens)
    /\ scan \in {"idle", "scanning", "scanned", "malformed"}
    /\ paths \in Seq(Drawings)
    /\ current \in Plane /\ subpathStart \in Plane
    /\ lastCubic \in Kept /\ lastQuad \in Kept
    /\ lastCubic = {} \/ lastQuad = {}
    /\ lastCommand \in Tokens

FinishedWell(path) ==
    /\ path.segments # <<>>
    /\ Linked(path.segments)
    /\ path.closed => Close(path.segments[Len(path.segments)].end, path.segments[1].start)

ChainInv ==
    /\ Runs(segments, subpathStart, current)
    /\ \A i \in DOMAIN paths : FinishedWell(paths[i])

FreshInv ==
    /\ lastCubic = IF lastCommand.letter \in {"C", "S"} THEN {Last(segments).via[2]} ELSE {}
    /\ IF lastCommand.letter \in {"Q", "T"}
       THEN LET curve == Last(segments)
            IN  \E control \in lastQuad :
                    /\ lastQuad = {control}
                    /\ curve = QuadBezier(curve.start, control, curve.end)
       ELSE lastQuad = {}

ScannerInv == PenTypes /\ ChainInv /\ FreshInv

LEMMA OffIsClose ==
  ASSUME NEW p \in Plane, NEW q \in Plane, NEW r \in Plane, Off(p, r), Off(q, r)
  PROVE  Close(p, q)
BY DriftAssumption DEF Off, Close, Plane, PointsOfPlane

LEMMA DrawablesEnd ==
  ASSUME NEW s \in Strokes
  PROVE  s.start \in Plane /\ s.end \in Plane
BY DEF Strokes, LineSegments, BezierSegments, CircleSegments

\* A run of segments goes on where the pen is.
LEMMA RunGoesOn ==
  ASSUME NEW a \in Plane, NEW b \in Plane, NEW c \in Plane, NEW s, NEW t,
         Runs(s, a, b), Runs(t, b, c)
  PROVE  Runs(s \o t, a, c)
<1>1. s \in Seq(Strokes) /\ t \in Seq(Strokes) /\ Linked(s) /\ Linked(t)
  BY DEF Runs
<1>2. CASE s = <<>>
  <2>1. s \o t = t
    BY <1>1, <1>2
  <2>2. QED
    BY <1>2, <2>1 DEF Runs
<1>3. CASE t = <<>>
  <2>1. s \o t = s
    BY <1>1, <1>3
  <2>2. QED
    BY <1>3, <2>1 DEF Runs
<1>4. CASE s # <<>> /\ t # <<>>
  <2> DEFINE m == Len(s)
             n == Len(t)
             u == s \o t
  <2>1. m \in Nat /\ n \in Nat /\ m # 0 /\ n # 0
    BY <1>1, <1>4
  <2>2. u \in Seq(Strokes) /\ Len(u) = m + n
    BY <1>1
  <2>3. \A i \in 1 .. m : u[i] = s[i]
    BY <1>1
  <2>4. \A i \in 1 .. n : u[m + i] = t[i]
    BY <1>1
  <2>5. u # <<>> /\ u[1] = s[1] /\ u[m + n] = t[n]
    BY <1>4, <2>1, <2>2, <2>3, <2>4
  <2>6. ASSUME NEW i \in 1 .. (m + n) - 1 PROVE Close(u[i].end, u[i + 1].start)
    <3>1. CASE i < m
      <4>1. i \in 1 .. m - 1 /\ i \in 1 .. m /\ i + 1 \in 1 .. m
        BY <2>1, <2>6, <3>1
      <4>2. QED
        BY <1>1, <2>3, <4>1 DEF Linked
    <3>2. CASE i = m
      <4>1. u[i] = s[m] /\ u[i + 1] = t[1] /\ s[m] \in Strokes /\ t[1] \in Strokes
        BY <1>1, <2>1, <2>3, <2>4, <3>2
      <4>2. Off(s[m].end, b) /\ Off(t[1].start, b)
        BY <1>4 DEF Runs
      <4>3. QED
        BY <4>1, <4>2, DrawablesEnd, OffIsClose
    <3>3. CASE i > m
      <4>1. /\ i - m \in 1 .. n - 1 /\ i - m \in 1 .. n /\ (i - m) + 1 \in 1 .. n
            /\ i = m + (i - m) /\ i + 1 = m + ((i - m) + 1)
        BY <2>1, <2>6, <3>3
      <4>2. u[i] = t[i - m] /\ u[i + 1] = t[(i - m) + 1]
        BY <2>4, <4>1
      <4>3. QED
        BY <1>1, <4>1, <4>2 DEF Linked
    <3>4. QED
      BY <2>1, <3>1, <3>2, <3>3
  <2>7. Off(s[1].start, a) /\ Off(t[n].end, c)
    BY <1>4 DEF Runs
  <2> HIDE DEF u, m, n
  <2>8. Runs(u, a, c)
    BY <2>2, <2>5, <2>6, <2>7 DEF Runs, Linked
  <2>9. QED
    BY <2>8 DEF u
<1>5. QED
  BY <1>2, <1>3, <1>4

LEMMA OneSegmentRuns ==
  ASSUME NEW s \in Strokes, NEW a \in Plane, NEW b \in Plane, Off(s.start, a), Off(s.end, b)
  PROVE  Runs(<<s>>, a, b)
BY DEF Runs, Linked

\* What a command reads are numbers.
LEMMA TurnReads ==
  ASSUME PenTypes, NEW letter \in Letters, Turn(letter)
  PROVE  /\ data' \in Seq(Tokens) /\ scan' = scan
         /\ Command \in Tokens /\ Command.letter = letter
         /\ \A i \in 1 .. Arity[letter] : Arg(i) \in Int
         /\ \A i \in 1 .. Arity[letter] : i + 1 \in 1 .. Arity[letter] => At(i) \in Plane
<1>1. Numbers \in Seq(Tokens)
  <2>1. data \in Seq(Tokens) /\ data # <<>>
    BY DEF PenTypes, Turn
  <2>2. Tail(data) \in Seq(Tokens)
    BY <2>1
  <2>3. QED
    BY <2>1, <2>2 DEF Numbers
<1>2. Command \in Tokens /\ Command.letter = letter
  <2>1. data \in Seq(Tokens) /\ data # <<>> /\ lastCommand \in Tokens
    BY DEF PenTypes, Turn
  <2>2. Head(data) \in Tokens
    BY <2>1
  <2>3. QED
    BY <2>1, <2>2 DEF Command, Turn
<1>3. Arity[letter] \in Nat
  BY DEF Arity, Letters
<1>4. Len(Numbers) >= Arity[letter] /\ Len(Numbers) \in Nat
  <2>1. Complete(letter)
    BY DEF Turn
  <2>2. Len(Numbers) >= Arity[letter]
    BY <2>1 DEF Complete
  <2>3. QED
    BY <1>1, <2>2
<1>5. ASSUME NEW i \in 1 .. Arity[letter] PROVE Arg(i) \in Int
  <2>1. i \in 1 .. Len(Numbers)
    BY <1>3, <1>4
  <2>2. Numbers[i] \in Tokens
    BY <1>1, <2>1
  <2>3. QED
    BY <2>2 DEF Arg, Tokens
<1>6. ASSUME NEW i \in 1 .. Arity[letter], i + 1 \in 1 .. Arity[letter] PROVE At(i) \in Plane
  <2>1. Arg(i) \in Int /\ Arg(i + 1) \in Int
    BY <1>5, <1>6
  <2>2. current.x \in Int /\ current.y \in Int
    BY DEF PenTypes, Plane, PointsOfPlane
  <2>3. QED
    BY <2>1, <2>2, PointsAreInThePlane DEF At
<1>7. data' \in Seq(Tokens)
  <2>1. data' = SubSeq(Numbers, Arity[letter] + 1, Len(Numbers))
    BY DEF Turn
  <2>2. Arity[letter] + 1 \in 1 .. Len(Numbers) + 1
    BY <1>3, <1>4
  <2>3. QED
    BY <1>1, <1>4, <2>1, <2>2, SubSeqProperties
<1>8. scan' = scan
  BY DEF Turn
<1>9. QED
  BY <1>2, <1>5, <1>6, <1>7, <1>8

\* Drawing goes on from the pen.
LEMMA DrawingKeepsTheChain ==
  ASSUME PenTypes, ChainInv, NEW run, NEW end \in Plane, NEW cubic \in Kept, NEW quad \in Kept,
         cubic = {} \/ quad = {}, Runs(run, current, end), Draw(run, end, cubic, quad),
         data' \in Seq(Tokens), scan' = scan, Command \in Tokens
  PROVE  PenTypes' /\ ChainInv'
<1>1. /\ segments' = segments \o run /\ current' = end
      /\ lastCubic' = cubic /\ lastQuad' = quad /\ lastCommand' = Command
      /\ paths' = paths /\ subpathStart' = subpathStart
  BY DEF Draw
<1>2. PenTypes'
  BY <1>1 DEF PenTypes
<1>3. Runs(segments, subpathStart, current) /\ subpathStart \in Plane /\ current \in Plane
  BY DEF ChainInv, PenTypes
<1>4. Runs(segments \o run, subpathStart, end)
  BY <1>3, RunGoesOn
<1>5. ChainInv'
  <2>1. Runs(segments', subpathStart', current')
    BY <1>1, <1>4
  <2>2. QED
    BY <1>1, <2>1 DEF ChainInv, Runs, Linked, FinishedWell
<1>6. QED
  BY <1>2, <1>5

\* A subpath is finished only when it has segments.
LEMMA FlushKeepsTheChain ==
  ASSUME PenTypes, ChainInv, NEW run, NEW closed \in BOOLEAN, run \in Seq(Strokes), Linked(run),
         run # <<>> /\ closed => Close(run[Len(run)].end, run[1].start)
  PROVE  /\ Flushed(run, closed) \in Seq(Drawings)
         /\ \A i \in DOMAIN Flushed(run, closed) : FinishedWell(Flushed(run, closed)[i])
<1>1. paths \in Seq(Drawings) /\ \A i \in DOMAIN paths : FinishedWell(paths[i])
  BY DEF PenTypes, ChainInv
<1>2. CASE run = <<>>
  BY <1>1, <1>2 DEF Flushed
<1>3. CASE run # <<>>
  <2> DEFINE path == Path(run, closed)
             all == Append(paths, path)
  <2>1. path \in Drawings /\ FinishedWell(path)
    BY <1>3 DEF Path, Drawings, FinishedWell
  <2> HIDE DEF path
  <2>2. /\ all \in Seq(Drawings) /\ DOMAIN all = 1 .. Len(paths) + 1
        /\ \A i \in 1 .. Len(paths) + 1 : all[i] = IF i = Len(paths) + 1 THEN path ELSE paths[i]
    BY <1>1, <2>1
  <2>3. ASSUME NEW i \in DOMAIN all PROVE FinishedWell(all[i])
    <3>1. CASE i = Len(paths) + 1
      BY <2>1, <2>2, <3>1
    <3>2. CASE i # Len(paths) + 1
      <4>1. i \in DOMAIN paths /\ all[i] = paths[i]
        BY <1>1, <2>2, <2>3, <3>2
      <4>2. QED
        BY <1>1, <4>1
    <3>3. QED
      BY <3>1, <3>2
  <2>4. Flushed(run, closed) = all
    BY <1>3 DEF Flushed, path
  <2>5. QED
    BY <2>2, <2>3, <2>4
<1>4. QED
  BY <1>2, <1>3

LEMMA NoSegmentsRun ==
  ASSUME NEW a \in Plane
  PROVE  Runs(<<>>, a, a)
BY DEF Runs, Linked

\* An arc is drawn as one segment from the pen to its end, or not at all.
LEMMA ArcRuns ==
  ASSUME NEW a \in Plane, NEW b \in Plane, NEW rx \in Int, NEW ry \in Int,
         NEW rotated \in BOOLEAN, NEW large \in BOOLEAN, NEW sweep \in BOOLEAN,
         NEW drift \in {0, Drift}
  PROVE  Runs(ArcSegments(a, rx, ry, rotated, large, sweep, b, drift), a, b)
<1> DEFINE run == ArcSegments(a, rx, ry, rotated, large, sweep, b, drift)
<1>1. CASE a = b
  <2>1. run = <<>>
    BY <1>1 DEF ArcSegments
  <2> HIDE DEF run
  <2>2. QED
    BY <1>1, <2>1, NoSegmentsRun DEF run
<1>2. CASE a # b /\ (rx = 0 \/ ry = 0)
  <2> DEFINE s == Line(a, b)
  <2>1. run = <<s>>
    BY <1>2 DEF ArcSegments
  <2>2. s \in Strokes /\ Off(s.start, a) /\ Off(s.end, b)
    BY LineType DEF Off
  <2> HIDE DEF run, s
  <2>3. QED
    BY <2>1, <2>2, OneSegmentRuns DEF run
<1>3. CASE a # b /\ ~(rx = 0 \/ ry = 0) /\ (Magnitude(rx) = Magnitude(ry) /\ ~rotated)
  <2> DEFINE s == CircularArc(a, Magnitude(rx), large, sweep, b)
  <2>1. run = <<s>>
    BY <1>3 DEF ArcSegments
  <2>2. s \in Strokes /\ s.start = a /\ s.end = b
    BY MagnitudeType, CircularArcType
  <2> HIDE DEF run, s
  <2>3. Off(s.start, a) /\ Off(s.end, b)
    BY <2>2 DEF Off
  <2>4. QED
    BY <2>1, <2>2, <2>3, OneSegmentRuns DEF run
<1>4. CASE a # b /\ ~(rx = 0 \/ ry = 0) /\ ~(Magnitude(rx) = Magnitude(ry) /\ ~rotated)
  <2> DEFINE s == EllipticArc(a, sweep, b, drift)
  <2>1. run = <<s>>
    BY <1>4 DEF ArcSegments
  <2>2. s \in Strokes /\ Off(s.start, a) /\ Off(s.end, b)
    BY EllipticArcType
  <2> HIDE DEF run, s
  <2>3. QED
    BY <2>1, <2>2, OneSegmentRuns DEF run
<1>5. QED
  BY <1>1, <1>2, <1>3, <1>4

LEMMA LetterType ==
  ASSUME NEW relative \in BOOLEAN
  PROVE  Letter("L", relative) \in Tokens /\ Letter("L", relative).letter = "L"
BY DEF Letter, Tokens, Letters

LEMMA MoveToKeepsScannerInv ==
  ASSUME ScannerInv, MoveTo
  PROVE  ScannerInv'
<1>1. PenTypes /\ ChainInv
  BY DEF ScannerInv
<1>2. /\ data' \in Seq(Tokens) /\ scan' = scan /\ Command \in Tokens /\ At(1) \in Plane
  <2>1. 1 \in 1 .. Arity["M"] /\ 1 + 1 \in 1 .. Arity["M"] /\ "M" \in Letters
    BY DEF Arity, Letters
  <2>2. Turn("M")
    BY DEF MoveTo
  <2>3. QED
    BY <1>1, <2>1, <2>2, TurnReads
<1>3. /\ segments' = <<>> /\ current' = At(1) /\ subpathStart' = At(1)
      /\ lastCubic' = {} /\ lastQuad' = {}
      /\ lastCommand' = Letter("L", Command.relative)
      /\ paths' = Flushed(segments, FALSE)
  BY DEF MoveTo
<1>4. segments \in Seq(Strokes) /\ Linked(segments)
  BY <1>1 DEF ChainInv, Runs
<1>5. /\ Flushed(segments, FALSE) \in Seq(Drawings)
      /\ \A i \in DOMAIN Flushed(segments, FALSE) : FinishedWell(Flushed(segments, FALSE)[i])
  BY <1>1, <1>4, FlushKeepsTheChain
<1>6. Letter("L", Command.relative) \in Tokens /\ Letter("L", Command.relative).letter = "L"
  <2>1. Command.relative \in BOOLEAN
    BY <1>2 DEF Tokens
  <2>2. QED
    BY <2>1, LetterType
<1>7. PenTypes'
  BY <1>1, <1>2, <1>3, <1>5, <1>6 DEF PenTypes, Kept
<1>8. ChainInv'
  <2>1. Runs(segments', subpathStart', current')
    BY <1>2, <1>3, NoSegmentsRun
  <2>2. \A i \in DOMAIN paths' : FinishedWell(paths'[i])
    BY <1>3, <1>5
  <2>3. QED
    BY <2>1, <2>2 DEF ChainInv, Runs, Linked, FinishedWell
<1>9. FreshInv'
  BY <1>3, <1>6 DEF FreshInv
<1>10. QED
  BY <1>7, <1>8, <1>9 DEF ScannerInv

LEMMA ClosePathKeepsScannerInv ==
  ASSUME ScannerInv, ClosePath
  PROVE  ScannerInv'
<1>1. PenTypes /\ ChainInv
  BY DEF ScannerInv
<1>2. /\ data' \in Seq(Tokens) /\ scan' = scan /\ Command \in Tokens /\ Command.letter = "Z"
  <2>1. "Z" \in Letters /\ Turn("Z")
    BY DEF ClosePath, Letters
  <2>2. QED
    BY <1>1, <2>1, TurnReads
<1> DEFINE back == Line(Last(segments).end, subpathStart)
           run == IF segments # <<>> /\ Last(segments).end # subpathStart
                  THEN Append(segments, back) ELSE segments
<1>3. /\ segments' = <<>> /\ current' = subpathStart /\ subpathStart' = subpathStart
      /\ lastCubic' = {} /\ lastQuad' = {} /\ lastCommand' = Command
      /\ paths' = Flushed(run, TRUE)
  BY DEF ClosePath
<1>4. /\ run \in Seq(Strokes) /\ Linked(run)
      /\ run # <<>> => Close(run[Len(run)].end, run[1].start)
  <2>1. /\ segments \in Seq(Strokes) /\ Linked(segments) /\ subpathStart \in Plane
        /\ segments # <<>> => Off(segments[1].start, subpathStart)
    BY <1>1 DEF ChainInv, Runs, PenTypes
  <2> DEFINE n == Len(segments)
  <2>2. CASE segments = <<>>
    BY <2>1, <2>2
  <2>3. CASE segments # <<>>
    <3>1. /\ n \in Nat /\ n # 0 /\ segments[1] \in Strokes /\ segments[n] \in Strokes
          /\ Last(segments) = segments[n]
      BY <2>1, <2>3 DEF Last
    <3>2. segments[1].start \in Plane /\ segments[n].end \in Plane
      BY <3>1, DrawablesEnd
    <3>3. Close(subpathStart, segments[1].start)
      <4>1. Off(subpathStart, subpathStart)
        BY DEF Off
      <4>2. QED
        BY <2>1, <2>3, <3>2, <4>1, OffIsClose
    <3>4. CASE segments[n].end = subpathStart
      <4>1. run = segments
        BY <3>1, <3>4
      <4>2. QED
        BY <2>1, <3>3, <3>4, <4>1
    <3>5. CASE segments[n].end # subpathStart
      <4>1. /\ back \in Strokes /\ back.start = segments[n].end /\ back.end = subpathStart
        BY <2>1, <3>1, <3>2, LineType
      <4> HIDE DEF back
      <4>2. run = Append(segments, back)
        BY <2>3, <3>1, <3>5 DEF back
      <4> HIDE DEF run
      <4>3. /\ run \in Seq(Strokes) /\ Len(run) = n + 1
            /\ run[n + 1] = back /\ \A i \in 1 .. n : run[i] = segments[i]
        BY <2>1, <4>1, <4>2
      <4>4. ASSUME NEW i \in 1 .. Len(run) - 1 PROVE Close(run[i].end, run[i + 1].start)
        <5>1. CASE i = n
          BY <3>1, <4>1, <4>3, <5>1 DEF Close
        <5>2. CASE i # n
          <6>1. i \in 1 .. n - 1 /\ i \in 1 .. n /\ i + 1 \in 1 .. n
            BY <3>1, <4>3, <4>4, <5>2
          <6>2. QED
            BY <2>1, <4>3, <6>1 DEF Linked
        <5>3. QED
          BY <5>1, <5>2
      <4>5. run[1] = segments[1] /\ run[Len(run)] = back
        BY <3>1, <4>3
      <4>6. QED
        BY <3>3, <4>1, <4>3, <4>4, <4>5 DEF Linked
    <3>6. QED
      BY <3>4, <3>5
  <2>4. QED
    BY <2>2, <2>3
<1> HIDE DEF run
<1>5. /\ Flushed(run, TRUE) \in Seq(Drawings)
      /\ \A i \in DOMAIN Flushed(run, TRUE) : FinishedWell(Flushed(run, TRUE)[i])
  BY <1>1, <1>4, FlushKeepsTheChain
<1>6. subpathStart \in Plane
  BY <1>1 DEF PenTypes
<1>7. PenTypes'
  BY <1>1, <1>2, <1>3, <1>5, <1>6 DEF PenTypes, Kept
<1>8. ChainInv'
  <2>1. Runs(segments', subpathStart', current')
    BY <1>3, <1>6, NoSegmentsRun
  <2>2. \A i \in DOMAIN paths' : FinishedWell(paths'[i])
    BY <1>3, <1>5
  <2>3. QED
    BY <2>1, <2>2 DEF ChainInv, Runs, Linked, FinishedWell
<1>9. FreshInv'
  BY <1>2, <1>3 DEF FreshInv
<1>10. QED
  BY <1>7, <1>8, <1>9 DEF ScannerInv

LEMMA AppendedIsLast ==
  ASSUME NEW s \in Strokes, segments \in Seq(Strokes), segments' = segments \o <<s>>
  PROVE  Last(segments') = s
<1>1. /\ segments \o <<s>> \in Seq(Strokes) /\ Len(segments \o <<s>>) = Len(segments) + 1
      /\ (segments \o <<s>>)[Len(segments) + 1] = s
  OBVIOUS
<1>2. QED
  BY <1>1 DEF Last

\* A command that draws one segment and keeps a control point of it, or none.
LEMMA DrawingKeepsScannerInv ==
  ASSUME ScannerInv, NEW letter \in Letters, Turn(letter),
         NEW s \in Strokes, NEW end \in Plane, Off(s.start, current), Off(s.end, end),
         NEW cubic \in Kept, NEW quad \in Kept, Draw(<<s>>, end, cubic, quad),
         cubic = IF letter \in {"C", "S"} THEN {s.via[2]} ELSE {},
         IF letter \in {"Q", "T"}
         THEN \E control \in quad : quad = {control} /\ s = QuadBezier(s.start, control, s.end)
         ELSE quad = {}
  PROVE  ScannerInv'
<1>1. PenTypes /\ ChainInv
  BY DEF ScannerInv
<1>2. data' \in Seq(Tokens) /\ scan' = scan /\ Command \in Tokens /\ Command.letter = letter
  BY <1>1, TurnReads
<1>3. cubic = {} \/ quad = {}
  OBVIOUS
<1>4. Runs(<<s>>, current, end)
  <2>1. current \in Plane
    BY <1>1 DEF PenTypes
  <2>2. QED
    BY <2>1, OneSegmentRuns
<1>5. PenTypes' /\ ChainInv'
  BY <1>1, <1>2, <1>3, <1>4, DrawingKeepsTheChain
<1>6. lastCubic' = cubic /\ lastQuad' = quad /\ lastCommand' = Command
  BY DEF Draw
<1>7. Last(segments') = s
  <2>1. segments \in Seq(Strokes) /\ segments' = segments \o <<s>>
    BY <1>1 DEF ChainInv, Runs, Draw
  <2>2. QED
    BY <2>1, AppendedIsLast
<1>8. FreshInv'
  <2>1. lastCubic' = IF lastCommand'.letter \in {"C", "S"} THEN {Last(segments').via[2]} ELSE {}
    BY <1>2, <1>6, <1>7
  <2>2. CASE letter \in {"Q", "T"}
    <3>1. PICK control \in quad : quad = {control} /\ s = QuadBezier(s.start, control, s.end)
      BY <2>2
    <3>2. /\ control \in lastQuad' /\ lastQuad' = {control}
          /\ Last(segments') = QuadBezier(Last(segments').start, control, Last(segments').end)
      BY <1>6, <1>7, <3>1
    <3>3. QED
      BY <1>2, <1>6, <2>1, <2>2, <3>2 DEF FreshInv
  <2>3. CASE letter \notin {"Q", "T"}
    BY <1>2, <1>6, <2>1, <2>3 DEF FreshInv
  <2>4. QED
    BY <2>2, <2>3
<1>9. QED
  BY <1>5, <1>8 DEF ScannerInv

LEMMA ReflectedType ==
  ASSUME PenTypes, NEW control \in Kept
  PROVE  Reflected(control) \in Plane
<1>1. current \in Plane
  BY DEF PenTypes
<1>2. CASE control = {}
  BY <1>1, <1>2 DEF Reflected
<1>3. CASE control # {}
  <2>1. PICK c \in Plane : control = {c}
    BY <1>3 DEF Kept
  <2>2. (CHOOSE p \in control : TRUE) = c
    BY <2>1
  <2>3. Reflected(control) = Point(2 * current.x - c.x, 2 * current.y - c.y)
    BY <1>3, <2>2 DEF Reflected
  <2>4. QED
    BY <1>1, <2>1, <2>3 DEF Point, Plane, PointsOfPlane
<1>4. QED
  BY <1>2, <1>3

LEMMA LinesKeepScannerInv ==
  ASSUME ScannerInv, NEW letter \in {"L", "H", "V"}, Turn(letter), NEW end \in Plane, DrawLine(end)
  PROVE  ScannerInv'
<1>1. current \in Plane
  BY DEF ScannerInv, PenTypes
<1> DEFINE s == Line(current, end)
<1>2. s \in Strokes /\ s.start = current /\ s.end = end
  BY <1>1, LineType
<1>3. Draw(<<s>>, end, {}, {})
  BY DEF DrawLine
<1> HIDE DEF s
<1>4. {} \in Kept /\ letter \in Letters /\ letter \notin {"C", "S", "Q", "T"}
  BY DEF Kept, Letters
<1>5. Off(s.start, current) /\ Off(s.end, end)
  BY <1>2 DEF Off
<1>6. QED
  BY <1>2, <1>3, <1>4, <1>5, DrawingKeepsScannerInv

LEMMA CubicsKeepScannerInv ==
  ASSUME ScannerInv, NEW letter \in {"C", "S"}, Turn(letter), NEW c1 \in Plane, NEW c2 \in Plane,
         NEW end \in Plane, Draw(<<Bezier(current, c1, c2, end)>>, end, {c2}, {})
  PROVE  ScannerInv'
<1>1. current \in Plane
  BY DEF ScannerInv, PenTypes
<1> DEFINE s == Bezier(current, c1, c2, end)
<1>2. s \in Strokes /\ s.start = current /\ s.end = end /\ s.via[2] = c2
  BY <1>1, BezierType
<1>3. Draw(<<s>>, end, {c2}, {})
  OBVIOUS
<1> HIDE DEF s
<1>4. {} \in Kept /\ {c2} \in Kept /\ letter \in Letters
  BY DEF Kept, Letters
<1>5. Off(s.start, current) /\ Off(s.end, end)
  BY <1>2 DEF Off
<1>6. letter \notin {"Q", "T"}
  OBVIOUS
<1>7. QED
  BY <1>2, <1>3, <1>4, <1>5, <1>6, DrawingKeepsScannerInv

LEMMA QuadsKeepScannerInv ==
  ASSUME ScannerInv, NEW letter \in {"Q", "T"}, Turn(letter), NEW control \in Plane,
         NEW end \in Plane, Draw(<<QuadBezier(current, control, end)>>, end, {}, {control})
  PROVE  ScannerInv'
<1>1. current \in Plane
  BY DEF ScannerInv, PenTypes
<1> DEFINE s == QuadBezier(current, control, end)
<1>2. s \in Strokes /\ s.start = current /\ s.end = end
  BY <1>1, QuadBezierType
<1>3. Draw(<<s>>, end, {}, {control})
  OBVIOUS
<1>4. s = QuadBezier(s.start, control, s.end)
  BY <1>2
<1> HIDE DEF s
<1>5. {} \in Kept /\ {control} \in Kept /\ letter \in Letters /\ letter \notin {"C", "S"}
  BY DEF Kept, Letters
<1>6. Off(s.start, current) /\ Off(s.end, end)
  BY <1>2 DEF Off
<1>7. \E c \in {control} : {control} = {c} /\ s = QuadBezier(s.start, c, s.end)
  BY <1>4
<1>8. QED
  BY <1>2, <1>3, <1>5, <1>6, <1>7, DrawingKeepsScannerInv

LEMMA ArcToKeepsScannerInv ==
  ASSUME ScannerInv, ArcTo
  PROVE  ScannerInv'
<1>1. PenTypes /\ ChainInv /\ current \in Plane
  BY DEF ScannerInv, PenTypes
<1>2. "A" \in Letters /\ Turn("A") /\ {} \in Kept
  BY DEF ArcTo, Letters, Kept
<1>3. /\ data' \in Seq(Tokens) /\ scan' = scan /\ Command \in Tokens /\ Command.letter = "A"
      /\ \A i \in 1 .. 7 : Arg(i) \in Int
      /\ At(6) \in Plane
  <2>1. Arity["A"] = 7
    BY DEF Arity
  <2>2. QED
    BY <1>1, <1>2, <2>1, TurnReads
<1>4. PICK drift \in {0, Drift} :
          Draw(ArcSegments(current, Arg(1), Arg(2), Arg(3) % 360 # 0,
                           Arg(4) = 1, Arg(5) = 1, At(6), drift), At(6), {}, {})
  BY DEF ArcTo
<1> DEFINE run == ArcSegments(current, Arg(1), Arg(2), Arg(3) % 360 # 0,
                              Arg(4) = 1, Arg(5) = 1, At(6), drift)
<1>5. Arg(1) \in Int /\ Arg(2) \in Int
  BY <1>3
<1>6. Draw(run, At(6), {}, {})
  BY <1>4
<1>7. Runs(run, current, At(6))
  <2> DEFINE rotated == Arg(3) % 360 # 0
             large == Arg(4) = 1
             sweep == Arg(5) = 1
  <2>1. rotated \in BOOLEAN /\ large \in BOOLEAN /\ sweep \in BOOLEAN
    OBVIOUS
  <2> HIDE DEF rotated, large, sweep
  <2>2. Runs(ArcSegments(current, Arg(1), Arg(2), rotated, large, sweep, At(6), drift), current, At(6))
    BY <1>1, <1>3, <1>5, <2>1, ArcRuns
  <2>3. QED
    BY <2>2 DEF rotated, large, sweep
<1> HIDE DEF run
<1>8. PenTypes' /\ ChainInv'
  BY <1>1, <1>2, <1>3, <1>6, <1>7, DrawingKeepsTheChain
<1>9. FreshInv'
  <2>1. lastCubic' = {} /\ lastQuad' = {} /\ lastCommand' = Command
    BY <1>6 DEF Draw
  <2>2. QED
    BY <1>3, <2>1 DEF FreshInv
<1>10. QED
  BY <1>8, <1>9 DEF ScannerInv

LEMMA ScanStopsKeepScannerInv ==
  ASSUME ScannerInv, ScanRaises \/ EndOfData
  PROVE  ScannerInv'
<1>1. PenTypes /\ ChainInv
  BY DEF ScannerInv
<1>2. /\ data' = data /\ segments' = segments /\ current' = current /\ subpathStart' = subpathStart
      /\ lastCubic' = lastCubic /\ lastQuad' = lastQuad /\ lastCommand' = lastCommand
      /\ scan' \in {"malformed", "scanned"}
  BY DEF ScanRaises, EndOfData, pen
<1>3. paths' \in Seq(Drawings) /\ \A i \in DOMAIN paths' : FinishedWell(paths'[i])
  <2>1. CASE paths' = paths
    BY <1>1, <2>1 DEF PenTypes, ChainInv
  <2>2. CASE paths' = Flushed(segments, FALSE)
    <3>1. segments \in Seq(Strokes) /\ Linked(segments)
      BY <1>1 DEF ChainInv, Runs
    <3>2. QED
      BY <1>1, <2>2, <3>1, FlushKeepsTheChain
  <2>3. QED
    BY <2>1, <2>2 DEF ScanRaises, EndOfData
<1>4. PenTypes'
  BY <1>1, <1>2, <1>3 DEF PenTypes
<1>5. ChainInv'
  <2>1. Runs(segments', subpathStart', current')
    BY <1>1, <1>2 DEF ChainInv
  <2>2. QED
    BY <1>3, <2>1 DEF ChainInv, Runs, Linked, FinishedWell
<1>6. FreshInv'
  BY <1>2 DEF ScannerInv, FreshInv
<1>7. QED
  BY <1>4, <1>5, <1>6 DEF ScannerInv

\* Every turn of the loop keeps the invariant of the scanner.
LEMMA ScanTurnKeepsScannerInv ==
  ASSUME ScannerInv, ScanTurn
  PROVE  ScannerInv'
<1> USE DEF ScannerInv
<1>1. current \in Plane /\ current.x \in Int /\ current.y \in Int /\ PenTypes
  BY DEF PenTypes, Plane, PointsOfPlane
<1>2. CASE MoveTo
  BY <1>2, MoveToKeepsScannerInv
<1>3. CASE ClosePath
  BY <1>3, ClosePathKeepsScannerInv
<1>4. CASE LineTo
  <2>1. Turn("L") /\ DrawLine(At(1)) /\ "L" \in Letters /\ Arity["L"] = 2
    BY <1>4 DEF LineTo, Letters, Arity
  <2>2. At(1) \in Plane
    BY <1>1, <2>1, TurnReads
  <2>3. QED
    BY <2>1, <2>2, LinesKeepScannerInv
<1>5. CASE HorizontalTo
  <2> DEFINE x == (IF Command.relative THEN current.x ELSE 0) + Arg(1)
  <2>1. Turn("H") /\ DrawLine(Point(x, current.y)) /\ "H" \in Letters /\ Arity["H"] = 1
    BY <1>5 DEF HorizontalTo, Letters, Arity
  <2>2. Arg(1) \in Int
    BY <1>1, <2>1, TurnReads
  <2>3. Point(x, current.y) \in Plane
    BY <1>1, <2>2, PointsAreInThePlane
  <2>4. QED
    BY <2>1, <2>3, LinesKeepScannerInv
<1>6. CASE VerticalTo
  <2> DEFINE y == (IF Command.relative THEN current.y ELSE 0) + Arg(1)
  <2>1. Turn("V") /\ DrawLine(Point(current.x, y)) /\ "V" \in Letters /\ Arity["V"] = 1
    BY <1>6 DEF VerticalTo, Letters, Arity
  <2>2. Arg(1) \in Int
    BY <1>1, <2>1, TurnReads
  <2>3. Point(current.x, y) \in Plane
    BY <1>1, <2>2, PointsAreInThePlane
  <2>4. QED
    BY <2>1, <2>3, LinesKeepScannerInv
<1>7. CASE CubicTo
  <2>1. /\ Turn("C") /\ "C" \in Letters /\ Arity["C"] = 6
        /\ Draw(<<Bezier(current, At(1), At(3), At(5))>>, At(5), {At(3)}, {})
    BY <1>7 DEF CubicTo, Letters, Arity
  <2>2. At(1) \in Plane /\ At(3) \in Plane /\ At(5) \in Plane
    BY <1>1, <2>1, TurnReads
  <2>3. QED
    BY <2>1, <2>2, CubicsKeepScannerInv
<1>8. CASE SmoothCubicTo
  <2>1. /\ Turn("S") /\ "S" \in Letters /\ Arity["S"] = 4
        /\ Draw(<<Bezier(current, Reflected(lastCubic), At(1), At(3))>>, At(3), {At(1)}, {})
    BY <1>8 DEF SmoothCubicTo, Letters, Arity
  <2>2. At(1) \in Plane /\ At(3) \in Plane
    BY <1>1, <2>1, TurnReads
  <2>3. Reflected(lastCubic) \in Plane
    BY <1>1, ReflectedType DEF PenTypes
  <2>4. QED
    BY <2>1, <2>2, <2>3, CubicsKeepScannerInv
<1>9. CASE QuadTo
  <2>1. /\ Turn("Q") /\ "Q" \in Letters /\ Arity["Q"] = 4
        /\ Draw(<<QuadBezier(current, At(1), At(3))>>, At(3), {}, {At(1)})
    BY <1>9 DEF QuadTo, Letters, Arity
  <2>2. At(1) \in Plane /\ At(3) \in Plane
    BY <1>1, <2>1, TurnReads
  <2>3. QED
    BY <2>1, <2>2, QuadsKeepScannerInv
<1>10. CASE SmoothQuadTo
  <2>1. /\ Turn("T") /\ "T" \in Letters /\ Arity["T"] = 2
        /\ Draw(<<QuadBezier(current, Reflected(lastQuad), At(1))>>, At(1), {}, {Reflected(lastQuad)})
    BY <1>10 DEF SmoothQuadTo, Letters, Arity
  <2>2. At(1) \in Plane
    BY <1>1, <2>1, TurnReads
  <2>3. Reflected(lastQuad) \in Plane
    BY <1>1, ReflectedType DEF PenTypes
  <2>4. QED
    BY <2>1, <2>2, <2>3, QuadsKeepScannerInv
<1>11. CASE ArcTo
  BY <1>11, ArcToKeepsScannerInv
<1>12. CASE ScanRaises \/ EndOfData
  BY <1>12, ScanStopsKeepScannerInv
<1>13. QED
  BY <1>2, <1>3, <1>4, <1>5, <1>6, <1>7, <1>8, <1>9, <1>10, <1>11, <1>12 DEF ScanTurn

LEMMA FreshScannerInv ==
  ASSUME NEW d \in Seq(Tokens)
  PROVE  /\ StartScan(d) => ScannerInv'
         /\ ScanInit => ScannerInv
<1>1. Point(0, 0) \in Plane /\ NoCommand \in Tokens /\ NoCommand.letter = ""
  <2>1. Point(0, 0) \in Plane
    BY DEF Point, Plane, PointsOfPlane
  <2>2. NoCommand.letter = ""
    BY DEF NoCommand, Number
  <2>3. ASSUME NEW letter \in Letters \cup {""}, NEW relative \in BOOLEAN, NEW number \in Int
        PROVE  [letter |-> letter, relative |-> relative, number |-> number] \in Tokens
    BY DEF Tokens
  <2>4. "" \in Letters \cup {""} /\ FALSE \in BOOLEAN /\ 0 \in Int
    OBVIOUS
  <2>5. [letter |-> "", relative |-> FALSE, number |-> 0] \in Tokens
    BY <2>3, <2>4, Zenon
  <2>6. NoCommand \in Tokens
    BY <2>5 DEF NoCommand, Number
  <2>7. QED
    BY <2>1, <2>2, <2>6
<1>2. {} \in Kept /\ <<>> \in Seq(Tokens) /\ <<>> \in Seq(Drawings)
  BY DEF Kept
<1>3. ASSUME StartScan(d) PROVE ScannerInv'
  <2>1. /\ data' = d /\ scan' = "scanning" /\ paths' = <<>> /\ segments' = <<>>
        /\ current' = Point(0, 0) /\ subpathStart' = Point(0, 0)
        /\ lastCubic' = {} /\ lastQuad' = {} /\ lastCommand' = NoCommand
    BY <1>3 DEF StartScan, FreshPen
  <2>2. PenTypes' /\ FreshInv'
    BY <1>1, <1>2, <2>1 DEF PenTypes, FreshInv
  <2>3. Runs(segments', subpathStart', current')
    BY <1>1, <2>1, NoSegmentsRun
  <2>4. DOMAIN paths' = {}
    BY <2>1
  <2>5. ChainInv'
    BY <2>3, <2>4 DEF ChainInv, Runs, Linked
  <2>6. QED
    BY <2>2, <2>5 DEF ScannerInv
<1>4. ASSUME ScanInit PROVE ScannerInv
  <2>1. PenTypes /\ FreshInv
    BY <1>1, <1>2, <1>4 DEF ScanInit, PenTypes, FreshInv
  <2>2. Runs(segments, subpathStart, current)
    BY <1>1, <1>4, NoSegmentsRun DEF ScanInit
  <2>3. DOMAIN paths = {}
    BY <1>4 DEF ScanInit
  <2>4. QED
    BY <2>1, <2>2, <2>3 DEF ScannerInv, ChainInv
<1>5. QED
  BY <1>3, <1>4

-----------------------------------------------------------------------------
(* What the invariant says of subpaths, control points and types. *)

LEMMA NearPointsAreWithin ==
  ASSUME NEW p \in Plane, NEW q \in Plane
  PROVE  /\ Off(p, q) => Within(p, q, Drift)
         /\ Close(p, q) => Within(p, q, Drift + Drift)
<1> DEFINE d == p.x - q.x
<1>1. /\ Drift \in Nat /\ d \in Int
      /\ p.x \in Int /\ q.x \in Int /\ p.y \in Int /\ q.y \in Int
  BY DriftAssumption DEF Plane, PointsOfPlane
<1>2. Drift * Drift \in Nat /\ Drift * Drift <= (Drift + Drift) * (Drift + Drift)
  BY <1>1
<1>3. p.y = q.y => SquaredDistance(p, q) = d * d
  BY <1>1 DEF SquaredDistance
<1>4. /\ Off(p, q) => p.y = q.y /\ (d = 0 \/ d = Drift)
      /\ Close(p, q) => p.y = q.y /\ (d = 0 \/ d = Drift \/ d = -Drift)
  BY <1>1 DEF Off, Close
<1> HIDE DEF d
<1>5. d = 0 \/ d = Drift \/ d = -Drift => d * d = 0 \/ d * d = Drift * Drift
  BY <1>1
<1> DEFINE square == d * d
           little == Drift * Drift
           most == (Drift + Drift) * (Drift + Drift)
<1>6. (Off(p, q) \/ Close(p, q)) =>
          SquaredDistance(p, q) = square /\ (square = 0 \/ square = little)
  BY <1>3, <1>4, <1>5
<1>7. little \in Nat /\ most \in Nat /\ little <= most
  BY <1>1, <1>2
<1> HIDE DEF square, little, most
<1>8. /\ Off(p, q) => SquaredDistance(p, q) <= little
      /\ Close(p, q) => SquaredDistance(p, q) <= most
  BY <1>6, <1>7
<1>9. QED
  BY <1>8 DEF Within, little, most

LEMMA LinkedIsChained ==
  ASSUME NEW run \in Seq(Strokes), Linked(run)
  PROVE  Chained(run)
<1>1. ASSUME NEW i \in 1 .. Len(run) - 1
      PROVE  Within(run[i].end, run[i + 1].start, Drift + Drift)
  <2>1. run[i] \in Strokes /\ run[i + 1] \in Strokes
    BY <1>1
  <2>2. Close(run[i].end, run[i + 1].start)
    BY <1>1 DEF Linked
  <2>3. QED
    BY <2>1, <2>2, DrawablesEnd, NearPointsAreWithin
<1>2. QED
  BY <1>1 DEF Chained

LEMMA ScannerInvMakesChains ==
  ASSUME ScannerInv
  PROVE  SubpathsAreChains
<1>1. PenTypes /\ ChainInv /\ segments \in Seq(Strokes) /\ current \in Plane
  BY DEF ScannerInv, ChainInv, PenTypes, Runs
<1>2. Chained(segments)
  BY <1>1, LinkedIsChained DEF ChainInv, Runs
<1>3. ASSUME segments # <<>> PROVE Within(Last(segments).end, current, Drift)
  <2>1. Last(segments) = segments[Len(segments)] /\ segments[Len(segments)] \in Strokes
    BY <1>1, <1>3 DEF Last
  <2>2. Off(segments[Len(segments)].end, current)
    BY <1>1, <1>3 DEF ChainInv, Runs
  <2>3. QED
    BY <1>1, <2>1, <2>2, DrawablesEnd, NearPointsAreWithin
<1>4. ASSUME NEW i \in DOMAIN paths
      PROVE  LET run == paths[i].segments
             IN  /\ run # <<>>
                 /\ Chained(run)
                 /\ paths[i].closed => Within(Last(run).end, Head(run).start, Drift + Drift)
  <2> DEFINE run == paths[i].segments
  <2>1. paths[i] \in Drawings
    BY <1>1, <1>4 DEF PenTypes
  <2>2. /\ run \in Seq(Strokes) /\ run # <<>> /\ Linked(run)
        /\ paths[i].closed => Close(run[Len(run)].end, run[1].start)
    BY <1>1, <1>4, <2>1 DEF ChainInv, FinishedWell, Drawings
  <2> HIDE DEF run
  <2>3. /\ Last(run) = run[Len(run)] /\ Head(run) = run[1]
        /\ run[Len(run)] \in Strokes /\ run[1] \in Strokes
    BY <2>2 DEF Last
  <2>4. paths[i].closed => Within(Last(run).end, Head(run).start, Drift + Drift)
    BY <2>2, <2>3, DrawablesEnd, NearPointsAreWithin
  <2>5. Chained(run)
    BY <2>2, LinkedIsChained
  <2>6. QED
    BY <2>2, <2>4, <2>5 DEF run
<1>5. QED
  BY <1>2, <1>3, <1>4 DEF SubpathsAreChains

LEMMA KeptCounts ==
  ASSUME NEW k \in Kept
  PROVE  k \subseteq Plane /\ Cardinality(k) \in Nat /\ Cardinality(k) <= 1
         /\ (k = {} => Cardinality(k) = 0)
<1>1. Cardinality({}) = 0
  BY FS_EmptySet
<1>2. CASE k = {}
  BY <1>1, <1>2
<1>3. CASE k # {}
  <2>1. PICK p \in Plane : k = {p}
    BY <1>3 DEF Kept
  <2>2. Cardinality({p}) = 1
    BY FS_Singleton
  <2>3. QED
    BY <1>3, <2>1, <2>2
<1>4. QED
  BY <1>2, <1>3

LEMMA ScannerInvTypes ==
  ASSUME ScannerInv
  PROVE  ScannerTypeOK
<1>1. PenTypes
  BY DEF ScannerInv
<1>2. lastCubic \in Kept /\ lastQuad \in Kept /\ (lastCubic = {} \/ lastQuad = {})
  BY <1>1 DEF PenTypes
<1>3. Cardinality(lastCubic) + Cardinality(lastQuad) <= 1
  BY <1>2, KeptCounts
<1>4. lastCubic \subseteq Plane /\ lastQuad \subseteq Plane
  BY <1>2, KeptCounts
<1>5. {current, subpathStart} \cup lastCubic \cup lastQuad \subseteq PointsOfPlane
  BY <1>1, <1>4 DEF PenTypes, Plane
<1>6. QED
  BY <1>1, <1>3, <1>5 DEF ScannerTypeOK, PenTypes

-----------------------------------------------------------------------------
(* Transforms. *)

Transforms == [a : Int, b : Int, c : Int, d : Int, e : Int, f : Int]

LEMMA TransformType ==
  ASSUME NEW a \in Int, NEW b \in Int, NEW c \in Int, NEW d \in Int, NEW e \in Int, NEW f \in Int
  PROVE  Transform(a, b, c, d, e, f) \in Transforms
BY DEF Transform, Transforms

LEMMA TransformFields ==
  ASSUME NEW t \in Transforms
  PROVE  t.a \in Int /\ t.b \in Int /\ t.c \in Int /\ t.d \in Int /\ t.e \in Int /\ t.f \in Int
BY DEF Transforms

LEMMA ThenType ==
  ASSUME NEW s \in Transforms, NEW t \in Transforms
  PROVE  Then(s, t) \in Transforms
BY DEF Then, Transform, Transforms

LEMMA ApplyPointType ==
  ASSUME NEW t \in Transforms, NEW p \in Plane
  PROVE  ApplyPoint(t, p) \in Plane
BY DEF ApplyPoint, Point, Transforms, Plane, PointsOfPlane

LEMMA IdentityIsNeutral ==
  ASSUME NEW t \in Transforms, NEW p \in Plane
  PROVE  Identity \in Transforms /\ Then(t, Identity) = t /\ ApplyPoint(Identity, p) = p
BY DEF Identity, Then, Transform, Transforms, ApplyPoint, Point, Plane, PointsOfPlane

LEMMA Rows ==
  ASSUME NEW a \in Int, NEW b \in Int, NEW p \in Int, NEW q \in Int, NEW r \in Int, NEW s \in Int,
         NEW x \in Int, NEW y \in Int
  PROVE  (a * p + b * q) * x + (a * r + b * s) * y = a * (p * x + r * y) + b * (q * x + s * y)
OBVIOUS

\* Composing is associative.
LEMMA ThenAssociates ==
  ASSUME NEW r \in Transforms, NEW s \in Transforms, NEW t \in Transforms
  PROVE  Then(Then(r, s), t) = Then(r, Then(s, t))
BY TransformFields, Rows DEF Then, Transform

\* A composed transform moves a point as one transform after the other.
LEMMA ThenMoves ==
  ASSUME NEW s \in Transforms, NEW t \in Transforms, NEW p \in Plane
  PROVE  ApplyPoint(Then(s, t), p) = ApplyPoint(t, ApplyPoint(s, p))
<1>1. p.x \in Int /\ p.y \in Int
  BY DEF Plane, PointsOfPlane
<1>2. QED
  BY <1>1, TransformFields, Rows DEF Then, Transform, ApplyPoint, Point

LEMMA CompassType ==
  ASSUME NEW n \in Int
  PROVE  Compass(n) \in Plane /\ Compass(0) = Point(1, 0)
<1>1. 1 + (n % 4) \in 1 .. 4
  OBVIOUS
<1>2. Point(1, 0) \in Plane /\ Point(0, 1) \in Plane /\ Point(-1, 0) \in Plane /\ Point(0, -1) \in Plane
  BY PointsAreInThePlane
<1>3. 1 + (0 % 4) = 1
  OBVIOUS
<1> DEFINE i == 1 + (n % 4)
<1> HIDE DEF i
<1>4. i \in 1 .. 4
  BY <1>1 DEF i
<1>5. <<Point(1, 0), Point(0, 1), Point(-1, 0), Point(0, -1)>>[i] \in Plane
  BY <1>2, <1>4
<1>6. QED
  BY <1>3, <1>5 DEF Compass, i

Functional == {fn \in Functions : Readable(fn)}

\* Every function the code reads is an affine transform.
LEMMA MatrixType ==
  ASSUME NEW fn \in Functional
  PROVE  Matrix(fn) \in Transforms
<1> DEFINE arg == fn.args
           second(default) == IF Len(arg) > 1 THEN arg[2] ELSE default
<1>1. arg \in Seq(Int) /\ Len(arg) \in Nat
  BY DEF Functional, Functions
<1>2. \A i \in 1 .. Len(arg) : arg[i] \in Int
  BY <1>1
<1>3. Readable(fn)
  BY DEF Functional
<1>4. CASE fn.name \in {"translate", "scale", "rotate", "skewX", "skewY"} /\ arg # <<>>
  <2>1. arg[1] \in Int
    BY <1>1, <1>4
  <2>2. ASSUME NEW n \in Int PROVE second(n) \in Int
    BY <1>1
  <2>3. ASSUME NEW origin \in Plane, NEW t \in Transforms PROVE About(origin, t) \in Transforms
    <3>1. origin.x \in Int /\ origin.y \in Int
      BY DEF Plane, PointsOfPlane
    <3>2. Translate(-origin.x, -origin.y) \in Transforms /\ Translate(origin.x, origin.y) \in Transforms
      BY <3>1, TransformType DEF Translate
    <3>3. QED
      BY <2>3, <3>2, ThenType DEF About
  <2>4. CASE fn.name = "translate"
    <3>1. Matrix(fn) = Translate(arg[1], second(0))
      BY <2>4 DEF Matrix
    <3>2. second(0) \in Int
      BY <2>2
    <3> HIDE DEF second
    <3>3. QED
      BY <2>1, <3>1, <3>2, TransformType DEF Translate
  <2>5. CASE fn.name = "scale"
    <3>1. Matrix(fn) = Scale(arg[1], second(arg[1]))
      BY <2>5 DEF Matrix
    <3>2. second(arg[1]) \in Int
      BY <2>1, <2>2
    <3> HIDE DEF second
    <3>3. Transform(arg[1], 0, 0, second(arg[1]), 0, 0) \in Transforms /\ Point(0, 0) \in Plane
      BY <2>1, <3>2, TransformType, PointsAreInThePlane
    <3>4. QED
      BY <2>3, <3>1, <3>3 DEF Scale
  <2>6. CASE fn.name = "rotate"
    <3> DEFINE origin == IF Len(arg) >= 3 THEN Point(arg[2], arg[3]) ELSE Point(0, 0)
               to == Compass(arg[1])
    <3>1. Matrix(fn) = Rotate(arg[1], origin)
      BY <2>6 DEF Matrix
    <3>2. origin \in Plane
      BY <1>1, PointsAreInThePlane
    <3>3. to.x \in Int /\ to.y \in Int
      BY <2>1, CompassType DEF Plane, PointsOfPlane
    <3> HIDE DEF origin, to
    <3>4. Transform(to.x, to.y, -to.y, to.x, 0, 0) \in Transforms
      BY <3>3, TransformType
    <3>5. Rotate(arg[1], origin) = About(origin, Transform(to.x, to.y, -to.y, to.x, 0, 0))
      BY DEF Rotate, to
    <3>6. QED
      BY <2>3, <3>1, <3>2, <3>4, <3>5
  <2>7. CASE fn.name = "skewX"
    <3>1. Matrix(fn) = Transform(1, 0, arg[1], 1, 0, 0)
      BY <2>7 DEF Matrix
    <3>2. QED
      BY <2>1, <3>1, TransformType
  <2>8. CASE fn.name = "skewY"
    <3>1. Matrix(fn) = Transform(1, arg[1], 0, 1, 0, 0)
      BY <2>8 DEF Matrix
    <3>2. QED
      BY <2>1, <3>1, TransformType
  <2>9. QED
    BY <1>4, <2>4, <2>5, <2>6, <2>7, <2>8
<1>5. CASE fn.name = "matrix" /\ Len(arg) = 6
  <2>1. Matrix(fn) = Transform(arg[1], arg[2], arg[3], arg[4], arg[5], arg[6])
    BY <1>5 DEF Matrix
  <2>2. /\ arg[1] \in Int /\ arg[2] \in Int /\ arg[3] \in Int
        /\ arg[4] \in Int /\ arg[5] \in Int /\ arg[6] \in Int
    BY <1>1, <1>5
  <2> HIDE DEF arg
  <2>3. QED
    BY <2>1, <2>2 DEF Transform, Transforms
<1>6. QED
  BY <1>3, <1>4, <1>5 DEF Readable

\* The transforms ParseTransform goes through, for every set of indices.
Composes(f, functions, n) ==
    f = [s \in SUBSET (1 .. n) |->
            IF s = {} THEN Identity ELSE Then(f[s \ {Max(s)}], Matrix(functions[Max(s)]))]

LEMMA ComposesExists ==
  ASSUME NEW functions
  PROVE  \A n \in Nat : \E f : Composes(f, functions, n)
<1> DEFINE P == {n \in Nat : \E f : Composes(f, functions, n)}
<1>1. 0 \in P
  <2> DEFINE f == [s \in SUBSET (1 .. 0) |-> Identity]
  <2>1. \A s \in SUBSET (1 .. 0) : s = {}
    OBVIOUS
  <2>2. Composes(f, functions, 0)
    BY <2>1 DEF Composes
  <2>3. QED
    BY <2>2
<1>2. ASSUME NEW n \in Nat, n \in P PROVE n + 1 \in P
  <2>1. PICK f : Composes(f, functions, n)
    BY <1>2
  <2> DEFINE next(h, s) ==
               IF s = {} THEN Identity ELSE Then(h[s \ {Max(s)}], Matrix(functions[Max(s)]))
             g == [s \in SUBSET (1 .. n + 1) |-> next(f, s)]
  <2>2. \A s \in SUBSET (1 .. n) : f[s] = next(f, s)
    BY <2>1 DEF Composes
  <2>3. \A s \in SUBSET (1 .. n + 1) : g[s] = next(f, s)
    OBVIOUS
  <2>4. ASSUME NEW s \in SUBSET (1 .. n + 1), s # {}
        PROVE  s \ {Max(s)} \in SUBSET (1 .. n)
    <3>1. Max(s) \in s /\ \A k \in s : Max(s) >= k
      <4>1. s \subseteq 0 .. n + 1 /\ n + 1 \in Nat
        BY <2>4
      <4>2. QED
        BY <2>4, <4>1, Greatest
    <3> DEFINE m == Max(s)
    <3>2. m \in 1 .. n + 1 /\ \A k \in s : k \in 1 .. n + 1 /\ m >= k
      BY <2>4, <3>1
    <3> HIDE DEF m
    <3>3. \A k \in s \ {m} : k \in 1 .. n
      BY <3>2
    <3>4. QED
      BY <3>3 DEF m
  <2>5. ASSUME NEW s \in SUBSET (1 .. n + 1) PROVE next(f, s) = next(g, s)
    <3>1. CASE s = {}
      BY <3>1
    <3>2. CASE s # {}
      <4>1. s \ {Max(s)} \in SUBSET (1 .. n) /\ s \ {Max(s)} \in SUBSET (1 .. n + 1)
        BY <2>4, <3>2
      <4>2. g[s \ {Max(s)}] = f[s \ {Max(s)}]
        BY <2>2, <2>3, <4>1
      <4>3. QED
        BY <3>2, <4>2
    <3>3. QED
      BY <3>1, <3>2
  <2>6. g = [s \in SUBSET (1 .. n + 1) |-> next(g, s)]
    <3> DEFINE G == [s \in SUBSET (1 .. n + 1) |-> next(g, s)]
    <3> HIDE DEF next
    <3>1. \A s \in SUBSET (1 .. n + 1) : next(f, s) = next(g, s)
      BY <2>5
    <3> QED
      BY <3>1
  <2> HIDE DEF g
  <2>7. Composes(g, functions, n + 1)
    BY <2>6 DEF Composes
  <2>8. QED
    BY <2>7
<1> HIDE DEF P
<1>3. \A n \in Nat : n \in P
  BY <1>1, <1>2, Induction
<1>4. QED
  BY <1>3 DEF P

LEMMA ParseTransformComposes ==
  ASSUME NEW S, NEW functions \in Seq(S)
  PROVE  \E f : /\ Composes(f, functions, Len(functions))
                /\ ParseTransform(functions) = f[1 .. Len(functions)]
<1>1. \E f : f = [s \in SUBSET (1 .. Len(functions)) |->
                     IF s = {} THEN Identity ELSE Then(f[s \ {Max(s)}], Matrix(functions[Max(s)]))]
  <2>1. Len(functions) \in Nat
    OBVIOUS
  <2>2. QED
    BY <2>1, ComposesExists DEF Composes
<1>2. DOMAIN functions = 1 .. Len(functions)
  OBVIOUS
<1>3. QED
  BY <1>1, <1>2 DEF Composes, ParseTransform, FoldLeft, MapThenFoldSet

\* ParseTransform, function by function.
Composed(g, functions) ==
    /\ g[0] = Identity
    /\ \A k \in 1 .. Len(functions) : g[k] = Then(g[k - 1], Matrix(functions[k]))

LEMMA ParseTransformSteps ==
  ASSUME NEW S, NEW functions \in Seq(S)
  PROVE  \E g : Composed(g, functions) /\ ParseTransform(functions) = g[Len(functions)]
<1> DEFINE n == Len(functions)
<1>1. n \in Nat
  OBVIOUS
<1>2. PICK f : Composes(f, functions, n) /\ ParseTransform(functions) = f[1 .. n]
  BY ParseTransformComposes
<1>3. \A s \in SUBSET (1 .. n) :
          f[s] = IF s = {} THEN Identity ELSE Then(f[s \ {Max(s)}], Matrix(functions[Max(s)]))
  BY <1>2 DEF Composes
<1> HIDE DEF n
<1> DEFINE g == [k \in 0 .. n |-> f[1 .. k]]
<1>4. \A k \in 0 .. n : g[k] = f[1 .. k]
  OBVIOUS
<1>5. g[0] = Identity
  <2>1. 1 .. 0 = {} /\ 0 \in 0 .. n
    BY <1>1
  <2>2. f[{}] = Identity
    BY <1>3
  <2>3. QED
    BY <1>4, <2>1, <2>2
<1>6. ASSUME NEW k \in 1 .. n PROVE g[k] = Then(g[k - 1], Matrix(functions[k]))
  <2>1. k \in 0 .. n /\ k - 1 \in 0 .. n /\ k \in Nat /\ 1 .. k \in SUBSET (1 .. n) /\ k \in 1 .. k
    BY <1>1
  <2>2. Max(1 .. k) = k
    <3> DEFINE m == Max(1 .. k)
    <3>1. m \in 1 .. k /\ \A j \in 1 .. k : m >= j
      <4>1. 1 .. k \subseteq 0 .. k /\ 1 .. k # {}
        BY <2>1
      <4>2. QED
        BY <2>1, <4>1, Greatest
    <3> HIDE DEF m
    <3>2. m = k
      BY <2>1, <3>1
    <3>3. QED
      BY <3>2 DEF m
  <2>3. (1 .. k) \ {k} = 1 .. k - 1
    BY <2>1
  <2>4. f[1 .. k] = Then(f[1 .. k - 1], Matrix(functions[k]))
    BY <1>3, <2>1, <2>2, <2>3
  <2>5. QED
    BY <1>4, <2>1, <2>4
<1>7. n \in 0 .. n
  BY <1>1
<1>8. ParseTransform(functions) = g[n]
  BY <1>2, <1>4, <1>7
<1> HIDE DEF g
<1>9. QED
  BY <1>5, <1>6, <1>8 DEF Composed, n

LEMMA ComposedTypes ==
  ASSUME NEW functions \in Seq(Functional), NEW g, Composed(g, functions)
  PROVE  \A k \in 0 .. Len(functions) : g[k] \in Transforms
<1> DEFINE n == Len(functions)
           P == {k \in Nat : k \in 0 .. n => g[k] \in Transforms}
<1>1. 0 \in P
  <2>1. Identity \in Transforms
    BY TransformType DEF Identity
  <2>2. QED
    BY <2>1 DEF Composed
<1>2. ASSUME NEW k \in Nat, k \in P PROVE k + 1 \in P
  <2>1. CASE k + 1 \in 0 .. n
    <3>1. k + 1 \in 1 .. n /\ (k + 1) - 1 = k /\ k \in 0 .. n
      BY <2>1
    <3>2. functions[k + 1] \in Functional /\ g[k] \in Transforms
      BY <1>2, <3>1
    <3>3. g[k + 1] = Then(g[k], Matrix(functions[k + 1]))
      BY <3>1 DEF Composed
    <3>4. g[k + 1] \in Transforms
      BY <3>2, <3>3, MatrixType, ThenType
    <3>5. QED
      BY <3>4
  <2>2. QED
    BY <2>1
<1> HIDE DEF P
<1>3. \A k \in Nat : k \in P
  BY <1>1, <1>2, Induction
<1>4. \A k \in 0 .. n : k \in Nat
  OBVIOUS
<1>5. QED
  BY <1>3, <1>4 DEF P

LEMMA ParseTransformType ==
  ASSUME NEW functions \in Seq(Functional)
  PROVE  ParseTransform(functions) \in Transforms
<1>1. PICK g : Composed(g, functions) /\ ParseTransform(functions) = g[Len(functions)]
  BY ParseTransformSteps
<1>2. Len(functions) \in 0 .. Len(functions)
  OBVIOUS
<1>3. QED
  BY <1>1, <1>2, ComposedTypes

\* A list inside a list: the transforms are composed.
LEMMA ParseTransformConcat ==
  ASSUME NEW s \in Seq(Functional), NEW t \in Seq(Functional)
  PROVE  ParseTransform(s \o t) = Then(ParseTransform(s), ParseTransform(t))
<1> DEFINE m == Len(s)
           n == Len(t)
           u == s \o t
<1>1. m \in Nat /\ n \in Nat /\ u \in Seq(Functional) /\ Len(u) = m + n
  OBVIOUS
<1>2. (\A i \in 1 .. m : u[i] = s[i]) /\ (\A i \in 1 .. n : u[m + i] = t[i])
  OBVIOUS
<1>3. PICK gs : Composed(gs, s) /\ ParseTransform(s) = gs[m]
  BY ParseTransformSteps
<1>4. PICK gt : Composed(gt, t) /\ ParseTransform(t) = gt[n]
  BY ParseTransformSteps
<1> HIDE DEF u
<1>5. PICK gu : Composed(gu, u) /\ ParseTransform(u) = gu[m + n]
  BY <1>1, ParseTransformSteps
<1>6. /\ gs[0] = Identity /\ \A k \in 1 .. m : gs[k] = Then(gs[k - 1], Matrix(s[k]))
      /\ gt[0] = Identity /\ \A k \in 1 .. n : gt[k] = Then(gt[k - 1], Matrix(t[k]))
      /\ gu[0] = Identity /\ \A k \in 1 .. m + n : gu[k] = Then(gu[k - 1], Matrix(u[k]))
  BY <1>1, <1>3, <1>4, <1>5 DEF Composed
<1>7. /\ \A k \in 0 .. m : gs[k] \in Transforms
      /\ \A k \in 0 .. n : gt[k] \in Transforms
  BY <1>3, <1>4, ComposedTypes
<1>8. \A i \in 1 .. n : Matrix(t[i]) \in Transforms
  BY MatrixType
<1> HIDE DEF m, n
<1> DEFINE P == {k \in Nat : k \in 0 .. m => gu[k] = gs[k]}
<1>9. 0 \in P
  BY <1>6
<1>10. ASSUME NEW k \in Nat, k \in P PROVE k + 1 \in P
  <2>1. CASE k + 1 \in 0 .. m
    <3>1. k + 1 \in 1 .. m /\ k + 1 \in 1 .. m + n /\ (k + 1) - 1 = k /\ k \in 0 .. m
      BY <1>1, <2>1
    <3>2. /\ gu[k + 1] = Then(gu[k], Matrix(u[k + 1]))
          /\ gs[k + 1] = Then(gs[k], Matrix(s[k + 1]))
          /\ u[k + 1] = s[k + 1]
      BY <1>2, <1>6, <3>1
    <3>3. QED
      BY <1>10, <3>1, <3>2
  <2>2. QED
    BY <2>1
<1> HIDE DEF P
<1>11. gu[m] = gs[m]
  <2>1. m \in P
    BY <1>1, <1>9, <1>10, Induction
  <2>2. QED
    BY <1>1, <2>1 DEF P
<1> DEFINE Q == {k \in Nat : k \in 0 .. n => gu[m + k] = Then(gs[m], gt[k])}
<1>12. gs[m] \in Transforms
  BY <1>1, <1>7
<1>13. 0 \in Q
  <2>1. m + 0 = m
    BY <1>1
  <2>2. gu[m + 0] = Then(gs[m], gt[0])
    BY <1>6, <1>11, <1>12, <2>1, IdentityIsNeutral, PointsAreInThePlane
  <2>3. QED
    BY <2>2
<1>14. ASSUME NEW k \in Nat, k \in Q PROVE k + 1 \in Q
  <2>1. CASE k + 1 \in 0 .. n
    <3>1. /\ k + 1 \in 1 .. n /\ m + (k + 1) \in 1 .. m + n
          /\ (m + (k + 1)) - 1 = m + k /\ (k + 1) - 1 = k /\ k \in 0 .. n
      BY <1>1, <2>1
    <3>2. /\ gu[m + (k + 1)] = Then(gu[m + k], Matrix(u[m + (k + 1)]))
          /\ gt[k + 1] = Then(gt[k], Matrix(t[k + 1]))
          /\ u[m + (k + 1)] = t[k + 1]
      BY <1>2, <1>6, <3>1
    <3>3. gu[m + k] = Then(gs[m], gt[k])
      BY <1>14, <3>1
    <3>4. gt[k] \in Transforms /\ Matrix(t[k + 1]) \in Transforms
      BY <1>7, <1>8, <3>1
    <3>5. gu[m + (k + 1)] = Then(gs[m], gt[k + 1])
      BY <1>12, <3>2, <3>3, <3>4, ThenAssociates
    <3>6. QED
      BY <3>5
  <2>2. QED
    BY <2>1
<1> HIDE DEF Q
<1>15. gu[m + n] = Then(gs[m], gt[n])
  <2>1. n \in Q
    BY <1>1, <1>13, <1>14, Induction
  <2>2. QED
    BY <1>1, <2>1 DEF Q
<1>16. QED
  BY <1>3, <1>4, <1>5, <1>15 DEF u

\* Where the functions of a list put a point, the first one first, for every set of
\* indices.
Moves(f, functions, p, n) ==
    f = [s \in SUBSET (1 .. n) |->
            IF s = {} THEN p ELSE ApplyPoint(Matrix(functions[Max(s)]), f[s \ {Max(s)}])]

LEMMA MovesExists ==
  ASSUME NEW functions, NEW p
  PROVE  \A n \in Nat : \E f : Moves(f, functions, p, n)
<1> DEFINE P == {n \in Nat : \E f : Moves(f, functions, p, n)}
<1>1. 0 \in P
  <2> DEFINE f == [s \in SUBSET (1 .. 0) |-> p]
  <2>1. \A s \in SUBSET (1 .. 0) : s = {}
    OBVIOUS
  <2>2. Moves(f, functions, p, 0)
    BY <2>1 DEF Moves
  <2>3. QED
    BY <2>2
<1>2. ASSUME NEW n \in Nat, n \in P PROVE n + 1 \in P
  <2>1. PICK f : Moves(f, functions, p, n)
    BY <1>2
  <2> DEFINE next(h, s) ==
               IF s = {} THEN p ELSE ApplyPoint(Matrix(functions[Max(s)]), h[s \ {Max(s)}])
             g == [s \in SUBSET (1 .. n + 1) |-> next(f, s)]
  <2>2. \A s \in SUBSET (1 .. n) : f[s] = next(f, s)
    BY <2>1 DEF Moves
  <2>3. \A s \in SUBSET (1 .. n + 1) : g[s] = next(f, s)
    OBVIOUS
  <2>4. ASSUME NEW s \in SUBSET (1 .. n + 1), s # {}
        PROVE  s \ {Max(s)} \in SUBSET (1 .. n)
    <3>1. Max(s) \in s /\ \A k \in s : Max(s) >= k
      <4>1. s \subseteq 0 .. n + 1 /\ n + 1 \in Nat
        BY <2>4
      <4>2. QED
        BY <2>4, <4>1, Greatest
    <3> DEFINE m == Max(s)
    <3>2. m \in 1 .. n + 1 /\ \A k \in s : k \in 1 .. n + 1 /\ m >= k
      BY <2>4, <3>1
    <3> HIDE DEF m
    <3>3. \A k \in s \ {m} : k \in 1 .. n
      BY <3>2
    <3>4. QED
      BY <3>3 DEF m
  <2>5. ASSUME NEW s \in SUBSET (1 .. n + 1) PROVE next(f, s) = next(g, s)
    <3>1. CASE s = {}
      BY <3>1
    <3>2. CASE s # {}
      <4>1. s \ {Max(s)} \in SUBSET (1 .. n) /\ s \ {Max(s)} \in SUBSET (1 .. n + 1)
        BY <2>4, <3>2
      <4>2. g[s \ {Max(s)}] = f[s \ {Max(s)}]
        BY <2>2, <2>3, <4>1
      <4>3. QED
        BY <3>2, <4>2
    <3>3. QED
      BY <3>1, <3>2
  <2>6. g = [s \in SUBSET (1 .. n + 1) |-> next(g, s)]
    <3> DEFINE G == [s \in SUBSET (1 .. n + 1) |-> next(g, s)]
    <3> HIDE DEF next
    <3>1. \A s \in SUBSET (1 .. n + 1) : next(f, s) = next(g, s)
      BY <2>5
    <3> QED
      BY <3>1
  <2> HIDE DEF g
  <2>7. Moves(g, functions, p, n + 1)
    BY <2>6 DEF Moves
  <2>8. QED
    BY <2>7
<1> HIDE DEF P
<1>3. \A n \in Nat : n \in P
  BY <1>1, <1>2, Induction
<1>4. QED
  BY <1>3 DEF P

LEMMA MovedInwardsMoves ==
  ASSUME NEW S, NEW functions \in Seq(S), NEW p
  PROVE  \E f : /\ Moves(f, functions, p, Len(functions))
                /\ MovedInwards(functions, p) = f[1 .. Len(functions)]
<1>1. \E f : f = [s \in SUBSET (1 .. Len(functions)) |->
                     IF s = {} THEN p ELSE ApplyPoint(Matrix(functions[Max(s)]), f[s \ {Max(s)}])]
  <2> DEFINE n == Len(functions)
  <2>1. n \in Nat
    OBVIOUS
  <2> HIDE DEF n
  <2>2. \E f : Moves(f, functions, p, n)
    BY <2>1, MovesExists
  <2>3. QED
    BY <2>2 DEF Moves, n
<1>2. DOMAIN functions = 1 .. Len(functions)
  OBVIOUS
<1>3. QED
  BY <1>1, <1>2 DEF Moves, MovedInwards, Inwards, FoldLeft, MapThenFoldSet

\* The composed transform puts a point where the functions of the list do one after
\* the other.
LEMMA ParseTransformMoves ==
  ASSUME NEW functions \in Seq(Functional), NEW p \in Plane
  PROVE  ApplyPoint(ParseTransform(functions), p) = MovedInwards(functions, p)
<1> DEFINE n == Len(functions)
<1>1. n \in Nat
  OBVIOUS
<1>2. PICK f : Moves(f, functions, p, n) /\ MovedInwards(functions, p) = f[1 .. n]
  BY MovedInwardsMoves
<1>3. PICK g : Composed(g, functions) /\ ParseTransform(functions) = g[n]
  BY ParseTransformSteps
<1>4. \A k \in 0 .. n : g[k] \in Transforms
  BY <1>3, ComposedTypes
<1>5. g[0] = Identity /\ \A k \in 1 .. n : g[k] = Then(g[k - 1], Matrix(functions[k]))
  BY <1>3 DEF Composed
<1>6. \A k \in 1 .. n : Matrix(functions[k]) \in Transforms
  BY MatrixType
<1>7. \A s \in SUBSET (1 .. n) :
          f[s] = IF s = {} THEN p ELSE ApplyPoint(Matrix(functions[Max(s)]), f[s \ {Max(s)}])
  BY <1>2 DEF Moves
<1> HIDE DEF n
<1> DEFINE P == {k \in Nat : k <= n => ApplyPoint(g[k], p) = f[1 .. k]}
<1>8. 0 \in P
  <2>1. 1 .. 0 = {} /\ {} \in SUBSET (1 .. n)
    OBVIOUS
  <2>2. f[{}] = p
    BY <1>7, <2>1
  <2>3. 0 \in 0 .. n
    BY <1>1
  <2>4. ApplyPoint(Identity, p) = p
    BY <1>4, <2>3, IdentityIsNeutral
  <2>5. QED
    BY <1>5, <2>1, <2>2, <2>4
<1>9. ASSUME NEW k \in Nat, k \in P PROVE k + 1 \in P
  <2>1. CASE k + 1 <= n
    <3>1. /\ k <= n /\ k + 1 \in 1 .. n /\ k \in 0 .. n /\ (k + 1) - 1 = k
          /\ 1 .. k + 1 \in SUBSET (1 .. n) /\ k + 1 \in 1 .. k + 1
          /\ (1 .. k + 1) \ {k + 1} = 1 .. k
      BY <1>1, <2>1
    <3>2. Max(1 .. k + 1) = k + 1
      <4> DEFINE m == Max(1 .. k + 1)
      <4>1. m \in 1 .. k + 1 /\ \A j \in 1 .. k + 1 : m >= j
        <5>1. 1 .. k + 1 \subseteq 0 .. k + 1 /\ k + 1 \in Nat
          OBVIOUS
        <5>2. 1 .. k + 1 # {}
          BY <3>1
        <5>3. QED
          BY <5>1, <5>2, Greatest
      <4> HIDE DEF m
      <4>2. m = k + 1
        BY <3>1, <4>1
      <4>3. QED
        BY <4>2 DEF m
    <3>3. f[1 .. k + 1] = ApplyPoint(Matrix(functions[k + 1]), f[1 .. k])
      <4>1. 1 .. k + 1 # {}
        BY <3>1
      <4>2. QED
        BY <1>7, <3>1, <3>2, <4>1, Zenon
    <3>4. g[k + 1] = Then(g[k], Matrix(functions[k + 1]))
      BY <1>5, <3>1
    <3>5. ApplyPoint(g[k + 1], p) = ApplyPoint(Matrix(functions[k + 1]), ApplyPoint(g[k], p))
      BY <1>4, <1>6, <3>1, <3>4, ThenMoves
    <3>6. ApplyPoint(g[k], p) = f[1 .. k]
      BY <1>9, <3>1
    <3>7. ApplyPoint(g[k + 1], p) = f[1 .. k + 1]
      BY <3>3, <3>5, <3>6
    <3>8. QED
      BY <3>7
  <2>2. QED
    BY <2>1
<1> HIDE DEF P
<1>10. ApplyPoint(g[n], p) = f[1 .. n]
  <2>1. n \in P
    BY <1>1, <1>8, <1>9, Induction
  <2>2. QED
    BY <1>1, <2>1 DEF P
<1>11. QED
  BY <1>2, <1>3, <1>10 DEF n

-----------------------------------------------------------------------------
(* Transformed paths. *)

\* The Beziers of an arc go from its start to its end.
LEMMA ArcToBeziersEnds ==
  ASSUME NEW arc \in CircleSegments
  PROVE  /\ ArcToBeziers(arc) \in Seq(BezierSegments)
         /\ ArcToBeziers(arc) # <<>>
         /\ Head(ArcToBeziers(arc)).start = arc.start
         /\ Last(ArcToBeziers(arc)).end = arc.end
<1> DEFINE radius(p) == Point(p.x - arc.centre.x, p.y - arc.centre.y)
           turned(n) == Turned(radius(arc.start), IF arc.clockwise THEN -n ELSE n)
           reach(n) == Dot(Point(0, 0), radius(arc.end), turned(n))
           candidates == {n \in 1 .. 4 : n = 4 \/ (reach(n) > 0 /\ reach(n - 1) >= 0)}
           spans == Min(candidates)
           at(n) == IF n = spans THEN arc.end
                    ELSE Point(arc.centre.x + turned(n).x, arc.centre.y + turned(n).y)
           corner(n) == Point(arc.centre.x + turned(n).x + turned(n + 1).x,
                              arc.centre.y + turned(n).y + turned(n + 1).y)
           bezier(n) == Bezier(at(n - 1), Midway(at(n - 1), corner(n - 1)),
                               Midway(at(n), corner(n - 1)), at(n))
           all == [n \in 1 .. spans |-> bezier(n)]
<1>1. ArcToBeziers(arc) = all
  BY DEF ArcToBeziers
<1>2. spans \in 1 .. 4
  <2> HIDE DEF reach
  <2>1. candidates \subseteq Nat /\ 4 \in candidates
    OBVIOUS
  <2>2. spans \in candidates
    BY <2>1, Smallest
  <2>3. QED
    BY <2>2
<1>3. arc.start \in Plane /\ arc.end \in Plane /\ arc.centre \in Plane
  BY DEF CircleSegments
<1>4. ASSUME NEW n \in Int PROVE turned(n) \in Plane
  <2> DEFINE v == radius(arc.start)
             q == IF arc.clockwise THEN -n ELSE n
             to == Compass(q)
  <2>1. v \in Plane
    BY <1>3 DEF Point, Plane, PointsOfPlane
  <2>2. to \in Plane
    BY CompassType
  <2> HIDE DEF v, q, to
  <2>3. Turned(v, q) = Point(v.x * to.x - v.y * to.y, v.x * to.y + v.y * to.x)
    BY DEF Turned, to
  <2>4. v.x \in Int /\ v.y \in Int /\ to.x \in Int /\ to.y \in Int
    BY <2>1, <2>2 DEF Plane, PointsOfPlane
  <2>5. Turned(v, q) \in Plane
    BY <2>3, <2>4, PointsAreInThePlane
  <2>6. QED
    BY <2>5 DEF v, q
<1>5. Point(arc.centre.x + turned(0).x, arc.centre.y + turned(0).y) = arc.start
  <2> DEFINE v == radius(arc.start)
             q == IF arc.clockwise THEN -0 ELSE 0
  <2>1. v \in Plane /\ v.x = arc.start.x - arc.centre.x /\ v.y = arc.start.y - arc.centre.y
    BY <1>3 DEF Point, Plane, PointsOfPlane
  <2>2. q = 0
    <3>1. \A n \in Int : -n = 0 - n
      OBVIOUS
    <3>2. 0 \in Int /\ 0 - 0 = 0
      OBVIOUS
    <3>3. -0 = 0
      BY <3>1, <3>2, Zenon
    <3>4. QED
      BY <3>3, Zenon
  <2> HIDE DEF v, q
  <2>3. Turned(v, q) = Point(v.x * 1 - v.y * 0, v.x * 0 + v.y * 1)
    BY <2>2, CompassType, PointsAreInThePlane DEF Turned
  <2>4. v.x \in Int /\ v.y \in Int
    BY <2>1 DEF Plane, PointsOfPlane
  <2>5. v.x * 1 - v.y * 0 = v.x /\ v.x * 0 + v.y * 1 = v.y
    BY <2>4
  <2>6. Turned(v, q).x = v.x /\ Turned(v, q).y = v.y
    BY <2>3, <2>5 DEF Point
  <2>7. turned(0).x = arc.start.x - arc.centre.x /\ turned(0).y = arc.start.y - arc.centre.y
    BY <2>1, <2>6 DEF v, q
  <2> HIDE DEF turned
  <2>8. QED
    BY <1>3, <2>7 DEF Point, Plane, PointsOfPlane
<1> HIDE DEF candidates, spans, turned
<1>6. ASSUME NEW n \in Int PROVE at(n) \in Plane /\ corner(n) \in Plane
  <2>1. /\ turned(n).x \in Int /\ turned(n).y \in Int
        /\ turned(n + 1).x \in Int /\ turned(n + 1).y \in Int
        /\ arc.centre.x \in Int /\ arc.centre.y \in Int
    BY <1>3, <1>4 DEF Plane, PointsOfPlane
  <2> DEFINE x == arc.centre.x + turned(n).x
             y == arc.centre.y + turned(n).y
             cx == arc.centre.x + turned(n).x + turned(n + 1).x
             cy == arc.centre.y + turned(n).y + turned(n + 1).y
  <2>2. x \in Int /\ y \in Int /\ cx \in Int /\ cy \in Int
    BY <2>1
  <2>3. corner(n) = Point(cx, cy) /\ at(n) = IF n = spans THEN arc.end ELSE Point(x, y)
    OBVIOUS
  <2> HIDE DEF x, y, cx, cy, at, corner
  <2>4. Point(cx, cy) \in Plane /\ Point(x, y) \in Plane
    BY <2>2, PointsAreInThePlane
  <2>5. QED
    BY <1>3, <2>3, <2>4
<1>7. at(0) = arc.start /\ at(spans) = arc.end
  BY <1>2, <1>5
<1> HIDE DEF at, corner
<1>8. ASSUME NEW n \in 1 .. spans
      PROVE  bezier(n) \in BezierSegments /\ bezier(n).start = at(n - 1) /\ bezier(n).end = at(n)
  <2> DEFINE a == at(n - 1)
             b == at(n)
             c == Midway(a, corner(n - 1))
             d == Midway(b, corner(n - 1))
  <2>1. a \in Plane /\ b \in Plane /\ corner(n - 1) \in Plane
    BY <1>2, <1>6
  <2>2. c \in Plane /\ d \in Plane
    BY <2>1, MidwayType
  <2>3. bezier(n) = Bezier(a, c, d, b)
    OBVIOUS
  <2> HIDE DEF a, b, c, d, bezier
  <2>4. Bezier(a, c, d, b) \in BezierSegments /\ Bezier(a, c, d, b).start = a /\ Bezier(a, c, d, b).end = b
    BY <2>1, <2>2, BezierType
  <2>5. QED
    BY <2>3, <2>4 DEF a, b
<1> HIDE DEF bezier
<1>9. spans \in Nat /\ spans # 0 /\ 1 \in 1 .. spans /\ spans \in 1 .. spans /\ 1 - 1 = 0
  BY <1>2
<1>10. all \in Seq(BezierSegments) /\ Len(all) = spans /\ all # <<>>
  BY <1>8, <1>9
<1>11. all[1] = bezier(1) /\ all[spans] = bezier(spans)
  BY <1>9
<1> HIDE DEF all
<1>12. Head(all) = all[1] /\ Last(all) = all[spans]
  BY <1>10 DEF Last
<1>13. Head(all).start = arc.start /\ Last(all).end = arc.end
  BY <1>7, <1>8, <1>9, <1>11, <1>12
<1>14. QED
  BY <1>1, <1>10, <1>13

\* A transformed segment is a segment, between the transformed ends.
LEMMA TransformSegmentEnds ==
  ASSUME NEW segment \in Strokes, NEW t \in Transforms
  PROVE  \E e \in Strokes :
             /\ TransformSegment(segment, t) = <<e>>
             /\ e.start = ApplyPoint(t, segment.start)
             /\ e.end = ApplyPoint(t, segment.end)
<1>1. segment.start \in Plane /\ segment.end \in Plane
  BY DrawablesEnd
<1>2. ApplyPoint(t, segment.start) \in Plane /\ ApplyPoint(t, segment.end) \in Plane
  BY <1>1, ApplyPointType
<1>3. CASE segment \in CircleSegments
  <2> DEFINE squared == segment.squaredRadius * (t.a * t.a + t.b * t.b)
             clockwise == IF t.a * t.d - t.b * t.c > 0 THEN segment.clockwise ELSE ~segment.clockwise
             e == Arc(ApplyPoint(t, segment.start), ApplyPoint(t, segment.end),
                      ApplyPoint(t, segment.centre), squared, clockwise)
  <2>1. segment.kind = "arc" /\ segment.centre \in Plane /\ segment.squaredRadius \in Int
    BY <1>3 DEF CircleSegments
  <2>2. squared \in Int
    BY <2>1, TransformFields
  <2>3. clockwise \in BOOLEAN
    BY <1>3 DEF CircleSegments
  <2>4. ApplyPoint(t, segment.centre) \in Plane
    BY <2>1, ApplyPointType
  <2>5. TransformSegment(segment, t) = <<e>>
    BY <2>1 DEF TransformSegment
  <2> HIDE DEF squared, clockwise
  <2>6. e \in Strokes /\ e.start = ApplyPoint(t, segment.start) /\ e.end = ApplyPoint(t, segment.end)
    BY <1>2, <2>2, <2>3, <2>4 DEF Arc, Strokes, CircleSegments
  <2>7. QED
    BY <2>5, <2>6
<1>4. CASE segment \in LineSegments
  <2>1. segment.kind = "line" /\ segment.via = <<>>
    BY <1>4 DEF LineSegments
  <2>2. [i \in DOMAIN segment.via |-> ApplyPoint(t, segment.via[i])] = <<>>
    BY <2>1
  <2> DEFINE e == Line(ApplyPoint(t, segment.start), ApplyPoint(t, segment.end))
  <2>3. TransformSegment(segment, t) = <<e>>
    BY <2>1, <2>2 DEF TransformSegment, Curve, Line
  <2>4. e \in Strokes /\ e.start = ApplyPoint(t, segment.start) /\ e.end = ApplyPoint(t, segment.end)
    BY <1>2, LineType
  <2> HIDE DEF e
  <2>5. QED
    BY <2>3, <2>4
<1>5. CASE segment \in BezierSegments
  <2>1. PICK c \in Plane, d \in Plane : segment.kind = "bezier" /\ segment.via = <<c, d>>
    BY <1>5 DEF BezierSegments
  <2>2. [i \in DOMAIN segment.via |-> ApplyPoint(t, segment.via[i])]
          = <<ApplyPoint(t, c), ApplyPoint(t, d)>>
    BY <2>1
  <2> DEFINE e == Bezier(ApplyPoint(t, segment.start), ApplyPoint(t, c), ApplyPoint(t, d),
                         ApplyPoint(t, segment.end))
  <2>3. TransformSegment(segment, t) = <<e>>
    BY <2>1, <2>2 DEF TransformSegment, Curve, Bezier
  <2>4. ApplyPoint(t, c) \in Plane /\ ApplyPoint(t, d) \in Plane
    BY <2>1, ApplyPointType
  <2>5. e \in Strokes /\ e.start = ApplyPoint(t, segment.start) /\ e.end = ApplyPoint(t, segment.end)
    <3> DEFINE p == ApplyPoint(t, segment.start)
               q == ApplyPoint(t, segment.end)
               pc == ApplyPoint(t, c)
               qd == ApplyPoint(t, d)
    <3>1. p \in Plane /\ q \in Plane /\ pc \in Plane /\ qd \in Plane
      BY <1>2, <2>4
    <3>2. e = Bezier(p, pc, qd, q)
      OBVIOUS
    <3> HIDE DEF p, q, pc, qd, e
    <3>3. Bezier(p, pc, qd, q) \in Strokes
      BY <3>1, BezierType
    <3>4. Bezier(p, pc, qd, q).start = p /\ Bezier(p, pc, qd, q).end = q
      BY <3>1, BezierType
    <3>5. QED
      BY <3>2, <3>3, <3>4 DEF p, q
  <2> HIDE DEF e
  <2>6. QED
    BY <2>3, <2>5
<1>6. QED
  BY <1>3, <1>4, <1>5 DEF Strokes

\* A path of at least one segment.
Whole == {path \in Drawings : path.segments # <<>>}

\* Where a path begins and where it ends.
Begin(path) == Head(path.segments).start
Finish(path) == Last(path.segments).end

\* A segment that a transform may touch: itself, or the Beziers of the arc.
Exact(segment, t) ==
    IF segment.kind = "arc" /\ ~IsUniformScale(t) THEN ArcToBeziers(segment) ELSE <<segment>>

LEMMA ExactEnds ==
  ASSUME NEW segment \in Strokes, NEW t \in Transforms
  PROVE  /\ Exact(segment, t) \in Seq(Strokes)
         /\ Exact(segment, t) # <<>>
         /\ Head(Exact(segment, t)).start = segment.start
         /\ Last(Exact(segment, t)).end = segment.end
<1>1. CASE segment.kind = "arc" /\ ~IsUniformScale(t)
  <2>1. segment \in CircleSegments
    BY <1>1 DEF Strokes, LineSegments, BezierSegments
  <2>2. Exact(segment, t) = ArcToBeziers(segment)
    BY <1>1 DEF Exact
  <2>3. ArcToBeziers(segment) \in Seq(BezierSegments)
    BY <2>1, ArcToBeziersEnds
  <2>4. ArcToBeziers(segment) \in Seq(Strokes)
    BY <2>3 DEF Strokes
  <2>5. /\ ArcToBeziers(segment) # <<>>
        /\ Head(ArcToBeziers(segment)).start = segment.start
        /\ Last(ArcToBeziers(segment)).end = segment.end
    BY <2>1, ArcToBeziersEnds
  <2>6. QED
    BY <2>2, <2>4, <2>5
<1>2. CASE ~(segment.kind = "arc" /\ ~IsUniformScale(t))
  <2>1. Exact(segment, t) = <<segment>>
    BY <1>2 DEF Exact
  <2>2. Head(<<segment>>) = segment /\ Last(<<segment>>) = segment
    BY DEF Last
  <2>3. QED
    BY <2>1, <2>2
<1>3. QED
  BY <1>1, <1>2

\* A transformed path goes from the image of the start to the image of the end.
LEMMA TransformPathEnds ==
  ASSUME NEW path \in Drawings, NEW t \in Transforms
  PROVE  /\ ApplyTransformPath(path, t) \in Drawings
         /\ path.segments # <<>> =>
                /\ ApplyTransformPath(path, t) \in Whole
                /\ Begin(ApplyTransformPath(path, t)) = ApplyPoint(t, Begin(path))
                /\ Finish(ApplyTransformPath(path, t)) = ApplyPoint(t, Finish(path))
<1> DEFINE s == path.segments
           n == Len(s)
           parts == [i \in 1 .. n |-> Exact(s[i], t)]
           prepared == FlattenSeq(parts)
           m == Len(prepared)
           moved == [i \in 1 .. m |-> TransformSegment(prepared[i], t)]
           e == [i \in 1 .. m |-> TransformSegment(prepared[i], t)[1]]
<1>1. s \in Seq(Strokes) /\ n \in Nat /\ path.closed \in BOOLEAN /\ DOMAIN s = 1 .. n
  BY DEF Drawings
<1>2. \A i \in 1 .. n : s[i] \in Strokes
  BY <1>1
<1>3. ApplyTransformPath(path, t)
        = Path(FlattenSeq([i \in DOMAIN prepared |-> TransformSegment(prepared[i], t)]), path.closed)
  BY <1>1 DEF ApplyTransformPath, Exact
<1> HIDE DEF s, n
<1>4. parts = [i \in 1 .. n |-> parts[i]] /\ \A i \in 1 .. n : parts[i] = Exact(s[i], t)
  OBVIOUS
<1> HIDE DEF parts
<1>5. ASSUME NEW i \in 1 .. n
      PROVE  /\ parts[i] \in Seq(Strokes) /\ parts[i] # <<>>
             /\ Head(parts[i]).start = s[i].start /\ Last(parts[i]).end = s[i].end
  BY <1>2, <1>4, ExactEnds
<1>6. prepared \in Seq(Strokes)
  <2>1. \A i \in 1 .. n : parts[i] \in Seq(Strokes)
    BY <1>5
  <2>2. QED
    BY <1>1, <1>4, <2>1, FlattenSeqType
<1>7. n # 0 => /\ prepared # <<>>
               /\ Head(prepared).start = Head(s).start /\ Last(prepared).end = Last(s).end
  <2>1. SUFFICES ASSUME n # 0
                 PROVE  /\ prepared # <<>>
                        /\ Head(prepared).start = Head(s).start /\ Last(prepared).end = Last(s).end
    OBVIOUS
  <2>2. \A i \in 1 .. n : parts[i] \in Seq(Strokes) /\ parts[i] # <<>>
    BY <1>5
  <2>3. /\ prepared # <<>>
        /\ Head(prepared) = Head(parts[1]) /\ Last(prepared) = Last(parts[n])
    <3>1. n \in Nat /\ n # 0 /\ parts = [i \in 1 .. n |-> parts[i]]
      BY <1>1, <1>4, <2>1
    <3>2. QED
      BY <3>1, <2>2, FlattenSeqEnds
  <2>4. 1 \in 1 .. n /\ n \in 1 .. n
    BY <1>1, <2>1
  <2>5. Head(s) = s[1] /\ Last(s) = s[n]
    BY <1>1, <2>1 DEF Last, n
  <2>6. QED
    BY <1>5, <2>3, <2>4, <2>5
<1> HIDE DEF prepared
<1>8. m \in Nat /\ DOMAIN prepared = 1 .. m /\ \A i \in 1 .. m : prepared[i] \in Strokes
  BY <1>6
<1>9. ASSUME NEW i \in 1 .. m
      PROVE  /\ TransformSegment(prepared[i], t) = <<TransformSegment(prepared[i], t)[1]>>
             /\ TransformSegment(prepared[i], t)[1] \in Strokes
             /\ TransformSegment(prepared[i], t)[1].start = ApplyPoint(t, prepared[i].start)
             /\ TransformSegment(prepared[i], t)[1].end = ApplyPoint(t, prepared[i].end)
  <2> DEFINE p == prepared[i]
  <2>1. p \in Strokes
    BY <1>8
  <2> HIDE DEF p
  <2>2. PICK d \in Strokes : /\ TransformSegment(p, t) = <<d>>
                              /\ d.start = ApplyPoint(t, p.start)
                              /\ d.end = ApplyPoint(t, p.end)
    BY <2>1, TransformSegmentEnds
  <2>3. TransformSegment(p, t)[1] = d
    BY <2>2
  <2>4. QED
    BY <2>2, <2>3 DEF p
<1>10. e \in [1 .. m -> Strokes]
  BY <1>9
<1>11. moved = [i \in 1 .. m |-> <<e[i]>>]
  BY <1>9
<1>12. \A i \in 1 .. m : e[i].start = ApplyPoint(t, prepared[i].start)
                       /\ e[i].end = ApplyPoint(t, prepared[i].end)
  BY <1>9
<1>13. ApplyTransformPath(path, t) = Path(FlattenSeq(moved), path.closed)
  BY <1>3, <1>8
<1> HIDE DEF e, moved, m
<1>14. FlattenSeq(moved) = e
  BY <1>8, <1>10, <1>11, FlattenSingles
<1>15. e \in Seq(Strokes) /\ Len(e) = m
  BY <1>8, <1>10
<1>16. ApplyTransformPath(path, t) = Path(e, path.closed)
  BY <1>13, <1>14
<1>17. Path(e, path.closed) \in Drawings /\ Path(e, path.closed).segments = e
  BY <1>1, <1>15 DEF Path, Drawings
<1>18. ASSUME s # <<>>
       PROVE  /\ e # <<>>
              /\ Head(e).start = ApplyPoint(t, Head(s).start)
              /\ Last(e).end = ApplyPoint(t, Last(s).end)
  <2>1. n # 0
    BY <1>1, <1>18 DEF n
  <2>2. prepared # <<>> /\ Head(prepared).start = Head(s).start /\ Last(prepared).end = Last(s).end
    BY <1>7, <2>1
  <2>3. m # 0 /\ 1 \in 1 .. m /\ m \in 1 .. m
    BY <1>6, <1>8, <2>2 DEF m
  <2>4. Head(prepared) = prepared[1] /\ Last(prepared) = prepared[m]
    BY <1>6, <2>2 DEF Last, m
  <2>5. e # <<>> /\ Head(e) = e[1] /\ Last(e) = e[m]
    BY <1>15, <2>3 DEF Last
  <2>6. QED
    BY <1>12, <2>2, <2>3, <2>4, <2>5
<1>19. QED
  BY <1>16, <1>17, <1>18 DEF s, Whole, Begin, Finish

-----------------------------------------------------------------------------
(* The shapes as paths. *)

LEMMA PathIsWhole ==
  ASSUME NEW run \in Seq(Strokes), run # <<>>, NEW closed \in BOOLEAN
  PROVE  Path(run, closed) \in Whole
BY DEF Path, Whole, Drawings

\* The point after a point of a ring.
LEMMA AfterType ==
  ASSUME NEW S, NEW ring \in Seq(S), ring # <<>>, NEW i \in Nat
  PROVE  After(ring, i) \in S
<1>1. Len(ring) \in Nat /\ Len(ring) > 0
  OBVIOUS
<1>2. \A n \in Nat : n > 0 => i % n \in 0 .. n - 1
  OBVIOUS
<1>3. (i % Len(ring)) \in 0 .. Len(ring) - 1
  BY <1>1, <1>2
<1>4. (i % Len(ring)) + 1 \in 1 .. Len(ring)
  BY <1>1, <1>3
<1>5. QED
  BY <1>4 DEF After

LEMMA PolygonPathType ==
  ASSUME NEW points \in Seq(Plane), Len(points) >= 2, NEW closed \in BOOLEAN
  PROVE  PolygonPath(points, closed) \in Whole
<1> DEFINE n == IF closed THEN Len(points) ELSE Len(points) - 1
           run == [i \in 1 .. n |-> Line(points[i], After(points, i))]
<1>1. n \in Nat /\ n # 0 /\ points # <<>> /\ n <= Len(points)
  <2>1. Len(points) \in Nat
    OBVIOUS
  <2>2. points # <<>>
    BY Len(<<>>) = 0
  <2>3. n = Len(points) \/ n = Len(points) - 1
    OBVIOUS
  <2> HIDE DEF n
  <2>4. QED
    BY <2>1, <2>2, <2>3
<1> HIDE DEF n
<1>2. ASSUME NEW i \in 1 .. n PROVE Line(points[i], After(points, i)) \in Strokes
  <2>1. i \in 1 .. Len(points) /\ i \in Nat
    BY <1>1
  <2>2. points[i] \in Plane /\ After(points, i) \in Plane
    BY <1>1, <2>1, AfterType
  <2>3. QED
    BY <2>2, LineType
<1>3. run \in Seq(Strokes) /\ run # <<>>
  BY <1>1, <1>2
<1>4. PolygonPath(points, closed) = Path(run, closed)
  BY DEF PolygonPath, n
<1> HIDE DEF run
<1>5. QED
  BY <1>3, <1>4, PathIsWhole

\* Four segments make a path.
LEMMA FourSegments ==
  ASSUME NEW run, run = [i \in 1 .. 4 |-> run[i]], \A i \in 1 .. 4 : run[i] \in Strokes
  PROVE  run \in Seq(Strokes) /\ run # <<>>
<1>1. Len(run) = 4
  OBVIOUS
<1>2. QED
  BY <1>1

LEMMA CirclePathType ==
  ASSUME NEW centre \in Plane, NEW r \in Int
  PROVE  CirclePath(centre, r) \in Whole
<1> DEFINE at(i) == Point(centre.x + r * Compass(i).x, centre.y + r * Compass(i).y)
           run == [i \in 1 .. 4 |-> Arc(at(i - 1), at(i), centre, r * r, FALSE)]
<1>1. ASSUME NEW i \in Int PROVE at(i) \in Plane
  <2>1. Compass(i).x \in Int /\ Compass(i).y \in Int /\ centre.x \in Int /\ centre.y \in Int
    BY CompassType DEF Plane, PointsOfPlane
  <2>2. centre.x + r * Compass(i).x \in Int /\ centre.y + r * Compass(i).y \in Int
    BY <2>1
  <2>3. QED
    BY <2>2, PointsAreInThePlane
<1> HIDE DEF at
<1>2. \A i \in 1 .. 4 : run[i] \in Strokes
  <2>1. ASSUME NEW a \in Plane, NEW b \in Plane, NEW squared \in Int, NEW clockwise \in BOOLEAN
        PROVE  Arc(a, b, centre, squared, clockwise) \in Strokes
    BY DEF Arc, Strokes, CircleSegments
  <2>2. r * r \in Int /\ FALSE \in BOOLEAN
    OBVIOUS
  <2>3. ASSUME NEW i \in 1 .. 4 PROVE Arc(at(i - 1), at(i), centre, r * r, FALSE) \in Strokes
    <3>1. at(i - 1) \in Plane /\ at(i) \in Plane
      BY <1>1
    <3>2. QED
      BY <2>1, <2>2, <3>1, Zenon
  <2>4. QED
    BY <2>3
<1>3. run \in Seq(Strokes) /\ run # <<>>
  BY <1>2, FourSegments
<1>4. CirclePath(centre, r) = Path(run, TRUE)
  BY DEF CirclePath, at
<1> HIDE DEF run
<1>5. QED
  BY <1>3, <1>4, PathIsWhole

LEMMA EllipsePathType ==
  ASSUME NEW centre \in Plane, NEW rx \in Int, NEW ry \in Int
  PROVE  EllipsePath(centre, rx, ry) \in Whole
<1> DEFINE at(i) == Point(centre.x + rx * Compass(i).x, centre.y + ry * Compass(i).y)
           corner(i) == Point(at(i).x + at(i - 1).x - centre.x, at(i).y + at(i - 1).y - centre.y)
           bezier(i) == Bezier(at(i - 1), Midway(at(i - 1), corner(i)),
                               Midway(at(i), corner(i)), at(i))
           run == [i \in 1 .. 4 |-> bezier(i)]
<1>1. ASSUME NEW i \in Int PROVE at(i) \in Plane
  <2>1. Compass(i).x \in Int /\ Compass(i).y \in Int /\ centre.x \in Int /\ centre.y \in Int
    BY CompassType DEF Plane, PointsOfPlane
  <2>2. centre.x + rx * Compass(i).x \in Int /\ centre.y + ry * Compass(i).y \in Int
    BY <2>1
  <2>3. QED
    BY <2>2, PointsAreInThePlane
<1>2. EllipsePath(centre, rx, ry) = Path(run, TRUE)
  BY DEF EllipsePath
<1> HIDE DEF at
<1>3. ASSUME NEW i \in Int PROVE corner(i) \in Plane
  <2>1. /\ at(i).x \in Int /\ at(i).y \in Int /\ at(i - 1).x \in Int /\ at(i - 1).y \in Int
        /\ centre.x \in Int /\ centre.y \in Int
    BY <1>1 DEF Plane, PointsOfPlane
  <2>2. at(i).x + at(i - 1).x - centre.x \in Int /\ at(i).y + at(i - 1).y - centre.y \in Int
    BY <2>1
  <2>3. QED
    BY <2>2, PointsAreInThePlane
<1> HIDE DEF corner
<1>4. ASSUME NEW i \in 1 .. 4 PROVE bezier(i) \in Strokes
  <2> DEFINE a == at(i - 1)
             b == at(i)
             c == Midway(a, corner(i))
             d == Midway(b, corner(i))
  <2>1. a \in Plane /\ b \in Plane /\ corner(i) \in Plane
    BY <1>1, <1>3
  <2>2. c \in Plane /\ d \in Plane
    BY <2>1, MidwayType
  <2>3. bezier(i) = Bezier(a, c, d, b)
    OBVIOUS
  <2> HIDE DEF a, b, c, d, bezier
  <2>4. Bezier(a, c, d, b) \in Strokes
    BY <2>1, <2>2, BezierType
  <2>5. QED
    BY <2>3, <2>4
<1> HIDE DEF bezier
<1>5. run \in Seq(Strokes) /\ run # <<>>
  BY <1>4, FourSegments
<1> HIDE DEF run
<1>6. QED
  BY <1>2, <1>5, PathIsWhole

LEMMA RadiusType ==
  ASSUME NEW one, NEW other, NEW side \in Int, one \subseteq Int, other \subseteq Int
  PROVE  (IF one \cup other = {} THEN 0
          ELSE Lesser(ValueOf(IF one # {} THEN one ELSE other), side \div 2)) \in Int
<1>1. CASE one \cup other = {}
  BY <1>1
<1>2. CASE one \cup other # {}
  <2> DEFINE S == IF one # {} THEN one ELSE other
             v == ValueOf(S)
             half == side \div 2
  <2>1. S # {} /\ S \subseteq Int
    BY <1>2
  <2> HIDE DEF S
  <2>2. v \in Int
    BY <2>1 DEF ValueOf
  <2>3. half \in Int
    OBVIOUS
  <2> HIDE DEF v, half
  <2>4. Lesser(v, half) \in Int
    BY <2>2, <2>3 DEF Lesser
  <2>5. QED
    BY <1>2, <2>4 DEF S, v, half
<1>3. QED
  BY <1>1, <1>2

\* A side of the rounded rectangle and the corner behind it.
LEMMA RoundedSideType ==
  ASSUME NEW a \in Plane, NEW b \in Plane, NEW c \in Plane, NEW rx \in Int, NEW ry \in Int,
         NEW drift \in {0, Drift}
  PROVE  /\ <<Line(a, b)>> \o ArcSegments(b, rx, ry, FALSE, FALSE, TRUE, c, drift) \in Seq(Strokes)
         /\ <<Line(a, b)>> \o ArcSegments(b, rx, ry, FALSE, FALSE, TRUE, c, drift) # <<>>
<1> DEFINE line == <<Line(a, b)>>
           corner == ArcSegments(b, rx, ry, FALSE, FALSE, TRUE, c, drift)
<1>1. line \in Seq(Strokes) /\ Len(line) = 1
  BY LineType
<1>2. corner \in Seq(Strokes)
  <2>1. Runs(corner, b, c)
    <3>1. \A rotated, large, sweep \in BOOLEAN :
              Runs(ArcSegments(b, rx, ry, rotated, large, sweep, c, drift), b, c)
      BY ArcRuns
    <3>2. FALSE \in BOOLEAN /\ TRUE \in BOOLEAN
      OBVIOUS
    <3>3. QED
      BY <3>1, <3>2, Zenon
  <2> HIDE DEF corner
  <2>2. QED
    BY <2>1 DEF Runs
<1> HIDE DEF line, corner
<1>3. line \o corner \in Seq(Strokes) /\ Len(line \o corner) = Len(line) + Len(corner)
  BY <1>1, <1>2, ConcatProperties
<1>4. line \o corner # <<>>
  <2>1. Len(corner) \in Nat
    BY <1>2
  <2>2. Len(line \o corner) # 0
    BY <1>1, <1>3, <2>1
  <2>3. QED
    BY <2>2
<1>5. QED
  BY <1>3, <1>4 DEF line, corner

LEMMA RectPathType ==
  ASSUME NEW rect, rect.x \in Int, rect.y \in Int, rect.width \in Int, rect.height \in Int,
         rect.rx \subseteq Int, rect.ry \subseteq Int, NEW drift \in {0, Drift}
  PROVE  RectPath(rect, drift) \in Whole
<1> DEFINE x == rect.x  y == rect.y  w == rect.width  h == rect.height
           radius(one, other, side) ==
               IF one \cup other = {} THEN 0
               ELSE Lesser(ValueOf(IF one # {} THEN one ELSE other), side \div 2)
           rx == radius(rect.rx, rect.ry, w)
           ry == radius(rect.ry, rect.rx, h)
           p == <<Point(x + rx, y), Point(x + w - rx, y), Point(x + w, y + ry), Point(x + w, y + h - ry),
                  Point(x + w - rx, y + h), Point(x + rx, y + h), Point(x, y + h - ry), Point(x, y + ry)>>
           side(i) == <<Line(p[i], p[i + 1])>> \o ArcSegments(p[i + 1], rx, ry, FALSE, FALSE, TRUE,
                                                            After(p, i + 1), drift)
           corners == <<Point(x, y), Point(x + w, y), Point(x + w, y + h), Point(x, y + h)>>
           rounded == side(1) \o side(3) \o side(5) \o side(7)
<1>1. rx \in Int /\ ry \in Int
  BY RadiusType
<1>2. RectPath(rect, drift) = IF rx <= 0 \/ ry <= 0 THEN PolygonPath(corners, TRUE) ELSE Path(rounded, TRUE)
  BY DEF RectPath
<1>3. x \in Int /\ y \in Int /\ w \in Int /\ h \in Int
  OBVIOUS
<1> HIDE DEF rx, ry, x, y, w, h
<1>4. PolygonPath(corners, TRUE) \in Whole
  <2>1. corners \in Seq(Plane) /\ Len(corners) >= 2
    BY <1>3, PointsAreInThePlane
  <2> HIDE DEF corners
  <2>2. QED
    BY <2>1, PolygonPathType
<1>5. p \in Seq(Plane) /\ Len(p) >= 8
  <2>1. /\ Point(x + rx, y) \in Plane /\ Point(x + w - rx, y) \in Plane
        /\ Point(x + w, y + ry) \in Plane /\ Point(x + w, y + h - ry) \in Plane
    BY <1>1, <1>3, PointsAreInThePlane
  <2>2. /\ Point(x + w - rx, y + h) \in Plane /\ Point(x + rx, y + h) \in Plane
        /\ Point(x, y + h - ry) \in Plane /\ Point(x, y + ry) \in Plane
    BY <1>1, <1>3, PointsAreInThePlane
  <2>3. QED
    BY <2>1, <2>2
<1> HIDE DEF p
<1>6. ASSUME NEW i \in 1 .. 7 PROVE side(i) \in Seq(Strokes) /\ side(i) # <<>>
  <2> DEFINE a == p[i]
             b == p[i + 1]
             c == After(p, i + 1)
  <2>1. a \in Plane /\ b \in Plane
    <3>1. i \in 1 .. 8 /\ i + 1 \in 1 .. 8
      OBVIOUS
    <3>2. QED
      BY <1>5, <3>1
  <2>2. c \in Plane
    <3>1. p # <<>> /\ i + 1 \in Nat
      BY <1>5
    <3>2. QED
      BY <1>5, <3>1, AfterType
  <2>3. side(i) = <<Line(a, b)>> \o ArcSegments(b, rx, ry, FALSE, FALSE, TRUE, c, drift)
    OBVIOUS
  <2> HIDE DEF a, b, c, side
  <2>4. QED
    BY <1>1, <2>1, <2>2, <2>3, RoundedSideType
<1> HIDE DEF side
<1>7. rounded \in Seq(Strokes) /\ rounded # <<>>
  <2>1. /\ side(1) \in Seq(Strokes) /\ side(3) \in Seq(Strokes)
        /\ side(5) \in Seq(Strokes) /\ side(7) \in Seq(Strokes)
        /\ side(1) # <<>> /\ side(3) # <<>> /\ side(5) # <<>> /\ side(7) # <<>>
    BY <1>6
  <2>2. side(1) \o side(3) \in Seq(Strokes) /\ side(1) \o side(3) # <<>>
    BY <2>1, ConcatEnds
  <2>3. side(1) \o side(3) \o side(5) \in Seq(Strokes) /\ side(1) \o side(3) \o side(5) # <<>>
    BY <2>1, <2>2, ConcatEnds
  <2>4. QED
    BY <2>1, <2>3, ConcatEnds
<1> HIDE DEF rounded, corners
<1>8. Path(rounded, TRUE) \in Whole
  BY <1>7, PathIsWhole
<1>9. QED
  BY <1>2, <1>4, <1>8

\* A shape that passes the checks is a path of at least one segment.
LEMMA ShapePathType ==
  ASSUME NEW shape, shape.tag \in Shapes, NumbersOf(shape) \subseteq Int, WellFormed(shape),
         shape.tag \in {"polygon", "polyline"} => shape.points \in Seq(Int),
         NEW drift \in {0, Drift}
  PROVE  ShapePath(shape, drift) \in Whole
<1> DEFINE listed == [i \in 1 .. Len(shape.points) \div 2 |->
                          Point(shape.points[2 * i - 1], shape.points[2 * i])]
<1>1. CASE shape.tag = "circle"
  <2>1. shape.cx \in Int /\ shape.cy \in Int /\ shape.r \in Int
    BY <1>1 DEF NumbersOf
  <2>2. ShapePath(shape, drift) = CirclePath(Point(shape.cx, shape.cy), shape.r)
    BY <1>1 DEF ShapePath
  <2>3. QED
    BY <2>1, <2>2, PointsAreInThePlane, CirclePathType
<1>2. CASE shape.tag = "ellipse"
  <2>1. shape.cx \in Int /\ shape.cy \in Int /\ shape.rx \in Int /\ shape.ry \in Int
    BY <1>2 DEF NumbersOf
  <2>2. ShapePath(shape, drift) = EllipsePath(Point(shape.cx, shape.cy), shape.rx, shape.ry)
    BY <1>2 DEF ShapePath
  <2>3. Point(shape.cx, shape.cy) \in Plane
    BY <2>1, PointsAreInThePlane
  <2>4. QED
    BY <2>1, <2>2, <2>3, EllipsePathType
<1>3. CASE shape.tag = "rect"
  <2>1. NumbersOf(shape) = {shape.x, shape.y, shape.width, shape.height} \cup shape.rx \cup shape.ry
    BY <1>3 DEF NumbersOf
  <2>2. /\ shape.x \in Int /\ shape.y \in Int /\ shape.width \in Int /\ shape.height \in Int
        /\ shape.rx \subseteq Int /\ shape.ry \subseteq Int
    BY <2>1
  <2>3. ShapePath(shape, drift) = RectPath(shape, drift)
    BY <1>3 DEF ShapePath
  <2>4. QED
    BY <2>2, <2>3, RectPathType
<1>4. CASE shape.tag \in {"polygon", "polyline"}
  <2> DEFINE n == Len(shape.points)
  <2>1. shape.points \in Seq(Int) /\ n \in Nat /\ n % 2 = 0 /\ n >= 4
    <3>1. shape.points \in Seq(Int)
      BY <1>4
    <3>2. n \in Nat
      BY <3>1
    <3>3. n % 2 = 0 /\ n >= 4
      <4>1. CASE shape.tag = "polygon"
        <5>1. Len(shape.points) % 2 = 0 /\ Len(shape.points) >= 6
          BY <4>1 DEF WellFormed
        <5> HIDE DEF n
        <5>2. n % 2 = 0 /\ n >= 6
          BY <5>1 DEF n
        <5>3. QED
          BY <3>2, <5>2
      <4>2. CASE shape.tag = "polyline"
        BY <4>2 DEF WellFormed
      <4>3. QED
        BY <1>4, <4>1, <4>2
    <3>4. QED
      BY <3>1, <3>2, <3>3
  <2>2. n \div 2 \in Nat /\ n \div 2 >= 2
    <3> HIDE DEF n
    <3>1. QED
      BY <2>1
  <2>3. ASSUME NEW i \in 1 .. n \div 2
        PROVE  Point(shape.points[2 * i - 1], shape.points[2 * i]) \in Plane
    <3>1. 2 * i \in 1 .. n /\ 2 * i - 1 \in 1 .. n
      <4> HIDE DEF n
      <4>1. QED
        BY <2>1
    <3>2. shape.points[2 * i - 1] \in Int /\ shape.points[2 * i] \in Int
      BY <2>1, <3>1
    <3>3. QED
      BY <3>2, PointsAreInThePlane
  <2>4. listed \in Seq(Plane) /\ Len(listed) >= 2
    <3> DEFINE m == n \div 2
    <3>1. listed = [i \in 1 .. m |-> Point(shape.points[2 * i - 1], shape.points[2 * i])]
      OBVIOUS
    <3> HIDE DEF m, listed
    <3>2. m \in Nat /\ m >= 2
      BY <2>2 DEF m
    <3>3. \A i \in 1 .. m : Point(shape.points[2 * i - 1], shape.points[2 * i]) \in Plane
      BY <2>3 DEF m
    <3>4. QED
      BY <3>1, <3>2, <3>3
  <2> DEFINE closed == shape.tag = "polygon"
  <2>5. ShapePath(shape, drift) = PolygonPath(listed, closed)
    BY <1>4 DEF ShapePath
  <2>6. closed \in BOOLEAN
    OBVIOUS
  <2> HIDE DEF listed, closed
  <2>7. QED
    BY <2>4, <2>5, <2>6, PolygonPathType
<1>5. CASE shape.tag = "line"
  <2>1. shape.x1 \in Int /\ shape.y1 \in Int /\ shape.x2 \in Int /\ shape.y2 \in Int
    BY <1>5 DEF NumbersOf
  <2> DEFINE a == Point(shape.x1, shape.y1)
             b == Point(shape.x2, shape.y2)
  <2>2. ShapePath(shape, drift) = Path(<<Line(a, b)>>, FALSE)
    BY <1>5 DEF ShapePath
  <2>3. a \in Plane /\ b \in Plane
    BY <2>1, PointsAreInThePlane
  <2> HIDE DEF a, b
  <2>4. <<Line(a, b)>> \in Seq(Strokes) /\ <<Line(a, b)>> # <<>>
    BY <2>3, LineType
  <2>5. QED
    BY <2>2, <2>4, PathIsWhole
<1>6. QED
  BY <1>1, <1>2, <1>3, <1>4, <1>5 DEF Shapes

-----------------------------------------------------------------------------
(* The places of a document. *)

\* A place at or inside another.
Extends(q, p) == Len(p) <= Len(q) /\ \A n \in 1 .. Len(p) : q[n] = p[n]

\* Every list on the way down to a place can be read.
ReadableAround(root, place) ==
    \A n \in 0 .. Len(place) : Descent(root, place)[n].transform \in Seq(Functional)

\* A descent, step by step.
LEMMA DescentSteps ==
  ASSUME NEW root, NEW place \in Seq(Nat)
  PROVE  /\ Descent(root, place)[0] = root
         /\ \A n \in 1 .. Len(place) :
                Descent(root, place)[n] = Descent(root, place)[n - 1].children[place[n]]
<1> DEFINE next(f, n) == IF n = 0 THEN root ELSE f[n - 1].children[place[n]]
           P == {k \in Nat : \E f : f = [n \in 0 .. k |-> next(f, n)]}
<1>1. 0 \in P
  <2> DEFINE f == [n \in 0 .. 0 |-> root]
  <2>1. f = [n \in 0 .. 0 |-> next(f, n)]
    OBVIOUS
  <2>2. QED
    BY <2>1
<1>2. ASSUME NEW k \in Nat, k \in P PROVE k + 1 \in P
  <2>1. PICK f : f = [n \in 0 .. k |-> next(f, n)]
    BY <1>2
  <2> DEFINE g == [n \in 0 .. k + 1 |-> next(f, n)]
  <2>2. \A n \in 0 .. k : g[n] = f[n]
    <3>1. \A n \in 0 .. k : n \in 0 .. k + 1
      OBVIOUS
    <3> HIDE DEF next
    <3>2. \A n \in 0 .. k : f[n] = next(f, n)
      BY <2>1
    <3>3. \A n \in 0 .. k + 1 : g[n] = next(f, n)
      OBVIOUS
    <3>4. QED
      BY <3>1, <3>2, <3>3
  <2> HIDE DEF g
  <2>3. ASSUME NEW n \in 0 .. k + 1 PROVE next(f, n) = next(g, n)
    <3>1. CASE n = 0
      BY <3>1
    <3>2. CASE n # 0
      <4>1. n - 1 \in 0 .. k
        BY <3>2
      <4>2. g[n - 1] = f[n - 1]
        BY <2>2, <4>1
      <4>3. QED
        BY <3>2, <4>2
    <3>3. QED
      BY <3>1, <3>2
  <2>4. g = [n \in 0 .. k + 1 |-> next(g, n)]
    <3> HIDE DEF next
    <3>1. g = [n \in 0 .. k + 1 |-> next(f, n)]
      BY DEF g
    <3>2. QED
      BY <2>3, <3>1
  <2>5. QED
    BY <2>4
<1> HIDE DEF P
<1>3. \A k \in Nat : k \in P
  BY <1>1, <1>2, Induction
<1> DEFINE l == Len(place)
           d == Descent(root, place)
<1>4. d = CHOOSE f : f = [n \in 0 .. l |-> next(f, n)]
  BY DEF Descent
<1>5. d = [n \in 0 .. l |-> next(d, n)]
  <2> HIDE DEF l, d, next
  <2>1. l \in P
    <3>1. l \in Nat
      BY DEF l
    <3>2. QED
      BY <1>3, <3>1
  <2>2. \E f : f = [n \in 0 .. l |-> next(f, n)]
    BY <2>1, Zenon DEF P
  <2>3. QED
    BY <1>4, <2>2, Zenon
<1> HIDE DEF d, l
<1>6. \A n \in 0 .. l : d[n] = next(d, n)
  <2> HIDE DEF next
  <2>1. QED
    BY <1>5
<1>7. 0 \in 0 .. l /\ \A n \in 1 .. l : n \in 0 .. l /\ n # 0
  BY DEF l
<1>8. QED
  BY <1>6, <1>7 DEF d, l

\* Inside a place the descent is the same down to it.
LEMMA DescentExtends ==
  ASSUME NEW root, NEW p \in Seq(Nat), NEW q \in Seq(Nat), Extends(q, p)
  PROVE  \A n \in 0 .. Len(p) : Descent(root, q)[n] = Descent(root, p)[n]
<1> DEFINE l == Len(p)
           c == Descent(root, p)
           d == Descent(root, q)
           P == {n \in Nat : n <= l => d[n] = c[n]}
<1>1. l \in Nat /\ l <= Len(q) /\ Len(q) \in Nat /\ \A n \in 1 .. l : q[n] = p[n]
  BY DEF Extends
<1>2. c[0] = root /\ \A n \in 1 .. l : c[n] = c[n - 1].children[p[n]]
  BY DescentSteps
<1>3. d[0] = root /\ \A n \in 1 .. Len(q) : d[n] = d[n - 1].children[q[n]]
  BY DescentSteps
<1> HIDE DEF c, d, l
<1>4. 0 \in P
  BY <1>2, <1>3
<1>5. ASSUME NEW n \in Nat, n \in P PROVE n + 1 \in P
  <2>1. CASE n + 1 <= l
    <3>1. n <= l /\ n + 1 \in 1 .. l /\ n + 1 \in 1 .. Len(q) /\ (n + 1) - 1 = n
      BY <1>1, <2>1
    <3>2. d[n] = c[n] /\ q[n + 1] = p[n + 1]
      BY <1>1, <1>5, <3>1
    <3>3. d[n + 1] = d[n].children[q[n + 1]]
      <4>1. d[n + 1] = d[(n + 1) - 1].children[q[n + 1]]
        BY <1>3, <3>1, Zenon
      <4>2. QED
        BY <3>1, <4>1, Zenon
    <3>4. c[n + 1] = c[n].children[p[n + 1]]
      <4>1. c[n + 1] = c[(n + 1) - 1].children[p[n + 1]]
        BY <1>2, <3>1, Zenon
      <4>2. QED
        BY <3>1, <4>1, Zenon
    <3>5. d[n + 1] = c[n + 1]
      BY <3>2, <3>3, <3>4, Zenon
    <3>6. QED
      BY <3>5
  <2>2. QED
    BY <2>1
<1> HIDE DEF P
<1>6. \A n \in Nat : n \in P
  BY <1>4, <1>5, Induction
<1>7. \A n \in 0 .. l : n \in Nat /\ n <= l
  BY <1>1
<1>8. QED
  BY <1>6, <1>7 DEF P, c, d, l

\* The place of a child.
LEMMA ChildPlace ==
  ASSUME NEW p \in Seq(Nat), NEW i \in Nat
  PROVE  /\ Append(p, i) \in Seq(Nat) /\ Append(p, i) # <<>>
         /\ Len(Append(p, i)) = Len(p) + 1
         /\ Append(p, i)[Len(p) + 1] = i
         /\ \A n \in 1 .. Len(p) : Append(p, i)[n] = p[n]
         /\ Extends(Append(p, i), p)
BY DEF Extends

LEMMA ChildDescent ==
  ASSUME NEW root, NEW p \in Seq(Nat), NEW i \in Nat
  PROVE  /\ \A n \in 0 .. Len(p) : Descent(root, Append(p, i))[n] = Descent(root, p)[n]
         /\ ElementAt(root, Append(p, i)) = ElementAt(root, p).children[i]
<1> DEFINE q == Append(p, i)
           l == Len(p)
<1>1. /\ q \in Seq(Nat) /\ l \in Nat /\ Len(q) = l + 1 /\ q[l + 1] = i /\ Extends(q, p)
  BY ChildPlace
<1> HIDE DEF q
<1>2. \A n \in 0 .. l : Descent(root, q)[n] = Descent(root, p)[n]
  BY <1>1, DescentExtends
<1> HIDE DEF l
<1>3. l + 1 \in 1 .. Len(q) /\ (l + 1) - 1 = l /\ l \in 0 .. l
  BY <1>1
<1>4. Descent(root, q)[l + 1] = Descent(root, q)[(l + 1) - 1].children[q[l + 1]]
  BY <1>1, <1>3, DescentSteps
<1>5. Descent(root, q)[l + 1] = Descent(root, p)[l].children[i]
  BY <1>1, <1>2, <1>3, <1>4
<1>6. QED
  BY <1>1, <1>2, <1>5 DEF ElementAt, q, l

LEMMA RootPlace ==
  ASSUME NEW root
  PROVE  <<>> \in Seq(Nat) /\ ElementAt(root, <<>>) = root
<1>1. <<>> \in Seq(Nat) /\ Len(<<>>) = 0
  OBVIOUS
<1>2. QED
  BY <1>1, DescentSteps DEF ElementAt

\* The children of the root and of a group that is reached are reached.
LEMMA ChildReached ==
  ASSUME NEW root, NEW p \in Seq(Nat), NEW i \in Nat,
         p = <<>> \/ (Reached(root, p) /\ ElementAt(root, p).tag \in Containers),
         i \in DOMAIN ElementAt(root, p).children
  PROVE  Reached(root, Append(p, i))
<1> DEFINE q == Append(p, i)
           l == Len(p)
           d == Descent(root, q)
<1>1. /\ q \in Seq(Nat) /\ q # <<>> /\ l \in Nat /\ Len(q) = l + 1 /\ q[l + 1] = i
      /\ \A n \in 1 .. l : q[n] = p[n]
  BY ChildPlace
<1>2. \A n \in 0 .. l : d[n] = Descent(root, p)[n]
  BY ChildDescent
<1>3. DOMAIN p = 1 .. l
  OBVIOUS
<1> HIDE DEF q, d
<1>4. DOMAIN q = 1 .. l + 1
  BY <1>1
<1> SUFFICES ASSUME NEW n \in 1 .. l + 1
             PROVE  (n > 1 => d[n - 1].tag \in Containers) /\ q[n] \in DOMAIN d[n - 1].children
  BY <1>1, <1>4 DEF Reached, q, d
<1>5. CASE n = l + 1
  <2>1. n - 1 = l /\ l \in 0 .. l /\ (n > 1 => l # 0)
    BY <1>1, <1>5
  <2>2. d[n - 1] = ElementAt(root, p) /\ q[n] = i
    BY <1>1, <1>2, <1>5, <2>1 DEF ElementAt
  <2>3. n > 1 => p # <<>>
    BY <2>1 DEF l
  <2>4. QED
    BY <2>2, <2>3
<1>6. CASE n # l + 1
  <2>1. n \in 1 .. l /\ n - 1 \in 0 .. l
    BY <1>1, <1>6
  <2>2. p # <<>>
    BY <2>1 DEF l
  <2>3. d[n - 1] = Descent(root, p)[n - 1] /\ q[n] = p[n]
    BY <1>1, <1>2, <2>1
  <2>4. QED
    BY <1>3, <2>1, <2>2, <2>3 DEF Reached
<1>7. QED
  BY <1>5, <1>6

\* What is reached inside a place is at or inside one of its children, and the place
\* is that of a group.
LEMMA ReachedInside ==
  ASSUME NEW root, NEW p \in Seq(Nat), NEW q \in Seq(Nat), Extends(q, p), Reached(root, q), q # p
  PROVE  /\ p = <<>> \/ ElementAt(root, p).tag \in Containers
         /\ \E i \in Nat : i \in DOMAIN ElementAt(root, p).children /\ Extends(q, Append(p, i))
<1> DEFINE l == Len(p)
           i == q[l + 1]
<1>1. l \in Nat /\ Len(q) \in Nat /\ l <= Len(q) /\ \A n \in 1 .. l : q[n] = p[n]
  BY DEF Extends
<1>2. Len(q) # l
  <2>1. SUFFICES ASSUME Len(q) = l PROVE q = p
    OBVIOUS
  <2>2. QED
    BY <1>1, <2>1, SeqEqual
<1>3. l + 1 \in DOMAIN q /\ l + 1 \in 1 .. Len(q) /\ (l + 1) - 1 = l /\ l \in 0 .. l
  BY <1>1, <1>2
<1>4. i \in Nat
  BY <1>3
<1>5. Descent(root, q)[l] = ElementAt(root, p)
  BY <1>3, DescentExtends DEF ElementAt
<1> HIDE DEF l
<1>6. /\ l + 1 > 1 => Descent(root, q)[(l + 1) - 1].tag \in Containers
      /\ q[l + 1] \in DOMAIN Descent(root, q)[(l + 1) - 1].children
  BY <1>3 DEF Reached
<1>7. p # <<>> => l + 1 > 1
  BY <1>1 DEF l
<1>8. p = <<>> \/ ElementAt(root, p).tag \in Containers
  BY <1>3, <1>5, <1>6, <1>7
<1>9. i \in DOMAIN ElementAt(root, p).children
  BY <1>3, <1>5, <1>6
<1>10. Extends(q, Append(p, i))
  <2> DEFINE c == Append(p, i)
  <2>1. Len(c) = l + 1 /\ c[l + 1] = i /\ \A n \in 1 .. l : c[n] = p[n]
    BY <1>4, ChildPlace DEF l
  <2> HIDE DEF c, i
  <2>2. \A n \in 1 .. l + 1 : n = l + 1 \/ n \in 1 .. l
    BY <1>1
  <2>3. \A n \in 1 .. l + 1 : q[n] = c[n]
    BY <1>1, <2>1, <2>2 DEF i
  <2>4. QED
    BY <1>1, <1>3, <2>1, <2>3 DEF Extends, c
<1>11. QED
  BY <1>4, <1>8, <1>9, <1>10

\* Around the root there is its own list; at a child's place, the list around the
\* parent and then the child's own.
LEMMA ListsAroundTheRoot ==
  ASSUME NEW root, root.transform \in Seq(Functional)
  PROVE  /\ ListsAround(root, <<>>) = root.transform
         /\ ReadableAround(root, <<>>)
<1> DEFINE list == root.transform
           seqs == [n \in 1 .. 1 |-> list]
<1>1. Len(<<>>) = 0 /\ <<>> \in Seq(Nat)
  OBVIOUS
<1>2. Descent(root, <<>>)[0] = root
  BY <1>1, DescentSteps
<1>3. ListsAround(root, <<>>) = FlattenSeq(seqs)
  <2> DEFINE parts == [n \in 1 .. Len(<<>>) + 1 |-> Descent(root, <<>>)[n - 1].transform]
  <2>1. parts = seqs
    <3>1. 1 .. Len(<<>>) + 1 = 1 .. 1 /\ \A n \in 1 .. 1 : n - 1 = 0
      BY <1>1
    <3>2. QED
      BY <1>2, <3>1
  <2>2. QED
    BY <2>1 DEF ListsAround
<1> HIDE DEF list
<1>4. list \in Seq(Functional)
  BY DEF list
<1>5. FlattenSeq(seqs) = FlattenSeq([n \in 1 .. 0 |-> seqs[n]]) \o seqs[1]
  <2>1. seqs = [n \in 1 .. 0 + 1 |-> seqs[n]] /\ \A n \in 1 .. 0 + 1 : seqs[n] \in Seq(Functional)
    BY <1>4
  <2> HIDE DEF seqs
  <2>2. FlattenSeq(seqs) = FlattenSeq([n \in 1 .. 0 |-> seqs[n]]) \o seqs[0 + 1]
    BY <2>1, FlattenSnoc
  <2>3. QED
    BY <2>2
<1>6. seqs[1] = list
  OBVIOUS
<1>7. FlattenSeq([n \in 1 .. 0 |-> seqs[n]]) = <<>>
  <2> DEFINE none == [n \in 1 .. 0 |-> seqs[n]]
  <2>1. none = <<>> /\ Len(none) = 0
    OBVIOUS
  <2> HIDE DEF none
  <2>2. FlattenSeq(none) = <<>>
    BY <2>1 DEF FlattenSeq
  <2>3. QED
    BY <2>2 DEF none
<1>8. <<>> \o list = list
  BY <1>4
<1>9. ListsAround(root, <<>>) = list
  BY <1>3, <1>5, <1>6, <1>7, <1>8
<1>10. ReadableAround(root, <<>>)
  <2>1. \A n \in 0 .. Len(<<>>) : n = 0
    BY <1>1
  <2>2. QED
    BY <1>2, <1>4, <2>1 DEF ReadableAround, list
<1>11. QED
  BY <1>9, <1>10 DEF list

LEMMA ListsAroundType ==
  ASSUME NEW root, NEW p \in Seq(Nat), ReadableAround(root, p)
  PROVE  ListsAround(root, p) \in Seq(Functional)
<1> DEFINE l == Len(p) + 1
           seqs == [n \in 1 .. l |-> Descent(root, p)[n - 1].transform]
<1>1. l \in Nat /\ \A n \in 1 .. l : n - 1 \in 0 .. Len(p)
  OBVIOUS
<1>2. ListsAround(root, p) = FlattenSeq(seqs)
  BY DEF ListsAround
<1>3. \A n \in 1 .. l : seqs[n] \in Seq(Functional)
  BY <1>1 DEF ReadableAround
<1>4. seqs = [n \in 1 .. l |-> seqs[n]]
  OBVIOUS
<1> HIDE DEF l, seqs
<1>5. QED
  BY <1>1, <1>2, <1>3, <1>4, FlattenSeqType

LEMMA ListsAroundAChild ==
  ASSUME NEW root, NEW p \in Seq(Nat), NEW i \in Nat, ReadableAround(root, p),
         ElementAt(root, Append(p, i)).transform \in Seq(Functional)
  PROVE  /\ ListsAround(root, Append(p, i))
                = ListsAround(root, p) \o ElementAt(root, Append(p, i)).transform
         /\ ReadableAround(root, Append(p, i))
<1> DEFINE q == Append(p, i)
           l == Len(p)
           seqs == [n \in 1 .. (l + 1) + 1 |-> Descent(root, q)[n - 1].transform]
<1>1. q \in Seq(Nat) /\ l \in Nat /\ Len(q) = l + 1
  BY ChildPlace
<1>2. \A n \in 0 .. l : Descent(root, q)[n] = Descent(root, p)[n]
  BY ChildDescent
<1>3. Descent(root, q)[l + 1] = ElementAt(root, q)
  BY <1>1 DEF ElementAt
<1>4. ListsAround(root, q) = FlattenSeq(seqs)
  BY <1>1 DEF ListsAround
<1>5. ListsAround(root, p) = FlattenSeq([n \in 1 .. l + 1 |-> Descent(root, p)[n - 1].transform])
  BY DEF ListsAround
<1>6. /\ \A n \in 0 .. l : Descent(root, p)[n].transform \in Seq(Functional)
      /\ ElementAt(root, q).transform \in Seq(Functional)
  BY DEF ReadableAround
<1> HIDE DEF q, l
<1>7. ASSUME NEW n \in 0 .. l + 1 PROVE Descent(root, q)[n].transform \in Seq(Functional)
  <2>1. n \in 0 .. l \/ n = l + 1
    BY <1>1
  <2>2. QED
    BY <1>2, <1>3, <1>6, <2>1
<1>8. \A n \in 1 .. (l + 1) + 1 : seqs[n] \in Seq(Functional)
  <2>1. \A n \in 1 .. (l + 1) + 1 : n - 1 \in 0 .. l + 1
    BY <1>1
  <2>2. QED
    BY <1>7, <2>1
<1>9. [n \in 1 .. l + 1 |-> seqs[n]] = [n \in 1 .. l + 1 |-> Descent(root, p)[n - 1].transform]
  <2>1. \A n \in 1 .. l + 1 : n - 1 \in 0 .. l /\ n \in 1 .. (l + 1) + 1
    BY <1>1
  <2>2. \A n \in 1 .. l + 1 : seqs[n] = Descent(root, p)[n - 1].transform
    BY <1>2, <2>1
  <2> HIDE DEF seqs
  <2>3. QED
    BY <2>2
<1>10. seqs[(l + 1) + 1] = ElementAt(root, q).transform
  <2>1. (l + 1) + 1 \in 1 .. (l + 1) + 1 /\ ((l + 1) + 1) - 1 = l + 1
    BY <1>1
  <2>2. QED
    BY <1>3, <2>1
<1>11. seqs = [n \in 1 .. (l + 1) + 1 |-> seqs[n]] /\ l + 1 \in Nat
  BY <1>1
<1> HIDE DEF seqs
<1>12. FlattenSeq(seqs) = FlattenSeq([n \in 1 .. l + 1 |-> seqs[n]]) \o seqs[(l + 1) + 1]
  BY <1>8, <1>11, FlattenSnoc
<1>13. ListsAround(root, q) = ListsAround(root, p) \o ElementAt(root, q).transform
  BY <1>4, <1>5, <1>9, <1>10, <1>12
<1>14. ReadableAround(root, q)
  BY <1>1, <1>7 DEF ReadableAround
<1>15. QED
  BY <1>13, <1>14 DEF q

\* Document order, between places and what is inside them.
LEMMA PrecedesInside ==
  ASSUME NEW p \in Seq(Nat), NEW q \in Seq(Nat), Precedes(p, q),
         NEW r \in Seq(Nat), NEW s \in Seq(Nat), Extends(r, p), Extends(s, q)
  PROVE  Precedes(r, s)
<1>1. PICK n \in DOMAIN p \cap DOMAIN q : p[n] < q[n] /\ \A m \in 1 .. n - 1 : p[m] = q[m]
  BY DEF Precedes
<1> DEFINE a == Len(p)
           b == Len(q)
           c == Len(r)
           d == Len(s)
<1>2. n \in 1 .. a /\ n \in 1 .. b /\ n \in 1 .. c /\ n \in 1 .. d
  <2>1. /\ a \in Nat /\ b \in Nat /\ c \in Nat /\ d \in Nat
        /\ n \in 1 .. a /\ n \in 1 .. b
    BY <1>1
  <2>2. a <= c /\ b <= d
    BY DEF Extends
  <2> HIDE DEF a, b, c, d
  <2>3. QED
    BY <2>1, <2>2
<1>3. /\ \A m \in 1 .. n : m \in 1 .. a /\ m \in 1 .. b
      /\ \A m \in 1 .. n - 1 : m \in 1 .. n
      /\ n \in 1 .. n
  <2>1. a \in Nat /\ b \in Nat
    OBVIOUS
  <2> HIDE DEF a, b, c, d
  <2>2. QED
    BY <1>2, <2>1
<1>4. \A m \in 1 .. n : r[m] = p[m] /\ s[m] = q[m]
  <2>1. (\A m \in 1 .. a : r[m] = p[m]) /\ (\A m \in 1 .. b : s[m] = q[m])
    BY DEF Extends
  <2> HIDE DEF a, b
  <2>2. QED
    BY <1>3, <2>1
<1>5. r[n] < s[n]
  BY <1>1, <1>3, <1>4
<1>6. \A m \in 1 .. n - 1 : r[m] = s[m]
  BY <1>1, <1>3, <1>4
<1>7. n \in DOMAIN r \cap DOMAIN s
  <2>1. DOMAIN r = 1 .. c /\ DOMAIN s = 1 .. d
    OBVIOUS
  <2> HIDE DEF c, d
  <2>2. QED
    BY <1>2, <2>1
<1>8. QED
  BY <1>5, <1>6, <1>7 DEF Precedes

LEMMA SiblingsPrecede ==
  ASSUME NEW p \in Seq(Nat), NEW i \in Nat, NEW j \in Nat, i < j
  PROVE  Precedes(Append(p, i), Append(p, j))
<1> DEFINE a == Append(p, i)
           b == Append(p, j)
           l == Len(p)
<1>1. /\ l \in Nat /\ a \in Seq(Nat) /\ Len(a) = l + 1 /\ a[l + 1] = i /\ \A n \in 1 .. l : a[n] = p[n]
      /\ b \in Seq(Nat) /\ Len(b) = l + 1 /\ b[l + 1] = j /\ \A n \in 1 .. l : b[n] = p[n]
  BY ChildPlace
<1> HIDE DEF a, b, l
<1>2. l + 1 \in DOMAIN a \cap DOMAIN b /\ (l + 1) - 1 = l
  BY <1>1
<1>3. \A m \in 1 .. (l + 1) - 1 : a[m] = b[m]
  BY <1>1, <1>2
<1>4. a[l + 1] < b[l + 1]
  BY <1>1
<1>5. QED
  BY <1>2, <1>3, <1>4 DEF Precedes, a, b

LEMMA ExtendsItself ==
  ASSUME NEW p \in Seq(Nat)
  PROVE  Extends(p, p)
BY DEF Extends

-----------------------------------------------------------------------------
(* The walk. *)

\* An entry of the stack: the element at its place, and the transform of the lists
\* around it.
Waiting(root, elements) ==
    {entry \in [element : elements, inherited : Transforms, place : Seq(Nat)] :
        /\ Reached(root, entry.place)
        /\ entry.element = ElementAt(root, entry.place)
        /\ \E above \in Seq(Nat), i \in Nat :
               /\ entry.place = Append(above, i)
               /\ ReadableAround(root, above)
               /\ entry.inherited = ParseTransform(ListsAround(root, above))}

\* What may be drawn of an element: a shape as its one path.
DrawnOf(element, extracted) ==
    element.tag \in Shapes => \E drift \in {0, Drift} : extracted = <<ShapePath(element, drift)>>

\* What was extracted, element by element, and path by path.
Sketches(root) ==
    {sketch \in [at : Seq(Nat), paths : Seq(Whole)] :
        /\ Drawable(root, sketch.at)
        /\ ReadableAround(root, sketch.at)
        /\ DrawnOf(ElementAt(root, sketch.at), sketch.paths)}
Traces(root) == {trace \in [path : Whole, at : Seq(Nat)] : ReadableAround(root, trace.at)}

StageInv ==
    /\ stage \in Stages
    /\ mm \in Int
    /\ neutral = IF stage = "imported" THEN ShapeToNeutral(output) ELSE <<>>

WalkInv ==
    \E family \in Documents :
        document \in family /\ pending \in Seq(Waiting(document, Elements(family)))

ScanningInv ==
    stage = "scanning" =>
        /\ scan # "idle"
        /\ scannedAt \in Seq(Nat)
        /\ Drawable(document, scannedAt) /\ ElementAt(document, scannedAt).tag = "path"
        /\ ReadableAround(document, scannedAt)
        /\ inherited = ParseTransform(ListsAround(document, scannedAt))

\* Until the shape is scaled to millimetres, what is put out is what was drawn,
\* through the transforms around it.
DrawnInv ==
    /\ drawn \in Seq(Sketches(document))
    /\ output \in Seq(Whole)
    /\ Len(output) = Len(Drawing)
    /\ stage \in {"given", "walking", "scanning"} =>
           \A k \in 1 .. Len(Drawing) :
               output[k] = ApplyTransformPath(Drawing[k].path,
                               ParseTransform(ListsAround(document, Drawing[k].at)))

ImportInv == StageInv /\ WalkInv /\ ScanningInv /\ DrawnInv /\ ScannerInv

\* What the documents are made of.
LEMMA FamilyTypes ==
  ASSUME NEW family \in Documents
  PROVE  /\ \A root \in family :
                /\ root.transform \in Seq(Functions)
                /\ root.children \in Seq(Elements(family))
                /\ root.width \subseteq [value : Int, unit : STRING]
                /\ root.viewBox \subseteq Seq(Int)
         /\ \A e \in Elements(family) :
                /\ e.transform \in Seq(Functions)
                /\ e.children \in Seq(Elements(family))
                /\ NumbersOf(e) \subseteq Int
                /\ e.tag = "path" => e.d \in Seq(Tokens)
                /\ e.tag \in {"polygon", "polyline"} => e.points \in Seq(Int)
BY DocumentsAssumption

LEMMA ReadableListType ==
  ASSUME NEW element, element.transform \in Seq(Functions), ReadableList(element)
  PROVE  element.transform \in Seq(Functional)
<1> DEFINE list == element.transform
<1>1. list \in Seq(Functions)
  OBVIOUS
<1>2. \A i \in DOMAIN list : Readable(list[i])
  BY DEF ReadableList
<1> HIDE DEF list
<1>3. \A i \in 1 .. Len(list) : list[i] \in Functional
  BY <1>1, <1>2 DEF Functional
<1>4. list \in Seq(Functional)
  BY <1>1, <1>3
<1>5. QED
  BY <1>4 DEF list

\* A scale that resolves is a number.
LEMMA ResolvedScaleType ==
  ASSUME NEW root, root.width \subseteq [value : Int, unit : STRING],
         root.viewBox \subseteq Seq(Int), ScaleResolves(root)
  PROVE  ResolvedScale(root) \in Int
<1>1. UnitToMm[""] \in Int /\ UnitToMm["mm"] \in Int /\ \A u \in DOMAIN UnitToMm : UnitToMm[u] \in Int
  BY UnitAssumption
<1>2. CASE root.width = {}
  BY <1>1, <1>2 DEF ResolvedScale
<1>3. CASE root.width # {}
  <2> DEFINE length == ValueOf(root.width)
             box == ValueOf(root.viewBox)
             factor == UnitToMm[length.unit]
  <2>1. length \in root.width
    BY <1>3 DEF ValueOf
  <2>2. length.value \in Int /\ factor \in Int
    BY <1>1, <2>1 DEF ScaleResolves
  <2>3. CASE root.viewBox = {}
    <3>1. ResolvedScale(root) = factor
      BY <1>3, <2>3 DEF ResolvedScale
    <3>2. QED
      BY <2>2, <3>1
  <2>4. CASE root.viewBox # {}
    <3>1. box \in Seq(Int)
      BY <2>4 DEF ValueOf
    <3>2. Len(box) >= 4 /\ box[3] > 0
      <4>1. Len(box) = 4 /\ box[3] > 0
        BY <1>3, <2>4 DEF ScaleResolves
      <4> HIDE DEF box
      <4>2. QED
        BY <4>1
    <3>3. ResolvedScale(root) = (length.value * factor) \div box[3]
      BY <1>3, <2>4 DEF ResolvedScale
    <3> HIDE DEF length, box, factor
    <3>4. box[3] \in Int
      <4>1. Len(box) \in Nat /\ 3 \in 1 .. Len(box)
        BY <3>1, <3>2
      <4>2. QED
        BY <3>1, <4>1
    <3> DEFINE third == box[3]
               value == length.value
    <3>5. third \in Int /\ third > 0 /\ value \in Int
      BY <2>2, <3>2, <3>4
    <3> HIDE DEF third, value
    <3>6. value * factor \in Int
      BY <2>2, <3>5
    <3>7. (value * factor) \div third \in Int
      BY <3>5, <3>6
    <3>8. QED
      BY <3>3, <3>7 DEF third, value
  <2>5. QED
    BY <2>3, <2>4
<1>4. QED
  BY <1>2, <1>3

\* Children wait with the transform of the lists around them.
LEMMA EntriesWait ==
  ASSUME NEW root, NEW elements, NEW p \in Seq(Nat),
         p = <<>> \/ (Reached(root, p) /\ ElementAt(root, p).tag \in Containers),
         ElementAt(root, p).children \in Seq(elements),
         ReadableAround(root, p), NEW t, t = ParseTransform(ListsAround(root, p))
  PROVE  Entries(ElementAt(root, p), t, p) \in Seq(Waiting(root, elements))
<1> DEFINE children == ElementAt(root, p).children
           entries == [i \in DOMAIN children |-> Entry(children[i], t, Append(p, i))]
<1>1. Entries(ElementAt(root, p), t, p) = entries
  BY DEF Entries
<1>2. children \in Seq(elements) /\ Len(children) \in Nat /\ DOMAIN children = 1 .. Len(children)
  OBVIOUS
<1>3. t \in Transforms
  BY ListsAroundType, ParseTransformType
<1>4. ASSUME NEW i \in 1 .. Len(children)
      PROVE  Entry(children[i], t, Append(p, i)) \in Waiting(root, elements)
  <2> DEFINE q == Append(p, i)
  <2>1. i \in Nat /\ i \in DOMAIN children /\ children[i] \in elements
    BY <1>2
  <2>2. q \in Seq(Nat)
    BY <2>1, ChildPlace
  <2>3. Reached(root, q)
    BY <2>1, ChildReached
  <2>4. ElementAt(root, q) = children[i]
    BY <2>1, ChildDescent
  <2>5. \E above \in Seq(Nat), j \in Nat :
            q = Append(above, j) /\ ReadableAround(root, above) /\ t = ParseTransform(ListsAround(root, above))
    BY <2>1
  <2> HIDE DEF q, children
  <2>6. Entry(children[i], t, q) \in [element : elements, inherited : Transforms, place : Seq(Nat)]
    BY <1>3, <2>1, <2>2 DEF Entry
  <2>7. /\ Entry(children[i], t, q).place = q /\ Entry(children[i], t, q).element = children[i]
        /\ Entry(children[i], t, q).inherited = t
    BY DEF Entry
  <2>8. Entry(children[i], t, q) \in Waiting(root, elements)
    BY <2>3, <2>4, <2>5, <2>6, <2>7 DEF Waiting
  <2>9. QED
    BY <2>8 DEF q
<1> HIDE DEF children
<1>5. entries \in Seq(Waiting(root, elements))
  BY <1>2, <1>4
<1>6. QED
  BY <1>1, <1>5

\* The element visited: its own list goes behind the lists around it.
LEMMA VisitedTypes ==
  ASSUME ImportInv, NEW tags, Visiting(tags)
  PROVE  \E family \in Documents :
             /\ document \in family /\ pending \in Seq(Waiting(document, Elements(family)))
             /\ Now.element \in Elements(family) /\ Now.element.tag \in tags
             /\ Now.place \in Seq(Nat) /\ Reached(document, Now.place)
             /\ Now.element = ElementAt(document, Now.place)
             /\ ReadableAround(document, Now.place)
             /\ LocalTransform = ParseTransform(ListsAround(document, Now.place))
             /\ Tail(pending) \in Seq(Waiting(document, Elements(family)))
<1>1. PICK family \in Documents :
          document \in family /\ pending \in Seq(Waiting(document, Elements(family)))
  BY DEF ImportInv, WalkInv
<1>2. pending # <<>> /\ ReadableList(Now.element) /\ Now.element.tag \in tags
  BY DEF Visiting, Now
<1>3. Now \in Waiting(document, Elements(family)) /\ Tail(pending) \in Seq(Waiting(document, Elements(family)))
  BY <1>1, <1>2 DEF Now
<1> DEFINE e == Now.element
           q == Now.place
<1>4. /\ e \in Elements(family) /\ q \in Seq(Nat)
      /\ Reached(document, q) /\ e = ElementAt(document, q)
  BY <1>3 DEF Waiting
<1>5. PICK above \in Seq(Nat), i \in Nat :
          /\ q = Append(above, i)
          /\ ReadableAround(document, above)
          /\ Now.inherited = ParseTransform(ListsAround(document, above))
  BY <1>3 DEF Waiting
<1>6. e.transform \in Seq(Functional)
  BY <1>2, <1>4, FamilyTypes, ReadableListType
<1> DEFINE lists == ListsAround(document, above)
           own == e.transform
<1>7. lists \in Seq(Functional) /\ own \in Seq(Functional)
  BY <1>5, <1>6, ListsAroundType
<1>8. ListsAround(document, q) = lists \o own /\ ReadableAround(document, q)
  BY <1>4, <1>5, <1>6, ListsAroundAChild
<1>9. LocalTransform = Then(ParseTransform(lists), ParseTransform(own))
  BY <1>5 DEF LocalTransform
<1> HIDE DEF own, lists
<1>10. ParseTransform(lists \o own) = Then(ParseTransform(lists), ParseTransform(own))
  BY <1>7, ParseTransformConcat
<1>11. LocalTransform = ParseTransform(ListsAround(document, q))
  BY <1>8, <1>9, <1>10
<1>12. QED
  BY <1>1, <1>2, <1>3, <1>4, <1>8, <1>11

LEMMA ScannerRests ==
  ASSUME ScannerInv, UNCHANGED scanner
  PROVE  ScannerInv'
<1>1. /\ data' = data /\ scan' = scan /\ paths' = paths /\ segments' = segments
      /\ current' = current /\ subpathStart' = subpathStart
      /\ lastCubic' = lastCubic /\ lastQuad' = lastQuad /\ lastCommand' = lastCommand
  BY DEF scanner, pen
<1>2. PenTypes'
  BY <1>1 DEF ScannerInv, PenTypes
<1>3. ChainInv'
  BY <1>1 DEF ScannerInv, ChainInv
<1>4. FreshInv'
  BY <1>1 DEF ScannerInv, FreshInv
<1>5. QED
  BY <1>2, <1>3, <1>4 DEF ScannerInv

LEMMA PathsOfType ==
  ASSUME NEW root, NEW sketch \in Sketches(root)
  PROVE  /\ PathsOf(sketch) \in Seq(Traces(root)) /\ Len(PathsOf(sketch)) = Len(sketch.paths)
         /\ \A i \in 1 .. Len(sketch.paths) :
                PathsOf(sketch)[i].path = sketch.paths[i] /\ PathsOf(sketch)[i].at = sketch.at
<1> DEFINE n == Len(sketch.paths)
           traced == [i \in 1 .. n |-> [path |-> sketch.paths[i], at |-> sketch.at]]
<1>1. sketch.at \in Seq(Nat) /\ sketch.paths \in Seq(Whole) /\ ReadableAround(root, sketch.at)
  BY DEF Sketches
<1>2. n \in Nat /\ DOMAIN sketch.paths = 1 .. n /\ \A i \in 1 .. n : sketch.paths[i] \in Whole
  BY <1>1
<1>3. PathsOf(sketch) = traced
  BY <1>2 DEF PathsOf
<1> HIDE DEF n
<1>4. ASSUME NEW i \in 1 .. n PROVE [path |-> sketch.paths[i], at |-> sketch.at] \in Traces(root)
  BY <1>1, <1>2 DEF Traces
<1>5. traced \in Seq(Traces(root)) /\ Len(traced) = n
  BY <1>2, <1>4
<1>6. \A i \in 1 .. n : traced[i].path = sketch.paths[i] /\ traced[i].at = sketch.at
  OBVIOUS
<1>7. QED
  BY <1>3, <1>5, <1>6 DEF n

\* The drawing of what was extracted, and what an extraction adds to it.
LEMMA DrawingType ==
  ASSUME NEW root, NEW sketches \in Seq(Sketches(root))
  PROVE  FlattenSeq([k \in DOMAIN sketches |-> PathsOf(sketches[k])]) \in Seq(Traces(root))
<1> DEFINE n == Len(sketches)
           seqs == [k \in 1 .. n |-> PathsOf(sketches[k])]
<1>1. n \in Nat /\ DOMAIN sketches = 1 .. n /\ \A k \in 1 .. n : sketches[k] \in Sketches(root)
  OBVIOUS
<1>2. \A k \in 1 .. n : PathsOf(sketches[k]) \in Seq(Traces(root))
  BY <1>1, PathsOfType
<1>3. seqs = [k \in 1 .. n |-> seqs[k]] /\ \A k \in 1 .. n : seqs[k] \in Seq(Traces(root))
  BY <1>2
<1> HIDE DEF n, seqs
<1>4. FlattenSeq(seqs) \in Seq(Traces(root))
  BY <1>1, <1>3, FlattenSeqType
<1>5. QED
  BY <1>1, <1>4 DEF seqs

LEMMA DrawingGrows ==
  ASSUME NEW root, NEW sketches \in Seq(Sketches(root)), NEW sketch \in Sketches(root)
  PROVE  LET more == Append(sketches, sketch)
         IN  FlattenSeq([k \in DOMAIN more |-> PathsOf(more[k])])
                 = FlattenSeq([k \in DOMAIN sketches |-> PathsOf(sketches[k])]) \o PathsOf(sketch)
<1> DEFINE n == Len(sketches)
           more == Append(sketches, sketch)
           seqs == [k \in 1 .. n + 1 |-> PathsOf(more[k])]
<1>1. /\ n \in Nat /\ DOMAIN sketches = 1 .. n /\ more \in Seq(Sketches(root)) /\ DOMAIN more = 1 .. n + 1
      /\ n + 1 \in 1 .. n + 1 /\ more[n + 1] = sketch /\ \A k \in 1 .. n : more[k] = sketches[k]
      /\ \A k \in 1 .. n + 1 : more[k] \in Sketches(root)
  OBVIOUS
<1> HIDE DEF n, more
<1>2. \A k \in 1 .. n + 1 : PathsOf(more[k]) \in Seq(Traces(root))
  BY <1>1, PathsOfType
<1>3. seqs = [k \in 1 .. n + 1 |-> seqs[k]] /\ \A k \in 1 .. n + 1 : seqs[k] \in Seq(Traces(root))
  BY <1>2
<1>4. [k \in 1 .. n |-> seqs[k]] = [k \in 1 .. n |-> PathsOf(sketches[k])]
  <2>1. \A k \in 1 .. n : k \in 1 .. n + 1
    BY <1>1
  <2>2. \A k \in 1 .. n : seqs[k] = PathsOf(sketches[k])
    BY <1>1, <2>1
  <2> HIDE DEF seqs
  <2>3. QED
    BY <2>2
<1>5. seqs[n + 1] = PathsOf(sketch)
  BY <1>1
<1> HIDE DEF seqs
<1>6. FlattenSeq(seqs) = FlattenSeq([k \in 1 .. n |-> seqs[k]]) \o seqs[n + 1]
  BY <1>1, <1>3, FlattenSnoc
<1>7. FlattenSeq(seqs) = FlattenSeq([k \in 1 .. n |-> PathsOf(sketches[k])]) \o PathsOf(sketch)
  BY <1>4, <1>5, <1>6
<1>8. seqs = [k \in DOMAIN more |-> PathsOf(more[k])]
  BY <1>1 DEF seqs
<1>9. QED
  BY <1>1, <1>7, <1>8 DEF more

\* What is extracted is put out through the transforms around it.
LEMMA ExtractKeepsDrawnInv ==
  ASSUME DrawnInv, stage \in {"walking", "scanning"},
         NEW extracted \in Seq(Whole), NEW place \in Seq(Nat),
         Drawable(document, place), ReadableAround(document, place),
         DrawnOf(ElementAt(document, place), extracted),
         NEW t, t = ParseTransform(ListsAround(document, place)),
         Extract(extracted, t, place), document' = document
  PROVE  DrawnInv'
<1> DEFINE n == Len(extracted)
           moved == [i \in 1 .. n |-> ApplyTransformPath(extracted[i], t)]
           sketch == [at |-> place, paths |-> extracted]
           traced == PathsOf(sketch)
<1>1. n \in Nat /\ DOMAIN extracted = 1 .. n /\ \A i \in 1 .. n : extracted[i] \in Whole
  OBVIOUS
<1>2. output' = output \o moved /\ drawn' = Append(drawn, sketch)
  BY <1>1 DEF Extract
<1>3. t \in Transforms
  BY ListsAroundType, ParseTransformType
<1>4. ASSUME NEW i \in 1 .. n PROVE ApplyTransformPath(extracted[i], t) \in Whole
  <2>1. extracted[i] \in Drawings /\ extracted[i].segments # <<>>
    BY <1>1 DEF Whole
  <2>2. QED
    BY <1>3, <2>1, TransformPathEnds
<1>5. moved \in Seq(Whole) /\ Len(moved) = n
  BY <1>1, <1>4
<1>6. sketch \in Sketches(document) /\ sketch.paths = extracted /\ sketch.at = place
  BY DEF Sketches
<1>7. /\ traced \in Seq(Traces(document)) /\ Len(traced) = n
      /\ \A i \in 1 .. n : traced[i].path = extracted[i] /\ traced[i].at = place
  BY <1>6, PathsOfType
<1>8. \A i \in 1 .. n : moved[i] = ApplyTransformPath(traced[i].path,
                                       ParseTransform(ListsAround(document, traced[i].at)))
  BY <1>7
<1>9. /\ drawn \in Seq(Sketches(document)) /\ output \in Seq(Whole) /\ Len(output) = Len(Drawing)
      /\ \A k \in 1 .. Len(Drawing) :
             output[k] = ApplyTransformPath(Drawing[k].path,
                             ParseTransform(ListsAround(document, Drawing[k].at)))
  BY DEF DrawnInv
<1>10. Drawing \in Seq(Traces(document))
  BY <1>9, DrawingType DEF Drawing
<1>11. Drawing' = Drawing \o traced
  <2> HIDE DEF sketch
  <2>1. drawn' = Append(drawn, sketch)
    BY <1>2
  <2>2. Drawing' = FlattenSeq([k \in DOMAIN Append(drawn, sketch) |-> PathsOf(Append(drawn, sketch)[k])])
    BY <2>1 DEF Drawing
  <2>3. QED
    BY <1>6, <1>9, <2>2, DrawingGrows DEF Drawing
<1>12. drawn' \in Seq(Sketches(document))
  BY <1>2, <1>6, <1>9
<1> HIDE DEF moved, sketch, traced, n
<1> DEFINE m == Len(Drawing)
           drawing == Drawing
           o == output \o moved
           d == drawing \o traced
<1>13. m \in Nat /\ Len(output) = m /\ drawing \in Seq(Traces(document)) /\ Len(drawing) = m
  BY <1>9, <1>10
<1>14. \A k \in 1 .. m : output[k] = ApplyTransformPath(drawing[k].path,
                                         ParseTransform(ListsAround(document, drawing[k].at)))
  BY <1>9
<1>15. d = Drawing'
  BY <1>11
<1> HIDE DEF m, drawing
<1>16. /\ o \in Seq(Whole) /\ Len(o) = m + n
       /\ \A k \in 1 .. m + n : o[k] = IF k <= m THEN output[k] ELSE moved[k - m]
  <2>1. /\ o \in Seq(Whole) /\ Len(o) = Len(output) + Len(moved)
        /\ \A i \in 1 .. Len(output) + Len(moved) :
               o[i] = IF i <= Len(output) THEN output[i] ELSE moved[i - Len(output)]
    BY <1>5, <1>9, ConcatElements
  <2> HIDE DEF o
  <2>2. QED
    BY <1>5, <1>13, <2>1
<1>17. /\ Len(d) = m + n
       /\ \A k \in 1 .. m + n : d[k] = IF k <= m THEN drawing[k] ELSE traced[k - m]
  <2>1. /\ Len(d) = Len(drawing) + Len(traced)
        /\ \A i \in 1 .. Len(drawing) + Len(traced) :
               d[i] = IF i <= Len(drawing) THEN drawing[i] ELSE traced[i - Len(drawing)]
    BY <1>7, <1>13, ConcatElements
  <2> HIDE DEF d
  <2>2. QED
    BY <1>7, <1>13, <2>1
<1> HIDE DEF o, d
<1>18. ASSUME NEW k \in 1 .. m + n
       PROVE  o[k] = ApplyTransformPath(d[k].path, ParseTransform(ListsAround(document, d[k].at)))
  <2>1. CASE k <= m
    <3>1. o[k] = output[k] /\ d[k] = drawing[k] /\ k \in 1 .. m
      BY <1>13, <1>16, <1>17, <2>1
    <3>2. QED
      BY <1>14, <3>1
  <2>2. CASE ~(k <= m)
    <3>1. o[k] = moved[k - m] /\ d[k] = traced[k - m] /\ k - m \in 1 .. n
      BY <1>1, <1>13, <1>16, <1>17, <2>2
    <3>2. QED
      BY <1>8, <3>1
  <2>3. QED
    BY <2>1, <2>2
<1>19. output' = o /\ Drawing' = d /\ document' = document
  BY <1>2, <1>15 DEF o
<1>20. drawn' \in Seq(Sketches(document'))
  BY <1>12, <1>19
<1>21. Len(output') = Len(Drawing')
  BY <1>16, <1>17, <1>19
<1>22. \A k \in 1 .. Len(Drawing') :
           output'[k] = ApplyTransformPath(Drawing'[k].path,
                            ParseTransform(ListsAround(document', Drawing'[k].at)))
  BY <1>17, <1>18, <1>19
<1>23. output' \in Seq(Whole)
  BY <1>16, <1>19
<1>24. QED
  BY <1>20, <1>21, <1>22, <1>23 DEF DrawnInv

LEMMA DrawnRests ==
  ASSUME DrawnInv, UNCHANGED <<drawn, output, document>>,
         \/ stage' \in {"parsed", "imported", "raised"}
         \/ stage \in {"given", "walking", "scanning"}
  PROVE  DrawnInv'
<1>1. drawn' = drawn /\ output' = output /\ document' = document
  OBVIOUS
<1>2. Drawing' = Drawing
  BY <1>1 DEF Drawing
<1>3. QED
  BY <1>1, <1>2 DEF DrawnInv

LEMMA StartsImporting ==
  ASSUME Init
  PROVE  ImportInv
<1>1. StageInv
  BY DEF Init, StageInv, Stages
<1>2. WalkInv
  <2>1. PICK family \in Documents : document \in family
    BY DEF Init
  <2>2. pending \in Seq(Waiting(document, Elements(family)))
    BY DEF Init
  <2>3. QED
    BY <2>1, <2>2 DEF WalkInv
<1>3. ScanningInv
  BY DEF Init, ScanningInv
<1>4. DrawnInv
  <2>1. drawn = <<>> /\ output = <<>> /\ stage = "given"
    BY DEF Init
  <2>2. Drawing = <<>>
    <3> DEFINE none == [k \in DOMAIN drawn |-> PathsOf(drawn[k])]
    <3>1. none = <<>> /\ Len(none) = 0
      BY <2>1
    <3> HIDE DEF none
    <3>2. FlattenSeq(none) = <<>>
      BY <3>1 DEF FlattenSeq
    <3>3. QED
      BY <3>2 DEF none, Drawing
  <2>3. QED
    BY <2>1, <2>2 DEF DrawnInv
<1>5. ScannerInv
  <2>1. <<>> \in Seq(Tokens) /\ ScanInit
    BY DEF Init
  <2>2. QED
    BY <2>1, FreshScannerInv
<1>6. QED
  BY <1>1, <1>2, <1>3, <1>4, <1>5 DEF ImportInv

LEMMA StartImportKeepsImportInv ==
  ASSUME ImportInv, StartImport
  PROVE  ImportInv'
<1>1. PICK family \in Documents : document \in family
  BY DEF ImportInv, WalkInv
<1>2. /\ document.transform \in Seq(Functions) /\ document.children \in Seq(Elements(family))
      /\ document.width \subseteq [value : Int, unit : STRING] /\ document.viewBox \subseteq Seq(Int)
  BY <1>1, FamilyTypes
<1>3. ScaleResolves(document) /\ ReadableList(document)
  BY DEF StartImport
<1>4. StageInv'
  <2>1. mm' \in Int
    BY <1>2, <1>3, ResolvedScaleType DEF StartImport
  <2>2. stage = "given" /\ stage' = "walking" /\ neutral' = neutral
    BY DEF StartImport
  <2>3. QED
    BY <2>1, <2>2 DEF StageInv, ImportInv, Stages
<1>5. WalkInv'
  <2> DEFINE t == ParseTransform(document.transform)
             S == Waiting(document, Elements(family))
  <2>1. document.transform \in Seq(Functional)
    BY <1>2, <1>3, ReadableListType
  <2>2. /\ <<>> \in Seq(Nat) /\ ElementAt(document, <<>>) = document
        /\ t = ParseTransform(ListsAround(document, <<>>)) /\ ReadableAround(document, <<>>)
    BY <2>1, RootPlace, ListsAroundTheRoot
  <2>3. Entries(document, t, <<>>) \in Seq(S)
    <3> HIDE DEF t
    <3>1. Entries(ElementAt(document, <<>>), t, <<>>) \in Seq(S)
      BY <1>2, <2>2, EntriesWait
    <3>2. QED
      BY <2>2, <3>1
  <2>4. pending' = Entries(document, t, <<>>) /\ document' = document
    BY DEF StartImport
  <2>5. QED
    BY <1>1, <2>3, <2>4 DEF WalkInv
<1>6. ScanningInv'
  BY DEF StartImport, ScanningInv
<1>7. DrawnInv'
  BY DrawnRests DEF StartImport, ImportInv
<1>8. ScannerInv'
  BY ScannerRests DEF StartImport, ImportInv
<1>9. QED
  BY <1>4, <1>5, <1>6, <1>7, <1>8 DEF ImportInv

LEMMA RaisesKeepsImportInv ==
  ASSUME ImportInv, Raises, stage # "imported"
  PROVE  ImportInv'
<1>1. /\ stage' = "raised" /\ UNCHANGED scanner /\ UNCHANGED <<drawn, output, document>>
      /\ document' = document /\ pending' = pending /\ mm' = mm /\ neutral' = neutral
  BY DEF Raises, walk
<1>2. StageInv'
  BY <1>1 DEF StageInv, ImportInv, Stages
<1>3. WalkInv'
  BY <1>1 DEF WalkInv, ImportInv
<1>4. ScanningInv'
  BY <1>1 DEF ScanningInv
<1>5. DrawnInv'
  BY <1>1, DrawnRests DEF ImportInv
<1>6. ScannerInv'
  BY <1>1, ScannerRests DEF ImportInv
<1>7. QED
  BY <1>2, <1>3, <1>4, <1>5, <1>6 DEF ImportInv

LEMMA WalkChildrenKeepsImportInv ==
  ASSUME ImportInv, WalkChildren
  PROVE  ImportInv'
<1>1. Visiting(Containers) /\ stage = "walking" /\ stage' = stage /\ UNCHANGED <<drawn, output, document>> /\ UNCHANGED scanner
      /\ document' = document /\ mm' = mm /\ neutral' = neutral
      /\ pending' = Entries(Now.element, LocalTransform, Now.place) \o Tail(pending)
  BY DEF WalkChildren, Visiting
<1>2. StageInv'
  BY <1>1 DEF StageInv, ImportInv, Stages
<1>3. WalkInv'
  <2>1. PICK family \in Documents :
            /\ document \in family
            /\ Now.element \in Elements(family) /\ Now.element.tag \in Containers
            /\ Now.place \in Seq(Nat) /\ Reached(document, Now.place)
            /\ Now.element = ElementAt(document, Now.place)
            /\ ReadableAround(document, Now.place)
            /\ LocalTransform = ParseTransform(ListsAround(document, Now.place))
            /\ Tail(pending) \in Seq(Waiting(document, Elements(family)))
    BY <1>1, VisitedTypes
  <2>2. Now.element.children \in Seq(Elements(family))
    BY <2>1, FamilyTypes
  <2> DEFINE S == Waiting(document, Elements(family))
             children == Entries(Now.element, LocalTransform, Now.place)
             rest == Tail(pending)
  <2>3. children \in Seq(S) /\ rest \in Seq(S)
    <3>1. Entries(ElementAt(document, Now.place), LocalTransform, Now.place) \in Seq(S)
      BY <2>1, <2>2, EntriesWait
    <3>2. QED
      BY <2>1, <3>1
  <2>4. pending' = children \o rest
    BY <1>1
  <2> HIDE DEF S, children, rest
  <2>5. pending' \in Seq(S)
    BY <2>3, <2>4, ConcatElements
  <2>6. QED
    BY <1>1, <2>1, <2>5 DEF WalkInv, S
<1>4. ScanningInv'
  BY <1>1 DEF ScanningInv
<1>5. DrawnInv'
  BY <1>1, DrawnRests DEF ImportInv
<1>6. ScannerInv'
  BY <1>1, ScannerRests DEF ImportInv
<1>7. QED
  BY <1>2, <1>3, <1>4, <1>5, <1>6 DEF ImportInv

LEMMA ExtractShapeKeepsImportInv ==
  ASSUME ImportInv, ExtractShape
  PROVE  ImportInv'
<1>1. /\ Visiting(Shapes) /\ stage = "walking" /\ stage' = stage /\ UNCHANGED scanner
      /\ document' = document /\ mm' = mm /\ neutral' = neutral /\ pending' = Tail(pending)
      /\ WellFormed(Now.element)
  BY DEF ExtractShape, Visiting
<1>2. PICK family \in Documents :
          /\ document \in family
          /\ Now.element \in Elements(family) /\ Now.element.tag \in Shapes
          /\ Now.place \in Seq(Nat) /\ Reached(document, Now.place)
          /\ Now.element = ElementAt(document, Now.place)
          /\ ReadableAround(document, Now.place)
          /\ LocalTransform = ParseTransform(ListsAround(document, Now.place))
          /\ Tail(pending) \in Seq(Waiting(document, Elements(family)))
  BY <1>1, VisitedTypes
<1>3. StageInv'
  BY <1>1 DEF StageInv, ImportInv, Stages
<1>4. WalkInv'
  BY <1>1, <1>2 DEF WalkInv
<1>5. ScanningInv'
  BY <1>1 DEF ScanningInv
<1>6. DrawnInv'
  <2>1. PICK drift \in {0, Drift} : Extract(<<ShapePath(Now.element, drift)>>, LocalTransform, Now.place)
    BY DEF ExtractShape
  <2> DEFINE path == ShapePath(Now.element, drift)
  <2>2. path \in Whole
    BY <1>1, <1>2, FamilyTypes, ShapePathType
  <2>3. Drawable(document, Now.place) /\ DrawnOf(ElementAt(document, Now.place), <<path>>)
    BY <1>2 DEF Drawable, IsDrawing, DrawnOf
  <2> HIDE DEF path
  <2>4. <<path>> \in Seq(Whole)
    BY <2>2
  <2>5. Extract(<<path>>, LocalTransform, Now.place)
    BY <2>1 DEF path
  <2>6. DrawnInv /\ stage \in {"walking", "scanning"} /\ document' = document
    BY <1>1 DEF ImportInv
  <2>7. QED
    BY <1>2, <2>3, <2>4, <2>5, <2>6, ExtractKeepsDrawnInv
<1>7. ScannerInv'
  BY <1>1, ScannerRests DEF ImportInv
<1>8. QED
  BY <1>3, <1>4, <1>5, <1>6, <1>7 DEF ImportInv

LEMMA SkipPathKeepsImportInv ==
  ASSUME ImportInv, SkipPath
  PROVE  ImportInv'
<1>1. /\ Visiting({"path"}) /\ stage = "walking" /\ stage' = stage /\ UNCHANGED <<drawn, output, document>> /\ UNCHANGED scanner
      /\ document' = document /\ mm' = mm /\ neutral' = neutral /\ pending' = Tail(pending)
  BY DEF SkipPath, Visiting
<1>2. StageInv'
  BY <1>1 DEF StageInv, ImportInv, Stages
<1>3. WalkInv'
  BY <1>1, VisitedTypes DEF WalkInv
<1>4. ScanningInv'
  BY <1>1 DEF ScanningInv
<1>5. DrawnInv'
  BY <1>1, DrawnRests DEF ImportInv
<1>6. ScannerInv'
  BY <1>1, ScannerRests DEF ImportInv
<1>7. QED
  BY <1>2, <1>3, <1>4, <1>5, <1>6 DEF ImportInv

LEMMA ScanPathKeepsImportInv ==
  ASSUME ImportInv, ScanPath
  PROVE  ImportInv'
<1>1. /\ Visiting({"path"}) /\ stage = "walking" /\ stage' = "scanning" /\ UNCHANGED <<drawn, output, document>>
      /\ StartScan(Now.element.d) /\ inherited' = LocalTransform /\ scannedAt' = Now.place
      /\ document' = document /\ mm' = mm /\ neutral' = neutral /\ pending' = Tail(pending)
  BY DEF ScanPath, Visiting
<1>2. PICK family \in Documents :
          /\ document \in family
          /\ Now.element \in Elements(family) /\ Now.element.tag \in {"path"}
          /\ Now.place \in Seq(Nat) /\ Reached(document, Now.place)
          /\ Now.element = ElementAt(document, Now.place)
          /\ ReadableAround(document, Now.place)
          /\ LocalTransform = ParseTransform(ListsAround(document, Now.place))
          /\ Tail(pending) \in Seq(Waiting(document, Elements(family)))
  BY <1>1, VisitedTypes
<1>3. StageInv'
  BY <1>1 DEF StageInv, ImportInv, Stages
<1>4. WalkInv'
  BY <1>1, <1>2 DEF WalkInv
<1>5. ScanningInv'
  <2>1. scan' = "scanning"
    BY <1>1 DEF StartScan
  <2>2. Now.element.d # <<>>
    BY DEF ScanPath
  <2>3. Drawable(document, Now.place) /\ ElementAt(document, Now.place).tag = "path"
    BY <1>2, <2>2 DEF Drawable, IsDrawing
  <2>4. QED
    BY <1>1, <1>2, <2>1, <2>3 DEF ScanningInv
<1>6. DrawnInv'
  BY <1>1, DrawnRests DEF ImportInv
<1>7. ScannerInv'
  <2>1. Now.element.d \in Seq(Tokens)
    BY <1>2, FamilyTypes
  <2>2. QED
    BY <1>1, <2>1, FreshScannerInv
<1>8. QED
  BY <1>3, <1>4, <1>5, <1>6, <1>7 DEF ImportInv

LEMMA ScanKeepsImportInv ==
  ASSUME ImportInv, Scan
  PROVE  ImportInv'
<1>1. /\ stage = "scanning" /\ stage' = stage /\ UNCHANGED <<drawn, output, document>> /\ ScanTurn
      /\ document' = document /\ mm' = mm /\ neutral' = neutral /\ pending' = pending
      /\ inherited' = inherited /\ scannedAt' = scannedAt
  BY DEF Scan, walk
<1>2. StageInv'
  BY <1>1 DEF StageInv, ImportInv, Stages
<1>3. WalkInv'
  BY <1>1 DEF WalkInv, ImportInv
<1>4. ScanningInv'
  <2>1. scan' # "idle"
    BY <1>1 DEF ScanTurn, MoveTo, ClosePath, LineTo, HorizontalTo, VerticalTo, CubicTo,
                SmoothCubicTo, QuadTo, SmoothQuadTo, ArcTo, Turn, ScanRaises, EndOfData
  <2>2. QED
    BY <1>1, <2>1 DEF ScanningInv, ImportInv
<1>5. DrawnInv'
  BY <1>1, DrawnRests DEF ImportInv
<1>6. ScannerInv'
  BY <1>1, ScanTurnKeepsScannerInv DEF ImportInv
<1>7. QED
  BY <1>2, <1>3, <1>4, <1>5, <1>6 DEF ImportInv

\* A finished subpath has segments.
LEMMA ScannedPathsAreWhole ==
  ASSUME ScannerInv
  PROVE  paths \in Seq(Whole)
<1>1. paths \in Seq(Drawings) /\ \A i \in 1 .. Len(paths) : paths[i].segments # <<>>
  BY DEF ScannerInv, PenTypes, ChainInv, FinishedWell
<1>2. \A i \in 1 .. Len(paths) : paths[i] \in Whole
  BY <1>1 DEF Whole
<1>3. QED
  BY <1>1, <1>2

LEMMA ExtractPathKeepsImportInv ==
  ASSUME ImportInv, ExtractPath
  PROVE  ImportInv'
<1>1. /\ stage = "scanning" /\ stage' = "walking" /\ Extract(paths, inherited, scannedAt) /\ UNCHANGED scanner
      /\ document' = document /\ mm' = mm /\ neutral' = neutral /\ pending' = pending
  BY DEF ExtractPath
<1>2. StageInv'
  BY <1>1 DEF StageInv, ImportInv, Stages
<1>3. WalkInv'
  BY <1>1 DEF WalkInv, ImportInv
<1>4. ScanningInv'
  BY <1>1 DEF ScanningInv
<1>5. DrawnInv'
  <2>1. /\ scannedAt \in Seq(Nat) /\ Drawable(document, scannedAt) /\ ReadableAround(document, scannedAt)
        /\ ElementAt(document, scannedAt).tag = "path"
        /\ inherited = ParseTransform(ListsAround(document, scannedAt))
    BY <1>1 DEF ImportInv, ScanningInv
  <2>2. DrawnOf(ElementAt(document, scannedAt), paths)
    BY <2>1 DEF DrawnOf, Shapes
  <2>3. paths \in Seq(Whole)
    BY ScannedPathsAreWhole DEF ImportInv
  <2>4. DrawnInv /\ stage \in {"walking", "scanning"} /\ document' = document
    BY <1>1 DEF ImportInv
  <2>5. QED
    BY <1>1, <2>1, <2>2, <2>3, <2>4, ExtractKeepsDrawnInv
<1>6. ScannerInv'
  BY <1>1, ScannerRests DEF ImportInv
<1>7. QED
  BY <1>2, <1>3, <1>4, <1>5, <1>6 DEF ImportInv

LEMMA ScaleType ==
  ASSUME NEW sx \in Int, NEW sy \in Int
  PROVE  Scale(sx, sy) \in Transforms
<1>1. Point(0, 0) \in Plane
  BY PointsAreInThePlane
<1>2. /\ Transform(sx, 0, 0, sy, 0, 0) \in Transforms
      /\ \A dx, dy \in Int : Translate(dx, dy) \in Transforms
  BY TransformType DEF Translate
<1>3. Point(0, 0).x \in Int /\ Point(0, 0).y \in Int
  BY <1>1 DEF Plane, PointsOfPlane
<1>4. -Point(0, 0).x \in Int /\ -Point(0, 0).y \in Int
  BY <1>3
<1>5. QED
  BY <1>2, <1>3, <1>4, ThenType DEF Scale, About

LEMMA ScaleToMmKeepsImportInv ==
  ASSUME ImportInv, ScaleToMm
  PROVE  ImportInv'
<1>1. /\ stage = "walking" /\ stage' = "parsed" /\ output' = ApplyTransform(output, Scale(mm, mm)) /\ UNCHANGED scanner
      /\ document' = document /\ mm' = mm /\ neutral' = neutral /\ pending' = pending /\ drawn' = drawn
  BY DEF ScaleToMm
<1>2. StageInv'
  BY <1>1 DEF StageInv, ImportInv, Stages
<1>3. WalkInv'
  BY <1>1 DEF WalkInv, ImportInv
<1>4. ScanningInv'
  BY <1>1 DEF ScanningInv
<1>5. DrawnInv'
  <2> DEFINE t == Scale(mm, mm)
             n == Len(output)
  <2>1. /\ output \in Seq(Whole) /\ n \in Nat /\ DOMAIN output = 1 .. n /\ n = Len(Drawing)
        /\ drawn \in Seq(Sketches(document))
    BY DEF ImportInv, DrawnInv
  <2>2. t \in Transforms
    BY ScaleType DEF ImportInv, StageInv
  <2>3. output' = [i \in 1 .. n |-> ApplyTransformPath(output[i], t)]
    BY <1>1, <2>1 DEF ApplyTransform
  <2> HIDE DEF t, n
  <2>4. ASSUME NEW i \in 1 .. n PROVE ApplyTransformPath(output[i], t) \in Whole
    <3>1. output[i] \in Drawings /\ output[i].segments # <<>>
      BY <2>1, <2>4 DEF Whole
    <3>2. QED
      BY <2>2, <3>1, TransformPathEnds
  <2>5. output' \in Seq(Whole) /\ Len(output') = n
    BY <2>1, <2>3, <2>4
  <2>6. Drawing' = Drawing
    BY <1>1 DEF Drawing
  <2>7. QED
    BY <1>1, <2>1, <2>5, <2>6 DEF DrawnInv
<1>6. ScannerInv'
  BY <1>1, ScannerRests DEF ImportInv
<1>7. QED
  BY <1>2, <1>3, <1>4, <1>5, <1>6 DEF ImportInv

LEMMA ToNeutralKeepsImportInv ==
  ASSUME ImportInv, ToNeutral
  PROVE  ImportInv'
<1>1. /\ stage' = "imported" /\ neutral' = ShapeToNeutral(output) /\ UNCHANGED <<drawn, output, document>> /\ UNCHANGED scanner
      /\ document' = document /\ mm' = mm /\ pending' = pending
  BY DEF ToNeutral
<1>2. StageInv'
  BY <1>1 DEF StageInv, ImportInv, Stages
<1>3. WalkInv'
  BY <1>1 DEF WalkInv, ImportInv
<1>4. ScanningInv'
  BY <1>1 DEF ScanningInv
<1>5. DrawnInv'
  BY <1>1, DrawnRests DEF ImportInv
<1>6. ScannerInv'
  BY <1>1, ScannerRests DEF ImportInv
<1>7. QED
  BY <1>2, <1>3, <1>4, <1>5, <1>6 DEF ImportInv

LEMMA NextKeepsImportInv ==
  ASSUME ImportInv, [Next]_vars
  PROVE  ImportInv'
<1>1. CASE StartImport
  BY <1>1, StartImportKeepsImportInv
<1>2. CASE BadRoot \/ BadElement \/ NothingSupported
  <2>1. Raises /\ stage # "imported"
    BY <1>2 DEF BadRoot, BadElement, NothingSupported
  <2>2. QED
    BY <2>1, RaisesKeepsImportInv
<1>3. CASE WalkChildren
  BY <1>3, WalkChildrenKeepsImportInv
<1>4. CASE ExtractShape
  BY <1>4, ExtractShapeKeepsImportInv
<1>5. CASE SkipPath
  BY <1>5, SkipPathKeepsImportInv
<1>6. CASE ScanPath
  BY <1>6, ScanPathKeepsImportInv
<1>7. CASE Scan
  BY <1>7, ScanKeepsImportInv
<1>8. CASE ExtractPath
  BY <1>8, ExtractPathKeepsImportInv
<1>9. CASE ScaleToMm
  BY <1>9, ScaleToMmKeepsImportInv
<1>10. CASE ToNeutral
  BY <1>10, ToNeutralKeepsImportInv
<1>11. CASE UNCHANGED vars
  <2>1. /\ stage' = stage /\ UNCHANGED scanner /\ UNCHANGED <<drawn, output, document>>
        /\ document' = document /\ pending' = pending /\ mm' = mm /\ neutral' = neutral
        /\ inherited' = inherited /\ scannedAt' = scannedAt /\ scan' = scan
    BY <1>11 DEF vars, walk, scanner
  <2>2. StageInv' /\ WalkInv' /\ ScanningInv'
    BY <2>1 DEF ImportInv, StageInv, WalkInv, ScanningInv
  <2>3. DrawnInv'
    <3>1. Drawing' = Drawing
      BY <2>1 DEF Drawing
    <3>2. QED
      BY <2>1, <3>1 DEF ImportInv, DrawnInv
  <2>4. ScannerInv'
    BY <2>1, ScannerRests DEF ImportInv
  <2>5. QED
    BY <2>2, <2>3, <2>4 DEF ImportInv
<1>12. QED
  BY <1>1, <1>2, <1>3, <1>4, <1>5, <1>6, <1>7, <1>8, <1>9, <1>10, <1>11 DEF Next

\* Whatever the document, every path put out is one drawn at its place, through the
\* transform lists around that place (svg_io._walk, parse_svg_string).
THEOREM ImportInvariance == Spec => []ImportInv
<1>1. Init => ImportInv
  BY StartsImporting
<1>2. ImportInv /\ [Next]_vars => ImportInv'
  BY NextKeepsImportInv
<1>3. QED
  BY <1>1, <1>2, PTL DEF Spec

-----------------------------------------------------------------------------
(* Document order. *)

\* What was drawn, what is scanned and what waits come one after the other.
OrderInv ==
    /\ \A j, k \in 1 .. Len(drawn) : j < k => Precedes(drawn[j].at, drawn[k].at)
    /\ \A j, k \in 1 .. Len(pending) : j < k => Precedes(pending[j].place, pending[k].place)
    /\ \A j \in 1 .. Len(drawn), k \in 1 .. Len(pending) : Precedes(drawn[j].at, pending[k].place)
    /\ stage = "scanning" =>
           /\ \A j \in 1 .. Len(drawn) : Precedes(drawn[j].at, scannedAt)
           /\ \A k \in 1 .. Len(pending) : Precedes(scannedAt, pending[k].place)

\* Every drawing of the document was drawn, is scanned, or is at or inside what waits.
Covered(q) ==
    \/ \E k \in 1 .. Len(drawn) : drawn[k].at = q
    \/ stage = "scanning" /\ q = scannedAt
    \/ \E k \in 1 .. Len(pending) : Extends(q, pending[k].place)

CoverInv ==
    /\ stage = "given" => drawn = <<>>
    /\ stage \in {"parsed", "imported"} => pending = <<>>
    /\ stage \notin {"given", "raised"} =>
           \A q \in Seq(Nat) : Drawable(document, q) => Covered(q)

WalkOrderInv == OrderInv /\ CoverInv

LEMMA TagsDiffer ==
  ASSUME NEW tag, tag \in Containers
  PROVE  tag \notin Shapes /\ tag # "path"
BY DEF Containers, Shapes

\* Nothing is drawn inside a shape or a path.
LEMMA NothingInside ==
  ASSUME NEW root, NEW p \in Seq(Nat), NEW q \in Seq(Nat), p # <<>>,
         Reached(root, q), Extends(q, p), ElementAt(root, p).tag \in Shapes \cup {"path"}
  PROVE  q = p
<1>1. ElementAt(root, p).tag \notin Containers
  BY TagsDiffer
<1>2. QED
  BY <1>1, ReachedInside

\* What is drawn inside a group is at or inside one of its children.
LEMMA ChildrenCover ==
  ASSUME NEW root, NEW p \in Seq(Nat), NEW q \in Seq(Nat), Extends(q, p), Drawable(root, q),
         p = <<>> \/ ElementAt(root, p).tag \in Containers
  PROVE  \E i \in Nat : i \in DOMAIN ElementAt(root, p).children /\ Extends(q, Append(p, i))
<1>1. Reached(root, q) /\ IsDrawing(ElementAt(root, q))
  BY DEF Drawable
<1>2. q # p
  <2>1. q # <<>>
    BY <1>1 DEF Reached
  <2>2. ElementAt(root, q).tag \notin Containers
    BY <1>1, TagsDiffer DEF IsDrawing
  <2>3. QED
    BY <2>1, <2>2
<1>3. QED
  BY <1>1, <1>2, ReachedInside

LEMMA EntriesPlaces ==
  ASSUME NEW elements, NEW element, element.children \in Seq(elements), NEW t, NEW p \in Seq(Nat)
  PROVE  /\ Len(Entries(element, t, p)) = Len(element.children)
         /\ Len(element.children) \in Nat /\ DOMAIN element.children = 1 .. Len(element.children)
         /\ \A i \in 1 .. Len(element.children) : Entries(element, t, p)[i].place = Append(p, i)
<1> DEFINE children == element.children
           n == Len(children)
           entries == [i \in 1 .. n |-> Entry(children[i], t, Append(p, i))]
<1>1. n \in Nat /\ DOMAIN children = 1 .. n
  OBVIOUS
<1>2. Entries(element, t, p) = entries
  BY <1>1 DEF Entries
<1> HIDE DEF children, n
<1>3. Len(entries) = n
  BY <1>1
<1>4. \A i \in 1 .. n : entries[i].place = Append(p, i)
  BY DEF Entry
<1>5. QED
  BY <1>1, <1>2, <1>3, <1>4 DEF n, children

\* The stack under the element visited.
LEMMA StackPlaces ==
  ASSUME ImportInv, pending # <<>>
  PROVE  /\ Len(pending) \in Nat /\ 1 \in 1 .. Len(pending) /\ Now = pending[1]
         /\ \A k \in 1 .. Len(pending) : pending[k].place \in Seq(Nat) /\ pending[k].place # <<>>
         /\ Len(Tail(pending)) = Len(pending) - 1
         /\ \A k \in 1 .. Len(pending) - 1 : Tail(pending)[k] = pending[k + 1]
<1>1. PICK family \in Documents : pending \in Seq(Waiting(document, Elements(family)))
  BY DEF ImportInv, WalkInv
<1> DEFINE S == Waiting(document, Elements(family))
<1>2. \A entry \in S : entry.place \in Seq(Nat) /\ entry.place # <<>>
  BY DEF Waiting, Reached
<1> HIDE DEF S
<1>3. pending \in Seq(S)
  BY <1>1 DEF S
<1>4. \A k \in 1 .. Len(pending) : pending[k] \in S
  BY <1>3
<1>5. /\ Len(pending) \in Nat /\ 1 \in 1 .. Len(pending) /\ Head(pending) = pending[1]
      /\ Len(Tail(pending)) = Len(pending) - 1
      /\ \A k \in 1 .. Len(pending) - 1 : Tail(pending)[k] = pending[k + 1]
  BY <1>3
<1>6. QED
  BY <1>2, <1>4, <1>5 DEF Now

LEMMA DrawnPlaces ==
  ASSUME ImportInv
  PROVE  /\ Len(drawn) \in Nat
         /\ \A k \in 1 .. Len(drawn) :
                /\ drawn[k].at \in Seq(Nat) /\ Drawable(document, drawn[k].at)
                /\ DrawnOf(ElementAt(document, drawn[k].at), drawn[k].paths)
<1>1. drawn \in Seq(Sketches(document))
  BY DEF ImportInv, DrawnInv
<1>2. \A k \in 1 .. Len(drawn) : drawn[k] \in Sketches(document)
  BY <1>1
<1>3. QED
  BY <1>1, <1>2 DEF Sketches

LEMMA StartImportKeepsOrder ==
  ASSUME ImportInv, WalkOrderInv, StartImport
  PROVE  WalkOrderInv'
<1> DEFINE t == ParseTransform(document.transform)
           n == Len(document.children)
<1>1. PICK family \in Documents : document \in family
  BY DEF ImportInv, WalkInv
<1>2. document.children \in Seq(Elements(family))
  BY <1>1, FamilyTypes
<1>3. /\ stage' = "walking" /\ document' = document /\ drawn' = drawn /\ drawn = <<>>
      /\ pending' = Entries(document, t, <<>>)
  BY DEF StartImport, WalkOrderInv, CoverInv
<1>4. <<>> \in Seq(Nat) /\ ElementAt(document, <<>>) = document /\ Len(<<>>) = 0
  BY RootPlace
<1>5. /\ Len(pending') = n /\ n \in Nat /\ DOMAIN document.children = 1 .. n
      /\ \A i \in 1 .. n : pending'[i].place = Append(<<>>, i)
  BY <1>2, <1>3, <1>4, EntriesPlaces
<1>6. Len(drawn') = 0
  BY <1>3, <1>4
<1> HIDE DEF n, t
<1>7. OrderInv'
  <2>1. ASSUME NEW j \in 1 .. n, NEW k \in 1 .. n, j < k
        PROVE  Precedes(pending'[j].place, pending'[k].place)
    <3>1. j \in Nat /\ k \in Nat
      BY <1>5
    <3>2. Precedes(Append(<<>>, j), Append(<<>>, k))
      BY <1>4, <2>1, <3>1, SiblingsPrecede
    <3>3. QED
      BY <1>5, <3>2
  <2>2. 1 .. Len(drawn') = {}
    BY <1>6
  <2>3. stage' # "scanning"
    BY <1>3
  <2>4. QED
    BY <1>5, <2>1, <2>2, <2>3 DEF OrderInv
<1>8. CoverInv'
  <2>1. ASSUME NEW q \in Seq(Nat), Drawable(document, q)
        PROVE  \E k \in 1 .. Len(pending') : Extends(q, pending'[k].place)
    <3>1. Extends(q, <<>>)
      BY <1>4 DEF Extends
    <3>2. PICK i \in Nat : i \in DOMAIN document.children /\ Extends(q, Append(<<>>, i))
      BY <1>4, <2>1, <3>1, ChildrenCover
    <3>3. QED
      BY <1>5, <3>2
  <2>2. \A q \in Seq(Nat) : Drawable(document, q) => Covered(q)'
    BY <2>1 DEF Covered
  <2>3. QED
    BY <1>3, <2>2 DEF CoverInv
<1>9. QED
  BY <1>7, <1>8 DEF WalkOrderInv

LEMMA WalkChildrenKeepsOrder ==
  ASSUME ImportInv, WalkOrderInv, WalkChildren
  PROVE  WalkOrderInv'
<1>1. /\ Visiting(Containers) /\ stage = "walking" /\ pending # <<>>
      /\ stage' = stage /\ document' = document /\ drawn' = drawn
      /\ pending' = Entries(Now.element, LocalTransform, Now.place) \o Tail(pending)
  BY DEF WalkChildren, Visiting
<1>2. PICK family \in Documents :
          /\ Now.element \in Elements(family) /\ Now.element.tag \in Containers
          /\ Now.place \in Seq(Nat) /\ Reached(document, Now.place)
          /\ Now.element = ElementAt(document, Now.place)
          /\ ReadableAround(document, Now.place)
          /\ LocalTransform = ParseTransform(ListsAround(document, Now.place))
          /\ Tail(pending) \in Seq(Waiting(document, Elements(family)))
  BY <1>1, VisitedTypes
<1>3. Now.element.children \in Seq(Elements(family))
  BY <1>2, FamilyTypes
<1> DEFINE S == Waiting(document, Elements(family))
           p == Now.place
           entries == Entries(Now.element, LocalTransform, p)
           rest == Tail(pending)
           c == Len(Now.element.children)
           l == Len(pending)
           now == pending'
<1>4. entries \in Seq(S) /\ rest \in Seq(S)
  <2>1. Entries(ElementAt(document, p), LocalTransform, p) \in Seq(S)
    BY <1>2, <1>3, EntriesWait
  <2>2. QED
    BY <1>2, <2>1
<1>5. /\ Len(entries) = c /\ c \in Nat /\ DOMAIN Now.element.children = 1 .. c
      /\ \A i \in 1 .. c : entries[i].place = Append(p, i)
  <2> DEFINE element == Now.element
             t == LocalTransform
  <2>1. element.children \in Seq(Elements(family)) /\ p \in Seq(Nat)
    BY <1>2, <1>3
  <2> HIDE DEF element, t, p
  <2>2. /\ Len(Entries(element, t, p)) = Len(element.children)
        /\ Len(element.children) \in Nat /\ DOMAIN element.children = 1 .. Len(element.children)
        /\ \A i \in 1 .. Len(element.children) : Entries(element, t, p)[i].place = Append(p, i)
    BY <2>1, EntriesPlaces
  <2>3. QED
    BY <2>2 DEF element, t, p
<1>6. /\ l \in Nat /\ 1 \in 1 .. l /\ pending[1].place = p
      /\ \A k \in 1 .. l : pending[k].place \in Seq(Nat)
      /\ Len(rest) = l - 1 /\ \A k \in 1 .. l - 1 : rest[k] = pending[k + 1]
  BY <1>1, StackPlaces
<1>7. /\ Len(now) = c + (l - 1)
      /\ \A k \in 1 .. c + (l - 1) : now[k] = IF k <= c THEN entries[k] ELSE rest[k - c]
  <2> HIDE DEF S, entries, rest, c, l
  <2>1. /\ Len(entries \o rest) = Len(entries) + Len(rest)
        /\ \A k \in 1 .. Len(entries) + Len(rest) :
               (entries \o rest)[k] = IF k <= Len(entries) THEN entries[k] ELSE rest[k - Len(entries)]
    BY <1>4, ConcatElements
  <2>2. now = entries \o rest
    BY <1>1 DEF entries, rest
  <2> HIDE DEF now
  <2>3. QED
    BY <1>5, <1>6, <2>1, <2>2
<1>8. Len(drawn) \in Nat /\ \A k \in 1 .. Len(drawn) : drawn[k].at \in Seq(Nat)
  BY DrawnPlaces
<1> HIDE DEF S, p, entries, rest, c, l, now
<1>9. p \in Seq(Nat) /\ Extends(p, p)
  BY <1>2, ExtendsItself DEF p
\* An entry of the new stack is a child of the element visited, or it waited below.
<1>10. ASSUME NEW k \in 1 .. Len(now)
       PROVE  /\ k <= c => k \in 1 .. c /\ now[k].place = Append(p, k)
              /\ k > c => k - c + 1 \in 2 .. l /\ now[k].place = pending[k - c + 1].place
  <2>1. CASE k <= c
    BY <1>5, <1>7, <2>1
  <2>2. CASE k > c
    <3>1. k - c \in 1 .. l - 1 /\ ~(k <= c) /\ k \in 1 .. c + (l - 1) /\ k - c + 1 \in 2 .. l
      BY <1>5, <1>6, <1>7, <2>2
    <3>2. now[k] = rest[k - c] /\ rest[k - c] = pending[(k - c) + 1]
      BY <1>6, <1>7, <3>1
    <3>3. QED
      BY <2>2, <3>1, <3>2
  <2>3. QED
    BY <1>5, <1>7, <2>1, <2>2
<1>11. \A k \in 1 .. c : Append(p, k) \in Seq(Nat) /\ Extends(Append(p, k), p)
  BY <1>5, <1>9, ChildPlace
<1>12. /\ \A j, k \in 1 .. Len(drawn) : j < k => Precedes(drawn[j].at, drawn[k].at)
       /\ \A j, k \in 1 .. l : j < k => Precedes(pending[j].place, pending[k].place)
       /\ \A j \in 1 .. Len(drawn), k \in 1 .. l : Precedes(drawn[j].at, pending[k].place)
  BY DEF WalkOrderInv, OrderInv, l
<1>13. ASSUME NEW j \in 1 .. Len(now), NEW k \in 1 .. Len(now), j < k
       PROVE  Precedes(now[j].place, now[k].place)
  <2>1. CASE k <= c
    <3>1. j <= c /\ j \in Nat /\ k \in Nat
      BY <1>5, <1>13, <2>1
    <3>2. now[j].place = Append(p, j) /\ now[k].place = Append(p, k)
      BY <1>10, <2>1, <3>1
    <3>3. QED
      BY <1>9, <1>13, <3>1, <3>2, SiblingsPrecede
  <2>2. CASE k > c /\ j <= c
    <3>1. now[j].place = Append(p, j) /\ j \in 1 .. c
      BY <1>10, <2>2
    <3>2. k - c + 1 \in 2 .. l /\ now[k].place = pending[k - c + 1].place
      BY <1>10, <2>2
    <3> DEFINE m == k - c + 1
    <3> HIDE DEF m
    <3>3. m \in 2 .. l /\ now[k].place = pending[m].place
      BY <3>2 DEF m
    <3>4. m \in 1 .. l /\ 1 < m
      BY <3>3
    <3>5. Precedes(p, pending[m].place) /\ pending[m].place \in Seq(Nat)
      BY <1>6, <1>12, <3>4
    <3>6. Precedes(Append(p, j), pending[m].place)
      BY <1>9, <1>11, <3>1, <3>5, ExtendsItself, PrecedesInside
    <3>7. QED
      BY <3>1, <3>3, <3>6
  <2>3. CASE k > c /\ j > c
    <3>1. /\ j - c + 1 \in 2 .. l /\ now[j].place = pending[j - c + 1].place
          /\ k - c + 1 \in 2 .. l /\ now[k].place = pending[k - c + 1].place
      BY <1>10, <2>3
    <3>2. j - c + 1 \in 1 .. l /\ k - c + 1 \in 1 .. l /\ j - c + 1 < k - c + 1
      BY <1>5, <1>6, <1>13, <3>1
    <3>3. Precedes(pending[j - c + 1].place, pending[k - c + 1].place)
      BY <1>12, <3>2
    <3>4. QED
      BY <3>1, <3>3
  <2>4. QED
    BY <1>5, <2>1, <2>2, <2>3
<1>14. ASSUME NEW j \in 1 .. Len(drawn), NEW k \in 1 .. Len(now)
       PROVE  Precedes(drawn[j].at, now[k].place)
  <2>1. CASE k <= c
    <3>1. now[k].place = Append(p, k) /\ k \in 1 .. c
      BY <1>10, <2>1
    <3>2. Precedes(drawn[j].at, p) /\ drawn[j].at \in Seq(Nat)
      BY <1>6, <1>8, <1>12
    <3>3. QED
      BY <1>9, <1>11, <3>1, <3>2, ExtendsItself, PrecedesInside
  <2>2. CASE k > c
    <3>1. k - c + 1 \in 2 .. l /\ now[k].place = pending[k - c + 1].place
      BY <1>10, <2>2
    <3>2. k - c + 1 \in 1 .. l
      BY <3>1
    <3>3. QED
      BY <1>12, <3>1, <3>2
  <2>3. QED
    BY <1>5, <2>1, <2>2
<1>15. ASSUME NEW q \in Seq(Nat), Drawable(document, q)
       PROVE  \/ \E k \in 1 .. Len(drawn) : drawn[k].at = q
              \/ \E k \in 1 .. Len(now) : Extends(q, now[k].place)
  <2>1. \/ \E k \in 1 .. Len(drawn) : drawn[k].at = q
        \/ \E k \in 1 .. l : Extends(q, pending[k].place)
    BY <1>1, <1>15 DEF WalkOrderInv, CoverInv, Covered, l
  <2>2. ASSUME NEW k \in 1 .. l, Extends(q, pending[k].place)
        PROVE  \E m \in 1 .. Len(now) : Extends(q, now[m].place)
    <3>1. CASE k = 1
      <4>1. Extends(q, p)
        BY <1>6, <2>2, <3>1
      <4>2. PICK i \in Nat : i \in DOMAIN ElementAt(document, p).children /\ Extends(q, Append(p, i))
        BY <1>2, <1>9, <1>15, <4>1, ChildrenCover DEF p
      <4>3. i \in 1 .. c
        BY <1>2, <1>5, <4>2 DEF p
      <4>4. i \in 1 .. Len(now) /\ i <= c
        BY <1>5, <1>6, <1>7, <4>3
      <4>5. now[i].place = Append(p, i)
        BY <1>10, <4>4
      <4>6. QED
        BY <4>2, <4>4, <4>5
    <3>2. CASE k # 1
      <4> DEFINE m == c + (k - 1)
      <4>1. m \in 1 .. Len(now) /\ m > c /\ m - c + 1 = k
        BY <1>5, <1>6, <1>7, <3>2
      <4> HIDE DEF m
      <4>2. now[m].place = pending[k].place
        BY <1>5, <1>10, <4>1
      <4>3. QED
        BY <2>2, <4>1, <4>2
    <3>3. QED
      BY <3>1, <3>2
  <2>3. QED
    BY <2>1, <2>2
<1>16. OrderInv'
  BY <1>1, <1>12, <1>13, <1>14 DEF OrderInv, now
<1>17. CoverInv'
  <2>1. \A q \in Seq(Nat) : Drawable(document, q) => Covered(q)'
    BY <1>1, <1>15 DEF Covered, now
  <2>2. QED
    BY <1>1, <2>1 DEF CoverInv
<1>18. QED
  BY <1>16, <1>17 DEF WalkOrderInv

\* What waits under a shape or a path keeps its order, and nothing is covered by the
\* shape or the path but its own place.
LEMMA PopKeepsOrder ==
  ASSUME ImportInv, WalkOrderInv, NEW tags, Visiting(tags), tags \subseteq Shapes \cup {"path"}
  PROVE  LET rest == Tail(pending)
         IN  /\ \A j, k \in 1 .. Len(drawn) : j < k => Precedes(drawn[j].at, drawn[k].at)
             /\ \A j, k \in 1 .. Len(rest) : j < k => Precedes(rest[j].place, rest[k].place)
             /\ \A j \in 1 .. Len(drawn), k \in 1 .. Len(rest) : Precedes(drawn[j].at, rest[k].place)
             /\ \A j \in 1 .. Len(drawn) : Precedes(drawn[j].at, Now.place)
             /\ \A k \in 1 .. Len(rest) : Precedes(Now.place, rest[k].place)
             /\ \A q \in Seq(Nat) : Drawable(document, q) =>
                    \/ \E k \in 1 .. Len(drawn) : drawn[k].at = q
                    \/ q = Now.place
                    \/ \E k \in 1 .. Len(rest) : Extends(q, rest[k].place)
<1> DEFINE rest == Tail(pending)
           l == Len(pending)
           p == Now.place
<1>1. stage = "walking" /\ pending # <<>>
  BY DEF Visiting
<1>2. /\ l \in Nat /\ 1 \in 1 .. l /\ pending[1].place = p
      /\ \A k \in 1 .. l : pending[k].place \in Seq(Nat) /\ pending[k].place # <<>>
      /\ Len(rest) = l - 1 /\ \A k \in 1 .. l - 1 : rest[k] = pending[k + 1]
  BY <1>1, StackPlaces
<1>3. /\ p \in Seq(Nat) /\ Reached(document, p) /\ Now.element = ElementAt(document, p)
      /\ Now.element.tag \in Shapes \cup {"path"} /\ p # <<>>
  <2>1. /\ p \in Seq(Nat) /\ Reached(document, p) /\ Now.element = ElementAt(document, p)
        /\ Now.element.tag \in tags
    BY VisitedTypes
  <2>2. QED
    BY <1>2, <2>1
<1>4. /\ \A j, k \in 1 .. Len(drawn) : j < k => Precedes(drawn[j].at, drawn[k].at)
      /\ \A j, k \in 1 .. l : j < k => Precedes(pending[j].place, pending[k].place)
      /\ \A j \in 1 .. Len(drawn), k \in 1 .. l : Precedes(drawn[j].at, pending[k].place)
  BY DEF WalkOrderInv, OrderInv
<1> HIDE DEF rest, l, p
<1>6. \A k \in 1 .. Len(rest) : k + 1 \in 1 .. l /\ k \in 1 .. l - 1 /\ 1 < k + 1 /\ rest[k].place = pending[k + 1].place
  BY <1>2
<1>7. \A j, k \in 1 .. Len(rest) : j < k => Precedes(rest[j].place, rest[k].place)
  <2>1. ASSUME NEW j \in 1 .. Len(rest), NEW k \in 1 .. Len(rest), j < k
        PROVE  Precedes(rest[j].place, rest[k].place)
    <3>1. j + 1 < k + 1
      BY <1>2, <2>1
    <3>2. QED
      BY <1>4, <1>6, <3>1
  <2>2. QED
    BY <2>1
<1>8. \A j \in 1 .. Len(drawn), k \in 1 .. Len(rest) : Precedes(drawn[j].at, rest[k].place)
  BY <1>4, <1>6
<1>9. \A j \in 1 .. Len(drawn) : Precedes(drawn[j].at, p)
  BY <1>2, <1>4
<1>10. \A k \in 1 .. Len(rest) : Precedes(p, rest[k].place)
  BY <1>2, <1>4, <1>6
<1>11. ASSUME NEW q \in Seq(Nat), Drawable(document, q)
       PROVE  \/ \E k \in 1 .. Len(drawn) : drawn[k].at = q
              \/ q = p
              \/ \E k \in 1 .. Len(rest) : Extends(q, rest[k].place)
  <2>1. \/ \E k \in 1 .. Len(drawn) : drawn[k].at = q
        \/ \E k \in 1 .. l : Extends(q, pending[k].place)
    BY <1>1, <1>11 DEF WalkOrderInv, CoverInv, Covered, l
  <2>2. ASSUME NEW k \in 1 .. l, Extends(q, pending[k].place)
        PROVE  q = p \/ \E m \in 1 .. Len(rest) : Extends(q, rest[m].place)
    <3>1. CASE k = 1
      <4>1. Extends(q, p) /\ Reached(document, q)
        BY <1>2, <1>11, <2>2, <3>1 DEF Drawable
      <4>2. q = p
        BY <1>3, <4>1, NothingInside
      <4>3. QED
        BY <4>2
    <3>2. CASE k # 1
      <4>1. k - 1 \in 1 .. Len(rest) /\ (k - 1) + 1 = k
        BY <1>2, <3>2
      <4>2. rest[k - 1].place = pending[k].place
        BY <1>6, <4>1
      <4>3. QED
        BY <2>2, <4>1, <4>2
    <3>3. QED
      BY <3>1, <3>2
  <2>3. QED
    BY <2>1, <2>2
<1>12. QED
  BY <1>4, <1>7, <1>8, <1>9, <1>10, <1>11 DEF rest, p

LEMMA AppendedDrawn ==
  ASSUME ImportInv, NEW sketch, drawn' = Append(drawn, sketch)
  PROVE  /\ Len(drawn) \in Nat /\ Len(drawn') = Len(drawn) + 1
         /\ drawn'[Len(drawn) + 1] = sketch /\ \A k \in 1 .. Len(drawn) : drawn'[k] = drawn[k]
<1> DEFINE S == Sketches(document) \cup {sketch}
<1>1. drawn \in Seq(S) /\ sketch \in S
  <2>1. drawn \in Seq(Sketches(document))
    BY DEF ImportInv, DrawnInv
  <2>2. QED
    BY <2>1
<1> HIDE DEF S
<1>2. QED
  BY <1>1

\* The next place in document order is drawn.
LEMMA AppendKeepsOrder ==
  ASSUME stage' = "walking", document' = document,
         NEW p, NEW rest, pending' = rest,
         Len(drawn) \in Nat, Len(drawn') = Len(drawn) + 1,
         drawn'[Len(drawn) + 1].at = p, \A k \in 1 .. Len(drawn) : drawn'[k] = drawn[k],
         \A j, k \in 1 .. Len(drawn) : j < k => Precedes(drawn[j].at, drawn[k].at),
         \A j, k \in 1 .. Len(rest) : j < k => Precedes(rest[j].place, rest[k].place),
         \A j \in 1 .. Len(drawn), k \in 1 .. Len(rest) : Precedes(drawn[j].at, rest[k].place),
         \A j \in 1 .. Len(drawn) : Precedes(drawn[j].at, p),
         \A k \in 1 .. Len(rest) : Precedes(p, rest[k].place),
         \A q \in Seq(Nat) : Drawable(document, q) =>
             \/ \E k \in 1 .. Len(drawn) : drawn[k].at = q
             \/ q = p
             \/ \E k \in 1 .. Len(rest) : Extends(q, rest[k].place)
  PROVE  WalkOrderInv'
<1> DEFINE n == Len(drawn)
           d == drawn'
<1>1. n \in Nat /\ Len(d) = n + 1 /\ d[n + 1].at = p /\ \A k \in 1 .. n : d[k].at = drawn[k].at
  OBVIOUS
<1> HIDE DEF n, d
<1>2. \A k \in 1 .. n + 1 : k \in 1 .. n \/ k = n + 1
  BY <1>1
<1>3. ASSUME NEW j \in 1 .. n + 1, NEW k \in 1 .. n + 1, j < k PROVE Precedes(d[j].at, d[k].at)
  <2>1. j \in 1 .. n
    BY <1>1, <1>3
  <2>2. QED
    BY <1>1, <1>2, <1>3, <2>1 DEF n
<1>4. ASSUME NEW j \in 1 .. n + 1, NEW k \in 1 .. Len(rest) PROVE Precedes(d[j].at, rest[k].place)
  BY <1>1, <1>2 DEF n
<1>5. ASSUME NEW q \in Seq(Nat), Drawable(document, q)
      PROVE  \/ \E k \in 1 .. n + 1 : d[k].at = q
             \/ \E k \in 1 .. Len(rest) : Extends(q, rest[k].place)
  <2>1. n + 1 \in 1 .. n + 1 /\ \A k \in 1 .. n : k \in 1 .. n + 1
    BY <1>1
  <2>2. QED
    BY <1>1, <1>5, <2>1 DEF n
<1>6. OrderInv'
  BY <1>1, <1>3, <1>4 DEF OrderInv, d
<1>7. CoverInv'
  <2>1. \A q \in Seq(Nat) : Drawable(document, q) => Covered(q)'
    BY <1>1, <1>5 DEF Covered, d
  <2>2. QED
    BY <2>1 DEF CoverInv
<1>8. QED
  BY <1>6, <1>7 DEF WalkOrderInv

LEMMA ExtractShapeKeepsOrder ==
  ASSUME ImportInv, WalkOrderInv, ExtractShape
  PROVE  WalkOrderInv'
<1> DEFINE rest == Tail(pending)
           p == Now.place
<1>1. /\ Visiting(Shapes) /\ stage = "walking" /\ stage' = stage /\ document' = document
      /\ pending' = rest
  BY DEF ExtractShape, Visiting
<1>2. PICK sketch : drawn' = Append(drawn, sketch) /\ sketch.at = p
  BY DEF ExtractShape, Extract
<1>3. /\ \A j, k \in 1 .. Len(drawn) : j < k => Precedes(drawn[j].at, drawn[k].at)
      /\ \A j, k \in 1 .. Len(rest) : j < k => Precedes(rest[j].place, rest[k].place)
      /\ \A j \in 1 .. Len(drawn), k \in 1 .. Len(rest) : Precedes(drawn[j].at, rest[k].place)
      /\ \A j \in 1 .. Len(drawn) : Precedes(drawn[j].at, p)
      /\ \A k \in 1 .. Len(rest) : Precedes(p, rest[k].place)
      /\ \A q \in Seq(Nat) : Drawable(document, q) =>
             \/ \E k \in 1 .. Len(drawn) : drawn[k].at = q
             \/ q = p
             \/ \E k \in 1 .. Len(rest) : Extends(q, rest[k].place)
  <2>1. Shapes \subseteq Shapes \cup {"path"}
    OBVIOUS
  <2>2. QED
    BY <1>1, <2>1, PopKeepsOrder
<1>4. /\ Len(drawn) \in Nat /\ Len(drawn') = Len(drawn) + 1
      /\ drawn'[Len(drawn) + 1].at = p /\ \A k \in 1 .. Len(drawn) : drawn'[k] = drawn[k]
  BY <1>2, AppendedDrawn
<1> HIDE DEF rest, p
<1>5. WalkOrderInv'
  BY <1>1, <1>3, <1>4, AppendKeepsOrder DEF rest
<1>6. QED
  BY <1>5

LEMMA SkipPathKeepsOrder ==
  ASSUME ImportInv, WalkOrderInv, SkipPath
  PROVE  WalkOrderInv'
<1> DEFINE rest == Tail(pending)
           p == Now.place
<1>1. /\ Visiting({"path"}) /\ stage = "walking" /\ stage' = stage /\ document' = document
      /\ drawn' = drawn /\ pending' = rest /\ Now.element.d = <<>>
  BY DEF SkipPath, Visiting
<1>2. /\ p \in Seq(Nat) /\ (Drawable(document, p) <=> IsDrawing(Now.element))
      /\ \A j, k \in 1 .. Len(drawn) : j < k => Precedes(drawn[j].at, drawn[k].at)
      /\ \A j, k \in 1 .. Len(rest) : j < k => Precedes(rest[j].place, rest[k].place)
      /\ \A j \in 1 .. Len(drawn), k \in 1 .. Len(rest) : Precedes(drawn[j].at, rest[k].place)
      /\ \A q \in Seq(Nat) : Drawable(document, q) =>
             \/ \E k \in 1 .. Len(drawn) : drawn[k].at = q
             \/ q = p
             \/ \E k \in 1 .. Len(rest) : Extends(q, rest[k].place)
  <2>1. {"path"} \subseteq Shapes \cup {"path"}
    OBVIOUS
  <2>2. p \in Seq(Nat) /\ (Drawable(document, p) <=> IsDrawing(Now.element))
    BY <1>1, VisitedTypes DEF Drawable
  <2>3. QED
    BY <1>1, <2>1, <2>2, PopKeepsOrder
<1>3. ~Drawable(document, p)
  <2>1. Now.element.tag = "path"
    BY <1>1 DEF Visiting, Now
  <2>2. ~IsDrawing(Now.element)
    BY <1>1, <2>1 DEF IsDrawing, Shapes
  <2>3. QED
    BY <1>2, <2>2
<1> HIDE DEF rest, p
<1>4. OrderInv'
  BY <1>1, <1>2 DEF OrderInv
<1>5. CoverInv'
  <2>1. \A q \in Seq(Nat) : Drawable(document, q) => Covered(q)'
    BY <1>1, <1>2, <1>3 DEF Covered
  <2>2. QED
    BY <1>1, <2>1 DEF CoverInv
<1>6. QED
  BY <1>4, <1>5 DEF WalkOrderInv

LEMMA ScanPathKeepsOrder ==
  ASSUME ImportInv, WalkOrderInv, ScanPath
  PROVE  WalkOrderInv'
<1> DEFINE rest == Tail(pending)
           p == Now.place
<1>1. /\ Visiting({"path"}) /\ stage' = "scanning" /\ document' = document
      /\ drawn' = drawn /\ pending' = rest /\ scannedAt' = p
  BY DEF ScanPath
<1>2. /\ \A j, k \in 1 .. Len(drawn) : j < k => Precedes(drawn[j].at, drawn[k].at)
      /\ \A j, k \in 1 .. Len(rest) : j < k => Precedes(rest[j].place, rest[k].place)
      /\ \A j \in 1 .. Len(drawn), k \in 1 .. Len(rest) : Precedes(drawn[j].at, rest[k].place)
      /\ \A j \in 1 .. Len(drawn) : Precedes(drawn[j].at, p)
      /\ \A k \in 1 .. Len(rest) : Precedes(p, rest[k].place)
      /\ \A q \in Seq(Nat) : Drawable(document, q) =>
             \/ \E k \in 1 .. Len(drawn) : drawn[k].at = q
             \/ q = p
             \/ \E k \in 1 .. Len(rest) : Extends(q, rest[k].place)
  <2>1. {"path"} \subseteq Shapes \cup {"path"}
    OBVIOUS
  <2>2. QED
    BY <1>1, <2>1, PopKeepsOrder
<1> HIDE DEF rest, p
<1>3. OrderInv'
  BY <1>1, <1>2 DEF OrderInv
<1>4. CoverInv'
  <2>1. \A q \in Seq(Nat) : Drawable(document, q) => Covered(q)'
    BY <1>1, <1>2 DEF Covered
  <2>2. QED
    BY <1>1, <2>1 DEF CoverInv
<1>5. QED
  BY <1>3, <1>4 DEF WalkOrderInv

LEMMA ExtractPathKeepsOrder ==
  ASSUME ImportInv, WalkOrderInv, ExtractPath
  PROVE  WalkOrderInv'
<1>1. /\ stage = "scanning" /\ stage' = "walking" /\ document' = document /\ pending' = pending
  BY DEF ExtractPath
<1>2. PICK sketch : drawn' = Append(drawn, sketch) /\ sketch.at = scannedAt
  BY DEF ExtractPath, Extract
<1>3. /\ \A j, k \in 1 .. Len(drawn) : j < k => Precedes(drawn[j].at, drawn[k].at)
      /\ \A j, k \in 1 .. Len(pending) : j < k => Precedes(pending[j].place, pending[k].place)
      /\ \A j \in 1 .. Len(drawn), k \in 1 .. Len(pending) : Precedes(drawn[j].at, pending[k].place)
      /\ \A j \in 1 .. Len(drawn) : Precedes(drawn[j].at, scannedAt)
      /\ \A k \in 1 .. Len(pending) : Precedes(scannedAt, pending[k].place)
  BY <1>1 DEF WalkOrderInv, OrderInv
<1>4. \A q \in Seq(Nat) : Drawable(document, q) =>
          \/ \E k \in 1 .. Len(drawn) : drawn[k].at = q
          \/ q = scannedAt
          \/ \E k \in 1 .. Len(pending) : Extends(q, pending[k].place)
  BY <1>1 DEF WalkOrderInv, CoverInv, Covered
<1>5. /\ Len(drawn) \in Nat /\ Len(drawn') = Len(drawn) + 1
      /\ drawn'[Len(drawn) + 1].at = scannedAt /\ \A k \in 1 .. Len(drawn) : drawn'[k] = drawn[k]
  BY <1>2, AppendedDrawn
<1>6. QED
  BY <1>1, <1>3, <1>4, <1>5, AppendKeepsOrder

LEMMA RestKeepsOrder ==
  ASSUME WalkOrderInv,
         UNCHANGED <<drawn, pending, document>>,
         \/ stage' = "raised"
         \/ stage = "walking" /\ pending = <<>> /\ stage' = "parsed"
         \/ stage = "parsed" /\ stage' = "imported"
         \/ stage' = stage /\ scannedAt' = scannedAt
  PROVE  WalkOrderInv'
<1>1. drawn' = drawn /\ pending' = pending /\ document' = document
  OBVIOUS
<1>2. OrderInv'
  BY <1>1 DEF WalkOrderInv, OrderInv
<1>3. CoverInv'
  <2>1. (stage' = "given" => drawn' = <<>>) /\ (stage' \in {"parsed", "imported"} => pending' = <<>>)
    BY <1>1 DEF WalkOrderInv, CoverInv
  <2>2. ASSUME stage' \notin {"given", "raised"}, NEW q \in Seq(Nat), Drawable(document, q)
        PROVE  Covered(q)'
    <3>1. Covered(q)
      BY <2>2 DEF WalkOrderInv, CoverInv
    <3>2. QED
      BY <1>1, <2>2, <3>1 DEF Covered
  <2>3. QED
    BY <1>1, <2>1, <2>2 DEF CoverInv
<1>4. QED
  BY <1>2, <1>3 DEF WalkOrderInv

LEMMA NextKeepsOrder ==
  ASSUME ImportInv, WalkOrderInv, [Next]_vars
  PROVE  WalkOrderInv'
<1>1. CASE StartImport
  BY <1>1, StartImportKeepsOrder
<1>2. CASE WalkChildren
  BY <1>2, WalkChildrenKeepsOrder
<1>3. CASE ExtractShape
  BY <1>3, ExtractShapeKeepsOrder
<1>4. CASE SkipPath
  BY <1>4, SkipPathKeepsOrder
<1>5. CASE ScanPath
  BY <1>5, ScanPathKeepsOrder
<1>6. CASE ExtractPath
  BY <1>6, ExtractPathKeepsOrder
<1>7. CASE BadRoot \/ BadElement \/ NothingSupported
  BY <1>7, RestKeepsOrder DEF BadRoot, BadElement, NothingSupported, Raises, walk
<1>8. CASE Scan
  BY <1>8, RestKeepsOrder DEF Scan, walk
<1>9. CASE ScaleToMm
  BY <1>9, RestKeepsOrder DEF ScaleToMm
<1>10. CASE ToNeutral
  BY <1>10, RestKeepsOrder DEF ToNeutral
<1>11. CASE UNCHANGED vars
  BY <1>11, RestKeepsOrder DEF vars, walk
<1>12. QED
  BY <1>1, <1>2, <1>3, <1>4, <1>5, <1>6, <1>7, <1>8, <1>9, <1>10, <1>11 DEF Next

LEMMA OrderInvariance == Spec => [](ImportInv /\ WalkOrderInv)
<1>1. Init => ImportInv /\ WalkOrderInv
  <2>1. ASSUME Init PROVE WalkOrderInv
    <3>1. stage = "given" /\ drawn = <<>> /\ pending = <<>>
      BY <2>1 DEF Init
    <3>2. 1 .. Len(drawn) = {} /\ 1 .. Len(pending) = {}
      BY <3>1
    <3>3. OrderInv
      BY <3>1, <3>2 DEF OrderInv
    <3>4. CoverInv
      BY <3>1 DEF CoverInv
    <3>5. QED
      BY <3>3, <3>4 DEF WalkOrderInv
  <2>2. QED
    BY <2>1, StartsImporting
<1>2. ImportInv /\ WalkOrderInv /\ [Next]_vars => (ImportInv /\ WalkOrderInv)'
  BY NextKeepsImportInv, NextKeepsOrder
<1>3. QED
  BY <1>1, <1>2, PTL DEF Spec

LEMMA OrderInvDraws ==
  ASSUME ImportInv, WalkOrderInv
  PROVE  DrawnInDocumentOrder
<1>1. DOMAIN drawn = 1 .. Len(drawn) /\ Len(drawn) \in Nat
  <2>1. drawn \in Seq(Sketches(document))
    BY DEF ImportInv, DrawnInv
  <2>2. QED
    BY <2>1
<1>2. ASSUME NEW k \in DOMAIN drawn
      PROVE  LET element == ElementAt(document, drawn[k].at)
             IN  /\ Drawable(document, drawn[k].at)
                 /\ \A j \in 1 .. k - 1 : Precedes(drawn[j].at, drawn[k].at)
                 /\ element.tag \in Shapes =>
                        \E drift \in {0, Drift} : drawn[k].paths = <<ShapePath(element, drift)>>
  <2>1. /\ Drawable(document, drawn[k].at)
        /\ DrawnOf(ElementAt(document, drawn[k].at), drawn[k].paths)
    BY <1>1, <1>2, DrawnPlaces
  <2>2. ASSUME NEW j \in 1 .. k - 1 PROVE Precedes(drawn[j].at, drawn[k].at)
    <3>1. j \in 1 .. Len(drawn) /\ k \in 1 .. Len(drawn) /\ j < k
      BY <1>1, <1>2, <2>2
    <3>2. QED
      BY <3>1 DEF WalkOrderInv, OrderInv
  <2>3. QED
    BY <2>1, <2>2 DEF DrawnOf
<1>3. ASSUME (stage = "walking" /\ pending = <<>>) \/ stage \in {"parsed", "imported"},
             NEW place \in Places, Drawable(document, place)
      PROVE  \E k \in DOMAIN drawn : drawn[k].at = place
  <2>1. place \in Seq(Nat) /\ pending = <<>> /\ stage \notin {"given", "raised", "scanning"}
    BY <1>3, PlacesAssumption DEF WalkOrderInv, CoverInv
  <2>2. Covered(place)
    BY <1>3, <2>1 DEF WalkOrderInv, CoverInv
  <2>3. 1 .. Len(pending) = {}
    BY <2>1
  <2>4. QED
    BY <1>1, <2>1, <2>2, <2>3 DEF Covered
<1>4. QED
  BY <1>2, <1>3 DEF DrawnInDocumentOrder

-----------------------------------------------------------------------------
(* The wire format and back. *)

\* What the wire format can say: an arc goes as its Beziers.
Wired == LineSegments \cup BezierSegments

Expanded(segment) == IF segment.kind = "arc" THEN ArcToBeziers(segment) ELSE <<segment>>

LEMMA ExpandedType ==
  ASSUME NEW segment \in Strokes
  PROVE  Expanded(segment) \in Seq(Wired) /\ Expanded(segment) # <<>>
<1>1. CASE segment.kind = "arc"
  <2>1. segment \in CircleSegments
    BY <1>1 DEF Strokes, LineSegments, BezierSegments
  <2>2. ArcToBeziers(segment) \in Seq(BezierSegments) /\ ArcToBeziers(segment) # <<>>
    BY <2>1, ArcToBeziersEnds
  <2>3. ArcToBeziers(segment) \in Seq(Wired)
    BY <2>2 DEF Wired
  <2>4. QED
    BY <1>1, <2>2, <2>3 DEF Expanded
<1>2. CASE segment.kind # "arc"
  <2>1. segment \in Wired
    BY <1>2 DEF Strokes, CircleSegments, Wired
  <2>2. Expanded(segment) = <<segment>>
    BY <1>2 DEF Expanded
  <2>3. QED
    BY <2>1, <2>2
<1>3. QED
  BY <1>1, <1>2

LEMMA FlattenArcsType ==
  ASSUME NEW run \in Seq(Strokes), run # <<>>
  PROVE  FlattenArcs(run) \in Seq(Wired) /\ FlattenArcs(run) # <<>>
<1> DEFINE n == Len(run)
           parts == [i \in 1 .. n |-> Expanded(run[i])]
<1>1. n \in Nat /\ n # 0 /\ DOMAIN run = 1 .. n /\ \A i \in 1 .. n : run[i] \in Strokes
  OBVIOUS
<1>2. FlattenArcs(run) = FlattenSeq(parts)
  BY <1>1 DEF FlattenArcs, Expanded
<1>3. parts = [i \in 1 .. n |-> parts[i]] /\ \A i \in 1 .. n : parts[i] = Expanded(run[i])
  OBVIOUS
<1> HIDE DEF parts, n
<1>4. \A i \in 1 .. n : parts[i] \in Seq(Wired) /\ parts[i] # <<>>
  BY <1>1, <1>3, ExpandedType
<1>5. FlattenSeq(parts) \in Seq(Wired) /\ FlattenSeq(parts) # <<>>
  BY <1>1, <1>3, <1>4, FlattenSeqEnds
<1>6. QED
  BY <1>2, <1>5

HandleIn(segment) == IF segment.kind = "bezier" THEN {segment.via[2]} ELSE {}
HandleOut(segment) == IF segment.kind = "bezier" THEN {segment.via[1]} ELSE {}
HandleOr(handles, default) == IF handles = {} THEN default ELSE CHOOSE p \in handles : TRUE
Between(a, b) ==
    IF a.control_out \cup b.control_in = {} THEN Line(a.at, b.at)
    ELSE Bezier(a.at, HandleOr(a.control_out, a.at), HandleOr(b.control_in, b.at), b.at)

\* Two nodes with the ends and the handles of a segment are that segment.
LEMMA NodesMakeTheSegment ==
  ASSUME NEW segment \in Wired, NEW a, NEW b,
         a.at = segment.start, a.control_out = HandleOut(segment),
         b.at = segment.end, b.control_in = HandleIn(segment)
  PROVE  Between(a, b) = segment
<1>1. CASE segment \in LineSegments
  <2>1. HandleIn(segment) = {} /\ HandleOut(segment) = {}
    BY <1>1 DEF LineSegments, HandleIn, HandleOut
  <2>2. Between(a, b) = Line(segment.start, segment.end)
    BY <2>1 DEF Between
  <2>3. Line(segment.start, segment.end) = segment
    BY <1>1 DEF LineSegments, Line
  <2>4. QED
    BY <2>2, <2>3
<1>2. CASE segment \in BezierSegments
  <2>1. PICK c \in Plane, d \in Plane : segment.kind = "bezier" /\ segment.via = <<c, d>>
    BY <1>2 DEF BezierSegments
  <2>2. a.control_out = {c} /\ b.control_in = {d}
    BY <2>1 DEF HandleIn, HandleOut
  <2>3. HandleOr({c}, segment.start) = c /\ HandleOr({d}, segment.end) = d
    BY DEF HandleOr
  <2>4. {c} \cup {d} # {}
    OBVIOUS
  <2>5. Between(a, b) = Bezier(segment.start, c, d, segment.end)
    BY <2>2, <2>3, <2>4 DEF Between
  <2>6. Bezier(segment.start, c, d, segment.end) = segment
    BY <1>2, <2>1 DEF BezierSegments, Bezier, Curve
  <2>7. QED
    BY <2>5, <2>6
<1>3. QED
  BY <1>1, <1>2 DEF Wired

\* A path whose segments meet comes back from its nodes.
LEMMA SubpathComesBack ==
  ASSUME NEW path \in Whole,
         \A i \in 1 .. Len(FlattenArcs(path.segments)) :
             \/ FlattenArcs(path.segments)[i].end = After(FlattenArcs(path.segments), i).start
             \/ i = Len(FlattenArcs(path.segments)) /\ ~path.closed
  PROVE  SubpathToPath(PathToSubpath(path)) = Path(FlattenArcs(path.segments), path.closed)
<1> DEFINE s == FlattenArcs(path.segments)
           n == Len(s)
           closed == path.closed
           before(i) == IF i > 1 THEN HandleIn(s[i - 1])
                        ELSE IF closed THEN HandleIn(s[n]) ELSE {}
           start(i) == Node(s[i].start, IF s[i].kind = "line" THEN "line" ELSE "curve",
                            before(i), HandleOut(s[i]))
           end == Node(s[n].end, "line", HandleIn(s[n]), {})
           starts == [i \in 1 .. n |-> start(i)]
           nodes == starts \o IF closed THEN <<>> ELSE <<end>>
           count == IF closed THEN Len(nodes) ELSE Len(nodes) - 1
<1>1. s \in Seq(Wired) /\ s # <<>> /\ closed \in BOOLEAN
  <2>1. path.segments \in Seq(Strokes) /\ path.segments # <<>> /\ closed \in BOOLEAN
    BY DEF Whole, Drawings
  <2>2. QED
    BY <2>1, FlattenArcsType
<1>2. PathToSubpath(path) = [closed |-> closed, nodes |-> IF n = 0 THEN <<>> ELSE nodes]
  BY DEF PathToSubpath, Subpath, HandleIn, HandleOut
<1>3. \A i \in 1 .. n : s[i].end = After(s, i).start \/ (i = n /\ ~closed)
  OBVIOUS
<1> HIDE DEF s
<1>4. n \in Nat /\ n # 0 /\ \A i \in 1 .. n : s[i] \in Wired
  BY <1>1
<1>5. PathToSubpath(path).closed = closed /\ PathToSubpath(path).nodes = nodes
  BY <1>2, <1>4
<1>6. SubpathToPath(PathToSubpath(path))
        = Path([i \in 1 .. count |-> Between(nodes[i], After(nodes, i))], closed)
  BY <1>5 DEF SubpathToPath, Between, HandleOr
<1> HIDE DEF n, closed
<1>7. ASSUME NEW i \in 1 .. n
      PROVE  /\ start(i).at = s[i].start /\ start(i).control_out = HandleOut(s[i])
             /\ start(i).control_in = before(i)
  BY DEF Node
<1>8. end.at = s[n].end /\ end.control_in = HandleIn(s[n])
  BY DEF Node
<1>9. \A i \in 1 .. n : starts[i] = start(i)
  OBVIOUS
<1>10. starts = [i \in 1 .. n |-> starts[i]]
  OBVIOUS
<1> HIDE DEF start, end, starts
<1>11. starts \in Seq({starts[i] : i \in 1 .. n} \cup {end}) /\ Len(starts) = n
  BY <1>4, <1>10
<1>12. CASE closed
  <2>1. nodes = starts /\ count = n
    BY <1>11, <1>12
  <2> HIDE DEF nodes, count
  <2>2. ASSUME NEW i \in 1 .. n PROVE Between(nodes[i], After(nodes, i)) = s[i]
    <3>1. nodes[i].at = s[i].start /\ nodes[i].control_out = HandleOut(s[i])
      BY <1>7, <1>9, <2>1
    <3>2. After(nodes, i).at = s[i].end /\ After(nodes, i).control_in = HandleIn(s[i])
      <4>1. CASE i < n
        <5>1. i % n = i
          BY <1>4, <4>1
        <5>2. After(nodes, i) = start(i + 1) /\ After(s, i) = s[i + 1] /\ i + 1 \in 1 .. n
          BY <1>4, <1>9, <1>11, <2>1, <4>1, <5>1 DEF After, n
        <5>3. s[i].end = s[i + 1].start
          BY <1>3, <4>1, <5>2
        <5>4. before(i + 1) = HandleIn(s[i])
          BY <4>1
        <5>5. QED
          BY <1>7, <5>2, <5>3, <5>4
      <4>2. CASE i = n
        <5>1. i % n = 0
          BY <1>4, <4>2
        <5>2. After(nodes, i) = start(1) /\ After(s, i) = s[1] /\ 1 \in 1 .. n
          BY <1>4, <1>9, <1>11, <2>1, <5>1 DEF After, n
        <5>3. s[i].end = s[1].start
          BY <1>3, <1>12, <5>2
        <5>4. before(1) = HandleIn(s[i])
          BY <1>12, <4>2
        <5>5. QED
          BY <1>7, <5>2, <5>3, <5>4
      <4>3. QED
        BY <1>4, <4>1, <4>2
    <3>3. s[i] \in Wired
      BY <1>4
    <3> DEFINE a == nodes[i]
               b == After(nodes, i)
    <3> HIDE DEF a, b
    <3>4. Between(a, b) = s[i]
      BY <3>1, <3>2, <3>3, NodesMakeTheSegment DEF a, b
    <3>5. QED
      BY <3>4 DEF a, b
  <2>3. [i \in 1 .. count |-> Between(nodes[i], After(nodes, i))] = s
    BY <1>1, <2>1, <2>2 DEF n
  <2>4. QED
    BY <1>6, <2>3 DEF closed, s
<1>13. CASE ~closed
  <2>1. nodes = starts \o <<end>> /\ count = Len(nodes) - 1
    BY <1>13
  <2>2. Len(nodes) = n + 1 /\ (\A i \in 1 .. n : nodes[i] = starts[i]) /\ nodes[n + 1] = end
    <3> DEFINE S == {starts[i] : i \in 1 .. n} \cup {end}
               one == <<end>>
    <3>1. one \in Seq(S) /\ Len(one) = 1 /\ one[1] = end
      OBVIOUS
    <3>2. starts \in Seq(S)
      BY <1>11
    <3>3. nodes = starts \o one
      BY <2>1
    <3> HIDE DEF S, one, nodes
    <3>4. /\ Len(starts \o one) = Len(starts) + Len(one)
          /\ \A k \in 1 .. Len(starts) + Len(one) :
                 (starts \o one)[k] = IF k <= Len(starts) THEN starts[k] ELSE one[k - Len(starts)]
      BY <3>1, <3>2, ConcatElements
    <3>5. /\ Len(nodes) = n + 1
          /\ \A k \in 1 .. n + 1 : nodes[k] = IF k <= n THEN starts[k] ELSE one[k - n]
      BY <1>11, <3>1, <3>3, <3>4
    <3>6. n + 1 \in 1 .. n + 1 /\ ~(n + 1 <= n) /\ (n + 1) - n = 1
      BY <1>4
    <3>7. QED
      BY <1>4, <3>1, <3>5, <3>6
  <2>3. count = n
    BY <1>4, <2>1, <2>2
  <2> HIDE DEF nodes, count
  <2>4. ASSUME NEW i \in 1 .. n PROVE Between(nodes[i], After(nodes, i)) = s[i]
    <3>1. nodes[i].at = s[i].start /\ nodes[i].control_out = HandleOut(s[i])
      BY <1>7, <1>9, <2>2
    <3>2. After(nodes, i).at = s[i].end /\ After(nodes, i).control_in = HandleIn(s[i])
      <4>1. i % (n + 1) = i
        BY <1>4
      <4>2. After(nodes, i) = nodes[i + 1]
        BY <2>2, <4>1 DEF After
      <4>3. CASE i < n
        <5>1. i % n = i /\ i + 1 \in 1 .. n
          BY <1>4, <4>3
        <5>2. After(nodes, i) = start(i + 1) /\ After(s, i) = s[i + 1]
          BY <1>9, <2>2, <4>2, <5>1 DEF After, n
        <5>3. s[i].end = s[i + 1].start
          BY <1>3, <4>3, <5>2
        <5>4. before(i + 1) = HandleIn(s[i])
          BY <4>3
        <5>5. QED
          BY <1>7, <5>1, <5>2, <5>3, <5>4
      <4>4. CASE i = n
        BY <1>8, <2>2, <4>2, <4>4
      <4>5. QED
        BY <1>4, <4>3, <4>4
    <3>3. s[i] \in Wired
      BY <1>4
    <3> DEFINE a == nodes[i]
               b == After(nodes, i)
    <3> HIDE DEF a, b
    <3>4. Between(a, b) = s[i]
      BY <3>1, <3>2, <3>3, NodesMakeTheSegment DEF a, b
    <3>5. QED
      BY <3>4 DEF a, b
  <2>5. [i \in 1 .. count |-> Between(nodes[i], After(nodes, i))] = s
    BY <1>1, <2>3, <2>4 DEF n
  <2>6. QED
    BY <1>6, <2>5 DEF closed, s
<1>14. QED
  BY <1>12, <1>13

\* Every path of segments is one object of the wire format.
LEMMA WholePathsAreObjects ==
  ASSUME NEW compound \in Seq(Whole)
  PROVE  ShapeToNeutral(compound) = [i \in 1 .. Len(compound) |-> PathToSubpath(compound[i])]
<1> DEFINE n == Len(compound)
           e == [i \in 1 .. n |-> PathToSubpath(compound[i])]
           object(path) == IF path.segments = <<>> THEN <<>> ELSE <<PathToSubpath(path)>>
           S == {PathToSubpath(compound[i]) : i \in 1 .. n}
           parts == [i \in 1 .. n |-> object(compound[i])]
<1>1. n \in Nat /\ DOMAIN compound = 1 .. n /\ \A i \in 1 .. n : compound[i] \in Whole
  OBVIOUS
<1>2. ShapeToNeutral(compound) = FlattenSeq(parts)
  BY <1>1 DEF ShapeToNeutral
<1>3. e \in [1 .. n -> S] /\ \A i \in 1 .. n : e[i] = PathToSubpath(compound[i])
  OBVIOUS
<1>4. parts = [i \in 1 .. n |-> <<e[i]>>]
  BY <1>1 DEF Whole
<1> HIDE DEF n, e, S, parts
<1>5. FlattenSeq(parts) = e
  BY <1>1, <1>3, <1>4, FlattenSingles
<1>6. QED
  BY <1>2, <1>5 DEF e, n

LEMMA ImportInvRoundTrips ==
  ASSUME ImportInv
  PROVE  GeometryRoundTrips
<1>1. SUFFICES ASSUME stage = "imported", NEW k \in DOMAIN output,
                      \A i \in 1 .. Len(FlattenArcs(output[k].segments)) :
                          \/ FlattenArcs(output[k].segments)[i].end
                                 = After(FlattenArcs(output[k].segments), i).start
                          \/ i = Len(FlattenArcs(output[k].segments)) /\ ~output[k].closed
               PROVE  NeutralToShape(neutral)[k]
                          = Path(FlattenArcs(output[k].segments), output[k].closed)
  <2>1. /\ \A run, closed : Path(run, closed).segments = run
        /\ \A run, closed : Path(run, closed).closed = closed
    BY DEF Path
  <2>2. QED
    BY <2>1 DEF GeometryRoundTrips
<1>2. output \in Seq(Whole) /\ neutral = ShapeToNeutral(output) /\ k \in 1 .. Len(output)
  BY <1>1 DEF ImportInv, StageInv, DrawnInv
<1>3. neutral = [i \in 1 .. Len(output) |-> PathToSubpath(output[i])]
  BY <1>2, WholePathsAreObjects
<1>4. NeutralToShape(neutral)[k] = SubpathToPath(PathToSubpath(output[k]))
  BY <1>2, <1>3 DEF NeutralToShape
<1> DEFINE path == output[k]
<1>5. path \in Whole
  BY <1>2
<1> HIDE DEF path
<1>6. SubpathToPath(PathToSubpath(path)) = Path(FlattenArcs(path.segments), path.closed)
  BY <1>1, <1>5, SubpathComesBack DEF path
<1>7. QED
  BY <1>4, <1>6 DEF path

LEMMA ImportInvPlaces ==
  ASSUME ImportInv
  PROVE  DrawnWhereNested
<1>1. /\ drawn \in Seq(Sketches(document)) /\ output \in Seq(Whole) /\ Len(output) = Len(Drawing)
      /\ stage \in {"walking", "scanning"} =>
             \A k \in 1 .. Len(Drawing) :
                 output[k] = ApplyTransformPath(Drawing[k].path,
                                 ParseTransform(ListsAround(document, Drawing[k].at)))
  BY DEF ImportInv, DrawnInv
<1>2. Drawing \in Seq(Traces(document))
  BY <1>1, DrawingType DEF Drawing
<1>3. SUFFICES ASSUME stage \in {"walking", "scanning"}, NEW k \in 1 .. Len(Drawing)
               PROVE  /\ Begin(output[k]) = MovedInwards(ListsAround(document, Drawing[k].at),
                                                         Begin(Drawing[k].path))
                      /\ Finish(output[k]) = MovedInwards(ListsAround(document, Drawing[k].at),
                                                          Finish(Drawing[k].path))
  <2>1. DOMAIN output = 1 .. Len(Drawing)
    BY <1>1
  <2>2. QED
    BY <1>1, <2>1 DEF DrawnWhereNested, Begin, Finish
<1> DEFINE path == Drawing[k].path
           lists == ListsAround(document, Drawing[k].at)
<1>4. Drawing[k] \in Traces(document)
  BY <1>2
<1>5. path \in Whole /\ lists \in Seq(Functional)
  BY <1>4, ListsAroundType DEF Traces
<1>6. output[k] = ApplyTransformPath(path, ParseTransform(lists))
  BY <1>1, <1>3
<1> HIDE DEF path, lists
<1>7. path \in Drawings /\ path.segments # <<>>
  BY <1>5 DEF Whole
<1>8. Begin(path) \in Plane /\ Finish(path) \in Plane
  <2>1. path.segments \in Seq(Strokes) /\ path.segments # <<>>
    BY <1>7 DEF Drawings
  <2>2. Head(path.segments) \in Strokes /\ Last(path.segments) \in Strokes
    BY <2>1 DEF Last
  <2>3. QED
    BY <2>2, DrawablesEnd DEF Begin, Finish
<1>9. ParseTransform(lists) \in Transforms
  BY <1>5, ParseTransformType
<1>10. /\ Begin(output[k]) = ApplyPoint(ParseTransform(lists), Begin(path))
       /\ Finish(output[k]) = ApplyPoint(ParseTransform(lists), Finish(path))
  BY <1>6, <1>7, <1>9, TransformPathEnds
<1>11. /\ ApplyPoint(ParseTransform(lists), Begin(path)) = MovedInwards(lists, Begin(path))
       /\ ApplyPoint(ParseTransform(lists), Finish(path)) = MovedInwards(lists, Finish(path))
  BY <1>5, <1>8, ParseTransformMoves
<1>12. QED
  BY <1>10, <1>11 DEF path, lists

LEMMA ImportInvTypes ==
  ASSUME ImportInv
  PROVE  TypeOK
<1>1. ScannerTypeOK
  BY ScannerInvTypes DEF ImportInv
<1>2. stage \in Stages /\ mm \in Int /\ (stage # "imported" => neutral = <<>>)
  BY DEF ImportInv, StageInv
<1>3. scan = "idle" => stage # "scanning"
  BY DEF ImportInv, ScanningInv
<1>4. QED
  BY <1>1, <1>2, <1>3 DEF TypeOK

LEMMA ScannerInvKeepsControlsFresh ==
  ASSUME ScannerInv
  PROVE  SmoothControlsAreFresh
BY DEF ScannerInv, FreshInv, SmoothControlsAreFresh

\* The stages, the pen and the stack of svg_to_neutral, for every document.
THEOREM ImportTypes == Spec => []TypeOK
<1>1. ImportInv => TypeOK
  BY ImportInvTypes
<1>2. QED
  BY <1>1, ImportInvariance, PTL

\* Every subpath that _parse_path_d returns is a chain of segments, and a closed one
\* comes back to its start, for every path data and every rounding error of the arcs.
THEOREM EverySubpathIsAChain == Spec => []SubpathsAreChains
<1>1. ImportInv => SubpathsAreChains
  BY ScannerInvMakesChains DEF ImportInv
<1>2. QED
  BY <1>1, ImportInvariance, PTL

\* S and T never reflect a control point that is not of the segment before them
\* (last_cubic_control and last_quad_control of _parse_path_d).
THEOREM ControlsStayFresh == Spec => []SmoothControlsAreFresh
<1>1. ImportInv => SmoothControlsAreFresh
  BY ScannerInvKeepsControlsFresh DEF ImportInv
<1>2. QED
  BY <1>1, ImportInvariance, PTL

\* The walk leaves out no shape and no path with data, draws none twice and keeps document
\* order, through groups and unknown elements at any depth (_walk, svg_io.py:580-652).
THEOREM DrawnInOrder == Spec => []DrawnInDocumentOrder
<1>1. ImportInv /\ WalkOrderInv => DrawnInDocumentOrder
  BY OrderInvDraws
<1>2. QED
  BY <1>1, OrderInvariance, PTL

\* The two ends of every path drawn go through the transforms of the document around its
\* element one after the other, from the root inwards and each exactly once, at any depth
\* (_walk, _parse_transform, apply_transform_path; svg_io.py:586, 677).
THEOREM TransformsPlaceTheDrawing == Spec => []DrawnWhereNested
<1>1. ImportInv => DrawnWhereNested
  BY ImportInvPlaces
<1>2. QED
  BY <1>1, ImportInvariance, PTL

\* What svg_to_neutral puts on the wire comes back as the paths it was made of, arcs as
\* their Beziers (neutral_io.shape_to_neutral, neutral_to_shape).
THEOREM ImportedGeometryRoundTrips == Spec => []GeometryRoundTrips
<1>1. ImportInv => GeometryRoundTrips
  BY ImportInvRoundTrips
<1>2. QED
  BY <1>1, ImportInvariance, PTL

-----------------------------------------------------------------------------
(* How the loop of the scanner ends: the safe half of ScanEnds.            *)

\* A command takes its letter, if there is one, and its numbers.
LEMMA TurnConsumes ==
  ASSUME PenTypes, NEW letter \in Letters, Turn(letter)
  PROVE  /\ Len(data') < Len(data) \/ (NumbersAfterClose /\ letter = "Z")
         /\ ~LetterAhead /\ letter = "Z" => data' = data
<1> DEFINE a == Arity[letter]
           k == Len(Numbers)
           l == Len(data)
<1>1. data \in Seq(Tokens) /\ data # <<>> /\ l \in Nat /\ l # 0
  BY DEF PenTypes, Turn
<1>2. /\ Numbers \in Seq(Tokens)
      /\ LetterAhead => k = l - 1
      /\ ~LetterAhead => Numbers = data
  BY <1>1 DEF Numbers
<1>3. a \in Nat /\ (a = 0 <=> letter = "Z")
  BY DEF Arity, Letters
<1>4. k \in Nat /\ a <= k
  <2>1. k >= a
    BY DEF Turn, Complete
  <2>2. k \in Nat
    BY <1>2
  <2> HIDE DEF a, k
  <2>3. QED
    BY <1>3, <2>1, <2>2
<1>5. data' = SubSeq(Numbers, a + 1, k)
  BY DEF Turn
<1>6. Len(data') = k - a
  <2>1. a + 1 \in 1 .. k + 1 /\ k \in (a + 1) - 1 .. k
    BY <1>3, <1>4
  <2> HIDE DEF a, k
  <2>2. Len(SubSeq(Numbers, a + 1, k)) = IF a + 1 <= k THEN (k - (a + 1)) + 1 ELSE 0
    BY <1>2, <1>3, <1>4, <2>1
  <2>3. QED
    BY <1>3, <1>4, <1>5, <2>2
<1>7. ~LetterAhead /\ letter = "Z" => data' = data
  <2>1. SUFFICES ASSUME ~LetterAhead, letter = "Z" PROVE data' = data
    OBVIOUS
  <2>2. data' = SubSeq(data, 1, Len(data))
    BY <1>2, <1>3, <1>5, <2>1
  <2>3. QED
    BY <1>1, <2>2
<1>8. CASE LetterAhead \/ letter # "Z"
  <2> HIDE DEF a, k, l
  <2>1. LetterAhead => k - a < l
    BY <1>1, <1>2, <1>3, <1>4
  <2>2. ~LetterAhead => k = l
    BY <1>2 DEF k, l
  <2>3. letter # "Z" => a > 0
    BY <1>3
  <2>4. k - a < l
    BY <1>1, <1>3, <1>4, <1>8, <2>1, <2>2, <2>3
  <2>5. QED
    BY <1>6, <1>7, <1>8, <2>4 DEF l
<1>9. CASE ~LetterAhead /\ letter = "Z"
  <2>1. scan = "scanning" /\ lastCommand.letter = "Z"
    BY <1>9 DEF Turn, Command
  <2>2. NumbersAfterClose
    BY <1>1, <1>9, <2>1 DEF NumbersAfterClose
  <2>3. QED
    BY <1>7, <1>9, <2>2
<1>10. QED
  BY <1>8, <1>9

\* Every turn is one of a command, or the last one.
LEMMA TurnsAreOfCommands ==
  ASSUME ScanTurn
  PROVE  (\E letter \in Letters : Turn(letter)) \/ ScanRaises \/ EndOfData
<1>1. {"M", "Z", "L", "H", "V", "C", "S", "Q", "T", "A"} \subseteq Letters
  BY DEF Letters
<1>2. QED
  BY <1>1 DEF ScanTurn, MoveTo, ClosePath, LineTo, HorizontalTo, VerticalTo, CubicTo,
              SmoothCubicTo, QuadTo, SmoothQuadTo, ArcTo

\* A turn ends the scan or reads on, unless there are numbers behind a closepath.
ReadsOn == Scan => scan' # "scanning" \/ Len(data') < Len(data) \/ NumbersAfterClose

LEMMA ScanReadsOn ==
  ASSUME ScannerInv
  PROVE  ReadsOn
<1>1. SUFFICES ASSUME ScanTurn
               PROVE  scan' # "scanning" \/ Len(data') < Len(data) \/ NumbersAfterClose
  BY DEF ReadsOn, Scan
<1>2. CASE \E letter \in Letters : Turn(letter)
  BY <1>2, TurnConsumes DEF ScannerInv
<1>3. CASE ScanRaises \/ EndOfData
  BY <1>3 DEF ScanRaises, EndOfData
<1>4. QED
  BY <1>1, <1>2, <1>3, TurnsAreOfCommands

\* The loop turns in no other stage.
LoopInv == ImportInv /\ (scan = "scanning" => stage = "scanning")

LEMMA LoopInvariance == Spec => []LoopInv
<1>1. Init => LoopInv
  BY StartsImporting DEF LoopInv, Init, ScanInit
<1>2. LoopInv /\ [Next]_vars => LoopInv'
  <2> SUFFICES ASSUME LoopInv, [Next]_vars PROVE scan' = "scanning" => stage' = "scanning"
    BY NextKeepsImportInv DEF LoopInv
  <2>1. CASE scan' = scan /\ stage' = stage
    BY <2>1 DEF LoopInv
  <2>2. CASE scan' = scan /\ stage # "scanning"
    BY <2>2 DEF LoopInv
  <2>3. CASE stage' = "scanning"
    BY <2>3
  <2>4. CASE scan' = scan /\ scan # "scanning"
    BY <2>4
  <2>5. CASE UNCHANGED scanner
    <3>1. scan' = scan
      BY <2>5 DEF scanner
    <3>2. CASE stage = "scanning" /\ stage' # stage
      <4>1. ExtractPath \/ BadElement
        BY <3>2 DEF Next, vars, StartImport, BadRoot, WalkChildren, ExtractShape, SkipPath, ScanPath, Scan,
                    ScaleToMm, NothingSupported, ToNeutral, Visiting
      <4>2. scan \in {"scanned", "malformed"}
        BY <3>2, <4>1 DEF ExtractPath, BadElement
      <4>3. QED
        BY <3>1, <4>2
    <3>3. QED
      BY <2>1, <2>2, <3>1, <3>2
  <2>6. Scan \/ ScanPath \/ UNCHANGED scanner
    BY DEF Next, vars, StartImport, BadRoot, WalkChildren, ExtractShape, SkipPath,
           ExtractPath, BadElement, ScaleToMm, NothingSupported, ToNeutral, Raises
  <2>7. Scan \/ ScanPath => stage' = "scanning"
    BY DEF Scan, ScanPath
  <2>8. QED
    BY <2>3, <2>5, <2>6, <2>7
<1>3. QED
  BY <1>1, <1>2, PTL DEF Spec

\* Behind a closepath, numbers are read by nobody.
LEMMA NumbersStay ==
  ASSUME LoopInv, [Next]_vars, NumbersAfterClose
  PROVE  NumbersAfterClose'
<1>1. /\ scan = "scanning" /\ stage = "scanning" /\ data # <<>> /\ ~LetterAhead
      /\ lastCommand.letter = "Z" /\ PenTypes
  BY DEF LoopInv, NumbersAfterClose, ImportInv, ScannerInv
<1>2. Command = lastCommand
  BY <1>1 DEF Command
<1>3. data' = data /\ scan' = scan /\ lastCommand' = lastCommand
  <2>1. CASE UNCHANGED vars
    BY <2>1 DEF vars, scanner, pen
  <2>2. CASE Next
    <3>1. ScanTurn
      BY <1>1, <2>2 DEF Next, StartImport, BadRoot, WalkChildren, ExtractShape, SkipPath, ScanPath, Scan,
                        ExtractPath, BadElement, ScaleToMm, NothingSupported, ToNeutral, Visiting
    <3>2. Complete("Z")
      <4>1. Numbers = data /\ data \in Seq(Tokens) /\ Arity["Z"] = 0
        BY <1>1 DEF Numbers, PenTypes, Arity
      <4>2. QED
        BY <4>1 DEF Complete
    <3>3. ~ScanRaises /\ ~EndOfData
      BY <1>1, <1>2, <3>2 DEF ScanRaises, EndOfData
    <3>4. \A letter \in Letters : Turn(letter) => letter = "Z"
      BY <1>1, <1>2 DEF Turn
    <3>5. ClosePath
      BY <3>1, <3>3, <3>4 DEF ScanTurn, MoveTo, LineTo, HorizontalTo, VerticalTo, CubicTo,
              SmoothCubicTo, QuadTo, SmoothQuadTo, ArcTo, Letters
    <3>6. Turn("Z") /\ lastCommand' = Command
      BY <3>5 DEF ClosePath
    <3>7. "Z" \in Letters
      BY DEF Letters
    <3>8. data' = data /\ scan' = scan
      <4>1. data' = data
        BY <1>1, <3>6, <3>7, TurnConsumes
      <4>2. QED
        BY <3>6, <4>1 DEF Turn
    <3>9. QED
      BY <1>2, <3>6, <3>8
  <2>3. QED
    BY <2>1, <2>2
<1>4. QED
  BY <1>1, <1>3 DEF NumbersAfterClose, LetterAhead

\* Every turn of the scanner's loop ends it or leaves fewer tokens, but for the turn of
\* a closepath that is repeated because numbers follow it (_parse_path_d, svg_io.py:395).
THEOREM TurnsReadOn == Spec => [][ReadsOn]_vars
<1>1. ImportInv => ReadsOn
  BY ScanReadsOn DEF ImportInv
<1>2. QED
  BY <1>1, ImportInvariance, PTL

\* That one is repeated for ever: once there are numbers behind a closepath, the scan
\* never ends, with subpaths or with an exception (svg_io.py:395, 416-424).
THEOREM NumbersAfterCloseAreForGood == Spec => [](NumbersAfterClose => []NumbersAfterClose)
<1>1. LoopInv /\ [Next]_vars /\ NumbersAfterClose => NumbersAfterClose'
  BY NumbersStay
<1>2. QED
  BY <1>1, LoopInvariance, PTL DEF Spec
=============================================================================

