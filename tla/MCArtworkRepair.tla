--------------------------- MODULE MCArtworkRepair ---------------------------
(* Model checking of ArtworkRepair: a body and up to two further subpaths   *)
(* from a catalogue of small outlines.                                      *)
EXTENDS ArtworkRepair

P(x, y) == Point(x, y)

Box(x, y, size) == <<P(x, y), P(x + size, y), P(x + size, y + size), P(x, y + size)>>

Closed(ring) == PolygonPath(ring, TRUE)
Clockwise(ring) == PolygonPath(Reverse(ring), TRUE)

\* A closed path through these points, the last of which need not be the first.
Traced(points) == Path([i \in 1 .. Len(points) - 1 |-> Line(points[i], points[i + 1])], TRUE)

Dumbbell == <<P(0, 0), P(80, 0), P(80, 88), P(120, 88), P(120, 0), P(200, 0),
              P(200, 200), P(120, 200), P(120, 112), P(80, 112), P(80, 200), P(0, 200)>>

Spike == <<P(0, 0), P(200, 40), P(200, 88)>>

\* A gap as wide as the prongs beside it.
Comb == <<P(0, 0), P(260, 0), P(260, 200), P(160, 200), P(160, 40), P(136, 40),
          P(136, 200), P(112, 200), P(112, 40), P(88, 40), P(88, 200), P(0, 200)>>

Bodies == {
    Closed(Box(0, 0, 200)), Clockwise(Box(0, 0, 200)), Closed(Dumbbell), Closed(Comb),
    Closed(Spike), Closed(<<P(200, 88), P(0, 0), P(200, 40)>>),
    \* a short segment, a gap at the end, a stub beyond the start, a curved side
    Traced(<<P(0, 0), P(200, 0), P(202, 1), P(200, 200), P(0, 200), P(6, 3)>>),
    Traced(<<P(0, 0), P(200, 0), P(200, 200), P(0, 200), P(0, 0), P(6, 6)>>),
    Path(<<Line(P(0, 0), P(200, 0)), Curve("arc", P(200, 0), <<P(240, 100)>>, P(200, 200)),
           Line(P(200, 200), P(0, 0))>>, TRUE)}

Details == {
    Clockwise(Box(60, 60, 80)), Clockwise(Box(20, 20, 28)), Closed(Box(148, 148, 36)),
    Closed(Box(216, 80, 20)), Closed(<<P(280, 80), P(320, 80), P(320, 120)>>),
    PolygonPath(Reverse(Box(20, 120, 28)), FALSE),
    \* open, around one of the loose boxes; a sliver that rounding turns over
    PolygonPath(Reverse(Box(208, 72, 40)), FALSE),
    Traced(<<P(100, 100), P(108, 101), P(117, 102), P(100, 100)>>),
    PolygonPath(<<P(20, 20), P(60, 20)>>, FALSE), PolygonPath(<<P(20, 20), P(60, 20)>>, TRUE),
    Traced(<<P(100, 20), P(102, 20), P(102, 22), P(100, 20)>>),
    \* out and almost back
    Traced(<<P(216, 20), P(280, 20), P(218, 26)>>)}

Loose == {Closed(Box(148, 148, 36)), Closed(Box(216, 80, 20)), Closed(Box(280, 80, 20))}

MCArtworks ==
    UNION {{<<b>>, <<b, c>>, <<c, b>>, <<b, c, d>>} : b \in Bodies, c \in Details, d \in Loose}

MCSamples == {P(10, 30), P(34, 40), P(110, 99), P(30, 130), P(170, 170), P(226, 90), P(150, 45)}
=============================================================================
