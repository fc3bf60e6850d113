---------------------------- MODULE SvgElements ----------------------------
(***************************************************************************)
(* svg_io: the attributes of an element: its transform list, the unit of   *)
(* the root, and the basic shapes as paths (model.py for circles, ellipses *)
(* and polygons).  An attribute that may be missing is a set of at most    *)
(* one value.  Lengths are multiples of 12.                                *)
(***************************************************************************)
EXTENDS SvgScanner

CONSTANT UnitToMm     \* millimetres of each unit, a function of the units known
ASSUME UnitAssumption ==
    /\ UnitToMm \in [DOMAIN UnitToMm -> Int]
    /\ {"", "mm"} \subseteq DOMAIN UnitToMm

ValueOf(attribute) == CHOOSE v \in attribute : TRUE
Lesser(m, n) == IF m < n THEN m ELSE n

-----------------------------------------------------------------------------
(* _parse_transform.  A function is [name, args]; angles are quarter turns, *)
(* and the only skew is by 45 degrees.                                      *)

Readable(fn) ==
    \/ fn.name \in {"translate", "scale", "rotate", "skewX", "skewY"} /\ fn.args # <<>>
    \/ fn.name = "matrix" /\ Len(fn.args) = 6

Matrix(fn) ==
    LET arg == fn.args
        second(default) == IF Len(arg) > 1 THEN arg[2] ELSE default
    IN  CASE fn.name = "translate" -> Translate(arg[1], second(0))
          [] fn.name = "scale" -> Scale(arg[1], second(arg[1]))
          [] fn.name = "rotate" ->
                Rotate(arg[1], IF Len(arg) >= 3 THEN Point(arg[2], arg[3]) ELSE Point(0, 0))
          [] fn.name = "matrix" -> Transform(arg[1], arg[2], arg[3], arg[4], arg[5], arg[6])
          [] fn.name = "skewX" -> Transform(1, 0, arg[1], 1, 0, 0)
          [] fn.name = "skewY" -> Transform(1, arg[1], 0, 1, 0, 0)

ParseTransform(functions) ==
    LET append(t, fn) == Then(t, Matrix(fn)) IN FoldLeft(append, Identity, functions)

-----------------------------------------------------------------------------
(* _resolve_scale.  A length is [value, unit], a viewBox its numbers.       *)

ScaleResolves(root) ==
    LET known == \A length \in root.width : length.unit \in DOMAIN UnitToMm
    IN  /\ known
        /\ root.width # {} => \/ root.viewBox # {}
                              \/ ValueOf(root.width).value > 0
        /\ root.width # {} /\ root.viewBox # {} =>
               Len(ValueOf(root.viewBox)) = 4 /\ ValueOf(root.viewBox)[3] > 0

ResolvedScale(root) ==
    IF root.width # {}
    THEN LET length == ValueOf(root.width)
             mm == UnitToMm[length.unit]
         IN  IF root.viewBox = {} THEN mm
             ELSE (length.value * mm) \div ValueOf(root.viewBox)[3]
    ELSE IF root.viewBox # {} THEN UnitToMm[""] ELSE UnitToMm["mm"]

-----------------------------------------------------------------------------
(* The shapes. *)

\* Four quarter turns, counter-clockwise from angle 0.
CirclePath(centre, r) ==
    LET at(i) == Point(centre.x + r * Compass(i).x, centre.y + r * Compass(i).y)
    IN  Path([i \in 1 .. 4 |-> Arc(at(i - 1), at(i), centre, r * r, FALSE)], TRUE)

EllipsePath(centre, rx, ry) ==
    LET at(i) == Point(centre.x + rx * Compass(i).x, centre.y + ry * Compass(i).y)
        corner(i) == Point(at(i).x + at(i - 1).x - centre.x, at(i).y + at(i - 1).y - centre.y)
    IN  Path([i \in 1 .. 4 |-> Bezier(at(i - 1), Midway(at(i - 1), corner(i)),
                                     Midway(at(i), corner(i)), at(i))], TRUE)

\* _parse_rect_element: a missing radius takes the other, and none exceeds half a side.
RectPath(rect, drift) ==
    LET x == rect.x  y == rect.y  w == rect.width  h == rect.height
        radius(one, other, side) ==
            IF one \cup other = {} THEN 0
            ELSE Lesser(ValueOf(IF one # {} THEN one ELSE other), side \div 2)
        rx == radius(rect.rx, rect.ry, w)
        ry == radius(rect.ry, rect.rx, h)
        p == <<Point(x + rx, y), Point(x + w - rx, y), Point(x + w, y + ry), Point(x + w, y + h - ry),
               Point(x + w - rx, y + h), Point(x + rx, y + h), Point(x, y + h - ry), Point(x, y + ry)>>
        side(i) == <<Line(p[i], p[i + 1])>> \o ArcSegments(p[i + 1], rx, ry, FALSE, FALSE, TRUE,
                                                         After(p, i + 1), drift)
    IN  IF rx <= 0 \/ ry <= 0
        THEN PolygonPath(<<Point(x, y), Point(x + w, y), Point(x + w, y + h), Point(x, y + h)>>, TRUE)
        ELSE Path(side(1) \o side(3) \o side(5) \o side(7), TRUE)

Shapes == {"circle", "ellipse", "rect", "polygon", "polyline", "line"}

\* The checks before a shape is built; `points` is a list of coordinates.
WellFormed(shape) ==
    CASE shape.tag = "circle" -> shape.r > 0
      [] shape.tag = "ellipse" -> shape.rx > 0 /\ shape.ry > 0
      [] shape.tag = "rect" -> shape.width > 0 /\ shape.height > 0
      [] shape.tag = "polygon" -> Len(shape.points) % 2 = 0 /\ Len(shape.points) >= 6
      [] shape.tag = "polyline" -> Len(shape.points) % 2 = 0 /\ Len(shape.points) >= 4
      [] shape.tag = "line" -> TRUE

ShapePath(shape, drift) ==
    LET listed == [i \in 1 .. Len(shape.points) \div 2 |->
                       Point(shape.points[2 * i - 1], shape.points[2 * i])]
    IN  CASE shape.tag = "circle" -> CirclePath(Point(shape.cx, shape.cy), shape.r)
          [] shape.tag = "ellipse" -> EllipsePath(Point(shape.cx, shape.cy), shape.rx, shape.ry)
          [] shape.tag = "rect" -> RectPath(shape, drift)
          [] shape.tag \in {"polygon", "polyline"} -> PolygonPath(listed, shape.tag = "polygon")
          [] shape.tag = "line" ->
                Path(<<Line(Point(shape.x1, shape.y1), Point(shape.x2, shape.y2))>>, FALSE)
=============================================================================
