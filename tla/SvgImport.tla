----------------------------- MODULE SvgImport -----------------------------
(***************************************************************************)
(* svg_io.svg_to_neutral: resolve the unit, walk the element tree with the *)
(* transforms it nests, scan the path data, scale to millimetres, validate *)
(* and convert to the wire format.                                         *)
(*                                                                         *)
(* `pending` is the stack of the recursion of _walk; an entry carries the  *)
(* transform inherited.  The place of an element, the number of the child  *)
(* to take at each level, is history, and so is `drawn`: the paths of each *)
(* element extracted, before any transform.                                *)
(***************************************************************************)
EXTENDS SvgElements, NeutralIo

CONSTANTS
    Documents,     \* families of documents
    Elements(_),   \* the elements a family is made of
    Places         \* where a document may have an element

Functions == [name : STRING, args : Seq(Int)]

NumbersOf(element) ==
    CASE element.tag = "circle" -> {element.cx, element.cy, element.r}
      [] element.tag = "ellipse" -> {element.cx, element.cy, element.rx, element.ry}
      [] element.tag = "rect" -> {element.x, element.y, element.width, element.height}
                                     \cup element.rx \cup element.ry
      [] element.tag = "line" -> {element.x1, element.y1, element.x2, element.y2}
      [] OTHER -> {}

\* Numbers are numbers and lists are lists: an attribute that says something else
\* raises where it is read.
ASSUME DocumentsAssumption ==
    \A family \in Documents :
        LET elements == Elements(family)
        IN  /\ \A root \in family :
                /\ root.transform \in Seq(Functions)
                /\ root.children \in Seq(elements)
                /\ root.width \subseteq [value : Int, unit : STRING]
                /\ root.viewBox \subseteq Seq(Int)
            /\ \A e \in elements :
                /\ e.transform \in Seq(Functions)
                /\ e.children \in Seq(elements)
                /\ NumbersOf(e) \subseteq Int
                /\ e.tag = "path" => e.d \in Seq(Tokens)
                /\ e.tag \in {"polygon", "polyline"} => e.points \in Seq(Int)

ASSUME PlacesAssumption == Places \subseteq Seq(Nat)

VARIABLES stage, document, pending, inherited, output, mm, neutral, scannedAt, drawn

walk == <<document, pending, inherited, output, mm, neutral, scannedAt, drawn>>
vars == <<stage, walk, scanner>>

Raises == stage' = "raised" /\ UNCHANGED <<walk, scanner>>

\* An element with the transform inherited and its place.
Entry(element, t, place) == [element |-> element, inherited |-> t, place |-> place]

Entries(element, t, place) ==
    [i \in DOMAIN element.children |-> Entry(element.children[i], t, Append(place, i))]

ReadableList(element) == \A i \in DOMAIN element.transform : Readable(element.transform[i])

-----------------------------------------------------------------------------
(* parse_svg_string *)

StartImport ==
    /\ stage = "given"
    /\ ScaleResolves(document)
    /\ ReadableList(document)
    /\ mm' = ResolvedScale(document)
    /\ pending' = Entries(document, ParseTransform(document.transform), <<>>)
    /\ stage' = "walking"
    /\ UNCHANGED <<document, inherited, output, neutral, scannedAt, drawn, scanner>>

BadRoot ==
    /\ stage = "given"
    /\ ~(ScaleResolves(document) /\ ReadableList(document))
    /\ Raises

-----------------------------------------------------------------------------
(* _walk *)

Visiting(tags) ==
    /\ stage = "walking"
    /\ pending # <<>>
    /\ Head(pending).element.tag \in tags
    /\ ReadableList(Head(pending).element)

Now == Head(pending)
LocalTransform == Then(Now.inherited, ParseTransform(Now.element.transform))

\* Groups, and every element this importer does not know, e.g. defs and clipPath.
Containers == {"g", "svg", "a", "defs", "clipPath", "text"}

\* Mutant: the children are walked when everything that waits has been.
ChildrenLater ==
    /\ Visiting(Containers)
    /\ pending' = Tail(pending) \o Entries(Now.element, LocalTransform, Now.place)
    /\ UNCHANGED <<stage, document, inherited, output, mm, neutral, scannedAt, drawn, scanner>>

WalkChildren ==
    /\ Visiting(Containers)
    /\ pending' = Entries(Now.element, LocalTransform, Now.place) \o Tail(pending)
    /\ UNCHANGED <<stage, document, inherited, output, mm, neutral, scannedAt, drawn, scanner>>

Extract(extracted, t, place) ==
    /\ output' = output \o [i \in DOMAIN extracted |-> ApplyTransformPath(extracted[i], t)]
    /\ drawn' = Append(drawn, [at |-> place, paths |-> extracted])

ExtractShape ==
    /\ Visiting(Shapes)
    /\ WellFormed(Now.element)
    /\ \E drift \in {0, Drift} :
           Extract(<<ShapePath(Now.element, drift)>>, LocalTransform, Now.place)
    /\ pending' = Tail(pending)
    /\ UNCHANGED <<stage, document, inherited, mm, neutral, scannedAt, scanner>>

\* Without path data there is nothing to extract.
SkipPath ==
    /\ Visiting({"path"})
    /\ Now.element.d = <<>>
    /\ pending' = Tail(pending)
    /\ UNCHANGED <<stage, document, inherited, output, mm, neutral, scannedAt, drawn, scanner>>

ScanPath ==
    /\ Visiting({"path"})
    /\ Now.element.d # <<>>
    /\ StartScan(Now.element.d)
    /\ inherited' = LocalTransform
    /\ scannedAt' = Now.place
    /\ pending' = Tail(pending)
    /\ stage' = "scanning"
    /\ UNCHANGED <<document, output, mm, neutral, drawn>>

Scan == stage = "scanning" /\ ScanTurn /\ UNCHANGED <<stage, walk>>

ExtractPath ==
    /\ stage = "scanning"
    /\ scan = "scanned"
    /\ Extract(paths, inherited, scannedAt)
    /\ stage' = "walking"
    /\ UNCHANGED <<document, pending, inherited, mm, neutral, scannedAt, scanner>>

BadElement ==
    \/ /\ stage = "walking"
       /\ pending # <<>>
       /\ \/ ~ReadableList(Now.element)
          \/ Now.element.tag \in Shapes /\ ~WellFormed(Now.element)
       /\ Raises
    \/ stage = "scanning" /\ scan = "malformed" /\ Raises

-----------------------------------------------------------------------------
(* The rest of parse_svg_string and svg_to_neutral. *)

ScaleToMm ==
    /\ stage = "walking" /\ pending = <<>> /\ output # <<>>
    /\ output' = ApplyTransform(output, Scale(mm, mm))
    /\ stage' = "parsed"
    /\ UNCHANGED <<document, pending, inherited, mm, neutral, scannedAt, drawn, scanner>>

NothingSupported ==
    /\ stage = "walking" /\ pending = <<>> /\ output = <<>>
    /\ Raises

\* validate_geometry blocks paths without segments, the schema check empty subpaths.
ToNeutral ==
    /\ stage = "parsed"
    /\ \A i \in DOMAIN output : output[i].segments # <<>>
    /\ neutral' = ShapeToNeutral(output)
    /\ stage' = "imported"
    /\ UNCHANGED <<document, pending, inherited, output, mm, scannedAt, drawn, scanner>>

-----------------------------------------------------------------------------
Init ==
    /\ \E family \in Documents : document \in family
    /\ stage = "given"
    /\ pending = <<>> /\ output = <<>> /\ neutral = <<>> /\ drawn = <<>> /\ scannedAt = <<>>
    /\ inherited = Identity /\ mm = 0
    /\ ScanInit

Next ==
    \/ StartImport \/ BadRoot \/ WalkChildren \/ ExtractShape \/ SkipPath \/ ScanPath
    \/ Scan \/ ExtractPath \/ BadElement \/ ScaleToMm \/ NothingSupported \/ ToNeutral

\* Nothing else runs in the thread while the loop of the scanner turns.
Spec == Init /\ [][Next]_vars /\ WF_vars(Scan)

-----------------------------------------------------------------------------
Stages == {"given", "walking", "scanning", "parsed", "imported", "raised"}

\* The stages, the pen and the stack of the walk.
TypeOK ==
    /\ stage \in Stages
    /\ ScannerTypeOK
    /\ scan = "idle" => stage # "scanning"
    /\ mm \in Int
    /\ stage # "imported" => neutral = <<>>

\* Numbers behind a closepath: the only place where the loop of the scanner turns
\* without reading anything.
NumbersAfterClose ==
    /\ scan = "scanning"
    /\ data # <<>>
    /\ ~LetterAhead
    /\ lastCommand.letter = "Z"

\* Every scan comes to an end, with subpaths or an exception, unless it meets numbers
\* behind a closepath: the loop at svg_io.py:395 then never ends.
ScanEnds == (scan = "scanning") ~> (scan \in {"scanned", "malformed"} \/ NumbersAfterClose)

-----------------------------------------------------------------------------
(* The document, read without the walk. *)

\* The elements on the way from the root down to a place.
Descent(root, place) ==
    LET down[n \in 0 .. Len(place)] ==
            IF n = 0 THEN root ELSE down[n - 1].children[place[n]]
    IN  down

ElementAt(root, place) == Descent(root, place)[Len(place)]

\* The transform lists from the root down to a place, as one list.
ListsAround(root, place) ==
    FlattenSeq([n \in 1 .. Len(place) + 1 |-> Descent(root, place)[n - 1].transform])

\* There is an element at the place, and only groups and unknown elements around it.
Reached(root, place) ==
    /\ place # <<>>
    /\ \A n \in DOMAIN place :
        LET parent == Descent(root, place)[n - 1]
        IN  (n > 1 => parent.tag \in Containers) /\ place[n] \in DOMAIN parent.children

\* A shape, or a path with data.
IsDrawing(element) == element.tag \in Shapes \/ (element.tag = "path" /\ element.d # <<>>)

Drawable(root, place) == Reached(root, place) /\ IsDrawing(ElementAt(root, place))

\* Document order of two places neither of which is inside the other.
Precedes(p, q) ==
    \E n \in DOMAIN p \cap DOMAIN q : p[n] < q[n] /\ \A m \in 1 .. n - 1 : p[m] = q[m]

\* What is drawn are drawings of the document, each once and in document order, a shape
\* as its one path; when the walk is over none is left out (_walk, svg_io.py:580-652).
DrawnInDocumentOrder ==
    /\ \A k \in DOMAIN drawn :
        LET element == ElementAt(document, drawn[k].at)
        IN  /\ Drawable(document, drawn[k].at)
            /\ \A j \in 1 .. k - 1 : Precedes(drawn[j].at, drawn[k].at)
            /\ element.tag \in Shapes =>
                   \E drift \in {0, Drift} : drawn[k].paths = <<ShapePath(element, drift)>>
    /\ (stage = "walking" /\ pending = <<>>) \/ stage \in {"parsed", "imported"} =>
           \A place \in Places :
               Drawable(document, place) => \E k \in DOMAIN drawn : drawn[k].at = place

PathsOf(extraction) ==
    [i \in DOMAIN extraction.paths |-> [path |-> extraction.paths[i], at |-> extraction.at]]

\* The paths drawn so far, each with its place.
Drawing == FlattenSeq([k \in DOMAIN drawn |-> PathsOf(drawn[k])])

Outwards(fn, p) == ApplyPoint(Matrix(fn), p)
Inwards(p, fn) == ApplyPoint(Matrix(fn), p)

\* Where the functions of a list put a point one after the other, the first one first.
MovedInwards(lists, p) == FoldLeft(Inwards, p, lists)

\* Until it is scaled to millimetres, the output is the drawing, path by path, each with
\* its ends where the transforms of the document around its element put them, one after
\* the other from the root inwards (svg_io.py:586, 677; transform.py:47-56).
DrawnWhereNested ==
    stage \in {"walking", "scanning"} =>
        /\ Len(output) = Len(Drawing)
        /\ \A k \in DOMAIN output :
            LET curves == Drawing[k].path.segments
                lists == ListsAround(document, Drawing[k].at)
            IN  /\ Head(output[k].segments).start = MovedInwards(lists, Head(curves).start)
                /\ Last(output[k].segments).end = MovedInwards(lists, Last(curves).end)

\* svg_io.py:20, 697: nested <g> groups with `transform` are converted faithfully.
\* The transform of an element is in the coordinates of the group around it, so the
\* innermost function moves a point first.
DrawnAsInSvg ==
    stage \in {"walking", "scanning"} =>
        \A k \in DOMAIN output :
            Head(output[k].segments).start =
                FoldRight(Outwards, ListsAround(document, Drawing[k].at),
                          Head(Drawing[k].path.segments).start)

\* A path whose segments meet exactly, arcs as their Beziers, comes back from the
\* wire format as it was ("Line/Bezier geometry round-trips exactly").
GeometryRoundTrips ==
    stage = "imported" =>
        \A k \in DOMAIN output :
            LET path == Path(FlattenArcs(output[k].segments), output[k].closed)
                n == Len(path.segments)
                joined(i) == path.segments[i].end = After(path.segments, i).start
            IN  (\A i \in 1 .. n : joined(i) \/ (i = n /\ ~path.closed))
                    => NeutralToShape(neutral)[k] = path

\* Every arc of the imported shape is an arc of a circle: both ends are one radius away
\* from the centre (transform.py:8-14).
ArcsStayCircular ==
    \A k \in DOMAIN output : \A i \in DOMAIN output[k].segments :
        LET arc == output[k].segments[i]
        IN  arc.kind = "arc" =>
                /\ SquaredDistance(arc.centre, arc.start) = arc.squaredRadius
                /\ SquaredDistance(arc.centre, arc.end) = arc.squaredRadius
=============================================================================
