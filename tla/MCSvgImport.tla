---------------------------- MODULE MCSvgImport ----------------------------
(* Model checking of SvgImport: one path with up to four commands of a      *)
(* catalogue, and trees of groups, transforms and shapes.                   *)
EXTENDS SvgImport

Unit == [u \in {"mm", "cm", "px", ""} |-> IF u = "mm" THEN 4 ELSE IF u = "cm" THEN 40 ELSE 1]

Up(letter, numbers) == <<Letter(letter, FALSE)>> \o [i \in DOMAIN numbers |-> Number(numbers[i])]
Low(letter, numbers) == <<Letter(letter, TRUE)>> \o [i \in DOMAIN numbers |-> Number(numbers[i])]

Turns == {
    Up("M", <<12, 0>>), Low("M", <<0, 12>>), Up("Z", <<>>), Up("L", <<12, 12>>), Low("L", <<0, -12>>),
    Low("H", <<12>>), Up("V", <<12>>), Up("C", <<0, 6, 6, 12, 12, 12>>), Low("S", <<12, 6, 24, 0>>),
    Up("Q", <<6, 12, 12, 0>>), Low("T", <<12, 0>>), Up("T", <<0, 0>>),
    Low("A", <<12, 12, 0, 0, 1, 12, 12>>), Low("A", <<6, 12, 0, 0, 0, 6, 12>>),
    \* implicit repeats, a flag that is none
    <<Number(12), Number(12)>>, <<Number(24)>>, Up("A", <<6, 6, 0, 0, 2, 0, 0>>)}

\* A line, a half turn, a quarter of a rotated circle, three quarters, nothing.
Arcs == {
    Low("A", <<0, 6, 0, 0, 0, 12, 0>>), Low("A", <<6, 6, 0, 1, 1, 12, 12>>),
    Low("A", <<12, 12, 90, 0, 1, 12, 12>>), Low("A", <<12, 12, 360, 1, 1, 12, -12>>),
    Low("A", <<12, 12, 0, 0, 0, 0, 0>>)}

Leaf(tag, attributes) == [tag |-> tag, transform |-> <<>>, children |-> <<>>] @@ attributes
PathElement(d) == Leaf("path", [d |-> d])
Rect(w, h, rx, ry) == Leaf("rect", [x |-> 12, y |-> 0, width |-> w, height |-> h, rx |-> rx, ry |-> ry])
Circle(r) == Leaf("circle", [cx |-> 24, cy |-> 0, r |-> r])

Leaves == {
    PathElement(Up("M", <<12, 0>>) \o Low("A", <<6, 6, 0, 1, 1, 12, 12>>)), PathElement(<<>>),
    Rect(48, 24, {}, {}), Rect(48, 24, {12}, {}), Rect(48, 48, {}, {36}), Rect(48, 72, {12}, {24}), Rect(0, 24, {}, {}),
    Circle(12), Circle(0), Leaf("ellipse", [cx |-> 0, cy |-> 0, rx |-> 12, ry |-> 24]),
    Leaf("ellipse", [cx |-> 0, cy |-> 0, rx |-> 12, ry |-> 0]),
    Leaf("polygon", [points |-> <<0, 0, 24, 0, 24, 24>>]), Leaf("polygon", [points |-> <<0, 0, 24, 0>>]),
    Leaf("polyline", [points |-> <<0, 0, 24, 0, 24, 24>>]), Leaf("polyline", [points |-> <<0, 0, 24>>]),
    Leaf("line", [x1 |-> 0, y1 |-> 12, x2 |-> 24, y2 |-> 0])}

Fn(name, args) == [name |-> name, args |-> args]

Lists == {
    <<>>, <<Fn("translate", <<24>>)>>, <<Fn("translate", <<0, 12>>), Fn("translate", <<12, 12>>)>>,
    <<Fn("scale", <<2>>)>>, <<Fn("scale", <<2, 1>>)>>, <<Fn("scale", <<-1, 1>>), Fn("rotate", <<2>>)>>,
    <<Fn("rotate", <<1>>)>>, <<Fn("rotate", <<1, 24, 12>>)>>, <<Fn("matrix", <<1, 1, -1, 1, 0, 12>>)>>,
    <<Fn("matrix", <<1, 1, -1>>)>>, <<Fn("skewX", <<1>>)>>, <<Fn("skewY", <<1>>)>>,
    <<Fn("translate", <<>>)>>, <<Fn("perspective", <<1>>)>>}

Group(tag, list, children) == [tag |-> tag, transform |-> list, children |-> children]

Root(width, viewBox, list, children) ==
    [width |-> width, viewBox |-> viewBox, transform |-> list, children |-> children]

Length(value, unit) == {[value |-> value, unit |-> unit]}

Plain(children) == Root({}, {}, <<>>, children)

Square == Rect(48, 24, {}, {})

Scanned(d) == Plain(<<PathElement(d)>>)
OptionalTurns == {<<>>} \cup Turns

\* Two subpaths, the second without a moveto of its own; a moveto that draws nothing.
TwoSubpaths == PathElement(Up("M", <<12, 0>>) \o Low("H", <<12>>) \o Up("Z", <<>>) \o Up("V", <<12>>))
Moveto == PathElement(Up("M", <<12, 12>>))
Moved(leaf) == [leaf EXCEPT !.transform = <<Fn("translate", <<0, 12>>)>>]

\* What a group may hold, and the transforms of nested groups.
Contents == {TwoSubpaths, Moveto, Moved(Square), Moved(TwoSubpaths), Group("defs", <<>>, <<>>)}
NestedLists == {
    <<>>, <<Fn("translate", <<24>>), Fn("scale", <<2, 1>>)>>, <<Fn("rotate", <<1>>)>>}

Tree(outer, inner, a, b, c) ==
    Plain(<<Group("g", outer, <<a, Group("a", inner, <<b, c>>), Square>>), Moved(Square)>>)

MCDocuments ==
    {{Plain(<<>>)}}
    \cup {{Scanned(s \o t \o u) : t, u \in OptionalTurns} : s \in OptionalTurns}
    \cup {{Scanned(s \o a \o t) : t \in Turns, a \in Arcs} : s \in Turns}
    \cup {{Scanned(s \o t \o Up("Z", <<>>) \o u) : t, u \in Turns} : s \in Turns}
    \cup {{Scanned(s \o Up("Z", <<>>) \o t \o Up("Z", <<>>)) : t \in Turns} : s \in Turns}
    \cup {{Plain(<<Group("g", outer, <<[leaf EXCEPT !.transform = inner]>>), Square>>) :
               outer \in Lists, leaf \in Leaves} : inner \in Lists}
    \cup {{Tree(outer, inner, a, b, c) : outer, inner \in NestedLists, c \in Contents}
               : a \in Contents, b \in Contents}
    \cup {{Root(width, viewBox, list, <<Group(tag, <<>>, <<Square, Circle(12)>>)>>) :
        width \in {{}, Length(96, "mm"), Length(-96, "mm"), Length(96, "px"), Length(0, "cm"),
                   Length(96, "em")},
        viewBox \in {{}, {<<0, 0, 48, 48>>}, {<<0, 0, 0, 0>>}, {<<0, 0>>}},
        list \in {<<>>, <<Fn("rotate", <<1>>)>>, <<Fn("matrix", <<1, 1>>)>>},
        tag \in Containers}}

\* The children of a family's documents and what is below them: no tree is deeper.
Below(parents) == UNION {Range(parent.children) : parent \in parents}
MCElements(family) ==
    LET children == Below(family)
        grandchildren == Below(children)
    IN  children \cup grandchildren \cup Below(grandchildren)

MCPlaces == SeqOf(1 .. 3, 3)
=============================================================================
