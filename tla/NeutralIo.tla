----------------------------- MODULE NeutralIo -----------------------------
(***************************************************************************)
(* geometry/io/neutral_io.py: the engine's paths as the nodes of the wire  *)
(* format and back.  A node's handles are sets of at most one point.       *)
(***************************************************************************)
EXTENDS AffineTransform

Node(at, type, controlIn, controlOut) ==
    [at |-> at, node_type |-> type, control_in |-> controlIn, control_out |-> controlOut]

FlattenArcs(segments) ==
    LET expanded(segment) == IF segment.kind = "arc" THEN ArcToBeziers(segment) ELSE <<segment>>
    IN  FlattenSeq([i \in DOMAIN segments |-> expanded(segments[i])])

\* One node for the start of every segment; the node after a Bezier has its second
\* control point, in a closed path the first node follows the last segment, and
\* in an open path a node for the end is added.
Subpath(path) ==
    LET segments == FlattenArcs(path.segments)
        n == Len(segments)
        handleIn(segment) == IF segment.kind = "bezier" THEN {segment.via[2]} ELSE {}
        handleOut(segment) == IF segment.kind = "bezier" THEN {segment.via[1]} ELSE {}
        before(i) == IF i > 1 THEN handleIn(segments[i - 1])
                     ELSE IF path.closed THEN handleIn(segments[n]) ELSE {}
        start(i) == Node(segments[i].start, IF segments[i].kind = "line" THEN "line" ELSE "curve",
                         before(i), handleOut(segments[i]))
        end == Node(segments[n].end, "line", handleIn(segments[n]), {})
    IN  [closed |-> path.closed,
         nodes |-> IF n = 0 THEN <<>>
                   ELSE [i \in 1 .. n |-> start(i)] \o IF path.closed THEN <<>> ELSE <<end>>]

\* As Subpath, without the handle that goes round to the first node.
SubpathOpenHandles(path) ==
    LET s == Subpath(path)
    IN  IF s.nodes = <<>> THEN s
        ELSE [s EXCEPT !.nodes[1].control_in = {}]

PathToSubpath(path) == Subpath(path)

\* Each node and the next: a Bezier if either has a handle on that side.
SubpathToPath(subpath) ==
    LET nodes == subpath.nodes
        handle(handles, default) == IF handles = {} THEN default ELSE CHOOSE p \in handles : TRUE
        between(a, b) ==
            IF a.control_out \cup b.control_in = {} THEN Line(a.at, b.at)
            ELSE Bezier(a.at, handle(a.control_out, a.at), handle(b.control_in, b.at), b.at)
    IN  Path([i \in 1 .. IF subpath.closed THEN Len(nodes) ELSE Len(nodes) - 1 |->
                 between(nodes[i], After(nodes, i))], subpath.closed)

\* One object of one subpath for every path with segments, in one layer.
ShapeToNeutral(compound) ==
    LET object(path) == IF path.segments = <<>> THEN <<>> ELSE <<PathToSubpath(path)>>
    IN  FlattenSeq([i \in DOMAIN compound |-> object(compound[i])])

NeutralToShape(neutral) == [i \in DOMAIN neutral |-> SubpathToPath(neutral[i])]
=============================================================================
