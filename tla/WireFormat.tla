----------------------------- MODULE WireFormat -----------------------------
(***************************************************************************)
(* A geometry on the wire (core/geometry): the JSON document an adapter    *)
(* sends, the validator that looks at its shape, the deserialiser that     *)
(* builds the frozen dataclasses, and the serialiser that turns them back  *)
(* into a document.                                                        *)
(*                                                                         *)
(* A JSON value is a record tagged with its type.  A dataclass is a record *)
(* whose leaves are the JSON values they were read from; None is Null.     *)
(***************************************************************************)
EXTENDS Integers, Sequences

Null == [json |-> "null"]
Truth(b) == [json |-> "boolean", truth |-> b]
Number(n) == [json |-> "number", number |-> n]
Text(s) == [json |-> "string", text |-> s]
Array(items) == [json |-> "array", items |-> items]
Object(fields) == [json |-> "object", fields |-> fields]

\* A request body that json.loads does not accept.
Garbled == [json |-> "garbled"]

Has(d, key) == d.json = "object" /\ key \in DOMAIN d.fields

\* d.get(key, default), and d[key] where the key is known to be there.
GetOr(d, key, default) == IF Has(d, key) THEN d.fields[key] ELSE default
Get(d, key) == GetOr(d, key, Null)

Items(d, key) == GetOr(d, key, Array(<<>>))

\* What "or {}" takes for the value itself.
Truthy(v) == ~ \/ v = Null
               \/ v.json = "boolean" /\ ~v.truth
               \/ v.json = "number" /\ v.number = 0
               \/ v.json = "string" /\ v.text = ""
               \/ v.json = "array" /\ v.items = <<>>
               \/ v.json = "object" /\ DOMAIN v.fields = {}

(***************************************************************************)
(* The validator: a document is valid when no issue is found.              *)
(***************************************************************************)
NodeTypes == {Text("line"), Text("curve")}
FillTypes == {Text("none"), Text("solid")}

RequiresText(d, key) == Get(d, key).json = "string" /\ Get(d, key).text # ""
RequiresNumber(d, key) == Get(d, key).json = "number"

\* An array under the key, empty when the key is absent, of elements that pass.
EachOf(d, key, Passes(_)) ==
    /\ Items(d, key).json = "array"
    /\ \A i \in DOMAIN Items(d, key).items : Passes(Items(d, key).items[i])

BoxKeys == {"x", "y", "width", "height"}
ValidBoundingBox(box) == box.json = "object" /\ \A key \in BoxKeys : RequiresNumber(box, key)

ValidMetadata(meta) == meta.json = "object" /\ RequiresText(meta, "source_adapter")

\* The control points are not looked at.
ValidNode(node) ==
    /\ node.json = "object"
    /\ RequiresNumber(node, "x") /\ RequiresNumber(node, "y")
    /\ Get(node, "node_type") \in NodeTypes

ValidSubpath(subpath) ==
    /\ subpath.json = "object"
    /\ Get(subpath, "closed").json = "boolean"
    /\ EachOf(subpath, "nodes", ValidNode)
    /\ Items(subpath, "nodes").items # <<>>

\* The stroke is not looked at.
ValidObject(obj) ==
    /\ obj.json = "object"
    /\ RequiresText(obj, "object_id")
    /\ EachOf(obj, "subpaths", ValidSubpath)
    /\ Get(obj, "fill") # Null
       => Get(obj, "fill").json = "object"
          /\ Get(Get(obj, "fill"), "type") \in FillTypes \cup {Null}

ValidLayer(layer) ==
    /\ layer.json = "object"
    /\ RequiresText(layer, "layer_role")
    /\ EachOf(layer, "objects", ValidObject)

ValidGeometry(d) ==
    /\ d.json = "object"
    /\ Get(d, "units") = Text("mm")
    /\ ValidBoundingBox(Get(d, "bounding_box"))
    /\ ValidMetadata(Get(d, "metadata"))
    /\ Has(d, "layers")
    /\ EachOf(d, "layers", ValidLayer)

(***************************************************************************)
(* The deserialiser: where it raises on a valid document, and what it      *)
(* builds when it does not.                                                *)
(***************************************************************************)
\* d["x"] and d["y"] of a control point that is there.
PointParses(d) == d = Null \/ (Has(d, "x") /\ Has(d, "y"))

NodeParses(node) == PointParses(Get(node, "control_in")) /\ PointParses(Get(node, "control_out"))

SubpathParses(subpath) == EachOf(subpath, "nodes", NodeParses)

\* stroke_d.get of a stroke that is no object and not falsy either.
StrokeParses(stroke) == Truthy(stroke) => stroke.json = "object"

ObjectParses(obj) == StrokeParses(Get(obj, "stroke")) /\ EachOf(obj, "subpaths", SubpathParses)

LayerParses(layer) == EachOf(layer, "objects", ObjectParses)

\* BoundingBox(**bbox_d) takes the four fields and no other.
Parses(d) == /\ DOMAIN Get(d, "bounding_box").fields = BoxKeys
             /\ EachOf(d, "layers", LayerParses)

\* tuple(f(item) for item in d.get(key, []))
MapItems(d, key, f(_)) ==
    [i \in DOMAIN Items(d, key).items |-> f(Items(d, key).items[i])]

PointFromDict(d) == IF d = Null THEN Null ELSE [x |-> Get(d, "x"), y |-> Get(d, "y")]

\* Mutant: the incoming control point is read for both.
NodeFromOneControl(d) ==
    [x |-> Get(d, "x"), y |-> Get(d, "y"), node_type |-> Get(d, "node_type"),
     control_in |-> PointFromDict(Get(d, "control_in")),
     control_out |-> PointFromDict(Get(d, "control_in"))]

NodeFromDict(d) ==
    [x |-> Get(d, "x"), y |-> Get(d, "y"), node_type |-> Get(d, "node_type"),
     control_in |-> PointFromDict(Get(d, "control_in")),
     control_out |-> PointFromDict(Get(d, "control_out"))]

SubpathFromDict(d) ==
    [closed |-> Get(d, "closed"), nodes |-> MapItems(d, "nodes", NodeFromDict)]

ObjectFromDict(d) ==
    [object_id |-> Get(d, "object_id"),
     subpaths |-> MapItems(d, "subpaths", SubpathFromDict),
     fill |-> [type |-> GetOr(Get(d, "fill"), "type", Text("none")),
               color |-> Get(Get(d, "fill"), "color")],
     stroke |-> [width |-> Get(Get(d, "stroke"), "width")]]

LayerFromDict(d) ==
    [layer_role |-> Get(d, "layer_role"), objects |-> MapItems(d, "objects", ObjectFromDict)]

GeometryFromDict(d) ==
    LET box == Get(d, "bounding_box")
        meta == Get(d, "metadata")
    IN
    [units |-> Get(d, "units"),
     bounding_box |-> [key \in BoxKeys |-> Get(box, key)],
     layers |-> MapItems(d, "layers", LayerFromDict),
     metadata |-> [key \in {"source_adapter", "source_file_hint", "imported_at"} |->
                       Get(meta, key)],
     format_version |-> GetOr(d, "format_version", Text("1.0"))]

(***************************************************************************)
(* The serialiser: dataclasses.asdict, with a tuple as an array.           *)
(***************************************************************************)
MapTuple(tuple, f(_)) == Array([i \in DOMAIN tuple |-> f(tuple[i])])

PointToDict(point) == IF point = Null THEN Null ELSE Object(point)

NodeToDict(node) ==
    Object([node EXCEPT !.control_in = PointToDict(@), !.control_out = PointToDict(@)])

SubpathToDict(subpath) ==
    Object([closed |-> subpath.closed, nodes |-> MapTuple(subpath.nodes, NodeToDict)])

ObjectToDict(obj) ==
    Object([object_id |-> obj.object_id, subpaths |-> MapTuple(obj.subpaths, SubpathToDict),
            fill |-> Object(obj.fill), stroke |-> Object(obj.stroke)])

LayerToDict(layer) ==
    Object([layer_role |-> layer.layer_role, objects |-> MapTuple(layer.objects, ObjectToDict)])

GeometryToDict(geometry) ==
    Object([units |-> geometry.units,
            bounding_box |-> Object(geometry.bounding_box),
            layers |-> MapTuple(geometry.layers, LayerToDict),
            metadata |-> Object(geometry.metadata),
            format_version |-> geometry.format_version])

(***************************************************************************)
(* assert_round_trip: the same layers, objects, subpaths and nodes, no     *)
(* node moved by more than epsilon.                                        *)
(***************************************************************************)
Pairwise(old, new, Same(_, _)) ==
    Len(old) = Len(new) /\ \A i \in DOMAIN old : Same(old[i], new[i])

RoundTrips(original, restored, epsilon) ==
    LET Near(n, m) == LET dx == n.x.number - m.x.number
                          dy == n.y.number - m.y.number
                      IN  dx * dx + dy * dy <= epsilon * epsilon
        SameSubpath(s, t) == s.closed = t.closed /\ Pairwise(s.nodes, t.nodes, Near)
        SameObject(o, p) == Pairwise(o.subpaths, p.subpaths, SameSubpath)
        SameLayer(k, l) == Pairwise(k.objects, l.objects, SameObject)
    IN  Pairwise(original.layers, restored.layers, SameLayer)
=============================================================================
