---------------------------- MODULE MCApiDispatch ----------------------------
(***************************************************************************)
(* Model checking of ApiDispatch: the bodies are one geometry, varied at   *)
(* one place of the wire format at a time, as a client might vary it.      *)
(***************************************************************************)
EXTENDS ApiDispatch

\* d with the field under key, and d without it.
With(d, key, v) == Object([k \in DOMAIN d.fields \cup {key} |-> IF k = key THEN v ELSE d.fields[k]])
Without(d, key) == Object([k \in DOMAIN d.fields \ {key} |-> d.fields[k]])

Pair(x, y) == Object([x |-> Number(x), y |-> Number(y)])
LineNode == Object([x |-> Number(0), y |-> Number(0), node_type |-> Text("line")])
CurveNode == With(With(With(LineNode, "node_type", Text("curve")),
                       "control_in", Pair(1, 2)), "control_out", Pair(3, 4))

\* The objects, subpaths and nodes from which the geometries are made.
SubpathOf(nodes) == Object([closed |-> Truth(TRUE), nodes |-> Array(nodes)])
ObjectOf(subpaths) == Object([object_id |-> Text("o1"), subpaths |-> Array(subpaths)])
GeometryOf(objects) ==
    Object([units |-> Text("mm"),
            bounding_box |-> Object([key \in BoxKeys |-> Number(0)]),
            metadata |-> Object([source_adapter |-> Text("corel")]),
            layers |-> Array(<<Object([layer_role |-> Text("original"),
                                       objects |-> Array(objects)])>>)])
OfNodes(nodes) == GeometryOf(<<ObjectOf(<<SubpathOf(nodes)>>)>>)
OfObject(obj) == GeometryOf(<<obj>>)

Plain == OfNodes(<<LineNode, CurveNode>>)
Bare == ObjectOf(<<>>)

\* Accepted: what they hold must come back.
Accepted ==
    { Plain,
      OfNodes(<<With(CurveNode, "control_in", Null)>>),
      With(With(OfObject(With(With(Bare, "fill", Object([type |-> Text("solid")])),
                              "stroke", Object([width |-> Number(2)]))),
                "format_version", Text("2.0")), "extra", Number(1)),
      OfObject(With(With(Without(Bare, "subpaths"), "fill", Object([type |-> Null])),
                    "stroke", Number(0))) }

\* Accepted by the validator, not by the deserialiser.
Loose ==
    { With(Plain, "bounding_box", With(Plain.fields.bounding_box, "depth", Number(0))),
      OfNodes(<<With(CurveNode, "control_out", Object([x |-> Number(3)]))>>),
      OfObject(With(Bare, "stroke", Text("thin"))) }

\* Rejected by the validator.
Rejected ==
    { With(Plain, "units", Text("in")),
      Without(Plain, "layers"),
      With(Plain, "metadata", Object([source_adapter |-> Text("")])),
      OfNodes(<<>>),
      OfNodes(<<With(LineNode, "x", Truth(TRUE))>>),
      OfObject(With(Bare, "fill", Object([type |-> Text("striped")]))),
      GeometryOf(<<SubpathOf(<<LineNode>>)>>) }

JobFor(geometry) == Object([product_type |-> Text("die"), geometry |-> geometry])

Submitted == {JobFor(geometry) : geometry \in Accepted \cup Loose \cup Rejected}
             \cup {Garbled, Null, Array(<<>>), With(JobFor(Plain), "product_type", Number(7))}

\* A body that is not read may be any: two stand for all.
MCRequests ==
    { req \in [method : Methods, path : Paths, key : Keys \cup {NoKey},
               correlation : Correlations, authorized : BOOLEAN,
               body : Submitted \cup {Plain}] :
      \/ <<req.method, req.path>> = <<"POST", "jobs">> /\ req.authorized
      \/ req.body = Plain
      \/ req.body = Garbled /\ req.authorized /\ req.key # NoKey }

\* The bodies and all their parts: no body is more than a dozen levels deep.
PartsOf(values) ==
    UNION { CASE d.json = "array" -> {d.items[i] : i \in DOMAIN d.items}
              [] d.json = "object" -> {d.fields[k] : k \in DOMAIN d.fields}
              [] OTHER -> {} : d \in values }

MCDocuments ==
    LET parts[level \in 0 .. 12] ==
            IF level = 0 THEN (Submitted \cup {Plain}) \ {Garbled} ELSE PartsOf(parts[level - 1])
    IN  UNION {parts[level] : level \in 0 .. 12}
=============================================================================
