----------------------------- MODULE ApiDispatch -----------------------------
(***************************************************************************)
(* CoreApp, the WSGI application of the Core, one request at a time: the   *)
(* order in which _dispatch authenticates, replays, routes, reads the body *)
(* and invokes, the response each exit produces, and what it leaves in the *)
(* idempotency store and the job store for later requests.                 *)
(*                                                                         *)
(* The interleaving of two requests is the subject of JobSubmission; here  *)
(* the requests are of every kind a local client can send, to every route, *)
(* and a body is the JSON document it is (module WireFormat).              *)
(***************************************************************************)
EXTENDS WireFormat

CONSTANTS
    Keys,          \* Idempotency-Key header values
    Correlations,  \* X-Correlation-Id values, sent or generated
    Documents,     \* the JSON values the bodies are made of
    Requests,      \* the requests clients send
    MaxJobs,       \* bound: jobs created in one run
    NoKey, NoJob, NoReply, NoCorrelation

ASSUME ConstantsAssumption ==
    /\ MaxJobs \in Nat
    /\ NoKey \notin Keys
    /\ NoCorrelation \notin Correlations

Methods == {"GET", "POST"}
Paths == {"health", "version", "jobs", "validate-format", "elsewhere"}

\* The route table of build_app.
Routes == {<<"GET", "health">>, <<"GET", "version">>, <<"POST", "jobs">>,
           <<"POST", "validate-format">>}

\* What json.loads returns: values made of values (no NaN, and numbers are integers here).
ASSUME DocumentsAssumption ==
    \A d \in Documents :
        \/ d = Null
        \/ d.json = "boolean" /\ d = Truth(d.truth)
        \/ d.json = "number" /\ d = Number(d.number) /\ d.number \in Int
        \/ d.json = "string" /\ d = Text(d.text)
        \/ d.json = "array" /\ d = Array(d.items) /\ d.items \in Seq(Documents)
        \/ d.json = "object" /\ d = Object(d.fields) /\ d.fields \in [DOMAIN d.fields -> Documents]

\* The body is a JSON value, Null when there is none, or Garbled.
ASSUME RequestsAssumption ==
    \A req \in Requests :
        /\ req = [method |-> req.method, path |-> req.path, key |-> req.key,
                  correlation |-> req.correlation, authorized |-> req.authorized,
                  body |-> req.body]
        /\ req.method \in Methods /\ req.path \in Paths
        /\ req.key \in Keys \cup {NoKey} /\ req.correlation \in Correlations
        /\ req.authorized \in BOOLEAN
        /\ req.body \in Documents \cup {Null, Garbled}

\* The part of a request that the properties compare its response with.
Headers == [path : Paths, key : Keys \cup {NoKey},
            correlation : Correlations, authorized : BOOLEAN]
Header(req) == [path |-> req.path, key |-> req.key,
                correlation |-> req.correlation, authorized |-> req.authorized]

JobIds == 1 .. MaxJobs

\* "kind" says which of the bodies it is; "plain" is wsgiref's own text body.
Replies == [status : {200, 201, 400, 401, 404, 405, 500},
            kind : {"health", "version", "job", "format", "error", "plain"},
            correlation : Correlations \cup {NoCorrelation},
            job : JobIds \cup {NoJob}]

VARIABLES
    cache,    \* IdempotencyStore._responses (an absent header is never a key)
    jobs,     \* InMemoryJobStore._jobs in the order of creation: the geometry of
              \* each record, and the document it was sent as (history)
    last,     \* what the properties say of the request served last
    reply,    \* the response it got
    strayed   \* history: the keys used, with a valid token, beside /v1/jobs

vars == <<cache, jobs, last, reply, strayed>>

TypeOK ==
    /\ cache \in [Keys \cup {NoKey} -> Replies \cup {NoReply}]
    /\ DOMAIN jobs \subseteq JobIds
    /\ \A j \in DOMAIN jobs : \E req \in Requests : jobs[j].sent = Get(req.body, "geometry")
    /\ last \in Headers \cup {NoReply}
    /\ reply \in Replies \cup {NoReply}
    /\ strayed \in SUBSET Keys

Init ==
    /\ cache = [k \in Keys \cup {NoKey} |-> NoReply]
    /\ jobs = <<>>
    /\ last = NoReply
    /\ reply = NoReply
    /\ strayed = {}

\* ErrorResponse.to_dict with the request's own correlation id.
Envelope(req, status) ==
    [status |-> status, kind |-> "error", correlation |-> req.correlation, job |-> NoJob]

\* Mutant: a report has no content; _status_line knows no such status.
EmptyReport(req, kind) ==
    [status |-> 204, kind |-> kind, correlation |-> req.correlation, job |-> NoJob]

\* A body of one of the three handlers that only report.
Report(req, kind) ==
    [status |-> 200, kind |-> kind, correlation |-> req.correlation, job |-> NoJob]

\* Mutant: a missing header is a key like any other.
AlwaysKeyed(req) == TRUE

\* "if idempotency_key": the header is there and not empty.
Keyed(req) == req.key # NoKey

\* _check_auth
Authorized(req) == req.authorized

Cached(req) == Keyed(req) /\ cache[req.key] # NoReply

\* Mutant: the replay comes before the authentication.
RefusedUnlessCached(req) == ~Authorized(req) /\ ~Cached(req)
Refused(req) == ~Authorized(req)

\* Authenticated, and the lookup found nothing: the loop over the routes.
Routed(req) == ~Refused(req) /\ ~Cached(req)
Known(path) == \E method \in Methods : <<method, path>> \in Routes
Matches(req) == Routed(req) /\ <<req.method, req.path>> \in Routes

Respond(req, answer) ==
    /\ last' = Header(req)
    /\ reply' = answer

(***************************************************************************)
(* The exits of _dispatch, in the order of the code.                       *)
(***************************************************************************)
Unauthorized(req) ==
    /\ Refused(req)
    /\ Respond(req, Envelope(req, 401))
    /\ UNCHANGED <<cache, jobs>>

\* The lookup precedes routing: neither method, path nor body matter.
Replay(req) ==
    /\ ~Refused(req)
    /\ Cached(req)
    /\ Respond(req, cache[req.key])
    /\ UNCHANGED <<cache, jobs>>

NotFound(req) ==
    /\ Routed(req)
    /\ ~Known(req.path)
    /\ Respond(req, Envelope(req, 404))
    /\ UNCHANGED <<cache, jobs>>

MethodNotAllowed(req) ==
    /\ Routed(req)
    /\ Known(req.path)
    /\ <<req.method, req.path>> \notin Routes
    /\ Respond(req, Envelope(req, 405))
    /\ UNCHANGED <<cache, jobs>>

\* json.loads raises in _read_json_body, outside the try of _invoke: the
\* exception leaves __call__ and wsgiref answers in plain text.
UnreadableBody(req) ==
    /\ Matches(req)
    /\ req.body = Garbled
    /\ Respond(req, [status |-> 500, kind |-> "plain",
                     correlation |-> NoCorrelation, job |-> NoJob])
    /\ UNCHANGED <<cache, jobs>>

\* Mutant: whatever the handler answers is remembered.
RememberAll(req, answer) ==
    IF Keyed(req) THEN [cache EXCEPT ![req.key] = answer] ELSE cache

\* IdempotencyStore.put after _invoke, for a 2xx of a keyed request.
Remember(req, answer) ==
    IF Keyed(req) /\ answer.status \in 200 .. 299
    THEN [cache EXCEPT ![req.key] = answer]
    ELSE cache

\* health, version, validate_format
InvokeReport(req) ==
    LET answer == Report(req, IF req.path = "validate-format" THEN "format" ELSE req.path) IN
    /\ Matches(req)
    /\ req.path # "jobs"
    /\ req.body # Garbled
    /\ Respond(req, answer)
    /\ cache' = Remember(req, answer)
    /\ UNCHANGED jobs

\* create_job's checks, the validator's among them: anything else is a 400.
Submission(body) ==
    /\ body.json = "object"
    /\ RequiresText(body, "product_type")
    /\ ValidGeometry(Get(body, "geometry"))

\* Mutant: the record is created before geometry_from_dict has accepted it.
CreatedEarly(body) == Submission(body)

\* InMemoryJobStore.create is reached when geometry_from_dict does not raise;
\* an exception of its own is no PlatformException and makes a 500.
Created(body) == Submission(body) /\ Parses(Get(body, "geometry"))

JobAnswer(req, job) ==
    IF Submission(req.body) /\ Parses(Get(req.body, "geometry"))
    THEN [status |-> 201, kind |-> "job", correlation |-> req.correlation, job |-> job]
    ELSE Envelope(req, IF Submission(req.body) THEN 500 ELSE 400)

Record(body) == [geometry |-> GeometryFromDict(Get(body, "geometry")),
                 sent |-> Get(body, "geometry")]

InvokeCreateJob(req) ==
    LET job == Len(jobs) + 1
        answer == JobAnswer(req, job)
    IN
    /\ Matches(req)
    /\ req.path = "jobs"
    /\ req.body # Garbled
    /\ Created(req.body) => job \in JobIds
    /\ Respond(req, answer)
    /\ jobs' = IF Created(req.body) THEN Append(jobs, Record(req.body)) ELSE jobs
    /\ cache' = Remember(req, answer)

Dispatch(req) ==
    \/ Unauthorized(req)
    \/ Replay(req)
    \/ NotFound(req)
    \/ MethodNotAllowed(req)
    \/ UnreadableBody(req)
    \/ InvokeReport(req)
    \/ InvokeCreateJob(req)

Use(req) ==
    strayed' = IF req.authorized /\ req.key \in Keys /\ req.path # "jobs"
               THEN strayed \cup {req.key}
               ELSE strayed

Next == \E req \in Requests : Dispatch(req) /\ Use(req)

Spec == Init /\ [][Next]_vars

(***************************************************************************)
(* Properties.                                                             *)
(***************************************************************************)
Served == reply # NoReply

\* What a client reads is about its own request, unless it is a replay it is
\* entitled to: a response with another correlation id is a success, held under
\* the key of an authorised request, or wsgiref's bare 500 (app.py:97-119:
\* authentication comes first, and no failure is ever remembered).
OnlyReplaysStray ==
    Served /\ reply.correlation # last.correlation
    => \/ reply.kind = "plain"
       \/ /\ last.authorized
          /\ last.key \in Keys
          /\ reply = cache[last.key]
          /\ reply.status < 300

\* A success of POST /v1/jobs names a job in the store, replayed or not, as
\* long as its key was never used at another endpoint: CoreClient reads
\* body["job_id"] of any 2xx (core_client.py:122-127).
JobAnswersNameAJob ==
    Served /\ last.path = "jobs" /\ reply.status < 300
           /\ last.key \notin strayed
    => reply.kind = "job" /\ reply.job \in DOMAIN jobs

\* The job store grows by the one job that is confirmed to the client, or not
\* at all: no response but a 201 leaves a job behind, and a record, once made,
\* stays as it is.
OnlyConfirmedJobsAreStored ==
    [][jobs' # jobs => /\ reply'.status = 201
                       /\ reply'.job = Len(jobs')
                       /\ jobs = SubSeq(jobs', 1, Len(jobs') - 1)]_vars

(***************************************************************************)
(* What of a document is answered, level by level of the wire format.  A   *)
(* null, and a field that was not sent, say nothing.                       *)
(***************************************************************************)
Kept(sent, answered, keys) ==
    \A key \in keys : Get(sent, key) = Null \/ Get(sent, key) = Get(answered, key)

EachKept(sent, answered, key, PartKept(_, _)) ==
    LET old == Items(sent, key).items
        new == Items(answered, key).items
    IN  DOMAIN old = DOMAIN new /\ \A i \in DOMAIN old : PartKept(old[i], new[i])

FieldKept(sent, answered, key, keys) == Kept(Get(sent, key), Get(answered, key), keys)

NodeKept(sent, answered) ==
    /\ Kept(sent, answered, {"x", "y", "node_type"})
    /\ FieldKept(sent, answered, "control_in", {"x", "y"})
    /\ FieldKept(sent, answered, "control_out", {"x", "y"})

SubpathKept(sent, answered) ==
    Kept(sent, answered, {"closed"}) /\ EachKept(sent, answered, "nodes", NodeKept)

ObjectKept(sent, answered) ==
    /\ Kept(sent, answered, {"object_id"})
    /\ EachKept(sent, answered, "subpaths", SubpathKept)
    /\ FieldKept(sent, answered, "fill", {"type", "color"})
    /\ FieldKept(sent, answered, "stroke", {"width"})

LayerKept(sent, answered) ==
    Kept(sent, answered, {"layer_role"}) /\ EachKept(sent, answered, "objects", ObjectKept)

GeometryKept(sent, answered) ==
    /\ Kept(sent, answered, {"units", "format_version"})
    /\ FieldKept(sent, answered, "bounding_box", BoxKeys)
    /\ FieldKept(sent, answered, "metadata", {"source_adapter", "source_file_hint", "imported_at"})
    /\ EachKept(sent, answered, "layers", LayerKept)

\* What the Core answers of a stored job (routes_jobs.py:41) holds everything
\* the adapter sent that the wire format knows, would be accepted if it were
\* submitted again, and passes the round-trip contract of TDD 5.4 on the way:
\* reading, storing and writing a geometry loses and moves nothing.
StoredGeometryComesBack ==
    \A j \in DOMAIN jobs :
        LET answered == GeometryToDict(jobs[j].geometry) IN
        /\ GeometryKept(jobs[j].sent, answered)
        /\ ValidGeometry(answered) /\ Parses(answered)
        /\ RoundTrips(jobs[j].geometry, GeometryFromDict(answered), 0)
=============================================================================
