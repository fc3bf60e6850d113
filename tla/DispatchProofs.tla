--------------------------- MODULE DispatchProofs ---------------------------
(***************************************************************************)
(* The dispatcher, proved for any requests, keys and correlation ids: what *)
(* a client may read that is not about its own request, that the job store *)
(* holds the confirmed jobs and no other, and that their geometry comes    *)
(* back as it was sent.                                                    *)
(***************************************************************************)
EXTENDS ApiDispatch, SequenceTheorems, TLAPS

\* What is stored of a body that was accepted.
Records == {Record(req.body) : req \in {r \in Requests : Created(r.body)}}

(***************************************************************************)
(* The inductive invariant.                                                *)
(***************************************************************************)
JobsInv == jobs \in Seq(Records)

\* Only successes are remembered, and only under a key.
CacheInv ==
    \A k \in Keys \cup {NoKey} : cache[k] # NoReply =>
        /\ k \in Keys
        /\ cache[k].status < 300

\* A key that was used for submissions alone is answered with a stored job.
KeyedJobsInv ==
    \A k \in Keys \ strayed : cache[k] # NoReply =>
        /\ cache[k].kind = "job"
        /\ cache[k].job \in DOMAIN jobs

DispatchInv ==
    /\ TypeOK
    /\ JobsInv
    /\ CacheInv
    /\ KeyedJobsInv
    /\ OnlyReplaysStray
    /\ JobAnswersNameAJob

-----------------------------------------------------------------------------
(* Requests, answers and the store. *)

LEMMA RequestFields ==
    ASSUME NEW req \in Requests
    PROVE  /\ req.method \in Methods /\ req.path \in Paths
           /\ req.key \in Keys \cup {NoKey} /\ req.correlation \in Correlations
           /\ req.authorized \in BOOLEAN
           /\ Header(req) \in Headers
  BY RequestsAssumption DEF Header, Headers

LEMMA EnvelopeType ==
    ASSUME NEW req \in Requests, NEW status \in {400, 401, 404, 405, 500}
    PROVE  Envelope(req, status) \in Replies
  BY RequestFields DEF Envelope, Replies

\* A record is appended behind the others, which stay where they are.
LEMMA NewRecord ==
    ASSUME JobsInv, NEW req \in Requests, Created(req.body), Len(jobs) + 1 \in JobIds
    PROVE  LET grown == Append(jobs, Record(req.body)) IN
           /\ grown \in Seq(Records)
           /\ Len(grown) = Len(jobs) + 1
           /\ DOMAIN grown = 1 .. Len(jobs) + 1
           /\ DOMAIN jobs \subseteq DOMAIN grown
           /\ SubSeq(grown, 1, Len(grown) - 1) = jobs
           /\ \A j \in DOMAIN grown : grown[j] \in Records
           /\ DOMAIN grown \subseteq JobIds
<1> DEFINE grown == Append(jobs, Record(req.body))
<1>1. Record(req.body) \in Records
  BY DEF Records
<1>2. jobs \in Seq(Records)
  BY DEF JobsInv
<1>3. /\ grown \in Seq(Records)
      /\ Len(grown) = Len(jobs) + 1
      /\ \A i \in 1 .. Len(jobs) : grown[i] = jobs[i]
  BY <1>1, <1>2, AppendProperties
<1>4. DOMAIN grown = 1 .. Len(jobs) + 1 /\ DOMAIN jobs = 1 .. Len(jobs) /\ Len(jobs) \in Nat
  BY <1>2, <1>3
<1>5. \A j \in DOMAIN grown : grown[j] \in Records
  BY <1>3
<1>6. SubSeq(grown, 1, Len(grown) - 1) = jobs
  <2>1. SubSeq(grown, 1, Len(jobs)) = [i \in 1 .. Len(jobs) |-> grown[i]]
    BY <1>3, <1>4
  <2>2. jobs = [i \in 1 .. Len(jobs) |-> jobs[i]]
    BY <1>2, <1>4
  <2>3. SubSeq(grown, 1, Len(jobs)) = jobs
    BY <1>3, <2>1, <2>2
  <2>4. QED
    BY <1>3, <1>4, <2>3
<1>7. DOMAIN grown \subseteq JobIds
  BY <1>4, ConstantsAssumption DEF JobIds
<1>8. QED
  BY <1>3, <1>4, <1>5, <1>6, <1>7

\* What a submission is answered, and when its job is stored.
LEMMA JobAnswers ==
    ASSUME NEW req \in Requests, NEW job \in JobIds \cup {NoJob}
    PROVE  /\ Created(req.body) =>
                  JobAnswer(req, job) = [status |-> 201, kind |-> "job",
                                         correlation |-> req.correlation, job |-> job]
           /\ ~Created(req.body) =>
                  \E status \in {400, 500} : JobAnswer(req, job) = Envelope(req, status)
<1>1. Created(req.body) => JobAnswer(req, job) = [status |-> 201, kind |-> "job",
                                                  correlation |-> req.correlation, job |-> job]
  BY DEF JobAnswer, Created
<1>2. ~Created(req.body) => \E status \in {400, 500} : JobAnswer(req, job) = Envelope(req, status)
  BY DEF JobAnswer, Created
<1>3. QED
  BY <1>1, <1>2

-----------------------------------------------------------------------------
(* The exits of the dispatcher. *)

LEMMA InitInvariant == Init => DispatchInv
<1> SUFFICES ASSUME Init PROVE DispatchInv
  OBVIOUS
<1>1. jobs = <<>> /\ DOMAIN jobs = {} /\ jobs \in Seq(Records)
  BY DEF Init
<1>2. QED
  BY <1>1 DEF Init, DispatchInv, TypeOK, JobsInv, CacheInv, KeyedJobsInv, OnlyReplaysStray,
              JobAnswersNameAJob, Served

\* An exit that stores nothing and remembers nothing answers an error of its own.
LEMMA ErrorExit ==
    ASSUME DispatchInv, NEW req \in Requests, Use(req), NEW answer \in Replies,
           Respond(req, answer), UNCHANGED <<cache, jobs>>, answer.status >= 300,
           answer.correlation = req.correlation \/ answer.kind = "plain"
    PROVE  DispatchInv'
<1>1. reply' = answer /\ last' = Header(req) /\ Header(req) \in Headers
  BY RequestFields DEF Respond
<1>2. strayed' \in SUBSET Keys /\ strayed \subseteq strayed'
  BY DEF Use, DispatchInv, TypeOK
<1>3. (TypeOK /\ JobsInv /\ CacheInv /\ KeyedJobsInv)'
  BY <1>1, <1>2 DEF DispatchInv, TypeOK, JobsInv, CacheInv, KeyedJobsInv
<1>4. answer.status \in {200, 201, 400, 401, 404, 405, 500}
  BY DEF Replies
<1>5. OnlyReplaysStray' /\ JobAnswersNameAJob'
  BY <1>1, <1>4 DEF OnlyReplaysStray, JobAnswersNameAJob, Served, Header
<1>6. QED
  BY <1>3, <1>5 DEF DispatchInv

\* A replay answers what the cache holds under the key of an authorised request.
LEMMA ReplayExit ==
    ASSUME DispatchInv, NEW req \in Requests, Use(req), Replay(req)
    PROVE  DispatchInv'
<1>1. /\ req.key \in Keys /\ req.authorized
      /\ cache[req.key] # NoReply
      /\ reply' = cache[req.key] /\ last' = Header(req)
      /\ UNCHANGED <<cache, jobs>>
  BY RequestFields DEF Replay, Refused, Authorized, Cached, Keyed, Respond
<1>2. strayed' \in SUBSET Keys /\ strayed \subseteq strayed'
  BY DEF Use, DispatchInv, TypeOK
<1>3. TypeOK'
  BY <1>1, <1>2, RequestFields DEF DispatchInv, TypeOK
<1>4. (JobsInv /\ CacheInv /\ KeyedJobsInv)'
  BY <1>1, <1>2 DEF DispatchInv, JobsInv, CacheInv, KeyedJobsInv
<1>5. OnlyReplaysStray'
  BY <1>1 DEF OnlyReplaysStray, DispatchInv, CacheInv, Header
<1>6. JobAnswersNameAJob'
  BY <1>1, <1>2 DEF JobAnswersNameAJob, DispatchInv, KeyedJobsInv, Header
<1>7. QED
  BY <1>3, <1>4, <1>5, <1>6 DEF DispatchInv

LEMMA ReportExit ==
    ASSUME DispatchInv, NEW req \in Requests, Use(req), InvokeReport(req)
    PROVE  DispatchInv'
<1> DEFINE answer == Report(req, IF req.path = "validate-format" THEN "format" ELSE req.path)
<1>1. /\ req.authorized /\ req.path # "jobs"
      /\ reply' = answer /\ last' = Header(req)
      /\ cache' = Remember(req, answer) /\ jobs' = jobs
  BY RequestFields DEF InvokeReport, Matches, Routed, Refused, Authorized, Respond
<1>2. answer \in Replies /\ answer.status = 200 /\ answer.correlation = req.correlation
  BY RequestFields DEF InvokeReport, Matches, Routes, Report, Replies
<1>3. strayed' = IF req.key \in Keys THEN strayed \cup {req.key} ELSE strayed
  BY <1>1 DEF Use
<1>4. \A k \in Keys \cup {NoKey} :
         \/ cache'[k] = cache[k]
         \/ k = req.key /\ req.key \in Keys /\ cache'[k] = answer
  BY <1>1, <1>2, RequestFields, ConstantsAssumption DEF Remember, Keyed, DispatchInv, TypeOK
<1>5. TypeOK'
  <2>1. cache' \in [Keys \cup {NoKey} -> Replies \cup {NoReply}]
    BY <1>1, <1>2 DEF Remember, DispatchInv, TypeOK
  <2>2. QED
    BY <1>1, <1>2, <1>3, <2>1, RequestFields DEF DispatchInv, TypeOK
<1>6. (JobsInv /\ CacheInv /\ KeyedJobsInv)'
  BY <1>1, <1>2, <1>3, <1>4 DEF DispatchInv, JobsInv, CacheInv, KeyedJobsInv
<1>7. OnlyReplaysStray' /\ JobAnswersNameAJob'
  BY <1>1, <1>2 DEF OnlyReplaysStray, JobAnswersNameAJob, Header
<1>8. QED
  BY <1>5, <1>6, <1>7 DEF DispatchInv

\* A submission is remembered and stored together, or neither.
LEMMA CreateJobExit ==
    ASSUME DispatchInv, NEW req \in Requests, Use(req), InvokeCreateJob(req)
    PROVE  DispatchInv'
<1> DEFINE job == Len(jobs) + 1
           answer == JobAnswer(req, job)
<1>1. CASE ~Created(req.body)
  <2>1. PICK status \in {400, 500} : answer = Envelope(req, status)
    BY <1>1 DEF JobAnswer, Created
  <2>2. answer \in Replies /\ answer.status >= 300 /\ answer.correlation = req.correlation
    <3>1. Envelope(req, status).status = status /\ Envelope(req, status).correlation = req.correlation
      BY DEF Envelope
    <3>2. status \in {400, 401, 404, 405, 500} /\ status >= 300
      BY <2>1
    <3>3. QED
      BY <2>1, <3>1, <3>2, EnvelopeType
  <2>3. Remember(req, answer) = cache
    <3>1. answer.status = status /\ status \notin 200 .. 299
      BY <2>1 DEF Envelope
    <3>2. QED
      BY <3>1 DEF Remember
  <2>4. Respond(req, answer) /\ cache' = cache /\ jobs' = jobs
    BY <1>1, <2>3 DEF InvokeCreateJob
  <2>5. QED
    BY <2>2, <2>4, ErrorExit
<1>2. CASE Created(req.body)
  <2>1. /\ req.authorized /\ req.path = "jobs"
        /\ reply' = answer /\ last' = Header(req)
        /\ cache' = Remember(req, answer)
        /\ jobs' = Append(jobs, Record(req.body))
        /\ job \in JobIds
    BY <1>2, RequestFields DEF InvokeCreateJob, Matches, Routed, Refused, Authorized, Respond
  <2>2. answer = [status |-> 201, kind |-> "job", correlation |-> req.correlation, job |-> job]
    BY <1>2 DEF JobAnswer, Created
  <2>3. answer \in Replies
    BY <2>1, <2>2, RequestFields DEF Replies
  <2>4. /\ jobs' \in Seq(Records)
        /\ DOMAIN jobs \subseteq DOMAIN jobs' /\ job \in DOMAIN jobs'
        /\ DOMAIN jobs' \subseteq JobIds
        /\ \A j \in DOMAIN jobs' : jobs'[j] \in Records
    <3>1. JobsInv
      BY DEF DispatchInv
    <3>2. Len(jobs) \in Nat
      BY <3>1 DEF JobsInv
    <3>3. QED
      BY <1>2, <2>1, <3>1, <3>2, NewRecord
  <2>5. strayed' = strayed
    BY <2>1 DEF Use
  <2>6. \A k \in Keys \cup {NoKey} :
           \/ cache'[k] = cache[k]
           \/ k = req.key /\ req.key \in Keys /\ cache'[k] = answer
    BY <2>1, RequestFields, ConstantsAssumption DEF Remember, Keyed, DispatchInv, TypeOK
  <2>7. TypeOK'
    <3>1. cache' \in [Keys \cup {NoKey} -> Replies \cup {NoReply}]
      BY <2>1, <2>3 DEF Remember, DispatchInv, TypeOK
    <3>2. \A j \in DOMAIN jobs' : \E r \in Requests : jobs'[j].sent = Get(r.body, "geometry")
      <4>1. \A r \in Requests : Record(r.body).sent = Get(r.body, "geometry")
        BY DEF Record
      <4>2. QED
        BY <2>4, <4>1 DEF Records
    <3>3. QED
      BY <2>1, <2>3, <2>4, <2>5, <3>1, <3>2, RequestFields DEF DispatchInv, TypeOK
  <2>8. (JobsInv /\ CacheInv /\ KeyedJobsInv)'
    BY <2>2, <2>4, <2>5, <2>6 DEF DispatchInv, JobsInv, CacheInv, KeyedJobsInv
  <2>9. OnlyReplaysStray' /\ JobAnswersNameAJob'
    BY <2>1, <2>2, <2>4 DEF OnlyReplaysStray, JobAnswersNameAJob, Header
  <2>10. QED
    BY <2>7, <2>8, <2>9 DEF DispatchInv
<1>3. QED
  BY <1>1, <1>2

LEMMA StepInvariant == DispatchInv /\ [Next]_vars => DispatchInv'
<1> SUFFICES ASSUME DispatchInv, [Next]_vars PROVE DispatchInv'
  OBVIOUS
<1>1. ASSUME NEW req \in Requests, Use(req), NEW status \in {401, 404, 405},
             Respond(req, Envelope(req, status)), UNCHANGED <<cache, jobs>>
      PROVE  DispatchInv'
  <2>1. Envelope(req, status) \in Replies
    BY EnvelopeType
  <2>2. Envelope(req, status).status >= 300 /\ Envelope(req, status).correlation = req.correlation
    BY DEF Envelope
  <2>3. QED
    BY <1>1, <2>1, <2>2, ErrorExit
<1>2. ASSUME NEW req \in Requests, Use(req), UnreadableBody(req) PROVE DispatchInv'
  <2> DEFINE bare == [status |-> 500, kind |-> "plain", correlation |-> NoCorrelation, job |-> NoJob]
  <2>1. bare \in Replies /\ bare.status >= 300 /\ bare.kind = "plain"
    BY DEF Replies
  <2>2. Respond(req, bare) /\ UNCHANGED <<cache, jobs>>
    BY <1>2 DEF UnreadableBody
  <2>3. QED
    BY <1>2, <2>1, <2>2, ErrorExit
<1>3. ASSUME NEW req \in Requests, Use(req), Dispatch(req) PROVE DispatchInv'
  <2>1. CASE Unauthorized(req)
    BY <1>1, <1>3, <2>1 DEF Unauthorized
  <2>2. CASE Replay(req)
    BY <1>3, <2>2, ReplayExit
  <2>3. CASE NotFound(req)
    BY <1>1, <1>3, <2>3 DEF NotFound
  <2>4. CASE MethodNotAllowed(req)
    BY <1>1, <1>3, <2>4 DEF MethodNotAllowed
  <2>5. CASE UnreadableBody(req)
    BY <1>2, <1>3, <2>5
  <2>6. CASE InvokeReport(req)
    BY <1>3, <2>6, ReportExit
  <2>7. CASE InvokeCreateJob(req)
    BY <1>3, <2>7, CreateJobExit
  <2>8. QED
    BY <1>3, <2>1, <2>2, <2>3, <2>4, <2>5, <2>6, <2>7 DEF Dispatch
<1>4. CASE UNCHANGED vars
  BY <1>4 DEF vars, DispatchInv, TypeOK, JobsInv, CacheInv, KeyedJobsInv, OnlyReplaysStray,
              JobAnswersNameAJob, Served
<1>5. QED
  BY <1>3, <1>4 DEF Next

-----------------------------------------------------------------------------
(* The wire format: reading a valid document that parses and writing it     *)
(* again, level by level, from the control points up.                       *)

LEMMA DocumentParts ==
    ASSUME NEW d \in Documents, NEW key
    PROVE  /\ Get(d, key) = Null \/ Get(d, key) \in Documents
           /\ Items(d, key).json = "array" => Items(d, key).items \in Seq(Documents)
           /\ Get(d, key).json = "number" => Get(d, key).number \in Int
<1>1. Has(d, key) => d.fields[key] \in Documents
  <2> SUFFICES ASSUME Has(d, key) PROVE d.fields[key] \in Documents
    OBVIOUS
  <2>1. d.json = "object" /\ key \in DOMAIN d.fields
    BY DEF Has
  <2>2. d.fields \in [DOMAIN d.fields -> Documents]
    BY <2>1, DocumentsAssumption DEF Null
  <2>3. QED
    BY <2>1, <2>2
<1>2. \A e \in Documents : /\ e.json = "array" => e.items \in Seq(Documents)
                           /\ e.json = "number" => e.number \in Int
  BY DocumentsAssumption DEF Null
<1>3. Get(d, key) = Null \/ Get(d, key) \in Documents
  BY <1>1 DEF Get, GetOr
<1>4. Items(d, key) = Array(<<>>) \/ Items(d, key) \in Documents
  BY <1>1 DEF Items, GetOr
<1>5. Array(<<>>).items \in Seq(Documents)
  BY DEF Array
<1>6. Null.json # "number"
  BY DEF Null
<1>7. QED
  BY <1>2, <1>3, <1>4, <1>5, <1>6

\* What is read of an object that has been written.
LEMMA ObjectFields ==
    ASSUME NEW fields, NEW key \in DOMAIN fields, NEW default
    PROVE  /\ Get(Object(fields), key) = fields[key]
           /\ GetOr(Object(fields), key, default) = fields[key]
           /\ Items(Object(fields), key) = fields[key]
           /\ Has(Object(fields), key)
           /\ Object(fields).json = "object"
  BY DEF Get, GetOr, Items, Has, Object

\* A control point.
LEMMA PointComesBack ==
    ASSUME NEW d, PointParses(d)
    PROVE  LET w == PointToDict(PointFromDict(d)) IN
           /\ PointParses(w)
           /\ Kept(d, w, {"x", "y"})
           /\ PointFromDict(w) = PointFromDict(d)
<1> DEFINE point == [x |-> Get(d, "x"), y |-> Get(d, "y")]
           w == PointToDict(PointFromDict(d))
<1>1. CASE d = Null
  <2>1. w = Null
    BY <1>1 DEF PointFromDict, PointToDict
  <2>2. Get(d, "x") = Null /\ Get(d, "y") = Null
    BY <1>1 DEF Get, GetOr, Has, Null
  <2>3. QED
    BY <1>1, <2>1, <2>2 DEF PointParses, Kept
<1>2. CASE d # Null
  <2>1. point # Null
    <3>1. "x" \in DOMAIN point /\ "x" \notin DOMAIN Null
      BY DEF Null
    <3>2. QED
      BY <3>1
  <2>2. PointFromDict(d) = point /\ w = Object(point)
    BY <1>2, <2>1 DEF PointFromDict, PointToDict
  <2>3. /\ Get(w, "x") = Get(d, "x") /\ Get(w, "y") = Get(d, "y")
        /\ Has(w, "x") /\ Has(w, "y")
    BY <2>2, ObjectFields
  <2>4. w # Null
    BY <2>2 DEF Object, Null
  <2>5. PointFromDict(w) = point
    BY <2>3, <2>4 DEF PointFromDict
  <2>6. QED
    BY <2>2, <2>3, <2>5 DEF PointParses, Kept
<1>3. QED
  BY <1>1, <1>2

\* A node: written again it is valid, it parses, and it reads as the same node.
NodeComesBack(d, w) ==
    /\ ValidNode(w) /\ NodeParses(w)
    /\ NodeKept(d, w)
    /\ NodeFromDict(w) = NodeFromDict(d)

LEMMA NodesComeBack ==
    ASSUME NEW d, ValidNode(d), NodeParses(d)
    PROVE  NodeComesBack(d, NodeToDict(NodeFromDict(d)))
<1> DEFINE in == PointToDict(PointFromDict(Get(d, "control_in")))
           out == PointToDict(PointFromDict(Get(d, "control_out")))
           w == NodeToDict(NodeFromDict(d))
<1>1. w = Object([x |-> Get(d, "x"), y |-> Get(d, "y"), node_type |-> Get(d, "node_type"),
                  control_in |-> in, control_out |-> out])
  <2> DEFINE a == Get(d, "x")
             b == Get(d, "y")
             c == Get(d, "node_type")
             p == PointFromDict(Get(d, "control_in"))
             q == PointFromDict(Get(d, "control_out"))
             read == [x |-> a, y |-> b, node_type |-> c, control_in |-> p, control_out |-> q]
             half == [x |-> a, y |-> b, node_type |-> c, control_in |-> in, control_out |-> q]
             whole == [x |-> a, y |-> b, node_type |-> c, control_in |-> in, control_out |-> out]
  <2>1. NodeFromDict(d) = read
    BY DEF NodeFromDict
  <2>2. read.control_in = p /\ read.control_out = q
    OBVIOUS
  <2>3. in = PointToDict(p) /\ out = PointToDict(q)
    OBVIOUS
  <2> HIDE DEF a, b, c, p, q, in, out
  <2>4. [read EXCEPT !.control_in = in] = half
    OBVIOUS
  <2>5. [half EXCEPT !.control_out = out] = whole
    OBVIOUS
  <2> HIDE DEF read, half
  <2>6. [read EXCEPT !.control_in = in, !.control_out = out]
        = [[read EXCEPT !.control_in = in] EXCEPT !.control_out = out]
    OBVIOUS
  <2>7. NodeToDict(read) = Object([read EXCEPT !.control_in = in, !.control_out = out])
    BY <2>2, <2>3 DEF NodeToDict
  <2>8. NodeToDict(read) = Object(whole)
    BY <2>4, <2>5, <2>6, <2>7
  <2>9. w = Object(whole)
    BY <2>1, <2>8
  <2>10. QED
    BY <2>9 DEF a, b, c
<1>2. /\ w.json = "object"
      /\ Get(w, "x") = Get(d, "x") /\ Get(w, "y") = Get(d, "y")
      /\ Get(w, "node_type") = Get(d, "node_type")
      /\ Get(w, "control_in") = in /\ Get(w, "control_out") = out
  BY <1>1, ObjectFields
<1> HIDE DEF w
<1>3. /\ PointParses(in) /\ Kept(Get(d, "control_in"), in, {"x", "y"})
      /\ PointFromDict(in) = PointFromDict(Get(d, "control_in"))
  BY PointComesBack DEF NodeParses
<1>4. /\ PointParses(out) /\ Kept(Get(d, "control_out"), out, {"x", "y"})
      /\ PointFromDict(out) = PointFromDict(Get(d, "control_out"))
  BY PointComesBack DEF NodeParses
<1> HIDE DEF in, out
<1>5. ValidNode(w)
  BY <1>2 DEF ValidNode, RequiresNumber
<1>6. NodeParses(w)
  BY <1>2, <1>3, <1>4 DEF NodeParses
<1>7. NodeKept(d, w)
  <2>1. Kept(d, w, {"x", "y", "node_type"})
    BY <1>2 DEF Kept
  <2>2. QED
    BY <1>2, <1>3, <1>4, <2>1 DEF NodeKept, FieldKept
<1>8. NodeFromDict(w) = NodeFromDict(d)
  BY <1>2, <1>3, <1>4 DEF NodeFromDict
<1>9. NodeComesBack(d, w)
  BY <1>5, <1>6, <1>7, <1>8 DEF NodeComesBack
<1>10. QED
  BY <1>9 DEF w

\* A subpath, with its nodes.
SubpathComesBack(d, w) ==
    /\ ValidSubpath(w) /\ SubpathParses(w)
    /\ SubpathKept(d, w)
    /\ SubpathFromDict(w) = SubpathFromDict(d)

LEMMA SubpathsComeBack ==
    ASSUME NEW d \in Documents, ValidSubpath(d), SubpathParses(d)
    PROVE  SubpathComesBack(d, SubpathToDict(SubpathFromDict(d)))
<1> DEFINE old == Items(d, "nodes").items
           new == [i \in DOMAIN old |-> NodeToDict(NodeFromDict(old[i]))]
           w == SubpathToDict(SubpathFromDict(d))
<1>1. /\ Items(d, "nodes").json = "array" /\ old # <<>>
      /\ \A i \in DOMAIN old : ValidNode(old[i]) /\ NodeParses(old[i])
      /\ Get(d, "closed").json = "boolean"
  BY DEF ValidSubpath, SubpathParses, EachOf
<1>2. old \in Seq(Documents)
  BY <1>1, DocumentParts
<1>3. w = Object([closed |-> Get(d, "closed"), nodes |-> Array(new)])
  BY DEF SubpathToDict, SubpathFromDict, MapItems, MapTuple
<1>4. /\ w.json = "object"
      /\ Get(w, "closed") = Get(d, "closed")
      /\ Items(w, "nodes") = Array(new)
  BY <1>3, ObjectFields
<1>5. Items(w, "nodes").items = new /\ Items(w, "nodes").json = "array"
  BY <1>4 DEF Array
<1>6. \A i \in DOMAIN old : NodeComesBack(old[i], new[i])
  BY <1>1, NodesComeBack
<1>7. DOMAIN new = DOMAIN old
  OBVIOUS
<1>8. new # <<>>
  BY <1>1, <1>2, <1>7
<1> HIDE DEF w, old, new
<1>9. ValidSubpath(w) /\ SubpathParses(w)
  <2>1. \A i \in DOMAIN new : ValidNode(new[i]) /\ NodeParses(new[i])
    BY <1>6, <1>7 DEF NodeComesBack
  <2>2. QED
    BY <1>1, <1>4, <1>5, <1>8, <2>1 DEF ValidSubpath, SubpathParses, EachOf
<1>10. SubpathKept(d, w)
  <2>1. Kept(d, w, {"closed"})
    BY <1>4 DEF Kept
  <2>2. EachKept(d, w, "nodes", NodeKept)
    BY <1>5, <1>6, <1>7 DEF EachKept, NodeComesBack, old
  <2>3. QED
    BY <2>1, <2>2 DEF SubpathKept
<1>11. SubpathFromDict(w) = SubpathFromDict(d)
  <2>1. \A i \in DOMAIN old : NodeFromDict(new[i]) = NodeFromDict(old[i])
    BY <1>6 DEF NodeComesBack
  <2>2. MapItems(w, "nodes", NodeFromDict) = MapItems(d, "nodes", NodeFromDict)
    BY <1>5, <1>7, <2>1 DEF MapItems, old
  <2>3. QED
    BY <1>4, <2>2 DEF SubpathFromDict
<1>12. QED
  BY <1>9, <1>10, <1>11 DEF SubpathComesBack, w

\* An object, with its fill and its stroke.
ObjectComesBack(d, w) ==
    /\ ValidObject(w) /\ ObjectParses(w)
    /\ ObjectKept(d, w)
    /\ ObjectFromDict(w) = ObjectFromDict(d)

LEMMA ObjectsComeBack ==
    ASSUME NEW d \in Documents, ValidObject(d), ObjectParses(d)
    PROVE  ObjectComesBack(d, ObjectToDict(ObjectFromDict(d)))
<1> DEFINE old == Items(d, "subpaths").items
           new == [i \in DOMAIN old |-> SubpathToDict(SubpathFromDict(old[i]))]
           sentFill == Get(d, "fill")
           sentStroke == Get(d, "stroke")
           fill == [type |-> GetOr(sentFill, "type", Text("none")), color |-> Get(sentFill, "color")]
           stroke == [width |-> Get(sentStroke, "width")]
           w == ObjectToDict(ObjectFromDict(d))
<1>1. /\ Items(d, "subpaths").json = "array"
      /\ \A i \in DOMAIN old : ValidSubpath(old[i]) /\ SubpathParses(old[i])
      /\ RequiresText(d, "object_id")
  BY DEF ValidObject, ObjectParses, EachOf
<1>2. old \in Seq(Documents)
  BY <1>1, DocumentParts
<1>3. w = Object([object_id |-> Get(d, "object_id"), subpaths |-> Array(new),
                  fill |-> Object(fill), stroke |-> Object(stroke)])
  BY DEF ObjectToDict, ObjectFromDict, MapItems, MapTuple
<1>4. /\ w.json = "object"
      /\ Get(w, "object_id") = Get(d, "object_id")
      /\ Items(w, "subpaths") = Array(new)
      /\ Get(w, "fill") = Object(fill)
      /\ Get(w, "stroke") = Object(stroke)
  BY <1>3, ObjectFields
<1>5. Items(w, "subpaths").items = new /\ Items(w, "subpaths").json = "array"
  BY <1>4 DEF Array
<1>6. \A i \in DOMAIN old : SubpathComesBack(old[i], new[i])
  <2>1. \A i \in DOMAIN old : old[i] \in Documents
    BY <1>2
  <2>2. QED
    BY <1>1, <2>1, SubpathsComeBack
<1>7. DOMAIN new = DOMAIN old
  OBVIOUS
<1>8. /\ Get(Object(fill), "type") = GetOr(sentFill, "type", Text("none"))
      /\ GetOr(Object(fill), "type", Text("none")) = GetOr(sentFill, "type", Text("none"))
      /\ Get(Object(fill), "color") = Get(sentFill, "color")
      /\ Object(fill).json = "object"
      /\ Get(Object(stroke), "width") = Get(sentStroke, "width")
      /\ Object(stroke).json = "object"
  BY ObjectFields
<1>9. /\ Get(sentFill, "type") = Null
         \/ Get(sentFill, "type") = GetOr(sentFill, "type", Text("none"))
      /\ GetOr(sentFill, "type", Text("none")) \in FillTypes \cup {Null}
  <2>1. CASE Has(sentFill, "type")
    <3>1. sentFill # Null
      BY <2>1 DEF Has, Null
    <3>2. Get(sentFill, "type") \in FillTypes \cup {Null}
      BY <3>1 DEF ValidObject
    <3>3. GetOr(sentFill, "type", Text("none")) = Get(sentFill, "type")
      BY <2>1 DEF Get, GetOr
    <3>4. QED
      BY <3>2, <3>3
  <2>2. CASE ~Has(sentFill, "type")
    BY <2>2 DEF Get, GetOr, FillTypes
  <2>3. QED
    BY <2>1, <2>2
<1> HIDE DEF w, old, new, fill, stroke
<1>10. ValidObject(w)
  <2>1. EachOf(w, "subpaths", ValidSubpath)
    BY <1>5, <1>6, <1>7 DEF EachOf, SubpathComesBack
  <2>2. RequiresText(w, "object_id")
    BY <1>1, <1>4, Zenon DEF RequiresText
  <2>3. Get(Object(fill), "type") \in FillTypes \cup {Null}
    BY <1>8, <1>9
  <2>4. QED
    BY <1>4, <1>8, <2>1, <2>2, <2>3 DEF ValidObject
<1>11. ObjectParses(w)
  <2>1. EachOf(w, "subpaths", SubpathParses)
    BY <1>5, <1>6, <1>7 DEF EachOf, SubpathComesBack
  <2>2. QED
    BY <1>4, <1>8, <2>1 DEF ObjectParses, StrokeParses
<1>12. ObjectKept(d, w)
  <2>1. Kept(d, w, {"object_id"})
    BY <1>4 DEF Kept
  <2>2. EachKept(d, w, "subpaths", SubpathKept)
    BY <1>5, <1>6, <1>7 DEF EachKept, SubpathComesBack, old
  <2>3. FieldKept(d, w, "fill", {"type", "color"})
    BY <1>4, <1>8, <1>9 DEF FieldKept, Kept
  <2>4. FieldKept(d, w, "stroke", {"width"})
    BY <1>4, <1>8 DEF FieldKept, Kept
  <2>5. QED
    BY <2>1, <2>2, <2>3, <2>4 DEF ObjectKept
<1>13. ObjectFromDict(w) = ObjectFromDict(d)
  <2>1. \A i \in DOMAIN old : SubpathFromDict(new[i]) = SubpathFromDict(old[i])
    BY <1>6 DEF SubpathComesBack
  <2>2. MapItems(w, "subpaths", SubpathFromDict) = MapItems(d, "subpaths", SubpathFromDict)
    BY <1>5, <1>7, <2>1 DEF MapItems, old
  <2>3. QED
    BY <1>4, <1>8, <2>2 DEF ObjectFromDict
<1>14. QED
  BY <1>10, <1>11, <1>12, <1>13 DEF ObjectComesBack, w

\* A layer, with its objects.
LayerComesBack(d, w) ==
    /\ ValidLayer(w) /\ LayerParses(w)
    /\ LayerKept(d, w)
    /\ LayerFromDict(w) = LayerFromDict(d)

LEMMA LayersComeBack ==
    ASSUME NEW d \in Documents, ValidLayer(d), LayerParses(d)
    PROVE  LayerComesBack(d, LayerToDict(LayerFromDict(d)))
<1> DEFINE old == Items(d, "objects").items
           new == [i \in DOMAIN old |-> ObjectToDict(ObjectFromDict(old[i]))]
           w == LayerToDict(LayerFromDict(d))
<1>1. /\ Items(d, "objects").json = "array"
      /\ \A i \in DOMAIN old : ValidObject(old[i]) /\ ObjectParses(old[i])
      /\ RequiresText(d, "layer_role")
  BY DEF ValidLayer, LayerParses, EachOf
<1>2. \A i \in DOMAIN old : old[i] \in Documents
  BY <1>1, DocumentParts
<1>3. w = Object([layer_role |-> Get(d, "layer_role"), objects |-> Array(new)])
  BY DEF LayerToDict, LayerFromDict, MapItems, MapTuple
<1>4. /\ w.json = "object"
      /\ Get(w, "layer_role") = Get(d, "layer_role")
      /\ Items(w, "objects") = Array(new)
  BY <1>3, ObjectFields
<1>5. Items(w, "objects").items = new /\ Items(w, "objects").json = "array"
  BY <1>4 DEF Array
<1>6. \A i \in DOMAIN old : ObjectComesBack(old[i], new[i])
  BY <1>1, <1>2, ObjectsComeBack
<1>7. DOMAIN new = DOMAIN old
  OBVIOUS
<1> HIDE DEF w, old, new
<1>8. ValidLayer(w) /\ LayerParses(w)
  <2>1. EachOf(w, "objects", ValidObject) /\ EachOf(w, "objects", ObjectParses)
    BY <1>5, <1>6, <1>7 DEF EachOf, ObjectComesBack
  <2>2. RequiresText(w, "layer_role")
    BY <1>1, <1>4, Zenon DEF RequiresText
  <2>3. QED
    BY <1>4, <2>1, <2>2 DEF ValidLayer, LayerParses
<1>9. LayerKept(d, w)
  <2>1. Kept(d, w, {"layer_role"})
    BY <1>4 DEF Kept
  <2>2. EachKept(d, w, "objects", ObjectKept)
    BY <1>5, <1>6, <1>7 DEF EachKept, ObjectComesBack, old
  <2>3. QED
    BY <2>1, <2>2 DEF LayerKept
<1>10. LayerFromDict(w) = LayerFromDict(d)
  <2>1. \A i \in DOMAIN old : ObjectFromDict(new[i]) = ObjectFromDict(old[i])
    BY <1>6 DEF ObjectComesBack
  <2>2. MapItems(w, "objects", ObjectFromDict) = MapItems(d, "objects", ObjectFromDict)
    BY <1>5, <1>7, <2>1 DEF MapItems, old
  <2>3. QED
    BY <1>4, <2>2 DEF LayerFromDict
<1>11. QED
  BY <1>8, <1>9, <1>10 DEF LayerComesBack, w

\* The coordinates of what has been read are numbers, so that a distance can be taken.
NodeMeasures(node) == node.x.number \in Int /\ node.y.number \in Int
SubpathMeasures(subpath) == \A i \in DOMAIN subpath.nodes : NodeMeasures(subpath.nodes[i])
ObjectMeasures(obj) == \A i \in DOMAIN obj.subpaths : SubpathMeasures(obj.subpaths[i])
LayerMeasures(layer) == \A i \in DOMAIN layer.objects : ObjectMeasures(layer.objects[i])

LEMMA NodesMeasure ==
    ASSUME NEW d \in Documents, ValidNode(d) PROVE NodeMeasures(NodeFromDict(d))
<1>1. Get(d, "x").number \in Int /\ Get(d, "y").number \in Int
  BY DocumentParts DEF ValidNode, RequiresNumber
<1>2. NodeFromDict(d).x = Get(d, "x") /\ NodeFromDict(d).y = Get(d, "y")
  BY DEF NodeFromDict
<1>3. QED
  BY <1>1, <1>2 DEF NodeMeasures

LEMMA SubpathsMeasure ==
    ASSUME NEW d \in Documents, ValidSubpath(d) PROVE SubpathMeasures(SubpathFromDict(d))
<1> DEFINE old == Items(d, "nodes").items
<1>1. old \in Seq(Documents) /\ \A i \in DOMAIN old : ValidNode(old[i])
  BY DocumentParts DEF ValidSubpath, EachOf
<1>2. \A i \in DOMAIN old : NodeMeasures(NodeFromDict(old[i]))
  BY <1>1, NodesMeasure
<1>3. SubpathFromDict(d).nodes = [i \in DOMAIN old |-> NodeFromDict(old[i])]
  BY DEF SubpathFromDict, MapItems
<1>4. QED
  BY <1>2, <1>3 DEF SubpathMeasures

LEMMA ObjectsMeasure ==
    ASSUME NEW d \in Documents, ValidObject(d) PROVE ObjectMeasures(ObjectFromDict(d))
<1> DEFINE old == Items(d, "subpaths").items
<1>1. old \in Seq(Documents) /\ \A i \in DOMAIN old : ValidSubpath(old[i])
  BY DocumentParts DEF ValidObject, EachOf
<1>2. \A i \in DOMAIN old : SubpathMeasures(SubpathFromDict(old[i]))
  BY <1>1, SubpathsMeasure
<1>3. ObjectFromDict(d).subpaths = [i \in DOMAIN old |-> SubpathFromDict(old[i])]
  BY DEF ObjectFromDict, MapItems
<1>4. QED
  BY <1>2, <1>3 DEF ObjectMeasures

LEMMA LayersMeasure ==
    ASSUME NEW d \in Documents, ValidLayer(d) PROVE LayerMeasures(LayerFromDict(d))
<1> DEFINE old == Items(d, "objects").items
<1>1. old \in Seq(Documents) /\ \A i \in DOMAIN old : ValidObject(old[i])
  BY DocumentParts DEF ValidLayer, EachOf
<1>2. \A i \in DOMAIN old : ObjectMeasures(ObjectFromDict(old[i]))
  BY <1>1, ObjectsMeasure
<1>3. LayerFromDict(d).objects = [i \in DOMAIN old |-> ObjectFromDict(old[i])]
  BY DEF LayerFromDict, MapItems
<1>4. QED
  BY <1>2, <1>3 DEF LayerMeasures

\* A geometry passes the round-trip contract with any other of the same layers.
LEMMA SameLayersRoundTrip ==
    ASSUME NEW g, NEW h, h.layers = g.layers,
           \A i \in DOMAIN g.layers : LayerMeasures(g.layers[i])
    PROVE  RoundTrips(g, h, 0)
<1> DEFINE Near(n, m) == LET dx == n.x.number - m.x.number
                             dy == n.y.number - m.y.number
                         IN  dx * dx + dy * dy <= 0 * 0
           SameSubpath(s, t) == s.closed = t.closed /\ Pairwise(s.nodes, t.nodes, Near)
           SameObject(o, p) == Pairwise(o.subpaths, p.subpaths, SameSubpath)
           SameLayer(k, l) == Pairwise(k.objects, l.objects, SameObject)
<1>1. \A n : NodeMeasures(n) => Near(n, n)
  <2> SUFFICES ASSUME NEW a \in Int, NEW b \in Int
               PROVE  (a - a) * (a - a) + (b - b) * (b - b) <= 0 * 0
    BY DEF NodeMeasures
  <2>1. a - a = 0 /\ b - b = 0
    OBVIOUS
  <2>2. QED
    BY <2>1
<1> HIDE DEF Near
<1>2. \A s : SubpathMeasures(s) => SameSubpath(s, s)
  BY <1>1 DEF SubpathMeasures, Pairwise
<1> HIDE DEF SameSubpath
<1>3. \A o : ObjectMeasures(o) => SameObject(o, o)
  BY <1>2 DEF ObjectMeasures, Pairwise
<1> HIDE DEF SameObject
<1>4. \A k : LayerMeasures(k) => SameLayer(k, k)
  BY <1>3 DEF LayerMeasures, Pairwise
<1> HIDE DEF SameLayer
<1>5. Pairwise(g.layers, h.layers, SameLayer)
  BY <1>4 DEF Pairwise
<1>6. QED
  BY <1>5 DEF RoundTrips, Near, SameSubpath, SameObject, SameLayer

MetadataKeys == {"source_adapter", "source_file_hint", "imported_at"}

\* The whole document.
LEMMA GeometriesComeBack ==
    ASSUME NEW d \in Documents, ValidGeometry(d), Parses(d)
    PROVE  LET w == GeometryToDict(GeometryFromDict(d)) IN
           /\ GeometryKept(d, w)
           /\ ValidGeometry(w) /\ Parses(w)
           /\ RoundTrips(GeometryFromDict(d), GeometryFromDict(w), 0)
<1> DEFINE old == Items(d, "layers").items
           new == [i \in DOMAIN old |-> LayerToDict(LayerFromDict(old[i]))]
           sentBox == Get(d, "bounding_box")
           sentMeta == Get(d, "metadata")
           box == [key \in BoxKeys |-> Get(sentBox, key)]
           meta == [key \in MetadataKeys |-> Get(sentMeta, key)]
           version == GetOr(d, "format_version", Text("1.0"))
           w == GeometryToDict(GeometryFromDict(d))
<1>1. /\ Items(d, "layers").json = "array"
      /\ \A i \in DOMAIN old : ValidLayer(old[i]) /\ LayerParses(old[i])
      /\ Get(d, "units") = Text("mm")
      /\ \A key \in BoxKeys : RequiresNumber(sentBox, key)
      /\ RequiresText(sentMeta, "source_adapter")
  BY DEF ValidGeometry, Parses, EachOf, ValidBoundingBox, ValidMetadata
<1>2. \A i \in DOMAIN old : old[i] \in Documents
  BY <1>1, DocumentParts
<1>3. w = Object([units |-> Get(d, "units"), bounding_box |-> Object(box), layers |-> Array(new),
                  metadata |-> Object(meta), format_version |-> version])
  BY DEF GeometryToDict, GeometryFromDict, MapItems, MapTuple, MetadataKeys
<1>4. /\ w.json = "object"
      /\ Get(w, "units") = Get(d, "units")
      /\ Get(w, "bounding_box") = Object(box)
      /\ Items(w, "layers") = Array(new) /\ Has(w, "layers")
      /\ Get(w, "metadata") = Object(meta)
      /\ Get(w, "format_version") = version
  BY <1>3, ObjectFields
<1>5. Items(w, "layers").items = new /\ Items(w, "layers").json = "array"
  BY <1>4 DEF Array
<1>6. \A i \in DOMAIN old : LayerComesBack(old[i], new[i])
  BY <1>1, <1>2, LayersComeBack
<1>7. DOMAIN new = DOMAIN old
  OBVIOUS
<1>8. /\ \A key \in BoxKeys : Get(Object(box), key) = Get(sentBox, key)
      /\ DOMAIN Object(box).fields = BoxKeys /\ Object(box).json = "object"
  BY ObjectFields DEF Object
<1>9. /\ \A key \in MetadataKeys : Get(Object(meta), key) = Get(sentMeta, key)
      /\ Object(meta).json = "object"
  BY ObjectFields DEF Object
<1>10. Get(d, "format_version") = Null \/ Get(d, "format_version") = version
  BY DEF Get, GetOr
<1>11. /\ GeometryFromDict(d).layers = MapItems(d, "layers", LayerFromDict)
       /\ GeometryFromDict(w).layers = MapItems(w, "layers", LayerFromDict)
  BY DEF GeometryFromDict
<1> HIDE DEF w, old, new, box, meta, version
<1>12. GeometryKept(d, w)
  <2>1. Kept(d, w, {"units", "format_version"})
    BY <1>4, <1>10 DEF Kept
  <2>2. FieldKept(d, w, "bounding_box", BoxKeys)
    BY <1>4, <1>8 DEF FieldKept, Kept
  <2>3. FieldKept(d, w, "metadata", MetadataKeys)
    BY <1>4, <1>9 DEF FieldKept, Kept
  <2>4. EachKept(d, w, "layers", LayerKept)
    BY <1>5, <1>6, <1>7 DEF EachKept, LayerComesBack, old
  <2>5. QED
    BY <2>1, <2>2, <2>3, <2>4 DEF GeometryKept, MetadataKeys
<1>13. ValidGeometry(w)
  <2>1. ValidBoundingBox(Object(box))
    BY <1>1, <1>8 DEF ValidBoundingBox, RequiresNumber
  <2>2. ValidMetadata(Object(meta))
    <3>1. Get(Object(meta), "source_adapter") = Get(sentMeta, "source_adapter")
      BY <1>9 DEF MetadataKeys
    <3>2. QED
      BY <1>1, <1>9, <3>1 DEF ValidMetadata, RequiresText
  <2>3. EachOf(w, "layers", ValidLayer)
    BY <1>5, <1>6, <1>7 DEF EachOf, LayerComesBack
  <2>4. QED
    BY <1>1, <1>4, <2>1, <2>2, <2>3 DEF ValidGeometry
<1>14. Parses(w)
  <2>1. EachOf(w, "layers", LayerParses)
    BY <1>5, <1>6, <1>7 DEF EachOf, LayerComesBack
  <2>2. QED
    BY <1>4, <1>8, <2>1 DEF Parses
<1>15. RoundTrips(GeometryFromDict(d), GeometryFromDict(w), 0)
  <2>1. \A i \in DOMAIN old : LayerFromDict(new[i]) = LayerFromDict(old[i])
    BY <1>6 DEF LayerComesBack
  <2>2. MapItems(w, "layers", LayerFromDict) = MapItems(d, "layers", LayerFromDict)
    BY <1>5, <1>7, <2>1 DEF MapItems, old
  <2>3. \A i \in DOMAIN old : LayerMeasures(LayerFromDict(old[i]))
    BY <1>1, <1>2, LayersMeasure
  <2>4. MapItems(d, "layers", LayerFromDict) = [i \in DOMAIN old |-> LayerFromDict(old[i])]
    BY DEF MapItems, old
  <2>5. QED
    BY <1>11, <2>2, <2>3, <2>4, SameLayersRoundTrip
<1>16. QED
  BY <1>12, <1>13, <1>14, <1>15 DEF w

-----------------------------------------------------------------------------
(* The theorems. *)

\* The invariant holds whatever requests are served, in whatever order.
THEOREM DispatchInvariance == Spec => []DispatchInv
<1>1. QED
  BY InitInvariant, StepInvariant, PTL DEF Spec

\* The stores, the responses and the keys stay well formed.
THEOREM DispatchTypeCorrect == Spec => []TypeOK
<1>1. DispatchInv => TypeOK
  BY DEF DispatchInv
<1>2. QED
  BY <1>1, DispatchInvariance, PTL

\* A response with the correlation id of another request is a remembered success
\* that an authorised client of its key gets, or the bare 500 (app.py:97-119).
THEOREM ErrorsAreOnesOwn == Spec => []OnlyReplaysStray
<1>1. DispatchInv => OnlyReplaysStray
  BY DEF DispatchInv
<1>2. QED
  BY <1>1, DispatchInvariance, PTL

\* A 2xx of POST /v1/jobs names a stored job, unless its key was used at another
\* endpoint (app.py:101-118, core_client.py:122-127).
THEOREM JobAnswersAreJobs == Spec => []JobAnswersNameAJob
<1>1. DispatchInv => JobAnswersNameAJob
  BY DEF DispatchInv
<1>2. QED
  BY <1>1, DispatchInvariance, PTL

\* Whatever an adapter sent that the wire format knows is in what the Core answers of
\* the job, which it would accept again and which passes its round-trip contract
\* (routes_jobs.py:24-41, serialization.py, round_trip.py).
THEOREM GeometryIsNeverLost == Spec => []StoredGeometryComesBack
<1>1. DispatchInv => StoredGeometryComesBack
  <2> SUFFICES ASSUME DispatchInv, NEW j \in DOMAIN jobs
               PROVE  LET answered == GeometryToDict(jobs[j].geometry) IN
                      /\ GeometryKept(jobs[j].sent, answered)
                      /\ ValidGeometry(answered) /\ Parses(answered)
                      /\ RoundTrips(jobs[j].geometry, GeometryFromDict(answered), 0)
    BY DEF StoredGeometryComesBack
  <2>1. jobs[j] \in Records
    BY DEF DispatchInv, JobsInv
  <2>2. PICK req \in Requests : Created(req.body) /\ jobs[j] = Record(req.body)
    BY <2>1 DEF Records
  <2> DEFINE sent == Get(req.body, "geometry")
  <2>3. jobs[j].sent = sent /\ jobs[j].geometry = GeometryFromDict(sent)
    BY <2>2 DEF Record
  <2>4. ValidGeometry(sent) /\ Parses(sent)
    BY <2>2 DEF Created, Submission
  <2>5. sent \in Documents
    <3>1. sent.json = "object"
      BY <2>4 DEF ValidGeometry
    <3>2. sent # Null /\ req.body # Null /\ req.body # Garbled
      BY <2>2, <3>1 DEF Created, Submission, Null, Garbled
    <3>3. req.body \in Documents
      BY <3>2, RequestsAssumption
    <3>4. QED
      BY <3>2, <3>3, DocumentParts
  <2> HIDE DEF sent
  <2>6. QED
    BY <2>3, <2>4, <2>5, GeometriesComeBack
<1>2. QED
  BY <1>1, DispatchInvariance, PTL

\* The store grows by confirmed jobs only, one at a time (routes_jobs.py:33-41).
THEOREM StoredJobsAreConfirmed == Spec => OnlyConfirmedJobsAreStored
<1> DEFINE Confirmed == jobs' # jobs => /\ reply'.status = 201
                                        /\ reply'.job = Len(jobs')
                                        /\ jobs = SubSeq(jobs', 1, Len(jobs') - 1)
<1>1. DispatchInv /\ [Next]_vars => [Confirmed]_vars
  <2> SUFFICES ASSUME DispatchInv, Next, jobs' # jobs
               PROVE  /\ reply'.status = 201
                      /\ reply'.job = Len(jobs')
                      /\ jobs = SubSeq(jobs', 1, Len(jobs') - 1)
    OBVIOUS
  <2>1. PICK req \in Requests : Dispatch(req)
    BY DEF Next
  <2>2. InvokeCreateJob(req)
    BY <2>1 DEF Dispatch, Unauthorized, Replay, NotFound, MethodNotAllowed, UnreadableBody, InvokeReport
  <2>3. /\ Created(req.body)
        /\ Len(jobs) + 1 \in JobIds
        /\ jobs' = Append(jobs, Record(req.body))
        /\ reply' = JobAnswer(req, Len(jobs) + 1)
    BY <2>2 DEF InvokeCreateJob, Respond
  <2>4. JobsInv
    BY DEF DispatchInv
  <2>5. Len(jobs') = Len(jobs) + 1 /\ SubSeq(jobs', 1, Len(jobs') - 1) = jobs
    BY <2>3, <2>4, NewRecord
  <2>6. reply'.status = 201 /\ reply'.job = Len(jobs) + 1
    BY <2>3, JobAnswers
  <2>7. QED
    BY <2>5, <2>6
<1>2. QED
  BY <1>1, DispatchInvariance, PTL DEF Spec, OnlyConfirmedJobsAreStored
=============================================================================
