---------------------------- MODULE JobSubmission ----------------------------
(***************************************************************************)
(* One job submission end to end: CoreClient.submit_job on the Adapter     *)
(* side, the Core's WSGI threads that answer POST /v1/jobs, and the two    *)
(* in-memory stores those threads share (IdempotencyStore and              *)
(* InMemoryJobStore), across crashes and restarts of the Core.             *)
(*                                                                         *)
(* A request is a pair <<c, n>>: the n-th attempt of call c.  The Core     *)
(* gives every request a thread of its own (ThreadingWSGIServer), so a     *)
(* request names its thread too, and a job is named by the request that    *)
(* created it (the job_id is a fresh uuid4).                               *)
(*                                                                         *)
(* A thread takes one step per critical section: the authentication check  *)
(* with the idempotency lookup, the handler with InMemoryJobStore.create,  *)
(* IdempotencyStore.put, and the write of the response.  Each of the two   *)
(* stores has a lock of its own, and no lock is held from one step to the  *)
(* next.                                                                   *)
(***************************************************************************)
EXTENDS Naturals, FiniteSets

CONSTANTS
    Calls,         \* invocations of CoreClient.submit_job
    Keys,          \* idempotency keys (fresh uuid4s, or supplied by the caller)
    MaxRetries,    \* CoreClient(max_retries=...): attempts per call
    MaxLifetimes,  \* bound: how often the Core process is started
    Overlapping,   \* may an attempt be sent while an earlier request with its
                   \* key is still at work in the Core?  (timeouts, two callers)
    NoKey, NoJob, NoReply

ASSUME ConstantsAssumption ==
    /\ MaxRetries \in Nat \ {0}
    /\ MaxLifetimes \in Nat \ {0}
    /\ Overlapping \in BOOLEAN
    /\ NoKey \notin Keys

Attempts == 1 .. MaxRetries
Requests == Calls \X Attempts
Lifetimes == 1 .. MaxLifetimes

ASSUME NoJobAssumption == NoJob \notin Requests

(***************************************************************************)
(* What the Core makes of a submitted body: a well-formed job, one that    *)
(* fails structural validation, or one that passes the validator and then  *)
(* makes geometry_from_dict raise (an extra bounding_box field, a control  *)
(* point without x), which ends in the catch-all of _invoke.               *)
(***************************************************************************)
Payloads == {"valid", "invalid", "loose"}

Replies == [status : {201, 400, 401, 500}, job : Requests \cup {NoJob}]
Failure(status) == [status |-> status, job |-> NoJob]
Succeeded(reply) == reply.status \in 200 .. 299

ASSUME NoReplyAssumption == NoReply \notin Replies

VARIABLES
    running,    \* is a Core process serving requests?
    lifetime,   \* how many Core processes were started; names the auth token
    jobs,       \* InMemoryJobStore._jobs: the jobs of this Core process
    cache,      \* IdempotencyStore._responses
    thread,     \* control state of each request's thread in the Core
    reply,      \* the (status, body) a thread has computed
    call,       \* control state of each submit_job call
    attempt,    \* the loop variable of CoreClient._request
    key,        \* the call's Idempotency-Key header
    token,      \* the call's bearer token: the lifetime it was issued in
    payload,    \* the call's body
    result,     \* what the call returned or raised
    lost,       \* history: the jobs of earlier Core processes
    resubmits   \* history: had a call with this key and token returned a job
                \* before this one was made?

serverVars == <<running, lifetime, jobs, cache, lost>>
threadVars == <<thread, reply>>
requestVars == <<key, token, payload, resubmits>>
clientVars == <<call, attempt, result>>
vars == <<serverVars, threadVars, requestVars, clientVars>>

ThreadStates == {"unsent", "sent", "invoke", "put", "respond", "answered", "dead"}
CallStates == {"idle", "sending", "waiting", "returned", "raised"}

TypeOK ==
    /\ running \in BOOLEAN
    /\ lifetime \in Lifetimes
    /\ jobs \in SUBSET Requests
    /\ cache \in [Keys -> Replies \cup {NoReply}]
    /\ thread \in [Requests -> ThreadStates]
    /\ reply \in [Requests -> Replies \cup {NoReply}]
    /\ call \in [Calls -> CallStates]
    /\ attempt \in [Calls -> Attempts]
    /\ key \in [Calls -> Keys \cup {NoKey}]
    /\ token \in [Calls -> Lifetimes]
    /\ payload \in [Calls -> Payloads]
    /\ result \in [Calls -> Replies \cup {NoReply}]
    /\ lost \in SUBSET Requests
    /\ resubmits \in [Calls -> BOOLEAN]

Init ==
    /\ running = TRUE
    /\ lifetime = 1
    /\ jobs = {}
    /\ cache = [k \in Keys |-> NoReply]
    /\ thread = [r \in Requests |-> "unsent"]
    /\ reply = [r \in Requests |-> NoReply]
    /\ call = [c \in Calls |-> "idle"]
    /\ attempt = [c \in Calls |-> 1]
    /\ key = [c \in Calls |-> NoKey]
    /\ token = [c \in Calls |-> 1]
    /\ payload = [c \in Calls |-> "valid"]
    /\ result = [c \in Calls |-> NoReply]
    /\ lost = {}
    /\ resubmits = [c \in Calls |-> FALSE]

Moves(r, from, to) ==
    /\ thread[r] = from
    /\ thread' = [thread EXCEPT ![r] = to]

\* A thread between its first step in the Core and its last one.
AtWork(r) == thread[r] \in {"sent", "invoke", "put", "respond"}

(***************************************************************************)
(* CoreClient.                                                             *)
(***************************************************************************)

\* submit_job: the caller supplies the key, or a fresh one is generated; the
\* client object was built with the token of this Core process or of an
\* earlier one.
SubmitJob(c) ==
    /\ call[c] = "idle"
    /\ \E k \in Keys, t \in 1 .. lifetime, p \in Payloads :
        /\ key' = [key EXCEPT ![c] = k]
        /\ token' = [token EXCEPT ![c] = t]
        /\ payload' = [payload EXCEPT ![c] = p]
        /\ resubmits' = [resubmits EXCEPT ![c] =
               \E d \in Calls : call[d] = "returned" /\ key[d] = k /\ token[d] = t]
    /\ call' = [call EXCEPT ![c] = "sending"]
    /\ UNCHANGED <<serverVars, threadVars, attempt, result>>

\* One turn of the loop in _request up to session.request.  Without a Core
\* the connection is refused.
SendAttempt(c) ==
    LET r == <<c, attempt[c]>> IN
    /\ call[c] = "sending"
    /\ Overlapping \/ \A s \in Requests : key[s[1]] = key[c] => ~AtWork(s)
    /\ Moves(r, "unsent", IF running THEN "sent" ELSE "dead")
    /\ call' = [call EXCEPT ![c] = "waiting"]
    /\ UNCHANGED <<serverVars, reply, requestVars, attempt, result>>

\* Mutant: the loop takes one turn too many.
RetryWithoutLimit(c) ==
    /\ call[c] = "waiting"
    /\ call' = [call EXCEPT ![c] = "sending"]
    /\ attempt' = [attempt EXCEPT ![c] = @ + 1]
    /\ UNCHANGED <<serverVars, threadVars, requestVars, result>>

\* RequestException: refused, reset, or timed out.  The timeout fires
\* whatever the Core is doing, so the request lives on in the Core.
RetryAfterException(c) ==
    /\ call[c] = "waiting"
    /\ attempt[c] < MaxRetries
    /\ call' = [call EXCEPT ![c] = "sending"]
    /\ attempt' = [attempt EXCEPT ![c] = @ + 1]
    /\ UNCHANGED <<serverVars, threadVars, requestVars, result>>

\* Mutant: the last attempt is one more than the loop ever makes.
GiveUpTooLate(c) ==
    /\ call[c] = "waiting"
    /\ attempt[c] > MaxRetries
    /\ call' = [call EXCEPT ![c] = "raised"]
    /\ UNCHANGED <<serverVars, threadVars, requestVars, attempt, result>>

\* RequestException on the last attempt: CoreClientError.
GiveUp(c) ==
    /\ call[c] = "waiting"
    /\ attempt[c] = MaxRetries
    /\ call' = [call EXCEPT ![c] = "raised"]
    /\ UNCHANGED <<serverVars, threadVars, requestVars, attempt, result>>

\* The response to the current attempt arrives: a 2xx body is returned, any
\* other becomes an exception.  (POST /v1/jobs never answers 502, 503 or 504,
\* the statuses _request would retry.)
ReceiveResponse(c) ==
    LET r == <<c, attempt[c]>> IN
    /\ call[c] = "waiting"
    /\ thread[r] = "answered"
    /\ call' = [call EXCEPT ![c] = IF Succeeded(reply[r]) THEN "returned" ELSE "raised"]
    /\ result' = [result EXCEPT ![c] = reply[r]]
    /\ UNCHANGED <<serverVars, threadVars, requestVars, attempt>>

(***************************************************************************)
(* The Core's thread for request r.                                        *)
(***************************************************************************)

\* Mutant: any token ever issued is good.
AuthorizedForever(r) == token[r[1]] <= lifetime

\* _check_auth: the token of this process, generated when it started.
Authorized(r) == token[r[1]] = lifetime

\* Mutant: the lookup is skipped.
LookupSkipped(k) == NoReply

\* IdempotencyStore.get
Lookup(k) == cache[k]

\* _check_auth, then the idempotency lookup.
Dispatch(r) ==
    LET cached == Lookup(key[r[1]]) IN
    /\ thread[r] = "sent"
    /\ \/ /\ ~Authorized(r)
          /\ Moves(r, "sent", "respond")
          /\ reply' = [reply EXCEPT ![r] = Failure(401)]
       \/ /\ Authorized(r) /\ cached # NoReply
          /\ Moves(r, "sent", "respond")
          /\ reply' = [reply EXCEPT ![r] = cached]
       \/ /\ Authorized(r) /\ cached = NoReply
          /\ Moves(r, "sent", "invoke")
          /\ UNCHANGED reply
    /\ UNCHANGED <<serverVars, requestVars, clientVars>>

\* What create_job answers.
HandlerReply(r) ==
    CASE payload[r[1]] = "valid" -> [status |-> 201, job |-> r]
      [] payload[r[1]] = "invalid" -> Failure(400)
      [] payload[r[1]] = "loose" -> Failure(500)

\* Mutants: every response is remembered; none is.
PutAlways(answer) == "put"
PutNever(answer) == "respond"

\* Only a 2xx response is put into the idempotency store.
AfterInvoke(answer) == IF Succeeded(answer) THEN "put" ELSE "respond"

\* Mutant: the record is stored before the body is validated.
StoreFirst(r) == jobs \cup {r}

\* InMemoryJobStore.create, which create_job reaches with a valid body only.
Create(r) == IF payload[r[1]] = "valid" THEN jobs \cup {r} ELSE jobs

\* _invoke of create_job: validation, deserialisation, store, answer.
Invoke(r) ==
    /\ Moves(r, "invoke", AfterInvoke(HandlerReply(r)))
    /\ jobs' = Create(r)
    /\ reply' = [reply EXCEPT ![r] = HandlerReply(r)]
    /\ UNCHANGED <<running, lifetime, cache, lost, requestVars, clientVars>>

\* IdempotencyStore.put, which overwrites.
PutResponse(r) ==
    /\ Moves(r, "put", "respond")
    /\ cache' = [cache EXCEPT ![key[r[1]]] = reply[r]]
    /\ UNCHANGED <<running, lifetime, jobs, lost, reply, requestVars, clientVars>>

\* The response is written to the socket; if the client has given up on this
\* attempt nobody reads it.
Respond(r) ==
    /\ Moves(r, "respond", "answered")
    /\ UNCHANGED <<serverVars, reply, requestVars, clientVars>>

(***************************************************************************)
(* The Core process.                                                       *)
(***************************************************************************)

\* Mutant: the remembered responses outlive the process, the jobs do not.
CacheKept == cache

\* The stores of a process that has just started.
EmptyCache == [k \in Keys |-> NoReply]

\* The process ends (crash or Ctrl+C: the threads are daemon threads).  Its
\* stores were in memory and its sockets are reset; what was already written
\* can still be read by the client.
StopCore ==
    /\ running
    /\ running' = FALSE
    /\ jobs' = {}
    /\ lost' = lost \cup jobs
    /\ cache' = EmptyCache
    /\ thread' = [r \in Requests |-> IF AtWork(r) THEN "dead" ELSE thread[r]]
    /\ UNCHANGED <<lifetime, reply, requestVars, clientVars>>

\* build_server: a fresh token and empty stores.
StartCore ==
    /\ ~running
    /\ lifetime < MaxLifetimes
    /\ running' = TRUE
    /\ lifetime' = lifetime + 1
    /\ UNCHANGED <<jobs, cache, lost, threadVars, requestVars, clientVars>>

(***************************************************************************)
(* The specification.                                                      *)
(***************************************************************************)
Client(c) ==
    \/ SubmitJob(c)
    \/ SendAttempt(c)
    \/ RetryAfterException(c)
    \/ GiveUp(c)
    \/ ReceiveResponse(c)

Thread(r) == Dispatch(r) \/ Invoke(r) \/ PutResponse(r) \/ Respond(r)

Next ==
    \/ \E c \in Calls : Client(c)
    \/ \E r \in Requests : Thread(r)
    \/ StopCore
    \/ StartCore

Spec == Init /\ [][Next]_vars

(***************************************************************************)
(* A client in the loop of _request runs on: every wait in it has a        *)
(* timeout.  A thread of the Core is never blocked either: both locks are  *)
(* held for one dictionary operation.  Nothing makes a caller submit, or   *)
(* the Core stop or start.                                                 *)
(***************************************************************************)
InRequestLoop(c) ==
    SendAttempt(c) \/ RetryAfterException(c) \/ GiveUp(c) \/ ReceiveResponse(c)

Fairness ==
    /\ \A c \in Calls : WF_vars(InRequestLoop(c))
    /\ \A r \in Requests : WF_vars(Thread(r))

FairSpec == Spec /\ Fairness

(***************************************************************************)
(* Safety.                                                                 *)
(***************************************************************************)

\* A remembered response is a 201 for a job that this Core process holds and
\* that was submitted under that very key (app.py:117-118 puts successes
\* only, and the store dies with the process).
CacheHoldsStoredJob ==
    \A k \in Keys : cache[k] # NoReply =>
        /\ cache[k].status = 201
        /\ cache[k].job \in jobs
        /\ key[cache[k].job[1]] = k

\* submit_job returns a job of the caller's own key, and for as long as the
\* Core process it spoke to lives, that job is in its store.
ReturnedJobIsStored ==
    \A c \in Calls : call[c] = "returned" =>
        /\ key[result[c].job[1]] = key[c]
        /\ token[c] = lifetime /\ running => result[c].job \in jobs

\* A call that ends with an exception built from a response (400, 401, 500)
\* has no job in the store, not even by one of its earlier attempts: an
\* attempt that was accepted by a Core process since gone is refused as
\* unauthorized on retry, and its job went with that process.
ErrorResponseLeftNoJob ==
    \A c \in Calls : result[c] # NoReply /\ ~Succeeded(result[c]) =>
        \A j \in jobs : j[1] # c

\* Replaying a key after its first call has returned never executes again
\* (idempotency.py:1-3), however the earlier attempts overlapped.
ResubmissionCreatesNothing ==
    \A j \in jobs \cup lost : ~resubmits[j[1]]

\* At most one job per idempotency key in a Core process.  True only as long
\* as the requests of one key do not overlap in the Core.
OneJobPerKey ==
    \A i, j \in jobs : key[i[1]] = key[j[1]] => i = j

\* All calls of one key that succeed against one Core process return the
\* same job ("returns the original response", idempotency.py:2).
ReplayReturnsOriginal ==
    \A c, d \in Calls :
        /\ call[c] = "returned" /\ call[d] = "returned"
        /\ key[c] = key[d] /\ token[c] = token[d]
        => result[c] = result[d]

(***************************************************************************)
(* Refinement: without overlap the whole is an exactly-once ledger.        *)
(***************************************************************************)
Entry(j) == [job |-> j, key |-> key[j[1]], lifetime |-> token[j[1]]]

Ledger == INSTANCE JobLedger WITH
    Jobs <- Requests,
    asked <- key,
    session <- token,
    accepted <- {Entry(j) : j \in jobs \cup lost},
    outcome <- [c \in Calls |->
        IF call[c] = "returned" THEN result[c].job ELSE NoJob],
    failed <- {c \in Calls : call[c] = "raised"}

\* Every step of clients, threads and Core is a step of the ledger, which
\* accepts one job per key and process and answers a call with that job only.
ImplementsLedger == Ledger!Spec

(***************************************************************************)
(* Liveness.                                                               *)
(***************************************************************************)

\* submit_job returns or raises, whatever the Core does.
EveryCallEnds ==
    \A c \in Calls : call[c] = "sending" ~> call[c] \in {"returned", "raised"}

\* A stored job becomes replayable under its key, or its process ends: the
\* window in which a retry would execute again closes by itself.
StoredJobBecomesReplayable ==
    \A r \in Requests, k \in Keys :
        (r \in jobs /\ key[r[1]] = k) ~> (~running \/ cache[k] # NoReply)
=============================================================================
