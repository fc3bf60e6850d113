------------------------- MODULE JobSubmissionProofs -------------------------
(***************************************************************************)
(* Proofs about JobSubmission for any calls, keys, number of retries and   *)
(* number of Core lifetimes.                                               *)
(***************************************************************************)
EXTENDS JobSubmission, TLAPS

Handled(r) == thread[r] \in {"put", "respond", "answered"}
Computed(r) == thread[r] \in {"respond", "answered"}
Accepted == jobs \cup lost

(***************************************************************************)
(* The inductive invariant, in named parts.                                *)
(***************************************************************************)

\* Requests exist only for calls that were made, and a call has a key from
\* then on.
CallsInv ==
    \A c \in Calls :
        /\ token[c] <= lifetime
        /\ call[c] # "idle" => key[c] \in Keys
        /\ call[c] = "idle" =>
            key[c] = NoKey /\ \A n \in Attempts : thread[<<c, n>>] = "unsent"

\* Threads live in the Core process; one that was authorized belongs to it.
ThreadsInv ==
    \A r \in Requests :
        /\ AtWork(r) => running
        /\ thread[r] \in {"invoke", "put"} => token[r[1]] = lifetime
        /\ Handled(r) => reply[r] # NoReply
        /\ thread[r] = "put" => r \in jobs /\ reply[r] = [status |-> 201, job |-> r]

\* Jobs of this process carry its token, lost ones do not while it runs.
JobsInv ==
    /\ \A j \in jobs :
        /\ running
        /\ token[j[1]] = lifetime
        /\ Handled(j)
    /\ \A j \in Accepted : call[j[1]] # "idle" /\ payload[j[1]] = "valid"
    /\ \A j \in lost : running => token[j[1]] # lifetime

\* What a success says: the job was accepted, for this key and this token.
Confirms(c, answer) ==
    /\ answer.status = 201
    /\ answer.job \in Accepted
    /\ key[answer.job[1]] = key[c]
    /\ token[answer.job[1]] = token[c]

\* What a failure says: the call was refused, or its token is of the past.
Refuses(c, answer) ==
    /\ answer.status # 201
    /\ payload[c] # "valid" \/ token[c] < lifetime

RepliesInv ==
    \A r \in Requests : Computed(r) =>
        Confirms(r[1], reply[r]) \/ Refuses(r[1], reply[r])

ResultsInv ==
    \A c \in Calls :
        /\ call[c] = "returned" => result[c] # NoReply /\ Confirms(c, result[c])
        /\ result[c] # NoReply =>
            /\ call[c] \in {"returned", "raised"}
            /\ Confirms(c, result[c]) \/ Refuses(c, result[c])

CacheInv == CacheHoldsStoredJob

IInv ==
    /\ TypeOK
    /\ CallsInv
    /\ ThreadsInv
    /\ JobsInv
    /\ RepliesInv
    /\ ResultsInv
    /\ CacheInv

\* Once a response of this process was computed its key is remembered, so a
\* later call with the key is answered from the cache.
Remembered(c) == cache[key[c]] # NoReply

ReplayInv ==
    /\ \A r \in Requests :
        Computed(r) /\ reply[r].status = 201 /\ token[r[1]] = lifetime /\ running
            => Remembered(r[1])
    /\ \A c \in Calls :
        call[c] = "returned" /\ token[c] = lifetime /\ running => Remembered(c)
    /\ \A c \in Calls : resubmits[c] =>
        /\ call[c] # "idle"
        /\ token[c] = lifetime /\ running => Remembered(c)
        /\ \A n \in Attempts : thread[<<c, n>>] \notin {"invoke", "put"}
    /\ ResubmissionCreatesNothing

\* Without overlap at most one request of a key is at work, and a stored job
\* is remembered or about to be.
SerialInv ==
    /\ \A r, s \in Requests :
        AtWork(r) /\ AtWork(s) /\ key[r[1]] = key[s[1]] => r = s
    /\ \A r \in Requests : thread[r] = "invoke" => ~Remembered(r[1])
    /\ \A j \in jobs : \/ thread[j] = "put"
                       \/ cache[key[j[1]]] = [status |-> 201, job |-> j]
    /\ \A i, j \in Accepted :
        key[i[1]] = key[j[1]] /\ token[i[1]] = token[j[1]] => i = j

Inductive == IInv /\ ReplayInv /\ (~Overlapping => SerialInv)

(***************************************************************************)
(* Type correctness.                                                       *)
(***************************************************************************)
LEMMA RequestPairs ==
    /\ \A r \in Requests : r[1] \in Calls /\ r[2] \in Attempts /\ r = <<r[1], r[2]>>
    /\ \A c \in Calls, n \in Attempts :
        <<c, n>> \in Requests /\ <<c, n>>[1] = c /\ <<c, n>>[2] = n
BY DEF Requests

LEMMA ReplyFacts ==
    /\ \A status \in {400, 401, 500} :
        /\ Failure(status) \in Replies
        /\ ~Succeeded(Failure(status))
        /\ Failure(status).status = status
    /\ \A r \in Requests : [status |-> 201, job |-> r] \in Replies
    /\ \A answer \in Replies :
        /\ answer # NoReply
        /\ Succeeded(answer) <=> answer.status = 201
BY NoReplyAssumption DEF Replies, Failure, Succeeded

\* create_job either stores and confirms a job, or refuses and stores nothing.
LEMMA InvokeCases ==
    ASSUME TypeOK, NEW r \in Requests, Invoke(r)
    PROVE  /\ thread[r] = "invoke"
           /\ UNCHANGED <<running, lifetime, cache, lost, requestVars, clientVars>>
           /\ \/ /\ payload[r[1]] = "valid"
                 /\ thread' = [thread EXCEPT ![r] = "put"]
                 /\ jobs' = jobs \cup {r}
                 /\ reply' = [reply EXCEPT ![r] = [status |-> 201, job |-> r]]
              \/ /\ payload[r[1]] # "valid"
                 /\ thread' = [thread EXCEPT ![r] = "respond"]
                 /\ jobs' = jobs
                 /\ \/ reply' = [reply EXCEPT ![r] = Failure(400)]
                    \/ reply' = [reply EXCEPT ![r] = Failure(500)]
<1>1. /\ thread[r] = "invoke"
      /\ thread' = [thread EXCEPT ![r] = AfterInvoke(HandlerReply(r))]
      /\ jobs' = Create(r)
      /\ reply' = [reply EXCEPT ![r] = HandlerReply(r)]
      /\ UNCHANGED <<running, lifetime, cache, lost, requestVars, clientVars>>
    BY DEF Invoke, Moves
<1>2. payload[r[1]] \in {"valid", "invalid", "loose"}
    BY RequestPairs DEF TypeOK, Payloads
<1>3. CASE payload[r[1]] = "valid"
    <2>1. HandlerReply(r) = [status |-> 201, job |-> r]
        BY <1>3 DEF HandlerReply
    <2>2. AfterInvoke(HandlerReply(r)) = "put" /\ Create(r) = jobs \cup {r}
        BY <1>3, <2>1 DEF AfterInvoke, Succeeded, Create
    <2>. QED  BY <1>1, <1>3, <2>1, <2>2
<1>4. CASE payload[r[1]] # "valid"
    <2>1. HandlerReply(r) = Failure(400) \/ HandlerReply(r) = Failure(500)
        BY <1>2, <1>4 DEF HandlerReply
    <2>2. AfterInvoke(HandlerReply(r)) = "respond" /\ Create(r) = jobs
        BY <1>4, <2>1, ReplyFacts DEF AfterInvoke, Create
    <2>. QED  BY <1>1, <1>4, <2>1, <2>2
<1>. QED  BY <1>3, <1>4

LEMMA InitTypeOK == Init => TypeOK
BY ConstantsAssumption DEF Init, TypeOK, Lifetimes, Attempts, ThreadStates,
   CallStates, Payloads

LEMMA NextTypeOK == TypeOK /\ CallsInv /\ [Next]_vars => TypeOK'
<1> SUFFICES ASSUME TypeOK, CallsInv, [Next]_vars
             PROVE  TypeOK'
    OBVIOUS
<1> USE DEF TypeOK, serverVars, threadVars, requestVars, clientVars
<1>1. ASSUME NEW c \in Calls, SubmitJob(c)
      PROVE  TypeOK'
    BY <1>1, ConstantsAssumption DEF SubmitJob, CallStates, Lifetimes
<1>2. ASSUME NEW c \in Calls, SendAttempt(c)
      PROVE  TypeOK'
    BY <1>2, RequestPairs DEF SendAttempt, Moves, CallStates, ThreadStates
<1>3. ASSUME NEW c \in Calls, RetryAfterException(c)
      PROVE  TypeOK'
    BY <1>3, ConstantsAssumption DEF RetryAfterException, CallStates, Attempts
<1>4. ASSUME NEW c \in Calls, GiveUp(c)
      PROVE  TypeOK'
    BY <1>4 DEF GiveUp, CallStates
<1>5. ASSUME NEW c \in Calls, ReceiveResponse(c)
      PROVE  TypeOK'
    BY <1>5, RequestPairs DEF ReceiveResponse, CallStates
<1>6. ASSUME NEW r \in Requests, Dispatch(r)
      PROVE  TypeOK'
    <2>1. reply' \in [Requests -> Replies \cup {NoReply}]
        <3>1. CASE ~Authorized(r)
            BY <1>6, <3>1, ReplyFacts DEF Dispatch, Lookup
        <3>2. CASE Authorized(r) /\ cache[key[r[1]]] # NoReply
            <4>1. key[r[1]] \in Keys
                BY <1>6, RequestPairs DEF CallsInv, Dispatch
            <4>2. reply' = [reply EXCEPT ![r] = cache[key[r[1]]]]
                BY <1>6, <3>2 DEF Dispatch, Lookup
            <4>. QED  BY <4>1, <4>2
        <3>. QED  BY <1>6, <3>1, <3>2 DEF Dispatch, Lookup
    <2>2. thread' \in [Requests -> ThreadStates]
        BY <1>6 DEF Dispatch, Lookup, Moves, ThreadStates
    <2>. QED  BY <1>6, <2>1, <2>2 DEF Dispatch, Lookup
<1>7. ASSUME NEW r \in Requests, Invoke(r)
      PROVE  TypeOK'
    BY <1>7, InvokeCases, ReplyFacts DEF ThreadStates
<1>8. ASSUME NEW r \in Requests, PutResponse(r)
      PROVE  TypeOK'
    BY <1>8, RequestPairs DEF PutResponse, Moves, ThreadStates
<1>9. ASSUME NEW r \in Requests, Respond(r)
      PROVE  TypeOK'
    BY <1>9 DEF Respond, Moves, ThreadStates
<1>10. CASE StopCore
    BY <1>10 DEF StopCore, EmptyCache, ThreadStates
<1>11. CASE StartCore
    BY <1>11, ConstantsAssumption DEF StartCore, Lifetimes
<1>12. CASE UNCHANGED vars
    BY <1>12 DEF vars
<1>. QED
    BY <1>1, <1>2, <1>3, <1>4, <1>5, <1>6, <1>7, <1>8, <1>9, <1>10, <1>11, <1>12
    DEF Next, Client, Thread

LEMMA InitCallsInv == Init => CallsInv
BY DEF Init, CallsInv, Attempts, Requests

LEMMA NextCallsInv == TypeOK /\ CallsInv /\ [Next]_vars => CallsInv'
<1> SUFFICES ASSUME TypeOK, CallsInv, [Next]_vars
             PROVE  CallsInv'
    OBVIOUS
<1> USE DEF TypeOK, serverVars, threadVars, requestVars, clientVars
<1>1. ASSUME NEW c \in Calls, SubmitJob(c)
      PROVE  CallsInv'
    BY <1>1 DEF SubmitJob, CallsInv, Lifetimes
<1>2. ASSUME NEW c \in Calls, SendAttempt(c)
      PROVE  CallsInv'
    BY <1>2, RequestPairs DEF SendAttempt, Moves, CallsInv
<1>3. ASSUME NEW c \in Calls,
             RetryAfterException(c) \/ GiveUp(c) \/ ReceiveResponse(c)
      PROVE  CallsInv'
    BY <1>3 DEF RetryAfterException, GiveUp, ReceiveResponse, CallsInv
<1>4. ASSUME NEW r \in Requests, Thread(r)
      PROVE  CallsInv'
    <2>1. thread[r] # "unsent"
        BY <1>4 DEF Thread, Dispatch, Invoke, PutResponse, Respond, Moves
    <2>2. /\ \A s \in Requests : s # r => thread'[s] = thread[s]
          /\ UNCHANGED <<lifetime, call, key, token>>
        BY <1>4 DEF Thread, Dispatch, Invoke, PutResponse, Respond, Moves
    <2>. QED  BY <2>1, <2>2, RequestPairs DEF CallsInv
<1>5. CASE StopCore
    BY <1>5, RequestPairs DEF StopCore, EmptyCache, CallsInv, AtWork
<1>6. CASE StartCore
    BY <1>6 DEF StartCore, CallsInv, Lifetimes
<1>7. CASE UNCHANGED vars
    BY <1>7 DEF vars, CallsInv
<1>. QED
    BY <1>1, <1>2, <1>3, <1>4, <1>5, <1>6, <1>7 DEF Next, Client

\* Type correctness: stores, threads, calls and replies keep their shape.  The
\* lookup in Dispatch is well typed only because a request always carries the
\* key of a call that was made (CallsInv).
THEOREM TypeCorrect == Spec => []TypeOK
<1>1. Init => TypeOK /\ CallsInv
    BY InitTypeOK, InitCallsInv
<1>2. TypeOK /\ CallsInv /\ [Next]_vars => (TypeOK /\ CallsInv)'
    BY NextTypeOK, NextCallsInv
<1>. QED  BY <1>1, <1>2, PTL DEF Spec

(***************************************************************************)
(* The inductive invariant IInv.                                           *)
(***************************************************************************)
LEMMA InitIInv == Init => IInv
<1> SUFFICES ASSUME Init
             PROVE  IInv
    OBVIOUS
<1>1. TypeOK /\ CallsInv
    BY InitTypeOK, InitCallsInv
<1>2. ThreadsInv /\ JobsInv /\ RepliesInv
    BY DEF Init, ThreadsInv, JobsInv, RepliesInv, AtWork, Handled, Computed, Accepted
<1>3. ResultsInv /\ CacheInv
    BY DEF Init, ResultsInv, CacheInv, CacheHoldsStoredJob
<1>. QED  BY <1>1, <1>2, <1>3 DEF IInv

\* The steps of a client leave the Core's stores and what is known of jobs
\* alone.
LEMMA SubmitJobIInv ==
    ASSUME IInv, TypeOK', CallsInv', NEW c \in Calls, SubmitJob(c)
    PROVE  IInv'
<1> USE DEF IInv, TypeOK, serverVars, threadVars, requestVars, clientVars
<1>1. /\ call[c] = "idle"
      /\ call' = [call EXCEPT ![c] = "sending"]
      /\ UNCHANGED <<running, lifetime, jobs, cache, lost, thread, reply, result>>
      /\ \A d \in Calls : d # c =>
            key'[d] = key[d] /\ token'[d] = token[d] /\ payload'[d] = payload[d]
    BY DEF SubmitJob
<1>2. /\ \A r \in Requests : r[1] = c => thread[r] = "unsent"
      /\ \A j \in Accepted : j \in Requests /\ j[1] \in Calls /\ j[1] # c
    BY <1>1, RequestPairs DEF CallsInv, JobsInv, Accepted
<1>3. Accepted' = Accepted
    BY <1>1 DEF Accepted
<1>4. ThreadsInv'
    BY <1>1, <1>2, RequestPairs DEF ThreadsInv, AtWork, Handled
<1>5. JobsInv'
    BY <1>1, <1>2, <1>3, RequestPairs DEF JobsInv, Handled, Accepted
<1>6. ASSUME NEW d \in Calls, d # c, NEW answer
      PROVE  /\ Confirms(d, answer) => Confirms(d, answer)'
             /\ Refuses(d, answer) => Refuses(d, answer)'
    BY <1>1, <1>2, <1>3, <1>6 DEF Confirms, Refuses
<1>7. RepliesInv'
    BY <1>1, <1>2, <1>6, RequestPairs DEF RepliesInv, Computed
<1>8. ResultsInv'
    BY <1>1, <1>6 DEF ResultsInv
<1>9. CacheInv'
    BY <1>1, <1>2 DEF CacheInv, CacheHoldsStoredJob, Accepted
<1>. QED  BY <1>4, <1>5, <1>7, <1>8, <1>9

LEMMA SendAttemptIInv ==
    ASSUME IInv, TypeOK', CallsInv', NEW c \in Calls, SendAttempt(c)
    PROVE  IInv'
<1> DEFINE r == <<c, attempt[c]>>
<1> USE DEF IInv, TypeOK, serverVars, threadVars, requestVars, clientVars
<1>1. /\ r \in Requests
      /\ thread[r] = "unsent"
      /\ thread' = [thread EXCEPT ![r] = IF running THEN "sent" ELSE "dead"]
      /\ call[c] = "sending"
      /\ call' = [call EXCEPT ![c] = "waiting"]
      /\ UNCHANGED <<running, lifetime, jobs, cache, lost, reply, result, key, token, payload>>
    BY RequestPairs DEF SendAttempt, Moves
<1>2. ThreadsInv'
    BY <1>1 DEF ThreadsInv, AtWork, Handled
<1>3. JobsInv'
    BY <1>1, RequestPairs DEF JobsInv, Handled, Accepted
<1>4. RepliesInv'
    BY <1>1 DEF RepliesInv, Computed, Confirms, Refuses, Accepted
<1>5. ResultsInv'
    BY <1>1 DEF ResultsInv, Confirms, Refuses, Accepted
<1>6. CacheInv'
    BY <1>1 DEF CacheInv, CacheHoldsStoredJob
<1>. QED  BY <1>2, <1>3, <1>4, <1>5, <1>6

LEMMA ExceptionIInv ==
    ASSUME IInv, TypeOK', CallsInv', NEW c \in Calls,
           RetryAfterException(c) \/ GiveUp(c)
    PROVE  IInv'
<1> USE DEF IInv, TypeOK, serverVars, threadVars, requestVars, clientVars
<1>1. /\ call[c] = "waiting"
      /\ \E s \in {"sending", "raised"} : call' = [call EXCEPT ![c] = s]
      /\ UNCHANGED <<running, lifetime, jobs, cache, lost, thread, reply, result,
                     key, token, payload>>
    BY DEF RetryAfterException, GiveUp
<1>2. ThreadsInv' /\ RepliesInv' /\ CacheInv'
    BY <1>1 DEF ThreadsInv, RepliesInv, CacheInv, CacheHoldsStoredJob, AtWork,
       Handled, Computed, Confirms, Refuses, Accepted
<1>3. JobsInv'
    BY <1>1, RequestPairs DEF JobsInv, Handled, Accepted
<1>4. ResultsInv'
    BY <1>1 DEF ResultsInv, Confirms, Refuses, Accepted
<1>. QED  BY <1>2, <1>3, <1>4

LEMMA ReceiveResponseIInv ==
    ASSUME IInv, TypeOK', CallsInv', NEW c \in Calls, ReceiveResponse(c)
    PROVE  IInv'
<1> DEFINE r == <<c, attempt[c]>>
<1> USE DEF IInv, TypeOK, serverVars, threadVars, requestVars, clientVars
<1>1. /\ r \in Requests /\ r[1] = c
      /\ call[c] = "waiting" /\ thread[r] = "answered"
      /\ call' = [call EXCEPT ![c] =
                     IF Succeeded(reply[r]) THEN "returned" ELSE "raised"]
      /\ result' = [result EXCEPT ![c] = reply[r]]
      /\ UNCHANGED <<running, lifetime, jobs, cache, lost, thread, reply, key, token,
                     payload>>
    BY RequestPairs DEF ReceiveResponse
<1>2. ThreadsInv' /\ RepliesInv' /\ CacheInv'
    BY <1>1 DEF ThreadsInv, RepliesInv, CacheInv, CacheHoldsStoredJob, AtWork,
       Handled, Computed, Confirms, Refuses, Accepted
<1>3. JobsInv'
    BY <1>1, RequestPairs DEF JobsInv, Handled, Accepted
<1>4. /\ reply[r] \in Replies /\ reply[r] # NoReply
      /\ Succeeded(reply[r]) <=> reply[r].status = 201
      /\ Confirms(c, reply[r]) \/ Refuses(c, reply[r])
    BY <1>1, ReplyFacts DEF ThreadsInv, RepliesInv, Handled, Computed
<1>5. \A d \in Calls : \A answer :
        /\ Confirms(d, answer) => Confirms(d, answer)'
        /\ Refuses(d, answer) => Refuses(d, answer)'
    BY <1>1 DEF Confirms, Refuses, Accepted
<1>6. Succeeded(reply[r]) => Confirms(c, reply[r])
    BY <1>4 DEF Refuses
<1>7. ResultsInv'
    BY <1>1, <1>4, <1>5, <1>6 DEF ResultsInv
<1>. QED  BY <1>2, <1>3, <1>7

\* The steps of a thread leave calls and their headers alone.
LEMMA DispatchIInv ==
    ASSUME IInv, TypeOK', CallsInv', NEW r \in Requests, Dispatch(r)
    PROVE  IInv'
<1> USE DEF IInv, TypeOK, serverVars, threadVars, requestVars, clientVars
<1>1. /\ r[1] \in Calls /\ thread[r] = "sent" /\ key[r[1]] \in Keys
      /\ UNCHANGED <<running, lifetime, jobs, cache, lost, key, token, payload,
                     call, result>>
    BY RequestPairs DEF Dispatch, Lookup, CallsInv
<1>2. /\ \A s \in Requests : s # r => thread'[s] = thread[s] /\ reply'[s] = reply[s]
      /\ thread'[r] \in {"invoke", "respond"}
      /\ thread'[r] = "invoke" => token[r[1]] = lifetime
    BY <1>1 DEF Dispatch, Lookup, Moves, Authorized
<1>3. \A d \in Calls : \A answer :
        /\ Confirms(d, answer) => Confirms(d, answer)'
        /\ Refuses(d, answer) => Refuses(d, answer)'
    BY <1>1 DEF Confirms, Refuses, Accepted
<1>4. ASSUME thread'[r] = "respond"
      PROVE  /\ reply'[r] # NoReply
             /\ Confirms(r[1], reply'[r]) \/ Refuses(r[1], reply'[r])
    <2>1. CASE ~Authorized(r)
        <3>1. reply'[r] = Failure(401) /\ token[r[1]] < lifetime
            BY <1>1, <2>1, ConstantsAssumption
            DEF Dispatch, Lookup, CallsInv, Authorized, Lifetimes
        <3>. QED  BY <3>1, ReplyFacts DEF Refuses
    <2>2. CASE Authorized(r) /\ cache[key[r[1]]] # NoReply
        <3>1. reply'[r] = cache[key[r[1]]]
            BY <1>1, <2>2 DEF Dispatch, Lookup
        <3>2. Confirms(r[1], cache[key[r[1]]])
            BY <1>1, <2>2 DEF Confirms, CacheInv, CacheHoldsStoredJob, Accepted,
               JobsInv, Authorized
        <3>. QED  BY <3>1, <3>2, <2>2
    <2>3. CASE Authorized(r) /\ cache[key[r[1]]] = NoReply
        BY <1>1, <1>4, <2>3 DEF Dispatch, Lookup, Moves
    <2>. QED  BY <2>1, <2>2, <2>3
<1>5. ThreadsInv'
    BY <1>1, <1>2, <1>4 DEF ThreadsInv, AtWork, Handled
<1>6. JobsInv'
    BY <1>1, <1>2, RequestPairs DEF JobsInv, Handled, Accepted
<1>7. RepliesInv'
    BY <1>1, <1>2, <1>3, <1>4, RequestPairs DEF RepliesInv, Computed
<1>8. ResultsInv'
    BY <1>1, <1>3 DEF ResultsInv
<1>9. CacheInv'
    BY <1>1 DEF CacheInv, CacheHoldsStoredJob
<1>. QED  BY <1>5, <1>6, <1>7, <1>8, <1>9

LEMMA InvokeIInv ==
    ASSUME IInv, TypeOK', CallsInv', NEW r \in Requests, Invoke(r)
    PROVE  IInv'
<1> USE DEF IInv, TypeOK, serverVars, threadVars, requestVars, clientVars
<1>1. /\ r[1] \in Calls /\ thread[r] = "invoke" /\ call[r[1]] # "idle"
      /\ running /\ token[r[1]] = lifetime
      /\ UNCHANGED <<running, lifetime, cache, lost, key, token, payload, call, result>>
    BY InvokeCases, RequestPairs DEF CallsInv, ThreadsInv, AtWork
<1>2. /\ \A s \in Requests : s # r => thread'[s] = thread[s] /\ reply'[s] = reply[s]
      /\ thread'[r] \in {"put", "respond"}
      /\ thread'[r] = "put" =>
            /\ payload[r[1]] = "valid"
            /\ jobs' = jobs \cup {r}
            /\ reply'[r] = [status |-> 201, job |-> r]
      /\ thread'[r] = "respond" =>
            /\ jobs' = jobs
            /\ payload[r[1]] # "valid"
            /\ reply'[r] = Failure(400) \/ reply'[r] = Failure(500)
    BY InvokeCases
<1>3. \A d \in Calls : \A answer :
        /\ Confirms(d, answer) => Confirms(d, answer)'
        /\ Refuses(d, answer) => Refuses(d, answer)'
    BY <1>1, <1>2 DEF Confirms, Refuses, Accepted
<1>4. reply'[r] # NoReply
    BY <1>2, ReplyFacts
<1>5. ThreadsInv'
    BY <1>1, <1>2, <1>4 DEF ThreadsInv, AtWork, Handled
<1>6. JobsInv'
    BY <1>1, <1>2, RequestPairs DEF JobsInv, Handled, Accepted
<1>7. RepliesInv'
    <2>1. thread'[r] = "respond" => Refuses(r[1], reply'[r])
        BY <1>2, ReplyFacts DEF Refuses
    <2>. QED  BY <1>1, <1>2, <1>3, <2>1, RequestPairs DEF RepliesInv, Computed
<1>8. ResultsInv'
    BY <1>1, <1>3 DEF ResultsInv
<1>9. CacheInv'
    BY <1>1, <1>2 DEF CacheInv, CacheHoldsStoredJob
<1>. QED  BY <1>5, <1>6, <1>7, <1>8, <1>9

LEMMA PutResponseIInv ==
    ASSUME IInv, TypeOK', CallsInv', NEW r \in Requests, PutResponse(r)
    PROVE  IInv'
<1> USE DEF IInv, TypeOK, serverVars, threadVars, requestVars, clientVars
<1>1. /\ thread[r] = "put" /\ thread' = [thread EXCEPT ![r] = "respond"]
      /\ running /\ r \in jobs /\ reply[r] = [status |-> 201, job |-> r]
      /\ cache' = [cache EXCEPT ![key[r[1]]] = reply[r]]
      /\ UNCHANGED <<running, lifetime, jobs, lost, reply, key, token, payload, call,
                     result>>
    BY DEF PutResponse, ThreadsInv, AtWork, Moves
<1>2. \A d \in Calls : \A answer :
        /\ Confirms(d, answer) => Confirms(d, answer)'
        /\ Refuses(d, answer) => Refuses(d, answer)'
    BY <1>1 DEF Confirms, Refuses, Accepted
<1>3. Confirms(r[1], reply[r])
    BY <1>1, RequestPairs DEF Confirms, Accepted
<1>4. ThreadsInv'
    BY <1>1, ReplyFacts DEF ThreadsInv, AtWork, Handled
<1>5. JobsInv'
    BY <1>1, RequestPairs DEF JobsInv, Handled, Accepted
<1>6. RepliesInv'
    BY <1>1, <1>2, <1>3, RequestPairs DEF RepliesInv, Computed
<1>7. ResultsInv'
    BY <1>1, <1>2 DEF ResultsInv
<1>8. CacheInv'
    BY <1>1, RequestPairs DEF CacheInv, CacheHoldsStoredJob
<1>. QED  BY <1>4, <1>5, <1>6, <1>7, <1>8

LEMMA RespondIInv ==
    ASSUME IInv, TypeOK', CallsInv', NEW r \in Requests, Respond(r)
    PROVE  IInv'
<1> USE DEF IInv, TypeOK, serverVars, threadVars, requestVars, clientVars
<1>1. /\ thread[r] = "respond" /\ thread' = [thread EXCEPT ![r] = "answered"]
      /\ UNCHANGED <<running, lifetime, jobs, cache, lost, reply, key, token, payload,
                     call, result>>
    BY DEF Respond, Moves
<1>2. ThreadsInv'
    BY <1>1 DEF ThreadsInv, AtWork, Handled
<1>3. JobsInv'
    BY <1>1, RequestPairs DEF JobsInv, Handled, Accepted
<1>4. RepliesInv'
    BY <1>1 DEF RepliesInv, Computed, Confirms, Refuses, Accepted
<1>5. ResultsInv' /\ CacheInv'
    BY <1>1 DEF ResultsInv, CacheInv, CacheHoldsStoredJob, Confirms, Refuses, Accepted
<1>. QED  BY <1>2, <1>3, <1>4, <1>5

\* Stopping moves the jobs to the lost ones and ends every thread; starting
\* makes every token issued so far a token of the past.
LEMMA StopCoreIInv ==
    ASSUME IInv, TypeOK', CallsInv', StopCore
    PROVE  IInv'
<1> USE DEF IInv, TypeOK, serverVars, threadVars, requestVars, clientVars
<1>1. /\ ~running' /\ jobs' = {} /\ lost' = lost \cup jobs
      /\ cache' = [k \in Keys |-> NoReply]
      /\ \A r \in Requests : thread'[r] = IF AtWork(r) THEN "dead" ELSE thread[r]
      /\ UNCHANGED <<lifetime, reply, key, token, payload, call, result>>
    BY DEF StopCore, EmptyCache
<1>2. Accepted' = Accepted
    BY <1>1 DEF Accepted
<1>3. \A d \in Calls : \A answer :
        /\ Confirms(d, answer) => Confirms(d, answer)'
        /\ Refuses(d, answer) => Refuses(d, answer)'
    BY <1>1, <1>2 DEF Confirms, Refuses
<1>4. ThreadsInv'
    BY <1>1 DEF ThreadsInv, AtWork, Handled
<1>5. JobsInv'
    BY <1>1, <1>2, RequestPairs DEF JobsInv, Accepted
<1>6. RepliesInv'
    <2>1. \A r \in Requests : Computed(r)' => Computed(r)
        BY <1>1 DEF Computed
    <2>. QED  BY <1>1, <1>3, <2>1, RequestPairs DEF RepliesInv
<1>7. ResultsInv'
    BY <1>1, <1>3 DEF ResultsInv
<1>8. CacheInv'
    BY <1>1 DEF CacheInv, CacheHoldsStoredJob
<1>. QED  BY <1>4, <1>5, <1>6, <1>7, <1>8

LEMMA StartCoreIInv ==
    ASSUME IInv, TypeOK', CallsInv', StartCore
    PROVE  IInv'
<1> USE DEF IInv, TypeOK, serverVars, threadVars, requestVars, clientVars
<1>1. /\ ~running /\ running' /\ lifetime' = lifetime + 1
      /\ UNCHANGED <<jobs, cache, lost, thread, reply, key, token, payload, call, result>>
    BY DEF StartCore
<1>2. /\ jobs = {} /\ lifetime \in Nat
      /\ \A c \in Calls : token[c] \in Nat /\ token[c] <= lifetime
      /\ \A r \in Requests : ~AtWork(r)
    BY <1>1, ConstantsAssumption DEF JobsInv, CallsInv, ThreadsInv, Lifetimes
<1>3. \A d \in Calls : \A answer :
        /\ Confirms(d, answer) => Confirms(d, answer)'
        /\ Refuses(d, answer) => Refuses(d, answer)'
    BY <1>1, <1>2 DEF Confirms, Refuses, Accepted
<1>4. ThreadsInv'
    BY <1>1, <1>2 DEF ThreadsInv, AtWork, Handled
<1>5. JobsInv'
    BY <1>1, <1>2, RequestPairs DEF JobsInv, Accepted
<1>6. RepliesInv'
    BY <1>1, <1>3, RequestPairs DEF RepliesInv, Computed
<1>7. ResultsInv'
    BY <1>1, <1>3 DEF ResultsInv
<1>8. CacheInv'
    BY <1>1, <1>2 DEF CacheInv, CacheHoldsStoredJob
<1>. QED  BY <1>4, <1>5, <1>6, <1>7, <1>8

LEMMA NextIInv == IInv /\ [Next]_vars => IInv'
<1> SUFFICES ASSUME IInv, [Next]_vars
             PROVE  IInv'
    OBVIOUS
<1>1. TypeOK' /\ CallsInv'
    BY NextTypeOK, NextCallsInv DEF IInv
<1>2. ASSUME NEW c \in Calls, Client(c)
      PROVE  IInv'
    BY <1>1, <1>2, SubmitJobIInv, SendAttemptIInv, ExceptionIInv, ReceiveResponseIInv
    DEF Client
<1>3. ASSUME NEW r \in Requests, Thread(r)
      PROVE  IInv'
    BY <1>1, <1>3, DispatchIInv, InvokeIInv, PutResponseIInv, RespondIInv DEF Thread
<1>4. CASE StopCore \/ StartCore
    BY <1>1, <1>4, StopCoreIInv, StartCoreIInv
<1>5. CASE UNCHANGED vars
    BY <1>5, <1>1 DEF vars, serverVars, threadVars, requestVars, clientVars, IInv,
       ThreadsInv, JobsInv, RepliesInv, ResultsInv, CacheInv, CacheHoldsStoredJob,
       AtWork, Handled, Computed, Confirms, Refuses, Accepted
<1>. QED  BY <1>2, <1>3, <1>4, <1>5 DEF Next

THEOREM InductiveInvariant == Spec => []IInv
BY InitIInv, NextIInv, PTL DEF Spec

\* Whatever the idempotency store replays is a job of this very process, made
\* under the very key it is replayed for.
THEOREM CacheIsSound == Spec => []CacheHoldsStoredJob
<1>1. IInv => CacheHoldsStoredJob
    BY DEF IInv, CacheInv
<1>. QED  BY InductiveInvariant, <1>1, PTL

\* A job that submit_job has returned is in the store of the process it came
\* from, for as long as that process lives.
THEOREM ReturnedJobsAreStored == Spec => []ReturnedJobIsStored
<1>1. IInv => ReturnedJobIsStored
    BY DEF IInv, ResultsInv, JobsInv, Confirms, Accepted, ReturnedJobIsStored
<1>. QED  BY InductiveInvariant, <1>1, PTL

\* A call that ends with an error response has left no job behind.
THEOREM ErrorResponsesLeaveNoJob == Spec => []ErrorResponseLeftNoJob
<1>1. IInv => ErrorResponseLeftNoJob
    <2> SUFFICES ASSUME IInv, NEW c \in Calls, result[c] # NoReply,
                        ~Succeeded(result[c]), NEW j \in jobs, j[1] = c
                 PROVE  FALSE
        BY DEF ErrorResponseLeftNoJob
    <2>1. Refuses(c, result[c])
        BY DEF IInv, ResultsInv, Confirms, Succeeded
    <2>2. payload[c] = "valid" /\ token[c] = lifetime
        BY DEF IInv, JobsInv, Accepted
    <2>3. lifetime \in Nat
        BY DEF IInv, TypeOK, Lifetimes
    <2>. QED  BY <2>1, <2>2, <2>3 DEF Refuses
<1>. QED  BY InductiveInvariant, <1>1, PTL

(***************************************************************************)
(* A key whose first call has returned is never executed again.            *)
(***************************************************************************)
LEMMA InitReplayInv == Init => ReplayInv
BY DEF Init, ReplayInv, Computed, ResubmissionCreatesNothing, Requests

LEMMA NextReplayInv == IInv /\ IInv' /\ ReplayInv /\ [Next]_vars => ReplayInv'
<1> SUFFICES ASSUME IInv, IInv', ReplayInv, [Next]_vars
             PROVE  ReplayInv'
    OBVIOUS
<1> USE DEF IInv, TypeOK, serverVars, threadVars, requestVars, clientVars
<1>1. ASSUME NEW c \in Calls, SubmitJob(c)
      PROVE  ReplayInv'
    <2>1. /\ call[c] = "idle" /\ call' = [call EXCEPT ![c] = "sending"]
          /\ key'[c] \in Keys /\ resubmits'[c] \in BOOLEAN
          /\ UNCHANGED <<running, lifetime, jobs, cache, lost, thread, reply>>
          /\ \A d \in Calls : d # c =>
                /\ key'[d] = key[d] /\ token'[d] = token[d]
                /\ resubmits'[d] = resubmits[d]
          /\ resubmits'[c] => \E d \in Calls :
                call[d] = "returned" /\ key[d] = key'[c] /\ token[d] = token'[c]
        BY <1>1 DEF SubmitJob
    <2>2. /\ \A r \in Requests : r[1] = c => thread[r] = "unsent"
          /\ \A j \in Accepted : j \in Requests /\ j[1] \in Calls /\ j[1] # c
          /\ \A n \in Attempts : thread[<<c, n>>] = "unsent"
        BY <2>1, RequestPairs DEF CallsInv, JobsInv, Accepted
    <2>3. \A d \in Calls : d # c => (Remembered(d)' <=> Remembered(d))
        BY <2>1 DEF Remembered
    <2>4. resubmits'[c] /\ token'[c] = lifetime /\ running => Remembered(c)'
        BY <2>1 DEF ReplayInv, Remembered
    <2>5. \A r \in Requests :
            Computed(r)' /\ reply'[r].status = 201 /\ token'[r[1]] = lifetime' /\ running'
                => Remembered(r[1])'
        BY <2>1, <2>2, <2>3, RequestPairs DEF ReplayInv, Computed
    <2>6. \A d \in Calls :
            call'[d] = "returned" /\ token'[d] = lifetime' /\ running' => Remembered(d)'
        BY <2>1, <2>3 DEF ReplayInv
    <2>7. \A d \in Calls : resubmits'[d] =>
            /\ call'[d] # "idle"
            /\ token'[d] = lifetime' /\ running' => Remembered(d)'
            /\ \A n \in Attempts : thread'[<<d, n>>] \notin {"invoke", "put"}
        BY <2>1, <2>2, <2>3, <2>4 DEF ReplayInv
    <2>8. ResubmissionCreatesNothing'
        BY <2>1, <2>2 DEF ReplayInv, ResubmissionCreatesNothing, Accepted
    <2>. QED  BY <2>5, <2>6, <2>7, <2>8 DEF ReplayInv
<1>2. ASSUME NEW c \in Calls, SendAttempt(c)
      PROVE  ReplayInv'
    BY <1>2, RequestPairs
    DEF SendAttempt, Moves, ReplayInv, Computed, Remembered, ResubmissionCreatesNothing
<1>3. ASSUME NEW c \in Calls, RetryAfterException(c) \/ GiveUp(c)
      PROVE  ReplayInv'
    BY <1>3 DEF RetryAfterException, GiveUp, ReplayInv, Computed, Remembered,
       ResubmissionCreatesNothing
<1>4. ASSUME NEW c \in Calls, ReceiveResponse(c)
      PROVE  ReplayInv'
    <2> DEFINE r == <<c, attempt[c]>>
    <2>1. /\ r \in Requests /\ r[1] = c /\ thread[r] = "answered"
          /\ call[c] = "waiting"
          /\ call' = [call EXCEPT ![c] =
                         IF Succeeded(reply[r]) THEN "returned" ELSE "raised"]
          /\ UNCHANGED <<running, lifetime, jobs, cache, lost, thread, reply, key, token,
                         resubmits>>
        BY <1>4, RequestPairs DEF ReceiveResponse
    <2>2. Succeeded(reply[r]) => reply[r].status = 201
        BY <2>1, ReplyFacts DEF ThreadsInv, Handled
    <2>. QED  BY <2>1, <2>2 DEF ReplayInv, Computed, Remembered,
                 ResubmissionCreatesNothing
<1>5. ASSUME NEW r \in Requests, Dispatch(r)
      PROVE  ReplayInv'
    <2>1. /\ r[1] \in Calls /\ r[2] \in Attempts /\ r = <<r[1], r[2]>>
          /\ thread[r] = "sent" /\ key[r[1]] \in Keys /\ running
          /\ UNCHANGED <<running, lifetime, jobs, cache, lost, key, token, call, resubmits>>
          /\ \A s \in Requests : s # r => thread'[s] = thread[s] /\ reply'[s] = reply[s]
          /\ thread'[r] \in {"invoke", "respond"}
          /\ thread'[r] = "respond" =>
                \/ reply'[r] = Failure(401)
                \/ cache[key[r[1]]] # NoReply
          /\ thread'[r] = "invoke" =>
                token[r[1]] = lifetime /\ cache[key[r[1]]] = NoReply
        BY <1>5, RequestPairs DEF Dispatch, Lookup, CallsInv, ThreadsInv, AtWork, Moves, Authorized
    <2>2. \A s \in Requests :
            Computed(s)' /\ reply'[s].status = 201 /\ token'[s[1]] = lifetime' /\ running'
                => Remembered(s[1])'
        BY <2>1, ReplyFacts DEF ReplayInv, Computed, Remembered
    <2>3. \A d \in Calls : resubmits'[d] =>
            \A n \in Attempts : thread'[<<d, n>>] \notin {"invoke", "put"}
        BY <2>1, RequestPairs DEF ReplayInv, Remembered
    <2>. QED  BY <2>1, <2>2, <2>3 DEF ReplayInv, Remembered, ResubmissionCreatesNothing
<1>6. ASSUME NEW r \in Requests, Invoke(r)
      PROVE  ReplayInv'
    <2>1. /\ r[1] \in Calls /\ r[2] \in Attempts /\ r = <<r[1], r[2]>>
          /\ thread[r] = "invoke"
          /\ jobs' \subseteq jobs \cup {r}
          /\ UNCHANGED <<running, lifetime, cache, lost, key, token, call, resubmits>>
          /\ \A s \in Requests : s # r => thread'[s] = thread[s] /\ reply'[s] = reply[s]
          /\ \/ thread'[r] = "put"
             \/ /\ thread'[r] = "respond"
                /\ reply'[r] = Failure(400) \/ reply'[r] = Failure(500)
        BY <1>6, InvokeCases, RequestPairs
    <2>2. ~resubmits[r[1]]
        BY <2>1 DEF ReplayInv
    <2>3. \A s \in Requests :
            Computed(s)' /\ reply'[s].status = 201 /\ token'[s[1]] = lifetime' /\ running'
                => Remembered(s[1])'
        BY <2>1, ReplyFacts DEF ReplayInv, Computed, Remembered
    <2>4. \A d \in Calls : resubmits'[d] =>
            \A n \in Attempts : thread'[<<d, n>>] \notin {"invoke", "put"}
        BY <2>1, <2>2, RequestPairs DEF ReplayInv
    <2>5. ResubmissionCreatesNothing'
        BY <2>1, <2>2 DEF ReplayInv, ResubmissionCreatesNothing
    <2>. QED  BY <2>1, <2>3, <2>4, <2>5 DEF ReplayInv, Remembered
<1>7. ASSUME NEW r \in Requests, PutResponse(r)
      PROVE  ReplayInv'
    <2>1. /\ r[1] \in Calls /\ key[r[1]] \in Keys
          /\ thread' = [thread EXCEPT ![r] = "respond"]
          /\ cache' = [cache EXCEPT ![key[r[1]]] = reply[r]]
          /\ reply[r] # NoReply
          /\ UNCHANGED <<running, lifetime, jobs, lost, reply, key, token, call, resubmits>>
        BY <1>7, RequestPairs DEF PutResponse, Moves, CallsInv, ThreadsInv, Handled
    <2>2. /\ Remembered(r[1])'
          /\ \A d \in Calls : key[d] \in Keys /\ Remembered(d) => Remembered(d)'
        BY <2>1 DEF Remembered
    <2>3. /\ \A d \in Calls : call[d] # "idle" => key[d] \in Keys
          /\ \A s \in Requests : thread[s] # "unsent" => key[s[1]] \in Keys
        BY RequestPairs DEF CallsInv
    <2>4. \A s \in Requests :
            Computed(s)' /\ reply'[s].status = 201 /\ token'[s[1]] = lifetime' /\ running'
                => Remembered(s[1])'
        BY <2>1, <2>2, <2>3, RequestPairs DEF ReplayInv, Computed
    <2>. QED  BY <2>1, <2>2, <2>3, <2>4 DEF ReplayInv, ResubmissionCreatesNothing
<1>8. ASSUME NEW r \in Requests, Respond(r)
      PROVE  ReplayInv'
    BY <1>8 DEF Respond, Moves, ReplayInv, Computed, Remembered,
       ResubmissionCreatesNothing
<1>9. CASE StopCore
    BY <1>9 DEF StopCore, EmptyCache, ReplayInv, AtWork, ResubmissionCreatesNothing, Requests
<1>10. CASE StartCore
    <2>1. \A c \in Calls : token[c] < lifetime'
        BY <1>10, ConstantsAssumption DEF StartCore, CallsInv, Lifetimes
    <2>2. \A c \in Calls : token'[c] # lifetime'
        BY <1>10, <2>1, ConstantsAssumption DEF StartCore, Lifetimes
    <2>. QED  BY <1>10, <2>2, RequestPairs DEF StartCore, ReplayInv, Computed,
                 ResubmissionCreatesNothing
<1>11. CASE UNCHANGED vars
    BY <1>11 DEF vars, ReplayInv, Computed, Remembered, ResubmissionCreatesNothing
<1>. QED
    BY <1>1, <1>2, <1>3, <1>4, <1>5, <1>6, <1>7, <1>8, <1>9, <1>10, <1>11
    DEF Next, Client, Thread

\* Replaying a key after its first call has returned never executes again,
\* for any number of overlapping attempts, crashes and restarts.
THEOREM ReplaysCreateNothing == Spec => []ResubmissionCreatesNothing
<1>1. Init => IInv /\ ReplayInv
    BY InitIInv, InitReplayInv
<1>2. IInv /\ ReplayInv /\ [Next]_vars => (IInv /\ ReplayInv)'
    BY NextIInv, NextReplayInv
<1>3. ReplayInv => ResubmissionCreatesNothing
    BY DEF ReplayInv
<1>. QED  BY <1>1, <1>2, <1>3, PTL DEF Spec

(***************************************************************************)
(* Without overlap the Core keeps its promise of one job per key.          *)
(***************************************************************************)
LEMMA InitSerialInv == Init => SerialInv
BY DEF Init, SerialInv, AtWork, Accepted

\* When the handler runs, its key has no job yet in this process.
LEMMA InvokeFindsKeyUnused ==
    ASSUME IInv, SerialInv, NEW r \in Requests, Invoke(r)
    PROVE  \A j \in Accepted : ~(key[j[1]] = key[r[1]] /\ token[j[1]] = lifetime)
<1> SUFFICES ASSUME NEW j \in Accepted, key[j[1]] = key[r[1]], token[j[1]] = lifetime
             PROVE  FALSE
    OBVIOUS
<1> USE DEF IInv, TypeOK
<1>1. thread[r] = "invoke" /\ running /\ ~Remembered(r[1])
    BY InvokeCases DEF SerialInv, ThreadsInv, AtWork
<1>2. j \in jobs /\ j \in Requests
    BY <1>1 DEF JobsInv, Accepted
<1>3. CASE thread[j] = "put"
    BY <1>1, <1>2, <1>3 DEF SerialInv, AtWork
<1>4. CASE cache[key[j[1]]] = [status |-> 201, job |-> j]
    BY <1>1, <1>2, <1>4, ReplyFacts DEF Remembered
<1>. QED  BY <1>2, <1>3, <1>4 DEF SerialInv

LEMMA NextSerialInv ==
    ASSUME ~Overlapping, IInv, IInv', SerialInv, [Next]_vars
    PROVE  SerialInv'
<1> USE DEF IInv, TypeOK, serverVars, threadVars, requestVars, clientVars
<1>1. ASSUME NEW c \in Calls, SubmitJob(c)
      PROVE  SerialInv'
    <2>1. /\ call[c] = "idle"
          /\ UNCHANGED <<running, lifetime, jobs, cache, lost, thread, reply>>
          /\ \A d \in Calls : d # c => key'[d] = key[d] /\ token'[d] = token[d]
        BY <1>1 DEF SubmitJob
    <2>2. /\ \A r \in Requests : r[1] = c => thread[r] = "unsent"
          /\ \A j \in Accepted : j \in Requests /\ j[1] \in Calls /\ j[1] # c
          /\ Accepted' = Accepted /\ jobs \subseteq Accepted
        BY <2>1, RequestPairs DEF CallsInv, JobsInv, Accepted
    <2>3. \A r, s \in Requests :
            AtWork(r)' /\ AtWork(s)' /\ key'[r[1]] = key'[s[1]] => r = s
        BY <2>1, <2>2, RequestPairs DEF SerialInv, AtWork
    <2>4. \A r \in Requests : thread'[r] = "invoke" => ~Remembered(r[1])'
        BY <2>1, <2>2, RequestPairs DEF SerialInv, Remembered
    <2>5. ASSUME NEW j \in jobs'
          PROVE  thread'[j] = "put" \/ cache'[key'[j[1]]] = [status |-> 201, job |-> j]
        <3>1. j \in jobs /\ key'[j[1]] = key[j[1]]
            BY <2>1, <2>2
        <3>. QED  BY <2>1, <3>1 DEF SerialInv
    <2>6. \A i, j \in Accepted' :
            key'[i[1]] = key'[j[1]] /\ token'[i[1]] = token'[j[1]] => i = j
        BY <2>1, <2>2 DEF SerialInv
    <2>. QED  BY <2>3, <2>4, <2>5, <2>6 DEF SerialInv
<1>2. ASSUME NEW c \in Calls, SendAttempt(c)
      PROVE  SerialInv'
    <2> DEFINE r == <<c, attempt[c]>>
    <2>1. /\ r \in Requests /\ r[1] = c /\ thread[r] = "unsent"
          /\ \A s \in Requests : key[s[1]] = key[c] => ~AtWork(s)
          /\ thread' = [thread EXCEPT ![r] = IF running THEN "sent" ELSE "dead"]
          /\ UNCHANGED <<running, lifetime, jobs, cache, lost, reply, key, token>>
        BY <1>2, RequestPairs DEF SendAttempt, Moves
    <2>2. r \notin jobs
        BY <2>1 DEF JobsInv, Handled
    <2>. QED  BY <2>1, <2>2 DEF SerialInv, AtWork, Remembered, Accepted
<1>3. ASSUME NEW c \in Calls,
             RetryAfterException(c) \/ GiveUp(c) \/ ReceiveResponse(c)
      PROVE  SerialInv'
    BY <1>3 DEF RetryAfterException, GiveUp, ReceiveResponse, SerialInv, AtWork,
       Remembered, Accepted
<1>4. ASSUME NEW r \in Requests, Dispatch(r)
      PROVE  SerialInv'
    <2>1. /\ thread[r] = "sent" /\ r \notin jobs
          /\ \A s \in Requests : s # r => thread'[s] = thread[s]
          /\ thread'[r] \in {"invoke", "respond"}
          /\ thread'[r] = "invoke" => ~Remembered(r[1])
          /\ UNCHANGED <<running, lifetime, jobs, cache, lost, key, token>>
        BY <1>4 DEF Dispatch, Lookup, Moves, Remembered, JobsInv, Handled
    <2>2. \A s \in Requests : AtWork(s)' => AtWork(s)
        BY <2>1 DEF AtWork
    <2>. QED  BY <2>1, <2>2 DEF SerialInv, Remembered, Accepted
<1>5. ASSUME NEW r \in Requests, Invoke(r)
      PROVE  SerialInv'
    <2>1. /\ thread[r] = "invoke" /\ r \notin jobs
          /\ running /\ token[r[1]] = lifetime /\ ~Remembered(r[1])
          /\ \A s \in Requests : s # r => thread'[s] = thread[s]
          /\ thread'[r] \in {"put", "respond"}
          /\ \/ thread'[r] = "put" /\ jobs' = jobs \cup {r}
             \/ jobs' = jobs
          /\ UNCHANGED <<running, lifetime, cache, lost, key, token>>
        BY <1>5, InvokeCases DEF SerialInv, JobsInv, ThreadsInv, AtWork, Handled
    <2>2. \A s \in Requests : AtWork(s)' => AtWork(s)
        BY <2>1 DEF AtWork
    <2>3. \A j \in Accepted : ~(key[j[1]] = key[r[1]] /\ token[j[1]] = lifetime)
        BY <1>5, InvokeFindsKeyUnused
    <2>4. \A i, j \in Accepted' :
            key'[i[1]] = key'[j[1]] /\ token'[i[1]] = token'[j[1]] => i = j
        BY <2>1, <2>3 DEF SerialInv, Accepted
    <2>. QED  BY <2>1, <2>2, <2>4 DEF SerialInv, Remembered
<1>6. ASSUME NEW r \in Requests, PutResponse(r)
      PROVE  SerialInv'
    <2>1. /\ r[1] \in Calls /\ key[r[1]] \in Keys
          /\ thread[r] = "put" /\ thread' = [thread EXCEPT ![r] = "respond"]
          /\ r \in jobs /\ reply[r] = [status |-> 201, job |-> r]
          /\ cache' = [cache EXCEPT ![key[r[1]]] = reply[r]]
          /\ UNCHANGED <<running, lifetime, jobs, lost, key, token>>
        BY <1>6, RequestPairs DEF PutResponse, Moves, ThreadsInv, CallsInv
    <2>2. \A s \in Requests : AtWork(s)' => AtWork(s)
        BY <2>1 DEF AtWork
    <2>3. ASSUME NEW s \in Requests, thread'[s] = "invoke"
          PROVE  ~Remembered(s[1])'
        <3>1. thread[s] = "invoke" /\ s # r
            BY <2>1, <2>3
        <3>2. key[s[1]] # key[r[1]]
            BY <2>1, <3>1 DEF SerialInv, AtWork
        <3>. QED  BY <2>1, <3>1, <3>2 DEF SerialInv, Remembered
    <2>4. ASSUME NEW j \in jobs
          PROVE  thread'[j] = "put" \/ cache'[key'[j[1]]] = [status |-> 201, job |-> j]
        <3>1. CASE j = r
            BY <2>1, <3>1
        <3>2. CASE j # r
            <4>1. key[j[1]] # key[r[1]]
                BY <2>1, <3>2 DEF SerialInv, Accepted, JobsInv
            <4>. QED  BY <2>1, <3>2, <4>1 DEF SerialInv
        <3>. QED  BY <3>1, <3>2
    <2>. QED  BY <2>1, <2>2, <2>3, <2>4 DEF SerialInv, Accepted
<1>7. ASSUME NEW r \in Requests, Respond(r)
      PROVE  SerialInv'
    BY <1>7 DEF Respond, Moves, SerialInv, AtWork, Remembered, Accepted
<1>8. CASE StopCore
    <2>1. /\ jobs' = {} /\ Accepted' = Accepted
          /\ UNCHANGED <<key, token>>
          /\ \A r \in Requests : ~AtWork(r)'
        BY <1>8 DEF StopCore, EmptyCache, AtWork, Accepted
    <2>. QED  BY <2>1 DEF SerialInv, AtWork
<1>9. CASE StartCore
    BY <1>9 DEF StartCore, SerialInv, AtWork, Remembered, Accepted
<1>10. CASE UNCHANGED vars
    BY <1>10 DEF vars, SerialInv, AtWork, Remembered, Accepted
<1>. QED
    BY <1>1, <1>2, <1>3, <1>4, <1>5, <1>6, <1>7, <1>8, <1>9, <1>10
    DEF Next, Client, Thread

LEMMA SerialInvariant ==
    ASSUME ~Overlapping
    PROVE  Spec => [](IInv /\ SerialInv)
<1>1. Init => IInv /\ SerialInv
    BY InitIInv, InitSerialInv
<1>2. IInv /\ SerialInv /\ [Next]_vars => (IInv /\ SerialInv)'
    BY NextIInv, NextSerialInv
<1>. QED  BY <1>1, <1>2, PTL DEF Spec

\* When the requests of a key never overlap in the Core, a key has at most one
\* job, whatever is lost, retried or restarted.
THEOREM OneJobPerKeyWithoutOverlap ==
    ASSUME ~Overlapping
    PROVE  Spec => []OneJobPerKey
<1>1. IInv /\ SerialInv => OneJobPerKey
    BY DEF IInv, JobsInv, SerialInv, OneJobPerKey, Accepted
<1>. QED  BY SerialInvariant, <1>1, PTL

\* And every successful call of a key returns the same job.
THEOREM ReplaysReturnTheOriginal ==
    ASSUME ~Overlapping
    PROVE  Spec => []ReplayReturnsOriginal
<1>1. IInv /\ SerialInv => ReplayReturnsOriginal
    <2> SUFFICES ASSUME IInv, SerialInv, NEW c \in Calls, NEW d \in Calls,
                        call[c] = "returned", call[d] = "returned",
                        key[c] = key[d], token[c] = token[d]
                 PROVE  result[c] = result[d]
        BY DEF ReplayReturnsOriginal
    <2>1. /\ Confirms(c, result[c]) /\ result[c] \in Replies
          /\ Confirms(d, result[d]) /\ result[d] \in Replies
        BY DEF IInv, TypeOK, ResultsInv
    <2>2. result[c].job = result[d].job /\ result[c].status = result[d].status
        BY <2>1 DEF Confirms, SerialInv
    <2>. QED  BY <2>1, <2>2 DEF Replies
<1>. QED  BY SerialInvariant, <1>1, PTL

(***************************************************************************)
(* Without overlap the system implements the exactly-once ledger.          *)
(***************************************************************************)
Entries == {Entry(j) : j \in jobs \cup lost}
Outcome == [c \in Calls |-> IF call[c] = "returned" THEN result[c].job ELSE NoJob]
Failed == {c \in Calls : call[c] = "raised"}

LEMMA LedgerInit == Init => Ledger!Init
BY DEF Init, Ledger!Init

\* A step that changes neither jobs, headers, nor the end of a call is not
\* visible in the ledger.
LEMMA LedgerStutter ==
    ASSUME UNCHANGED <<lifetime, key, token>>, Accepted' = Accepted,
           Outcome' = Outcome, Failed' = Failed
    PROVE  UNCHANGED Ledger!vars
<1>1. Entries' = Entries
    BY DEF Entries, Entry, Accepted
<1>. QED  BY <1>1 DEF Ledger!vars, Entries, Outcome, Failed

LEMMA LedgerNext ==
    ASSUME ~Overlapping, IInv, SerialInv, [Next]_vars
    PROVE  [Ledger!Next]_(Ledger!vars)
<1> USE DEF IInv, TypeOK, serverVars, threadVars, requestVars, clientVars
<1>1. ASSUME NEW c \in Calls, SubmitJob(c)
      PROVE  Ledger!Next
    <2>1. PICK k \in Keys, t \in 1 .. lifetime :
            /\ key' = [key EXCEPT ![c] = k]
            /\ token' = [token EXCEPT ![c] = t]
        BY <1>1 DEF SubmitJob
    <2>2. /\ call[c] = "idle" /\ key[c] = NoKey
          /\ call' = [call EXCEPT ![c] = "sending"]
          /\ UNCHANGED <<lifetime, jobs, lost, result>>
        BY <1>1 DEF SubmitJob, CallsInv
    <2>3. \A j \in jobs \cup lost : j[1] \in Calls /\ j[1] # c
        BY <2>2, RequestPairs DEF JobsInv, Accepted
    <2>4. \A j \in jobs \cup lost : Entry(j)' = Entry(j)
        BY <2>1, <2>3 DEF Entry
    <2>5. Entries' = Entries
        BY <2>2, <2>4 DEF Entries
    <2>6. Outcome' = Outcome /\ Failed' = Failed
        BY <2>2 DEF Outcome, Failed
    <2>7. Ledger!Ask(c, k, t)
        BY <2>1, <2>2, <2>5, <2>6 DEF Ledger!Ask, Entries, Outcome, Failed
    <2>. QED  BY <2>7 DEF Ledger!Next
<1>2. ASSUME NEW c \in Calls, SendAttempt(c) \/ RetryAfterException(c)
      PROVE  UNCHANGED Ledger!vars
    <2>1. /\ \E s \in {"waiting", "sending"} : call' = [call EXCEPT ![c] = s]
          /\ call[c] \in {"waiting", "sending"}
          /\ UNCHANGED <<lifetime, key, token, jobs, lost, result>>
        BY <1>2 DEF SendAttempt, RetryAfterException
    <2>. QED  BY <2>1, LedgerStutter DEF Accepted, Outcome, Failed
<1>3. ASSUME NEW c \in Calls, call[c] = "waiting",
             call' = [call EXCEPT ![c] = "raised"],
             UNCHANGED <<lifetime, key, token, jobs, lost>>,
             \A d \in Calls : d # c => result'[d] = result[d]
      PROVE  Ledger!Next
    <2>1. key[c] # NoKey
        BY <1>3, ConstantsAssumption DEF CallsInv
    <2>2. Outcome[c] = NoJob /\ c \notin Failed
        BY <1>3 DEF Outcome, Failed
    <2>3. Outcome' = Outcome /\ Failed' = Failed \cup {c}
        BY <1>3 DEF Outcome, Failed
    <2>4. Entries' = Entries
        BY <1>3 DEF Entries, Entry
    <2>5. Ledger!Fail(c)
        BY <1>3, <2>1, <2>2, <2>3, <2>4
        DEF Ledger!Fail, Ledger!Pending, Entries, Outcome, Failed
    <2>. QED  BY <2>5 DEF Ledger!Next
<1>4. ASSUME NEW c \in Calls, GiveUp(c)
      PROVE  Ledger!Next
    BY <1>3, <1>4 DEF GiveUp
<1>5. ASSUME NEW c \in Calls, ReceiveResponse(c)
      PROVE  Ledger!Next
    <2> DEFINE r == <<c, attempt[c]>>
    <2>1. /\ r \in Requests /\ r[1] = c /\ thread[r] = "answered" /\ call[c] = "waiting"
          /\ call' = [call EXCEPT ![c] =
                         IF Succeeded(reply[r]) THEN "returned" ELSE "raised"]
          /\ result' = [result EXCEPT ![c] = reply[r]]
          /\ UNCHANGED <<lifetime, key, token, jobs, lost>>
        BY <1>5, RequestPairs DEF ReceiveResponse
    <2>2. CASE ~Succeeded(reply[r])
        BY <2>1, <2>2, <1>3
    <2>3. CASE Succeeded(reply[r])
        <3>1. reply[r].status = 201 /\ Confirms(c, reply[r])
            BY <2>1, <2>3, ReplyFacts DEF ThreadsInv, RepliesInv, Handled, Computed, Refuses
        <3> DEFINE e == Entry(reply[r].job)
        <3>2. e \in Entries /\ e.key = key[c] /\ e.lifetime = token[c]
                /\ e.job = reply[r].job
            BY <3>1 DEF Confirms, Accepted, Entries, Entry
        <3>3. key[c] # NoKey
            BY <2>1, ConstantsAssumption DEF CallsInv
        <3>4. Outcome[c] = NoJob /\ c \notin Failed
            BY <2>1 DEF Outcome, Failed
        <3>5. /\ Outcome' = [Outcome EXCEPT ![c] = e.job]
              /\ Failed' = Failed
              /\ Entries' = Entries
            BY <2>1, <2>3, <3>2 DEF Outcome, Failed, Entries, Entry
        <3>6. Ledger!Answer(c)
            BY <2>1, <3>2, <3>3, <3>4, <3>5
            DEF Ledger!Answer, Ledger!Pending, Entries, Outcome, Failed
        <3>. QED  BY <3>6 DEF Ledger!Next
    <2>. QED  BY <2>2, <2>3
<1>6. ASSUME NEW r \in Requests, Dispatch(r) \/ PutResponse(r) \/ Respond(r)
      PROVE  UNCHANGED Ledger!vars
    <2>1. UNCHANGED <<lifetime, key, token, jobs, lost, call, result>>
        BY <1>6 DEF Dispatch, Lookup, PutResponse, Respond
    <2>. QED  BY <2>1, LedgerStutter DEF Accepted, Outcome, Failed
<1>7. ASSUME NEW r \in Requests, Invoke(r)
      PROVE  Ledger!Next \/ UNCHANGED Ledger!vars
    <2>1. /\ r[1] \in Calls /\ key[r[1]] \in Keys /\ token[r[1]] = lifetime
          /\ UNCHANGED <<lifetime, key, token, lost, call, result>>
        BY <1>7, InvokeCases, RequestPairs DEF CallsInv, ThreadsInv
    <2>2. Outcome' = Outcome /\ Failed' = Failed
        BY <2>1 DEF Outcome, Failed
    <2>3. CASE jobs' = jobs
        BY <2>1, <2>2, <2>3, LedgerStutter DEF Accepted
    <2>4. CASE jobs' = jobs \cup {r}
        <3>1. \A j \in Accepted : ~(key[j[1]] = key[r[1]] /\ token[j[1]] = lifetime)
            BY <1>7, InvokeFindsKeyUnused
        <3>2. \A e \in Entries :
                e.job # r /\ ~(e.key = key[r[1]] /\ e.lifetime = lifetime)
            BY <2>1, <3>1 DEF Entries, Entry, Accepted
        <3>3. Entry(r)' = [job |-> r, key |-> key[r[1]], lifetime |-> lifetime]
            BY <2>1 DEF Entry
        <3>4. \A j \in jobs \cup lost : Entry(j)' = Entry(j)
            BY <2>1 DEF Entry
        <3>5. Entries' = Entries \cup {[job |-> r, key |-> key[r[1]], lifetime |-> lifetime]}
            BY <2>1, <2>4, <3>3, <3>4 DEF Entries
        <3>6. Ledger!Accept(r, key[r[1]])
            BY <2>1, <2>2, <3>2, <3>5 DEF Ledger!Accept, Entries, Outcome, Failed
        <3>. QED  BY <2>1, <3>6 DEF Ledger!Next
    <2>. QED  BY <1>7, <2>3, <2>4, InvokeCases
<1>8. CASE StopCore
    BY <1>8, LedgerStutter DEF StopCore, EmptyCache, Accepted, Outcome, Failed
<1>9. CASE StartCore
    <2>1. /\ lifetime < MaxLifetimes /\ lifetime' = lifetime + 1
          /\ UNCHANGED <<key, token, jobs, lost, call, result>>
        BY <1>9 DEF StartCore
    <2>2. Entries' = Entries /\ Outcome' = Outcome /\ Failed' = Failed
        BY <2>1 DEF Entries, Entry, Outcome, Failed
    <2>3. Ledger!Restart
        BY <2>1, <2>2 DEF Ledger!Restart, Entries, Outcome, Failed
    <2>. QED  BY <2>3 DEF Ledger!Next
<1>10. CASE UNCHANGED vars
    BY <1>10, LedgerStutter DEF vars, Accepted, Outcome, Failed
<1>. QED
    BY <1>1, <1>2, <1>4, <1>5, <1>6, <1>7, <1>8, <1>9, <1>10 DEF Next, Client, Thread

\* Without overlap, clients, threads, stores, crashes and restarts together
\* are an exactly-once ledger: the promise of core/api/idempotency.py:1-9.
THEOREM RefinesLedger ==
    ASSUME ~Overlapping
    PROVE  Spec => ImplementsLedger
<1>1. IInv /\ SerialInv /\ [Next]_vars => [Ledger!Next]_(Ledger!vars)
    BY LedgerNext
<1>. QED  BY LedgerInit, SerialInvariant, <1>1, PTL
        DEF Spec, ImplementsLedger, Ledger!Spec
=============================================================================
