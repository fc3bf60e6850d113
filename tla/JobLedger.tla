------------------------------ MODULE JobLedger ------------------------------
(***************************************************************************)
(* What the Core promises to those who submit jobs: a ledger that accepts  *)
(* at most one job for an idempotency key in the lifetime of a Core        *)
(* process (core/api/idempotency.py:1-9, TDD section 4.3), and answers a   *)
(* call with the job that was accepted for its key, or not at all.  A call *)
(* that fails may still see its job accepted later.                        *)
(***************************************************************************)
EXTENDS Naturals

CONSTANTS Calls, Keys, Jobs, MaxLifetimes, NoKey, NoJob

VARIABLES
    lifetime,   \* which Core process this is
    asked,      \* the key each call was made with
    session,    \* the Core process each call's token belongs to
    accepted,   \* all jobs ever accepted, with their key and lifetime
    outcome,    \* the job a call was answered with
    failed      \* the calls that raised

vars == <<lifetime, asked, session, accepted, outcome, failed>>

Pending(c) == asked[c] # NoKey /\ outcome[c] = NoJob /\ c \notin failed

Init ==
    /\ lifetime = 1
    /\ asked = [c \in Calls |-> NoKey]
    /\ session = [c \in Calls |-> 1]
    /\ accepted = {}
    /\ outcome = [c \in Calls |-> NoJob]
    /\ failed = {}

Ask(c, k, t) ==
    /\ asked[c] = NoKey
    /\ asked' = [asked EXCEPT ![c] = k]
    /\ session' = [session EXCEPT ![c] = t]
    /\ UNCHANGED <<lifetime, accepted, outcome, failed>>

Accept(j, k) ==
    /\ \E c \in Calls : asked[c] = k /\ session[c] = lifetime
    /\ \A e \in accepted : e.job # j /\ ~(e.key = k /\ e.lifetime = lifetime)
    /\ accepted' = accepted \cup {[job |-> j, key |-> k, lifetime |-> lifetime]}
    /\ UNCHANGED <<lifetime, asked, session, outcome, failed>>

Answer(c) ==
    /\ Pending(c)
    /\ \E e \in accepted :
        /\ e.key = asked[c] /\ e.lifetime = session[c]
        /\ outcome' = [outcome EXCEPT ![c] = e.job]
    /\ UNCHANGED <<lifetime, asked, session, accepted, failed>>

Fail(c) ==
    /\ Pending(c)
    /\ failed' = failed \cup {c}
    /\ UNCHANGED <<lifetime, asked, session, accepted, outcome>>

Restart ==
    /\ lifetime < MaxLifetimes
    /\ lifetime' = lifetime + 1
    /\ UNCHANGED <<asked, session, accepted, outcome, failed>>

Next ==
    \/ \E c \in Calls, k \in Keys, t \in 1 .. lifetime : Ask(c, k, t)
    \/ \E j \in Jobs, k \in Keys : Accept(j, k)
    \/ \E c \in Calls : Answer(c) \/ Fail(c)
    \/ Restart

Spec == Init /\ [][Next]_vars
=============================================================================
