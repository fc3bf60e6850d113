----------------------------- MODULE HostProofs -----------------------------
(***************************************************************************)
(* Core processes on one machine, proved for any number of them, any       *)
(* configuration files and environments, and any number of interrupts: the *)
(* precedence of the settings, and that adapters find the Core that runs.  *)
(***************************************************************************)
EXTENDS CoreHost, TLAPS

Gone == {"off", "exited"}
Bound == {"announcing", "entering", "serving"}
Unbinding == {"stopping", "closing", "closingLog"}

(***************************************************************************)
(* The inductive invariant.                                                *)
(***************************************************************************)
\* Only a process that is serving can end its loop by being interrupted.
EnteredInv == \A p \in Cores : stage[p] = "serving" => p \in entered

\* A process that runs has read a configuration that did not raise.
LoadedInv ==
    \A p \in Cores : stage[p] \notin Gone =>
        /\ input[p] \in [file : Files, env : Environments]
        /\ ~LoadRaises(input[p].file, input[p].env)

\* The socket is held from the bind until some way of closing it.
BoundInv ==
    \A p \in Cores :
        /\ stage[p] \in Bound => p \in listening
        /\ p \in listening => stage[p] \in Bound \cup Unbinding

PortInv == \A p, q \in listening : p # q => Api(p).port # Api(q).port

\* While a process is alone, nobody else is on the way to write a token.
AloneInv == \A p \in alone : \A q \in Cores \ {p} : stage[q] \in Gone

TokenInv ==
    \A p \in alone : stage[p] \in Bound \cup {"binding"} =>
        tokens[Api(p).auth_token_path] = [by |-> p, written |-> TRUE]

HostInv ==
    /\ HostTypeOK
    /\ EnteredInv
    /\ LoadedInv
    /\ BoundInv
    /\ PortInv
    /\ AloneInv
    /\ TokenInv

-----------------------------------------------------------------------------
(* The configuration. *)

\* A load that does not raise gives every setting by the documented precedence:
\* environment over file over default (TDD 20, loader.py:54-95).
THEOREM LoadFollowsPrecedence ==
    ASSUME NEW file, NEW env, ~LoadRaises(file, env),
           NEW section \in Sections, NEW field \in DOMAIN Defaults[section]
    PROVE  Loaded(file, env)[section][field] = Setting(file, env, section, field)
<1> DEFINE default == Object(Defaults[section])
           value == GetOr(Overrides(file), section, default)
           merged == Merged(file)[section]
<1>1. merged = IF value.json = "object" THEN Object(Over(value.fields, default.fields)) ELSE value
  BY DEF Merged
<1>2. /\ merged.json = "object"
      /\ DOMAIN merged.fields = DOMAIN Defaults[section]
  BY DEF LoadRaises
<1>3. value.json = "object" /\ merged = Object(Over(value.fields, default.fields))
  BY <1>1, <1>2
<1>4. merged.fields[field] = GetOr(value, field, Defaults[section][field])
  <2>1. merged.fields = Over(value.fields, Defaults[section])
    BY <1>3 DEF Object
  <2>2. field \in DOMAIN Over(value.fields, Defaults[section])
    BY <1>2, <2>1
  <2>3. QED
    BY <1>3, <2>1, <2>2 DEF GetOr, Has, Over
<1>5. GetOr(value, field, Defaults[section][field])
          = GetOr(Get(file, section), field, Defaults[section][field])
  <2>1. CASE Has(file, section)
    <3>1. Truthy(file)
      BY <2>1 DEF Has, Truthy, Null
    <3>2. QED
      BY <2>1, <3>1 DEF Overrides, Get, GetOr
  <2>2. CASE ~Has(file, section)
    <3>1. ~Has(Overrides(file), section)
      BY <2>2 DEF Overrides, Has, Object
    <3>2. value = default /\ Get(file, section) = Null
      BY <2>2, <3>1 DEF Get, GetOr
    <3>3. QED
      BY <3>2 DEF GetOr, Has, Object, Null
  <2>3. QED
    BY <2>1, <2>2
<1>6. Loaded(file, env)[section][field]
          = IF <<section, field>> \in DOMAIN env THEN env[<<section, field>>] ELSE merged.fields[field]
  BY <1>2 DEF Loaded, WithEnvironment, Object
<1>7. QED
  BY <1>4, <1>5, <1>6 DEF Setting

-----------------------------------------------------------------------------
(* The steps of a process. *)

USE DEF Gone, Bound, Unbinding

LEMMA InitInvariant == Init => HostInv
<1>1. Init => HostTypeOK
  BY HostAssumption DEF Init, HostTypeOK, Stages
<1>2. QED
  BY <1>1 DEF Init, HostInv, EnteredInv, LoadedInv, BoundInv, PortInv, AloneInv, TokenInv

\* Opening or writing a token file changes the entry of its path and no other.
LEMMA TokenEntries ==
    ASSUME NEW p, NEW written \in BOOLEAN
    PROVE  /\ Token(p, written)[Api(p).auth_token_path] = [by |-> p, written |-> written]
           /\ \A path \in DOMAIN Token(p, written) :
                 \/ Token(p, written)[path] = [by |-> p, written |-> written]
                 \/ path \in DOMAIN tokens /\ Token(p, written)[path] = tokens[path]
  BY DEF Token, Over

\* Every step of a process keeps each part of the invariant.
LEMMA StepInvariant == HostInv /\ [Next]_vars => HostInv'
<1> SUFFICES ASSUME HostInv, [Next]_vars PROVE HostInv'
  OBVIOUS
<1> USE DEF HostInv, HostTypeOK, Stages, EnteredInv, LoadedInv, BoundInv, PortInv, AloneInv,
            TokenInv, Api
<1>1. ASSUME NEW p \in Cores, Start(p) PROVE HostInv'
  BY <1>1, HostAssumption DEF Start, Goto
<1>2. ASSUME NEW p \in Cores, CheckHost(p) PROVE HostInv'
  BY <1>2 DEF CheckHost, Goto
<1>3. ASSUME NEW p \in Cores, OpenToken(p) PROVE HostInv'
  <2> DEFINE entry == [by |-> p, written |-> FALSE]
  <2>1. /\ tokens'[Api(p).auth_token_path] = entry
        /\ \A path \in DOMAIN tokens' :
              tokens'[path] = entry \/ (path \in DOMAIN tokens /\ tokens'[path] = tokens[path])
    <3>1. tokens' = Token(p, FALSE)
      BY <1>3 DEF OpenToken
    <3>2. /\ Token(p, FALSE)[Api(p).auth_token_path] = entry
          /\ \A path \in DOMAIN Token(p, FALSE) :
                Token(p, FALSE)[path] = entry
                    \/ (path \in DOMAIN tokens /\ Token(p, FALSE)[path] = tokens[path])
      BY TokenEntries, Zenon
    <3>3. QED
      BY <3>1, <3>2
  <2>2. HostTypeOK'
    <3>1. entry \in [by : Cores, written : BOOLEAN]
      OBVIOUS
    <3>2. \A path \in DOMAIN tokens' : tokens'[path] \in [by : Cores, written : BOOLEAN]
      BY <2>1, <3>1
    <3>3. QED
      BY <1>3, <3>2 DEF OpenToken, Goto
  <2>3. TokenInv'
    BY <1>3, <2>1 DEF OpenToken, Goto
  <2>4. (EnteredInv /\ LoadedInv /\ BoundInv /\ PortInv /\ AloneInv)'
    BY <1>3 DEF OpenToken, Goto
  <2>5. QED
    BY <2>2, <2>3, <2>4
<1>4. ASSUME NEW p \in Cores, TokenUnwritable(p) PROVE HostInv'
  BY <1>4 DEF TokenUnwritable, Goto
<1>5. ASSUME NEW p \in Cores, WriteToken(p) PROVE HostInv'
  <2> DEFINE entry == [by |-> p, written |-> TRUE]
  <2>1. /\ tokens'[Api(p).auth_token_path] = entry
        /\ \A path \in DOMAIN tokens' :
              tokens'[path] = entry \/ (path \in DOMAIN tokens /\ tokens'[path] = tokens[path])
    <3>1. tokens' = Token(p, TRUE)
      BY <1>5 DEF WriteToken
    <3>2. /\ Token(p, TRUE)[Api(p).auth_token_path] = entry
          /\ \A path \in DOMAIN Token(p, TRUE) :
                Token(p, TRUE)[path] = entry
                    \/ (path \in DOMAIN tokens /\ Token(p, TRUE)[path] = tokens[path])
      BY TokenEntries, Zenon
    <3>3. QED
      BY <3>1, <3>2
  <2>2. HostTypeOK'
    <3>1. entry \in [by : Cores, written : BOOLEAN]
      OBVIOUS
    <3>2. \A path \in DOMAIN tokens' : tokens'[path] \in [by : Cores, written : BOOLEAN]
      BY <2>1, <3>1
    <3>3. QED
      BY <1>5, <3>2 DEF WriteToken, Goto
  <2>3. TokenInv'
    BY <1>5, <2>1 DEF WriteToken, Goto
  <2>4. (EnteredInv /\ LoadedInv /\ BoundInv /\ PortInv /\ AloneInv)'
    BY <1>5 DEF WriteToken, Goto
  <2>5. QED
    BY <2>2, <2>3, <2>4
<1>6. ASSUME NEW p \in Cores, Bind(p) PROVE HostInv'
  BY <1>6 DEF Bind, Goto, PortFree
<1>7. ASSUME NEW p \in Cores, Announce(p) PROVE HostInv'
  BY <1>7 DEF Announce, Goto
<1>8. ASSUME NEW p \in Cores, EnterLoop(p) PROVE HostInv'
  BY <1>8 DEF EnterLoop, Goto
<1>9. ASSUME NEW p \in Cores, Stop(p) PROVE HostInv'
  BY <1>9 DEF Stop, Goto
<1>10. ASSUME NEW p \in Cores, CloseServer(p) PROVE HostInv'
  BY <1>10 DEF CloseServer, Goto
<1>11. ASSUME NEW p \in Cores, CloseLog(p) PROVE HostInv'
  BY <1>11 DEF CloseLog, Exit, Goto
<1>12. ASSUME NEW p \in Cores, Interrupt(p) PROVE HostInv'
  BY <1>12, HostAssumption DEF Interrupt, LoopLeft, Exit, Goto
<1>13. ASSUME NEW p \in Cores, Kill(p) PROVE HostInv'
  BY <1>13 DEF Kill, Exit, Goto
<1>14. CASE UNCHANGED vars
  BY <1>14 DEF vars
<1>15. QED
  BY <1>1, <1>2, <1>3, <1>4, <1>5, <1>6, <1>7, <1>8, <1>9, <1>10, <1>11, <1>12, <1>13, <1>14 DEF Next, Step

-----------------------------------------------------------------------------
(* The theorems. *)

\* The invariant holds for any number of starts of a Core, whatever they find
\* in config.yaml and the environment, and wherever they are interrupted or killed.
THEOREM HostInvariance == Spec => []HostInv
<1>1. QED
  BY InitInvariant, StepInvariant, PTL DEF Spec

\* An adapter that is configured like the Core that serves finds that Core at its
\* port, and the token of the Core in the file if it was started alone
\* (server.py:64-72, TDD 29).
THEOREM AdaptersFindTheirCore == Spec => []AdaptersFindTheCore
<1>1. HostInv => AdaptersFindTheCore
  <2> SUFFICES ASSUME HostInv, NEW p \in Cores, stage[p] = "serving"
               PROVE  /\ \A q \in listening \ {p} : Configured(q, "port") # Configured(p, "port")
                      /\ p \in alone => tokens[Configured(p, "auth_token_path")]
                                             = [by |-> p, written |-> TRUE]
    BY DEF AdaptersFindTheCore
  <2>1. ASSUME NEW q \in Cores, stage[q] \notin Gone, NEW field \in DOMAIN Defaults["api"]
        PROVE  Configured(q, field) = Api(q)[field]
    <3>1. ~LoadRaises(input[q].file, input[q].env)
      BY <2>1 DEF HostInv, LoadedInv
    <3>2. "api" \in Sections
      BY DEF Sections, Defaults
    <3>3. QED
      BY <3>1, <3>2, LoadFollowsPrecedence DEF Configured, Api
  <2>2. {"port", "auth_token_path"} \subseteq DOMAIN Defaults["api"]
    BY DEF Defaults
  <2>3. p \in listening
    BY DEF HostInv, BoundInv
  <2>4. ASSUME NEW q \in listening \ {p}
        PROVE  Configured(q, "port") # Configured(p, "port")
    <3>1. q \in Cores /\ stage[q] \notin Gone
      BY DEF HostInv, HostTypeOK, BoundInv
    <3>2. Api(q).port # Api(p).port
      BY <2>3, <2>4 DEF HostInv, PortInv
    <3>3. QED
      BY <2>1, <2>2, <3>1, <3>2
  <2>5. ASSUME p \in alone
        PROVE  tokens[Configured(p, "auth_token_path")] = [by |-> p, written |-> TRUE]
    <3>1. tokens[Api(p).auth_token_path] = [by |-> p, written |-> TRUE]
      BY <2>5 DEF HostInv, TokenInv
    <3>2. Configured(p, "auth_token_path") = Api(p).auth_token_path
      BY <2>1, <2>2
    <3>3. QED
      BY <3>1, <3>2
  <2>6. QED
    BY <2>4, <2>5
<1>2. QED
  BY <1>1, HostInvariance, PTL
=============================================================================
