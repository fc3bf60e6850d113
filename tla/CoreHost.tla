------------------------------ MODULE CoreHost ------------------------------
(***************************************************************************)
(* Core processes on one machine (core/api/server.py): each loads its      *)
(* configuration, writes a fresh token, binds its port, serves until it is *)
(* interrupted and takes itself down.  Several may be started, an operator *)
(* may press Ctrl+C at any moment and again, and any may be killed.        *)
(*                                                                         *)
(* What the processes share is the token files and the ports.  A port is   *)
(* bound by one process at a time, as POSIX has it; the request threads    *)
(* are daemons and hold nothing up.                                        *)
(***************************************************************************)
EXTENDS ConfigLoader

CONSTANTS
    Cores,          \* starts of a Core process
    Files,          \* contents of config.yaml, when a Core reads it
    Environments,   \* settings of the environment it reads
    MaxInterrupts,  \* bound: keyboard interrupts of one process
    NoInput

ASSUME HostAssumption ==
    /\ MaxInterrupts \in Nat
    /\ NoInput \notin [file : Files, env : Environments]

VARIABLES
    stage,       \* where in main() each process is
    input,       \* the file and the environment it has read
    tokens,      \* each token file: who opened or wrote it last, and is it written
    listening,   \* processes whose socket is bound
    alone,       \* history: the process started when no other ran, if none started since
    entered,     \* history: processes that have entered serve_forever's loop
    loopEnded,   \* processes whose serve_forever has set its is_shut_down event
    interrupts

vars == <<stage, input, tokens, listening, alone, entered, loopEnded, interrupts>>

Stages == {"off", "checking", "opening", "writing", "binding", "announcing", "entering",
           "serving", "stopping", "closing", "closingLog", "exited"}

Api(p) == Loaded(input[p].file, input[p].env)["api"]

Init ==
    /\ stage = [p \in Cores |-> "off"]
    /\ input = [p \in Cores |-> NoInput]
    /\ tokens = <<>>
    /\ listening = {}
    /\ alone = {}
    /\ entered = {}
    /\ loopEnded = {}
    /\ interrupts = [p \in Cores |-> 0]

Goto(p, next) == stage' = [stage EXCEPT ![p] = next]

\* The process is gone, and with it whatever socket it had.
Exit(p) == Goto(p, "exited") /\ listening' = listening \ {p}

\* ConfigLoader.load and LogWriter(): an exception here is outside main's try.
Start(p) ==
    /\ stage[p] = "off"
    /\ \E file \in Files, env \in Environments :
          /\ input' = [input EXCEPT ![p] = [file |-> file, env |-> env]]
          /\ Goto(p, IF LoadRaises(file, env) THEN "exited" ELSE "checking")
    /\ alone' = IF \A q \in Cores : stage[q] \in {"off", "exited"} THEN {p} ELSE {}
    /\ UNCHANGED <<tokens, listening, entered, loopEnded, interrupts>>

\* The hard assertion on bind_host; main's finally closes the log.
CheckHost(p) ==
    /\ stage[p] = "checking"
    /\ Goto(p, IF Api(p).bind_host = Text("127.0.0.1") THEN "opening" ELSE "closingLog")
    /\ UNCHANGED <<input, tokens, listening, alone, entered, loopEnded, interrupts>>

\* Mutant: the token of an earlier Core is kept.
TokenKept(p, written) ==
    LET path == Api(p).auth_token_path
        kept == IF path \in DOMAIN tokens THEN tokens[path].by ELSE p
    IN  Over([f \in {path} |-> [by |-> kept, written |-> written]], tokens)

Token(p, written) ==
    Over([path \in {Api(p).auth_token_path} |-> [by |-> p, written |-> written]], tokens)

\* generate_and_persist: write_text truncates the file ...
OpenToken(p) ==
    /\ stage[p] = "opening"
    /\ Goto(p, "writing")
    /\ tokens' = Token(p, FALSE)
    /\ UNCHANGED <<input, listening, alone, entered, loopEnded, interrupts>>

\* ... or raises, when the path cannot be created or opened ...
TokenUnwritable(p) ==
    /\ stage[p] = "opening"
    /\ Goto(p, "closingLog")
    /\ UNCHANGED <<input, tokens, listening, alone, entered, loopEnded, interrupts>>

\* ... and then writes the token.
WriteToken(p) ==
    /\ stage[p] = "writing"
    /\ Goto(p, "binding")
    /\ tokens' = Token(p, TRUE)
    /\ UNCHANGED <<input, listening, alone, entered, loopEnded, interrupts>>

PortFree(p) ==
    /\ Api(p).port.json = "number"
    /\ \A q \in listening : Api(q).port # Api(p).port

\* make_server: raises when the port is taken, or is no number at all.
Bind(p) ==
    /\ stage[p] = "binding"
    /\ IF PortFree(p)
       THEN /\ Goto(p, "announcing")
            /\ listening' = listening \cup {p}
       ELSE /\ Goto(p, "closingLog")
            /\ UNCHANGED listening
    /\ UNCHANGED <<input, tokens, alone, entered, loopEnded, interrupts>>

\* The three prints and the log record.
Announce(p) ==
    /\ stage[p] = "announcing"
    /\ Goto(p, "entering")
    /\ UNCHANGED <<input, tokens, listening, alone, entered, loopEnded, interrupts>>

\* From the try of main to the try inside serve_forever.
EnterLoop(p) ==
    /\ stage[p] = "entering"
    /\ Goto(p, "serving")
    /\ entered' = entered \cup {p}
    /\ UNCHANGED <<input, tokens, listening, alone, loopEnded, interrupts>>

\* shutdown() waits for the event that the loop sets when it is left.
Stop(p) ==
    /\ stage[p] = "stopping"
    /\ p \in loopEnded
    /\ Goto(p, "closing")
    /\ UNCHANGED <<input, tokens, listening, alone, entered, loopEnded, interrupts>>

CloseServer(p) ==
    /\ stage[p] = "closing"
    /\ Goto(p, "closingLog")
    /\ listening' = listening \ {p}
    /\ UNCHANGED <<input, tokens, alone, entered, loopEnded, interrupts>>

CloseLog(p) ==
    /\ stage[p] = "closingLog"
    /\ Exit(p)
    /\ UNCHANGED <<input, tokens, alone, entered, loopEnded, interrupts>>

\* Mutant: the loop is left without setting its event.
LoopForgets(p) == loopEnded

\* serve_forever's finally.
LoopLeft(p) == IF stage[p] = "serving" THEN loopEnded \cup {p} ELSE loopEnded

\* KeyboardInterrupt, raised wherever the main thread is.  Inside the inner try
\* its finally runs, outside it only the one that closes the log; a second one
\* leaves the finally that it hits.
Interrupt(p) ==
    /\ stage[p] \notin {"off", "exited"}
    /\ interrupts[p] < MaxInterrupts
    /\ interrupts' = [interrupts EXCEPT ![p] = @ + 1]
    /\ loopEnded' = LoopLeft(p)
    /\ CASE stage[p] \in {"entering", "serving"} ->
               Goto(p, "stopping") /\ UNCHANGED listening
         [] stage[p] = "closingLog" -> Exit(p)
         [] OTHER -> Goto(p, "closingLog") /\ UNCHANGED listening
    /\ UNCHANGED <<input, tokens, alone, entered>>

\* The operating system ends the process.
Kill(p) ==
    /\ stage[p] \notin {"off", "exited"}
    /\ Exit(p)
    /\ UNCHANGED <<input, tokens, alone, entered, loopEnded, interrupts>>

Step(p) ==
    \/ CheckHost(p)
    \/ OpenToken(p) \/ TokenUnwritable(p) \/ WriteToken(p)
    \/ Bind(p)
    \/ Announce(p)
    \/ EnterLoop(p)
    \/ Stop(p)
    \/ CloseServer(p)
    \/ CloseLog(p)

Next == \E p \in Cores : Start(p) \/ Step(p) \/ Interrupt(p) \/ Kill(p)

\* A process that is not waiting is scheduled.
Fairness == \A p \in Cores : WF_vars(Step(p))

Spec == Init /\ [][Next]_vars /\ Fairness

(***************************************************************************)
(* Properties.                                                             *)
(***************************************************************************)
HostTypeOK ==
    /\ stage \in [Cores -> Stages]
    /\ input \in [Cores -> [file : Files, env : Environments] \cup {NoInput}]
    /\ \A path \in DOMAIN tokens : tokens[path] \in [by : Cores, written : BOOLEAN]
    /\ listening \subseteq Cores
    /\ alone \subseteq Cores
    /\ loopEnded \subseteq entered
    /\ entered \subseteq Cores
    /\ interrupts \in [Cores -> 0 .. MaxInterrupts]

Configured(p, field) == Setting(input[p].file, input[p].env, "api", field)

\* An adapter that is configured like a serving Core (environment over file
\* over defaults, TDD 20) finds no other Core at its port; and if that Core was
\* started when no other ran, the adapter also finds its token in the file,
\* until another Core is started (server.py:64 writes the token before :72
\* binds the port, so that a start which fails to bind has taken the token of
\* the Core that runs away, and one that runs may have lost it before it bound).
AdaptersFindTheCore ==
    \A p \in Cores : stage[p] = "serving" =>
        /\ \A q \in listening \ {p} : Configured(q, "port") # Configured(p, "port")
        /\ p \in alone => tokens[Configured(p, "auth_token_path")] = [by |-> p, written |-> TRUE]

\* shutdown() waits for a loop that never began (server.py:102).
Stuck(p) == stage[p] = "stopping" /\ p \notin entered

\* A Core that is interrupted exits and frees its port, whatever it was doing,
\* except in the gap before its loop begins; there the next interrupt ends it.
InterruptedCoreExits ==
    \A p \in Cores :
        interrupts[p] > 0 /\ ~Stuck(p) ~> stage[p] = "exited" /\ p \notin listening
=============================================================================
