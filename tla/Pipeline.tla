------------------------------ MODULE Pipeline ------------------------------
(***************************************************************************)
(* The two programs that drive the orchestrator, in one specification: a   *)
(* behaviour is either one of the validation suite, whose runs are the     *)
(* files of the directory, or one of command line processes that share an  *)
(* output directory.                                                       *)
(***************************************************************************)
EXTENDS ArtworkBatch, PipelineCli

ASSUME RunsAssumption == Runs = 1 .. Artworks

VARIABLE driver

vars == <<driver, runVars, batchVars, cliVars>>

TypeOK ==
    /\ driver \in {"suite", "command line"}
    /\ RunTypeOK
    /\ BatchTypeOK
    /\ CliTypeOK

Init ==
    /\ driver \in {"suite", "command line"}
    /\ RunInit
    /\ BatchInit
    /\ CliInit

Suite == driver = "suite" /\ BatchNext /\ UNCHANGED <<driver, cliVars>>
CommandLine == driver = "command line" /\ CliNext /\ UNCHANGED <<driver, batchVars>>

Next == Suite \/ CommandLine

Spec == Init /\ [][Next]_vars
=============================================================================
