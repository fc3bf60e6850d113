----------------------------- MODULE PipelineCli -----------------------------
(***************************************************************************)
(* The command line tools/run_svg_pipeline.py: each run of the             *)
(* orchestrator is a process of its own that prepares, runs the pipeline   *)
(* and writes pipeline.dxf and validation_report.json into its --output    *)
(* directory.  Every process here has the same output directory; they may  *)
(* run one after the other or at once, and each may be killed anywhere.    *)
(***************************************************************************)
EXTENDS Orchestrator

CONSTANT NoRun

ASSUME NoRunAssumption == NoRun \notin Runs

Files == {"pipeline.dxf", "validation_report.json"}

\* What a file holds: the output of one run, all of it or not; or a mixture.
Contents == [by : Runs \cup {NoRun}, whole : BOOLEAN]
Absent == [by |-> NoRun, whole |-> FALSE]

CliStates == {"idle", "preparing", "pipeline", "dxf", "dxf open", "report",
              "report open", "summary", "exited 0", "exited 1", "killed"}
Ended == {"exited 0", "exited 1", "killed"}

VARIABLES
    cli,        \* control state of each process
    disk,       \* the output directory
    rivals      \* history: the runs that opened a file while another process
                \* was between its first open and its end

cliVars == <<cli, disk, rivals>>

CliTypeOK ==
    /\ cli \in [Runs -> CliStates]
    /\ disk \in [Files -> Contents]
    /\ rivals \in SUBSET Runs

CliInit ==
    /\ cli = [r \in Runs |-> "idle"]
    /\ disk = [f \in Files |-> Absent]
    /\ rivals = {}

Go(r, from, to) ==
    /\ cli[r] = from
    /\ cli' = [cli EXCEPT ![r] = to]

\* ConfigLoader, LogWriter
StartProcess(r) ==
    /\ Go(r, "idle", "preparing")
    /\ UNCHANGED <<disk, rivals, runVars>>

\* _validate_input_path, mkdir, _read_svg_text: all is well, run() is entered.
Prepare(r) ==
    /\ Go(r, "preparing", "pipeline")
    /\ Enter(r)
    /\ UNCHANGED <<disk, rivals>>

RunPipeline(r) ==
    /\ cli[r] = "pipeline"
    /\ Run(r)
    /\ UNCHANGED cliVars

\* Mutant: the files are opened before the pipeline has run.
OpenEarly(r) == cli[r] = "pipeline" /\ status[r] # "idle"

\* run() has returned.
PipelineReturned(r) == cli[r] = "pipeline" /\ status[r] = "returned"

ToOutput(r) ==
    /\ PipelineReturned(r)
    /\ Go(r, "pipeline", "dxf")
    /\ UNCHANGED <<disk, rivals, runVars>>

Writing(r) == cli[r] \in {"dxf open", "report", "report open"}
Others(r) == {q \in Runs \ {r} : Writing(q)}

\* write_text: the file is opened and truncated ...
Open(r, file, from, to) ==
    /\ Go(r, from, to)
    /\ disk' = [disk EXCEPT ![file] = [by |-> r, whole |-> FALSE]]
    /\ rivals' = IF Others(r) = {} THEN rivals ELSE rivals \cup {r} \cup Others(r)
    /\ UNCHANGED runVars

\* ... and written.  If another process writes at the same time, the file may
\* become a mixture of the two texts.
Close(r, file, from, to) ==
    /\ Go(r, from, to)
    /\ \/ disk' = [disk EXCEPT ![file] = [by |-> r, whole |-> TRUE]]
       \/ /\ r \in rivals
          /\ disk' = [disk EXCEPT ![file] = Absent]
    /\ UNCHANGED <<rivals, runVars>>

OpenDxf(r) == Open(r, "pipeline.dxf", "dxf", "dxf open")
CloseDxf(r) == Close(r, "pipeline.dxf", "dxf open", "report")
OpenReport(r) == Open(r, "validation_report.json", "report", "report open")
CloseReport(r) == Close(r, "validation_report.json", "report open", "summary")

\* _print_summary, the last log record, return 0.
Finish(r) ==
    /\ Go(r, "summary", "exited 0")
    /\ UNCHANGED <<disk, rivals, runVars>>

\* Mutant: once there is a DXF, a failure is only reported.
CodeIgnored(r) == IF cli[r] \in {"report", "report open"} THEN "exited 0" ELSE "exited 1"

\* The exit code of every except clause.
ErrorCode(r) == "exited 1"

\* CliError, PermissionError, PlatformException and any other exception: an
\* input that is missing or unreadable, an engine call that raised, a disk
\* that is full, a closed standard output.
Fail(r) ==
    /\ \/ cli[r] \in {"preparing", "dxf", "dxf open", "report", "report open", "summary"}
       \/ cli[r] = "pipeline" /\ status[r] = "raised"
    /\ cli' = [cli EXCEPT ![r] = ErrorCode(r)]
    /\ UNCHANGED <<disk, rivals, runVars>>

Kill(r) ==
    /\ cli[r] \notin {"idle"} \cup Ended
    /\ cli' = [cli EXCEPT ![r] = "killed"]
    /\ UNCHANGED <<disk, rivals, runVars>>

Process(r) ==
    \/ StartProcess(r)
    \/ Prepare(r)
    \/ RunPipeline(r)
    \/ ToOutput(r)
    \/ OpenDxf(r)
    \/ CloseDxf(r)
    \/ OpenReport(r)
    \/ CloseReport(r)
    \/ Finish(r)
    \/ Fail(r)
    \/ Kill(r)

CliNext == \E r \in Runs : Process(r)

(***************************************************************************)
(* Properties.                                                             *)
(***************************************************************************)

\* A pipeline that raised, or was killed before it returned, has not touched
\* the files of the run before (run_svg_pipeline.py:229-240).
OutputsOfReturnedRuns ==
    \A f \in Files : disk[f].by # NoRun => status[disk[f].by] = "returned"

\* The report beside a DXF is about that DXF, unless the run that wrote the
\* DXF is still at it, ended without exit code 0, or had a rival.
ReportBelongsToDxf ==
    LET dxf == disk["pipeline.dxf"]
        report == disk["validation_report.json"]
    IN
    dxf.whole /\ report.whole /\ dxf.by # report.by =>
        cli[dxf.by] # "exited 0" \/ dxf.by \in rivals

\* Exit code 0 means that both files were written to the end: a DXF or report
\* cut short was left by a process that was killed, failed, is still writing,
\* or had a rival.
CutShortMeansNoSuccess ==
    \A f \in Files :
        disk[f].by # NoRun /\ ~disk[f].whole =>
            cli[disk[f].by] # "exited 0" \/ disk[f].by \in rivals
=============================================================================
