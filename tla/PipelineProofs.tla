--------------------------- MODULE PipelineProofs ---------------------------
(***************************************************************************)
(* What the command line leaves in its output directory, and what the      *)
(* validation suite returns, proved for any number of runs.                *)
(***************************************************************************)
EXTENDS BatchProofs

Dxf == "pipeline.dxf"
Report == "validation_report.json"
Opened == {"dxf open", "report", "report open", "summary"} \cup Ended

(***************************************************************************)
(* The inductive invariant of the command line.                            *)
(***************************************************************************)
TypesInv ==
    /\ status \in [Runs -> RunStatuses]
    /\ CliTypeOK

\* The suite writes no files and starts no processes.
SuiteInv ==
    driver = "suite" => cli = [r \in Runs |-> "idle"] /\ disk = [f \in Files |-> Absent]

\* How far a process is tells how far its run is.
ProgressInv ==
    driver = "command line" => \A r \in Runs :
        /\ cli[r] \in {"idle", "preparing"} => status[r] = "idle"
        /\ cli[r] \in {"dxf", "dxf open", "report", "report open", "summary", "exited 0"}
               => status[r] = "returned"

\* A file is by no run, and cut short, or by a run that has opened it.
WriterInv ==
    /\ \A f \in Files : disk[f].by = NoRun => ~disk[f].whole
    /\ \A r \in Runs : disk[Dxf].by = r => cli[r] \in Opened
    /\ \A r \in Runs : disk[Report].by = r => cli[r] \in Opened \ {"dxf open", "report"}

\* A process without a rival that is writing owns the DXF, and while the DXF
\* is such a process's nobody else is writing.
AloneInv ==
    \A r \in Runs : r \notin rivals =>
        /\ Writing(r) => disk[Dxf].by = r
        /\ disk[Dxf].by = r => Others(r) = {}

\* What a process without a rival has written so far.
WrittenInv ==
    \A r \in Runs : r \notin rivals =>
        /\ disk[Dxf].by = r /\ cli[r] \in {"report", "report open", "summary", "exited 0"}
               => disk[Dxf].whole
        /\ cli[r] = "report open" => disk[Report].by = r
        /\ disk[Dxf].by = r /\ cli[r] \in {"summary", "exited 0"} => disk[Report].by = r
        /\ disk[Report].by = r /\ cli[r] \in {"summary", "exited 0"} => disk[Report].whole

CliInv ==
    /\ TypesInv
    /\ SuiteInv
    /\ ProgressInv
    /\ OutputsOfReturnedRuns
    /\ WriterInv
    /\ AloneInv
    /\ WrittenInv

\* A step of run() leaves the other runs alone and never undoes a return.
LEMMA StatusStep ==
  ASSUME TypesInv, NEW r, Run(r)
  PROVE  /\ status' \in [Runs -> RunStatuses]
         /\ status[r] \in {"loading", "calling"}
         /\ \A q \in Runs \ {r} : status'[q] = status[q]
<1>1. CASE LoadRules(r) \/ RulesRaise(r)
  BY <1>1 DEF TypesInv, LoadRules, RulesRaise, Become, RunStatuses
<1>2. CASE Call(r) \/ CallRaises(r)
  <2>1. PICK new \in RunStatuses : Become(r, new) /\ status[r] = "calling"
    BY <1>2 DEF Call, CallRaises, RunStatuses
  <2>2. QED
    BY <2>1 DEF TypesInv, Become
<1>3. QED
  BY <1>1, <1>2 DEF Run

LEMMA InitCliInv == Init => CliInv
<1>1. SUFFICES ASSUME Init PROVE CliInv
  OBVIOUS
<1>2. TypesInv /\ SuiteInv /\ ProgressInv
  BY <1>1 DEF Init, RunInit, CliInit, TypesInv, CliTypeOK, SuiteInv, ProgressInv, RunStatuses,
     CliStates, Contents, Absent
<1>3. OutputsOfReturnedRuns /\ WriterInv /\ AloneInv /\ WrittenInv
  BY <1>1, NoRunAssumption DEF Init, CliInit, OutputsOfReturnedRuns, WriterInv, AloneInv, WrittenInv,
     Absent, Files, Dxf, Report, Writing
<1>4. QED
  BY <1>2, <1>3 DEF CliInv

(***************************************************************************)
(* Steps of the suite.                                                     *)
(***************************************************************************)
LEMMA SuiteKeepsCliInv == CliInv /\ Suite => CliInv'
<1>1. SUFFICES ASSUME CliInv, Suite PROVE CliInv'
  OBVIOUS
<1>2. driver = "suite" /\ driver' = driver /\ UNCHANGED cliVars
  BY <1>1 DEF Suite
<1>3. status' \in [Runs -> RunStatuses]
  <2>1. CASE \E r : Run(r)
    BY <1>1, <2>1, StatusStep DEF CliInv
  <2>2. CASE \E r : Enter(r)
    BY <1>1, <2>2 DEF CliInv, TypesInv, Enter, Become, RunStatuses
  <2>3. CASE UNCHANGED runVars
    BY <1>1, <2>3 DEF CliInv, TypesInv, runVars
  <2>4. QED
    BY <1>1, <2>1, <2>2, <2>3 DEF Suite, BatchNext, ReadArtwork, UnreadableArtwork, RunArtwork,
       RecordPass, RecordFailure, ReturnRows, runVars
<1>4. TypesInv' /\ SuiteInv'
  BY <1>1, <1>2, <1>3 DEF CliInv, TypesInv, CliTypeOK, cliVars, SuiteInv
<1>5. ProgressInv'
  BY <1>2 DEF ProgressInv
<1>6. OutputsOfReturnedRuns'
  BY <1>1, <1>2, NoRunAssumption DEF CliInv, SuiteInv, OutputsOfReturnedRuns, cliVars, Absent, Files
<1>7. WriterInv' /\ AloneInv' /\ WrittenInv'
  BY <1>1, <1>2 DEF CliInv, cliVars, WriterInv, AloneInv, WrittenInv, Others, Writing
<1>8. QED
  BY <1>4, <1>5, <1>6, <1>7 DEF CliInv

(***************************************************************************)
(* Steps of the command line, by what they do to the files.                *)
(***************************************************************************)

\* A process moves on without touching a file: its own state is all that
\* changes, and it neither starts writing nor passes a file as written.
LEMMA QuietStep ==
  ASSUME CliInv, driver' = driver, driver = "command line",
         NEW r \in Runs, NEW to \in CliStates,
         cli' = [cli EXCEPT ![r] = to], UNCHANGED <<disk, rivals>>,
         status' \in [Runs -> RunStatuses],
         \A q \in Runs \ {r} : status'[q] = status[q],
         status[r] = "returned" => status'[r] = "returned",
         to \in {"idle", "preparing"} => status'[r] = "idle",
         to \in {"dxf", "summary", "exited 0"} => status'[r] = "returned",
         to \notin {"dxf open", "report", "report open", "summary"},
         to = "exited 0" => cli[r] = "summary",
         cli[r] \in Opened => to \in Ended
  PROVE  CliInv'
<1>1. /\ \A q \in Runs : cli'[q] = IF q = r THEN to ELSE cli[q]
      /\ cli' \in [Runs -> CliStates]
  BY DEF CliInv, TypesInv, CliTypeOK
<1>2. TypesInv' /\ SuiteInv'
  BY <1>1 DEF CliInv, TypesInv, CliTypeOK, SuiteInv
<1>3. ProgressInv'
  BY <1>1 DEF CliInv, ProgressInv
<1>4. OutputsOfReturnedRuns'
  BY <1>1, NoRunAssumption DEF CliInv, OutputsOfReturnedRuns, TypesInv, CliTypeOK, Contents, Files
<1>5. WriterInv'
  <2>1. disk' = disk
    OBVIOUS
  <2>2. \A f \in Files : disk'[f].by = NoRun => ~disk'[f].whole
    BY <2>1 DEF CliInv, WriterInv
  <2>3. ASSUME NEW q \in Runs, disk'[Dxf].by = q PROVE cli'[q] \in Opened
    <3>1. cli[q] \in Opened
      BY <2>1, <2>3 DEF CliInv, WriterInv
    <3>2. QED
      BY <1>1, <3>1 DEF Opened
  <2>4. ASSUME NEW q \in Runs, disk'[Report].by = q
        PROVE  cli'[q] \in Opened \ {"dxf open", "report"}
    <3>1. cli[q] \in Opened \ {"dxf open", "report"}
      BY <2>1, <2>4 DEF CliInv, WriterInv
    <3>2. CASE q = r
      BY <1>1, <3>1, <3>2 DEF Opened, Ended
    <3>3. CASE q # r
      BY <1>1, <3>1, <3>3
    <3>4. QED
      BY <3>2, <3>3
  <2>5. QED
    BY <2>2, <2>3, <2>4 DEF WriterInv
<1>6. \A q \in Runs : Writing(q)' => Writing(q)
  BY <1>1 DEF Writing
<1>7. AloneInv'
  BY <1>6 DEF CliInv, AloneInv, Others
<1>8. WrittenInv'
  BY <1>1 DEF CliInv, WrittenInv
<1>9. QED
  BY <1>2, <1>3, <1>4, <1>5, <1>7, <1>8 DEF CliInv

LEMMA RunPipelineStep ==
  ASSUME CliInv, driver = "command line", driver' = driver, NEW r \in Runs, RunPipeline(r)
  PROVE  CliInv'
<1>1. /\ cli[r] = "pipeline" /\ UNCHANGED cliVars
      /\ status' \in [Runs -> RunStatuses]
      /\ status[r] # "returned"
      /\ \A q \in Runs \ {r} : status'[q] = status[q]
  BY StatusStep DEF CliInv, RunPipeline
<1>2. TypesInv' /\ SuiteInv'
  BY <1>1 DEF CliInv, TypesInv, CliTypeOK, SuiteInv, cliVars
<1>3. ProgressInv'
  BY <1>1 DEF CliInv, ProgressInv, cliVars
<1>4. OutputsOfReturnedRuns'
  BY <1>1, NoRunAssumption DEF CliInv, OutputsOfReturnedRuns, TypesInv, CliTypeOK, Contents, Files, cliVars
<1>5. WriterInv' /\ AloneInv' /\ WrittenInv'
  BY <1>1 DEF CliInv, cliVars, WriterInv, AloneInv, WrittenInv, Others, Writing
<1>6. QED
  BY <1>2, <1>3, <1>4, <1>5 DEF CliInv

LEMMA OpenStep ==
  ASSUME CliInv, driver = "command line", driver' = driver, NEW r \in Runs,
         NEW file \in Files, NEW from, NEW to,
         file = Dxf => from = "dxf" /\ to = "dxf open",
         file = Report => from = "report" /\ to = "report open",
         Open(r, file, from, to)
  PROVE  CliInv'
<1>1. /\ cli[r] = from
      /\ \A q \in Runs : cli'[q] = IF q = r THEN to ELSE cli[q]
      /\ to \in {"dxf open", "report open"}
      /\ cli' \in [Runs -> CliStates]
  BY DEF Open, Go, Files, Dxf, Report, CliInv, TypesInv, CliTypeOK, CliStates
<1>2. /\ disk' \in [Files -> Contents]
      /\ disk'[file].by = r /\ disk'[file].whole = FALSE
      /\ \A f \in Files \ {file} : disk'[f] = disk[f]
  BY DEF Open, CliInv, TypesInv, CliTypeOK, Contents
<1>3. /\ rivals \subseteq rivals' /\ rivals' \subseteq Runs
      /\ r \notin rivals' => Others(r) = {}
      /\ \A q \in Runs \ {r} : Writing(q) => q \in rivals' /\ r \in rivals'
  BY DEF Open, Others, CliInv, TypesInv, CliTypeOK
<1>4. UNCHANGED runVars /\ status' = status
  BY DEF Open, runVars
<1>5. status[r] = "returned"
  <2>1. file = Dxf => status[r] = "returned"
    BY <1>1 DEF CliInv, ProgressInv
  <2>2. file = Report => status[r] = "returned"
    BY <1>1 DEF CliInv, ProgressInv
  <2>3. QED
    BY <2>1, <2>2 DEF Files, Dxf, Report
<1>6. TypesInv' /\ SuiteInv'
  BY <1>1, <1>2, <1>3, <1>4 DEF CliInv, TypesInv, CliTypeOK, SuiteInv
<1>7. ProgressInv'
  BY <1>1, <1>4, <1>5 DEF CliInv, ProgressInv
<1>8. OutputsOfReturnedRuns'
  BY <1>2, <1>4, <1>5 DEF CliInv, OutputsOfReturnedRuns
<1>9. WriterInv'
  <2>1. \A f \in Files : disk'[f].by = NoRun => ~disk'[f].whole
    BY <1>2, NoRunAssumption DEF CliInv, WriterInv
  <2>2. \A f \in Files, q \in Runs : q # r /\ disk'[f].by = q => disk[f].by = q
    BY <1>2, NoRunAssumption
  <2>3. \A q \in Runs : disk'[Dxf].by = q => cli'[q] \in Opened
    BY <1>1, <2>2 DEF CliInv, WriterInv, Opened, Files, Dxf
  <2>4. file = Dxf => disk'[Report].by # r
    BY <1>1, <1>2 DEF CliInv, WriterInv, Opened, Ended, Files, Dxf, Report
  <2>5. disk'[Report].by = r => cli'[r] \in Opened \ {"dxf open", "report"}
    BY <1>1, <2>4 DEF Opened, Files, Dxf, Report
  <2>6. \A q \in Runs : disk'[Report].by = q => cli'[q] \in Opened \ {"dxf open", "report"}
    BY <1>1, <2>2, <2>5 DEF CliInv, WriterInv, Files, Report
  <2>7. QED
    BY <2>1, <2>3, <2>6 DEF WriterInv
<1>10. \A q \in Runs : Writing(q)' <=> q = r \/ Writing(q)
  BY <1>1 DEF Writing
<1>11. AloneInv'
  <2>1. CASE file = Dxf
    BY <1>2, <1>3, <1>10, <2>1 DEF CliInv, AloneInv, Others, Files, Dxf, Report
  <2>2. CASE file = Report
    <3>1. Writing(r)
      BY <1>1, <2>2 DEF Writing
    <3>2. disk'[Dxf] = disk[Dxf]
      BY <1>2, <2>2 DEF Files, Dxf, Report
    <3>3. QED
      BY <1>3, <1>10, <3>1, <3>2 DEF CliInv, AloneInv, Others
  <2>3. QED
    BY <2>1, <2>2 DEF Files, Dxf, Report
<1>12. WrittenInv'
  <2>1. CASE file = Dxf
    BY <1>1, <1>2, <1>3, <2>1 DEF CliInv, WrittenInv, Files, Dxf, Report
  <2>2. CASE file = Report
    <3>1. Writing(r)
      BY <1>1, <2>2 DEF Writing
    <3>2. \A q \in Runs \ {r} : q \notin rivals => disk[Dxf].by # q /\ ~Writing(q)
      BY <3>1 DEF CliInv, AloneInv, Others
    <3>3. \A q \in Runs \ {r} : q \notin rivals' => disk'[Dxf].by # q /\ cli'[q] # "report open"
      BY <1>1, <1>2, <1>3, <2>2, <3>2 DEF Files, Dxf, Report, Writing
    <3>4. \A q \in Runs \ {r} : disk'[Report].by # q
      BY <1>2, <2>2
    <3>5. r \notin rivals' /\ disk'[Dxf].by = r => disk'[Dxf].whole
      BY <1>1, <1>2, <1>3, <2>2 DEF CliInv, WrittenInv, Files, Dxf, Report
    <3>6. QED
      BY <1>1, <1>2, <2>2, <3>3, <3>4, <3>5 DEF WrittenInv
  <2>3. QED
    BY <2>1, <2>2 DEF Files, Dxf, Report
<1>13. QED
  BY <1>6, <1>7, <1>8, <1>9, <1>11, <1>12 DEF CliInv

LEMMA CloseStep ==
  ASSUME CliInv, driver = "command line", driver' = driver, NEW r \in Runs,
         NEW file \in Files, NEW from, NEW to,
         file = Dxf => from = "dxf open" /\ to = "report",
         file = Report => from = "report open" /\ to = "summary",
         Close(r, file, from, to)
  PROVE  CliInv'
<1>1. /\ cli[r] = from
      /\ \A q \in Runs : cli'[q] = IF q = r THEN to ELSE cli[q]
      /\ from \in {"dxf open", "report open"} /\ to \in {"report", "summary"}
      /\ cli' \in [Runs -> CliStates]
  BY DEF Close, Go, Files, Dxf, Report, CliInv, TypesInv, CliTypeOK, CliStates
<1>2. /\ disk' \in [Files -> Contents]
      /\ \A f \in Files \ {file} : disk'[f] = disk[f]
      /\ \/ disk'[file].by = r /\ disk'[file].whole = TRUE
         \/ r \in rivals /\ disk'[file].by = NoRun /\ disk'[file].whole = FALSE
  <2>1. PICK text \in Contents :
            /\ disk' = [disk EXCEPT ![file] = text]
            /\ \/ text.by = r /\ text.whole = TRUE
               \/ r \in rivals /\ text.by = NoRun /\ text.whole = FALSE
    <3>1. [by |-> r, whole |-> TRUE] \in Contents /\ Absent \in Contents
      BY DEF Contents, Absent
    <3>2. QED
      BY <3>1 DEF Close, Absent
  <2>2. disk \in [Files -> Contents]
    BY DEF CliInv, TypesInv, CliTypeOK
  <2>3. QED
    BY <2>1, <2>2
<1>3. rivals' = rivals /\ UNCHANGED runVars /\ status' = status
  BY DEF Close, runVars
<1>4. Writing(r)
  BY <1>1 DEF Writing
<1>5. status[r] = "returned"
  BY <1>1 DEF CliInv, ProgressInv
<1>6. TypesInv' /\ SuiteInv'
  BY <1>1, <1>2, <1>3 DEF CliInv, TypesInv, CliTypeOK, SuiteInv
<1>7. ProgressInv'
  BY <1>1, <1>3, <1>5 DEF CliInv, ProgressInv
<1>8. OutputsOfReturnedRuns'
  BY <1>2, <1>3, <1>5 DEF CliInv, OutputsOfReturnedRuns
<1>9. WriterInv'
  <2>1. \A f \in Files : disk'[f].by = NoRun => ~disk'[f].whole
    BY <1>2, NoRunAssumption DEF CliInv, WriterInv
  <2>2. \A f \in Files, q \in Runs : q # r /\ disk'[f].by = q => disk[f].by = q
    BY <1>2, NoRunAssumption
  <2>3. \A q \in Runs : disk'[Dxf].by = q => cli'[q] \in Opened
    BY <1>1, <2>2 DEF CliInv, WriterInv, Opened, Files, Dxf
  <2>4. file = Dxf => disk'[Report].by # r
    BY <1>1, <1>2 DEF CliInv, WriterInv, Opened, Ended, Files, Dxf, Report
  <2>5. disk'[Report].by = r => cli'[r] \in Opened \ {"dxf open", "report"}
    BY <1>1, <2>4 DEF Opened, Files, Dxf, Report
  <2>6. \A q \in Runs : disk'[Report].by = q => cli'[q] \in Opened \ {"dxf open", "report"}
    BY <1>1, <2>2, <2>5 DEF CliInv, WriterInv, Files, Report
  <2>7. QED
    BY <2>1, <2>3, <2>6 DEF WriterInv
<1>10. \A q \in Runs : Writing(q)' => Writing(q)
  BY <1>1, <1>4 DEF Writing
<1>11. r \notin rivals => disk[Dxf].by = r /\ disk'[Dxf].by = r
  BY <1>2, <1>4 DEF CliInv, AloneInv, Files, Dxf, Report
<1>12. ASSUME NEW q \in Runs \ {r}, q \notin rivals
       PROVE  disk[Dxf].by # q /\ ~Writing(q) /\ disk'[Dxf].by # q
  <2>1. disk[Dxf].by # q
    BY <1>4, <1>12 DEF CliInv, AloneInv, Others
  <2>2. ~Writing(q)
    BY <1>12, <2>1 DEF CliInv, AloneInv
  <2>3. disk'[Dxf].by \in {r, NoRun, disk[Dxf].by}
    BY <1>2 DEF Files, Dxf, Report
  <2>4. QED
    BY <1>12, <2>1, <2>2, <2>3, NoRunAssumption
<1>13. AloneInv'
  <2>1. r \notin rivals => Others(r)' = {}
    BY <1>10, <1>11 DEF CliInv, AloneInv, Others
  <2>2. \A q \in Runs \ {r} : q \notin rivals => ~Writing(q)' /\ disk'[Dxf].by # q
    BY <1>10, <1>12
  <2>3. QED
    BY <1>3, <1>11, <2>1, <2>2 DEF AloneInv
<1>14. WrittenInv'
  <2>1. ASSUME r \notin rivals
        PROVE  /\ disk'[Dxf].by = r /\ disk'[Dxf].whole
               /\ cli'[r] = "summary" => disk'[Report].by = r /\ disk'[Report].whole
    <3>1. CASE file = Dxf
      BY <1>1, <1>2, <1>11, <2>1, <3>1 DEF Files, Dxf, Report
    <3>2. CASE file = Report
      BY <1>1, <1>2, <1>11, <2>1, <3>2 DEF CliInv, WrittenInv, Files, Dxf, Report
    <3>3. QED
      BY <3>1, <3>2 DEF Files, Dxf, Report
  <2>2. ASSUME NEW q \in Runs \ {r}, q \notin rivals
        PROVE  /\ cli'[q] # "report open" /\ disk'[Dxf].by # q
               /\ disk'[Report].by = q => disk[Report].by = q /\ disk'[Report] = disk[Report]
    <3>1. disk'[Report].by = q => disk'[Report] = disk[Report]
      BY <1>2, <2>2, NoRunAssumption DEF Files, Dxf, Report
    <3>2. QED
      BY <1>1, <1>12, <2>2, <3>1 DEF Writing
  <2>3. QED
    BY <1>1, <1>3, <2>1, <2>2 DEF CliInv, WrittenInv
<1>15. QED
  BY <1>6, <1>7, <1>8, <1>9, <1>13, <1>14 DEF CliInv

LEMMA CommandLineKeepsCliInv == CliInv /\ CommandLine => CliInv'
<1>1. SUFFICES ASSUME CliInv, driver = "command line", driver' = driver,
                      NEW r \in Runs, Process(r)
               PROVE  CliInv'
  BY DEF CommandLine, CliNext
<1>2. status \in [Runs -> RunStatuses]
  BY <1>1 DEF CliInv, TypesInv
<1>3. CASE StartProcess(r)
  <2>1. cli[r] = "idle" /\ status' = status /\ status[r] = "idle"
    BY <1>1, <1>3 DEF StartProcess, Go, runVars, CliInv, ProgressInv
  <2>2. QED
    BY <1>1, <1>2, <1>3, <2>1, QuietStep DEF StartProcess, Go, CliStates, Opened, Ended
<1>4. CASE Prepare(r)
  <2>1. /\ status[r] = "idle" /\ status' \in [Runs -> RunStatuses]
        /\ \A q \in Runs \ {r} : status'[q] = status[q]
    BY <1>1, <1>2, <1>4 DEF Prepare, Enter, Become, RunStatuses
  <2>2. QED
    BY <1>1, <1>4, <2>1, QuietStep DEF Prepare, Go, CliStates, Opened, Ended
<1>5. CASE RunPipeline(r)
  BY <1>1, <1>5, RunPipelineStep
<1>6. CASE ToOutput(r)
  <2>1. status[r] = "returned" /\ status' = status
    BY <1>1, <1>6 DEF ToOutput, PipelineReturned, runVars
  <2>2. QED
    BY <1>1, <1>2, <1>6, <2>1, QuietStep DEF ToOutput, Go, CliStates, Opened, Ended
<1>7. CASE OpenDxf(r)
  BY <1>1, <1>7, OpenStep DEF OpenDxf, Files, Dxf, Report
<1>8. CASE CloseDxf(r)
  BY <1>1, <1>8, CloseStep DEF CloseDxf, Files, Dxf, Report
<1>9. CASE OpenReport(r)
  BY <1>1, <1>9, OpenStep DEF OpenReport, Files, Dxf, Report
<1>10. CASE CloseReport(r)
  BY <1>1, <1>10, CloseStep DEF CloseReport, Files, Dxf, Report
<1>11. CASE Finish(r)
  <2>1. status[r] = "returned" /\ status' = status
    BY <1>1, <1>11 DEF Finish, Go, runVars, CliInv, ProgressInv
  <2>2. QED
    BY <1>1, <1>2, <1>11, <2>1, QuietStep DEF Finish, Go, CliStates, Opened, Ended
<1>12. CASE Fail(r)
  <2>1. /\ status' = status
        /\ cli' = [cli EXCEPT ![r] = "exited 1"]
    BY <1>1, <1>12 DEF Fail, ErrorCode, runVars
  <2>2. QED
    BY <1>1, <1>2, <1>12, <2>1, QuietStep DEF Fail, CliStates, Ended
<1>13. CASE Kill(r)
  BY <1>1, <1>2, <1>13, QuietStep DEF Kill, CliStates, Ended, runVars
<1>14. QED
  BY <1>1, <1>3, <1>4, <1>5, <1>6, <1>7, <1>8, <1>9, <1>10, <1>11, <1>12, <1>13 DEF Process

LEMMA NextKeepsCliInv == CliInv /\ [Next]_vars => CliInv'
<1>1. CASE Suite
  BY <1>1, SuiteKeepsCliInv
<1>2. CASE CommandLine
  BY <1>2, CommandLineKeepsCliInv
<1>3. CASE UNCHANGED vars
  BY <1>3 DEF vars, runVars, cliVars, CliInv, TypesInv, CliTypeOK, SuiteInv, ProgressInv,
     OutputsOfReturnedRuns, WriterInv, AloneInv, WrittenInv, Others, Writing
<1>4. QED
  BY <1>1, <1>2, <1>3 DEF Next

\* The conjunction above holds in every state, for any number of runs.
THEOREM CliInvariance == Spec => []CliInv
<1>1. QED
  BY InitCliInv, NextKeepsCliInv, PTL DEF Spec

\* Only a run that returned has touched the output directory: an artwork that
\* fails leaves the files of the artwork before it (run_svg_pipeline.py:229-240).
THEOREM FailuresLeaveTheOutput == Spec => []OutputsOfReturnedRuns
<1>1. CliInv => OutputsOfReturnedRuns
  BY DEF CliInv
<1>2. QED
  BY <1>1, CliInvariance, PTL

\* A file cut short is never the work of a process that exited 0 and wrote
\* alone (run_svg_pipeline.py:236-252).
THEOREM SuccessMeansWritten == Spec => []CutShortMeansNoSuccess
<1>1. ASSUME CliInv PROVE CutShortMeansNoSuccess
  <2>1. ASSUME NEW r \in Runs, cli[r] = "exited 0", r \notin rivals
        PROVE  /\ disk[Dxf].by = r => disk[Dxf].whole
               /\ disk[Report].by = r => disk[Report].whole
    BY <1>1, <2>1 DEF CliInv, WrittenInv
  <2>2. \A f \in Files : disk[f].by # NoRun => disk[f].by \in Runs
    BY <1>1 DEF CliInv, TypesInv, CliTypeOK, Contents
  <2>3. QED
    BY <2>1, <2>2 DEF CutShortMeansNoSuccess, Files, Dxf, Report
<1>2. QED
  BY <1>1, CliInvariance, PTL

\* The report in the directory is about the DXF beside it, once the process
\* that wrote the DXF has exited 0 and had no rival (run_svg_pipeline.py:236-240).
THEOREM SuccessMeansAMatchingReport == Spec => []ReportBelongsToDxf
<1>1. ASSUME CliInv PROVE ReportBelongsToDxf
  <2>1. ASSUME NEW r \in Runs, disk[Dxf].by = r, cli[r] = "exited 0", r \notin rivals
        PROVE  disk[Report].by = r
    BY <1>1, <2>1 DEF CliInv, WrittenInv
  <2>2. disk[Dxf].whole => disk[Dxf].by \in Runs
    BY <1>1 DEF CliInv, TypesInv, CliTypeOK, Contents, WriterInv, Files, Dxf, Report
  <2>3. QED
    BY <2>1, <2>2 DEF ReportBelongsToDxf, Dxf, Report
<1>2. QED
  BY <1>1, CliInvariance, PTL

(***************************************************************************)
(* The types of the whole, which rest on all three invariants.             *)
(***************************************************************************)
DriverInv == driver \in {"suite", "command line"}

\* The states of runs, rows, processes and files are of their types.
THEOREM PipelineTypes == Spec => []TypeOK
<1>1. Init => DriverInv
  BY DEF Init, DriverInv
<1>2. DriverInv /\ [Next]_vars => DriverInv'
  BY DEF Next, Suite, CommandLine, vars, DriverInv
<1>3. ASSUME BatchInv, CliInv, ResultsInv, DriverInv
      PROVE  TypeOK
  <2>1. RunTypeOK
    <3>1. ASSUME NEW r \in Runs PROVE \E n \in 0 .. 10 : reached[r] = Prefix(n)
      <4>1. step[r] \in 0 .. 14
        BY <1>3, CallsLength DEF BatchInv, RunsInv
      <4>2. \A n \in 0 .. 14 : StagesUpTo(n) \in 0 .. 10
        BY StageOfCallBounds DEF StagesUpTo
      <4>3. /\ \E n \in 0 .. 10 : <<>> = Prefix(n)
            /\ \E n \in 0 .. 10 : Stages = Prefix(n)
        <5>1. 0 \in 0 .. 10 /\ 10 \in 0 .. 10
          OBVIOUS
        <5>2. QED
          BY <5>1, PrefixGrows, Zenon
      <4>4. status[r] \in RunStatuses /\ RunInv(r)
        BY <1>3 DEF BatchInv, RunsInv
      <4>5. CASE status[r] \in {"idle", "loading"}
        BY <4>4, <4>5, <4>3 DEF RunInv
      <4>6. CASE status[r] = "calling"
        BY <1>3, <4>1, <4>2, <4>6 DEF ResultsInv, ReachedInv
      <4>7. CASE status[r] = "raised"
        <5>1. step[r] + 1 \in 0 .. 14
          BY <4>1, <4>4, <4>7, CallsLength DEF RunInv
        <5>2. reached[r] \in {<<>>, Prefix(StagesUpTo(step[r] + 1))}
          BY <1>3, <4>7 DEF ResultsInv, ReachedInv
        <5>3. QED
          BY <4>2, <4>3, <5>1, <5>2
      <4>8. CASE status[r] = "returned"
        BY <1>3, <4>8, <4>3 DEF ResultsInv, ReachedInv
      <4>9. QED
        BY <4>4, <4>5, <4>6, <4>7, <4>8 DEF RunStatuses
    <3>2. reached \in [Runs -> {SubSeq(Stages, 1, n) : n \in 0 .. Len(Stages)}]
      <4>1. \A r \in Runs : reached[r] \in {SubSeq(Stages, 1, n) : n \in 0 .. Len(Stages)}
        BY <3>1, StagesLength DEF Prefix
      <4>2. reached = [r \in Runs |-> reached[r]]
        BY <1>3 DEF BatchInv, RunsInv
      <4>3. QED
        BY <4>1, <4>2
    <3>3. QED
      BY <1>3, <3>2 DEF RunTypeOK, BatchInv, RunsInv, RunStatuses, ResultsInv
  <2>2. BatchTypeOK
    <3>1. /\ rows \in Seq(AnyRow) /\ utf8 \in SUBSET (1 .. Artworks)
          /\ position \in 1 .. Artworks + 1 /\ batch \in {"going", "returned", "raised"}
          /\ \A n \in 1 .. Len(rows) : RowInv(n)
      BY <1>3 DEF BatchInv, RowsInv
    <3>2. StageNames \subseteq {Stages[i] : i \in StageIndices} \cup {NoStage}
      <4>1. \A k \in 1 .. 14 : \E i \in StageIndices : Calls[k].stage = Stages[i]
        BY CallStages, StageOfCallBounds, StagesSequence
      <4>2. 1 \in StageIndices
        BY StagesSequence
      <4>3. QED
        BY <4>1, <4>2, CallsLength DEF StageNames
    <3>3. ASSUME NEW n \in 1 .. Len(rows) PROVE rows[n] \in Row
      <4>1. rows[n] \in AnyRow /\ rows[n].file = n /\ n < position
        BY <3>1 DEF RowInv
      <4>2. rows[n].file \in 1 .. Artworks
        BY <3>1, <4>1, ArtworksAssumption
      <4>3. QED
        BY <3>2, <4>1, <4>2 DEF AnyRow, Row, ColumnTexts
    <3>4. rows \in Seq(Row)
      BY <3>1, <3>3
    <3>5. QED
      BY <3>1, <3>4 DEF BatchTypeOK
  <2>3. QED
    BY <1>3, <2>1, <2>2 DEF TypeOK, CliInv, TypesInv, DriverInv
<1>4. QED
  BY <1>1, <1>2, <1>3, BatchInvariance, CliInvariance, ResultsInvariance, PTL DEF Spec
=============================================================================
