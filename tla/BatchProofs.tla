----------------------------- MODULE BatchProofs -----------------------------
(***************************************************************************)
(* What the rows of the validation suite say and which geometry report and *)
(* dies are about, proved for a directory of any number of files.          *)
(***************************************************************************)
EXTENDS Pipeline, SequenceTheorems, TLAPS

RunStatuses == {"idle", "loading", "calling", "returned", "raised"}
StageNames == {Calls[i].stage : i \in 1 .. Len(Calls)} \cup {Stages[1], NoStage}
ColumnTexts == {"PASS", "FAIL", "NOT REACHED"}
AnyRow == [file : Nat, columns : [Columns -> ColumnTexts], overall : BOOLEAN, failed : StageNames]

\* The stage of the last of the first n calls is the last one reported.
ReportedUpTo(r, n) ==
    IF n = 0 THEN reached[r] = <<>>
    ELSE reached[r] # <<>> /\ reached[r][Len(reached[r])] = Calls[n].stage

\* on_progress has been called for the call that is next only if that raised.
RunInv(r) ==
    /\ status[r] \in {"idle", "loading"} => step[r] = 0 /\ reached[r] = <<>>
    /\ status[r] = "calling" => step[r] < Len(Calls) /\ ReportedUpTo(r, step[r])
    /\ status[r] = "raised" =>
        step[r] < Len(Calls) /\ (reached[r] = <<>> \/ ReportedUpTo(r, step[r] + 1))

RunsInv ==
    /\ status \in [Runs -> RunStatuses]
    /\ step \in [Runs -> 0 .. Len(Calls)]
    /\ reached \in [Runs -> Seq(StageNames)]
    /\ \A r \in Runs : RunInv(r)

\* A row was made when the run of its file had ended, of what is still there.
RowInv(n) ==
    /\ rows[n].file = n
    /\ n < position
    /\ rows[n].overall <=> status[n] = "returned"
    /\ ~rows[n].overall => status[n] = "raised" /\ rows[n].failed = FailedStage(n)

RowsInv ==
    /\ rows \in Seq(AnyRow)
    /\ utf8 \in SUBSET (1 .. Artworks)
    /\ position \in 1 .. Artworks + 1
    /\ batch \in {"going", "returned", "raised"}
    /\ batch # "raised" => Len(rows) = position - 1
    /\ batch = "returned" => position = Artworks + 1
    /\ \A n \in 1 .. Len(rows) : RowInv(n)
    /\ driver = "command line" => rows = <<>>

BatchInv == RunsInv /\ RowsInv

LEMMA CallsLength == Len(Calls) = 14
  BY DEF Calls

\* What on_progress has been called with when the next engine call starts.
LEMMA ReportedNext ==
  ASSUME RunsInv, NEW r \in Runs, status[r] = "calling"
  PROVE  /\ Reported(r) \in Seq(StageNames)
         /\ Reported(r) # <<>>
         /\ Reported(r)[Len(Reported(r))] = Calls[step[r] + 1].stage
<1>1. /\ step[r] \in Nat /\ step[r] + 1 \in 1 .. Len(Calls)
      /\ reached[r] \in Seq(StageNames)
      /\ ReportedUpTo(r, step[r])
  <2>1. step[r] \in 0 .. Len(Calls) /\ reached[r] \in Seq(StageNames)
    BY DEF RunsInv
  <2>2. step[r] < Len(Calls) /\ ReportedUpTo(r, step[r])
    BY DEF RunsInv, RunInv
  <2>3. QED
    BY <2>1, <2>2, CallsLength
<1>2. NextCall(r).stage \in StageNames
  BY <1>1 DEF NextCall, StageNames
<1>3. CASE step[r] > 0 /\ Calls[step[r]].stage = NextCall(r).stage
  BY <1>1, <1>3 DEF Reported, ReportedUpTo, NextCall
<1>4. CASE ~(step[r] > 0 /\ Calls[step[r]].stage = NextCall(r).stage)
  BY <1>1, <1>2, <1>4 DEF Reported, NextCall
<1>5. QED
  BY <1>3, <1>4

\* Steps of run() keep what is known of the runs and leave the other runs alone.
LEMMA EnterStep ==
  ASSUME RunsInv, NEW r \in Runs, Enter(r)
  PROVE  /\ RunsInv'
         /\ \A q \in Runs : q # r => status'[q] = status[q] /\ reached'[q] = reached[q]
<1>1. /\ status' = [status EXCEPT ![r] = "loading"] /\ status[r] = "idle"
      /\ step' = step /\ reached' = reached
  BY DEF Enter, Become
<1>2. \A q \in Runs : RunInv(q)'
  BY <1>1 DEF RunsInv, RunInv, ReportedUpTo
<1>3. QED
  BY <1>1, <1>2 DEF RunsInv, RunStatuses

LEMMA RunStep ==
  ASSUME RunsInv, NEW r \in Runs, Run(r)
  PROVE  /\ RunsInv'
         /\ status[r] \in {"loading", "calling"}
         /\ \A q \in Runs : q # r => status'[q] = status[q] /\ reached'[q] = reached[q]
<1>1. CASE LoadRules(r) \/ RulesRaise(r)
  <2>1. PICK new \in {"calling", "raised"} : status' = [status EXCEPT ![r] = new]
    BY <1>1 DEF LoadRules, RulesRaise, Become
  <2>2. status[r] = "loading" /\ step' = step /\ reached' = reached
    BY <1>1 DEF LoadRules, RulesRaise
  <2>3. step[r] = 0 /\ reached[r] = <<>>
    BY <2>2 DEF RunsInv, RunInv
  <2>4. \A q \in Runs : RunInv(q)'
    BY <2>1, <2>2, <2>3, CallsLength DEF RunsInv, RunInv, ReportedUpTo
  <2>5. QED
    BY <2>1, <2>2, <2>4 DEF RunsInv, RunStatuses
<1>2. CASE Call(r) \/ CallRaises(r)
  <2>1. /\ status[r] = "calling"
        /\ reached' = [reached EXCEPT ![r] = Reported(r)]
    BY <1>2 DEF Call, CallRaises
  <2>2. step[r] \in 0 .. Len(Calls) /\ step[r] < Len(Calls)
    BY <2>1 DEF RunsInv, RunInv
  <2>3. reached' \in [Runs -> Seq(StageNames)]
    BY <2>1, ReportedNext DEF RunsInv
  <2>4. reached'[r] # <<>> /\ reached'[r][Len(reached'[r])] = Calls[step[r] + 1].stage
    BY <2>1, ReportedNext DEF RunsInv
  <2>5. \/ /\ step' = [step EXCEPT ![r] = step[r] + 1]
           /\ status' = [status EXCEPT ![r] =
                            IF step[r] + 1 = Len(Calls) THEN "returned" ELSE "calling"]
        \/ /\ step' = step
           /\ status' = [status EXCEPT ![r] = "raised"]
    <3>1. CASE Call(r)
      <4>1. step' = [step EXCEPT ![r] = step[r] + 1]
        BY <3>1 DEF Call
      <4>2. QED
        BY <3>1, <4>1 DEF Call, Become
    <3>2. CASE CallRaises(r)
      BY <3>2 DEF CallRaises, Become
    <3>3. QED
      BY <1>2, <3>1, <3>2
  <2>6. status' \in [Runs -> RunStatuses] /\ step' \in [Runs -> 0 .. Len(Calls)]
    <3>1. status' \in [Runs -> RunStatuses]
      BY <2>5 DEF RunsInv, RunStatuses
    <3>2. step[r] + 1 \in 0 .. Len(Calls)
      BY <2>2, CallsLength
    <3>3. step' \in [Runs -> 0 .. Len(Calls)]
      BY <2>5, <3>2 DEF RunsInv
    <3>4. QED
      BY <3>1, <3>3
  <2>7. RunInv(r)'
    <3>1. CASE step' = step /\ status' = [status EXCEPT ![r] = "raised"]
      <4>1. status'[r] = "raised" /\ step'[r] = step[r]
        BY <3>1 DEF RunsInv
      <4>2. QED
        BY <2>2, <2>4, <4>1, CallsLength DEF RunInv, ReportedUpTo
    <3>2. CASE /\ step' = [step EXCEPT ![r] = step[r] + 1]
               /\ status' = [status EXCEPT ![r] =
                                IF step[r] + 1 = Len(Calls) THEN "returned" ELSE "calling"]
      <4>1. /\ status'[r] \in {"returned", "calling"} /\ step'[r] = step[r] + 1
            /\ status'[r] = "calling" => step[r] + 1 # Len(Calls)
        BY <3>2 DEF RunsInv
      <4>2. /\ step[r] + 1 # 0 /\ step[r] + 1 <= Len(Calls)
            /\ step[r] + 1 # Len(Calls) => step[r] + 1 < Len(Calls)
        BY <2>2, CallsLength
      <4>3. ReportedUpTo(r, step[r])'
        BY <2>4, <4>1, <4>2 DEF ReportedUpTo
      <4>4. QED
        BY <4>1, <4>2, <4>3 DEF RunInv
    <3>3. QED
      BY <2>5, <3>1, <3>2
  <2>8. ASSUME NEW q \in Runs, q # r PROVE RunInv(q)'
    <3>1. status'[q] = status[q] /\ step'[q] = step[q] /\ reached'[q] = reached[q]
      BY <2>1, <2>5, <2>8 DEF RunsInv
    <3>2. RunInv(q)
      BY DEF RunsInv
    <3>3. QED
      BY <3>1, <3>2 DEF RunInv, ReportedUpTo
  <2>9. \A q \in Runs : q # r => status'[q] = status[q] /\ reached'[q] = reached[q]
    BY <2>1, <2>5 DEF RunsInv
  <2>10. QED
    BY <2>1, <2>3, <2>6, <2>7, <2>8, <2>9 DEF RunsInv
<1>3. QED
  BY <1>1, <1>2 DEF Run

\* The stage a run that raised is blamed on.
LEMMA BlameStep ==
  ASSUME RunsInv, NEW r \in Runs, status[r] = "raised"
  PROVE  /\ FailedStage(r) \in StageNames
         /\ reached[r] # <<>> => FailedStage(r) = NextCall(r).stage
<1>1. /\ step[r] \in 0 .. Len(Calls) /\ step[r] < Len(Calls)
      /\ reached[r] = <<>> \/ ReportedUpTo(r, step[r] + 1)
  BY DEF RunsInv, RunInv
<1>2. reached[r] # <<>> => FailedStage(r) = Calls[step[r] + 1].stage
  BY <1>1, CallsLength DEF FailedStage, ReportedUpTo
<1>3. step[r] + 1 \in 1 .. Len(Calls)
  BY <1>1, CallsLength
<1>4. reached[r] = <<>> => FailedStage(r) = Stages[1]
  BY DEF FailedStage
<1>5. QED
  BY <1>1, <1>2, <1>3, <1>4 DEF NextCall, StageNames

LEMMA SameRuns == RunsInv /\ UNCHANGED runVars => RunsInv'
<1>1. SUFFICES ASSUME RunsInv, UNCHANGED runVars PROVE RunsInv'
  OBVIOUS
<1>2. status' = status /\ step' = step /\ reached' = reached
  BY <1>1 DEF runVars
<1>3. \A r \in Runs : RunInv(r)'
  BY <1>1, <1>2 DEF RunsInv, RunInv, ReportedUpTo
<1>4. QED
  BY <1>1, <1>2, <1>3 DEF RunsInv

LEMMA InitBatchInv == Init => BatchInv
<1>1. SUFFICES ASSUME Init PROVE BatchInv
  OBVIOUS
<1>2. RunsInv
  <2>1. /\ status = [r \in Runs |-> "idle"]
        /\ step = [r \in Runs |-> 0]
        /\ reached = [r \in Runs |-> <<>>]
    BY <1>1 DEF Init, RunInit
  <2>2. <<>> \in Seq(StageNames) /\ 0 \in 0 .. Len(Calls) /\ "idle" \in RunStatuses
    BY CallsLength DEF RunStatuses
  <2>3. QED
    BY <2>1, <2>2 DEF RunsInv, RunInv
<1>3. RowsInv
  <2>1. rows = <<>> /\ position = 1 /\ batch = "going" /\ utf8 \in SUBSET (1 .. Artworks)
    BY <1>1 DEF Init, BatchInit
  <2>2. <<>> \in Seq(AnyRow) /\ Len(<<>>) = 0 /\ 1 \in 1 .. Artworks + 1
    BY ArtworksAssumption
  <2>3. QED
    BY <2>1, <2>2 DEF RowsInv
<1>4. QED
  BY <1>2, <1>3 DEF BatchInv

\* The rows stay true while the run of the file the loop is at goes on.
LEMMA RunningStep ==
  ASSUME RowsInv, UNCHANGED <<batchVars, driver>>,
         \A q \in Runs : q # position => status'[q] = status[q] /\ reached'[q] = reached[q]
  PROVE  RowsInv'
<1>1. /\ rows' = rows /\ position' = position /\ batch' = batch /\ utf8' = utf8
      /\ driver' = driver
  BY DEF batchVars
<1>2. ASSUME NEW n \in 1 .. Len(rows) PROVE RowInv(n)'
  <2>1. RowInv(n) /\ position \in 1 .. Artworks + 1 /\ Len(rows) \in Nat
    <3>1. rows \in Seq(AnyRow) /\ position \in 1 .. Artworks + 1
      BY DEF RowsInv
    <3>2. RowInv(n)
      BY DEF RowsInv
    <3>3. QED
      BY <3>1, <3>2
  <2>2. n \in 1 .. Artworks /\ n # position
    BY <2>1, ArtworksAssumption DEF RowInv
  <2>3. QED
    BY <1>1, <2>1, <2>2, RunsAssumption DEF RowInv, FailedStage
<1>3. QED
  BY <1>1, <1>2 DEF RowsInv

\* The row of the file the loop is at is appended, and the loop goes on.
LEMMA RecordStep ==
  ASSUME RowsInv, batch = "going", position <= Artworks, NEW row \in AnyRow,
         rows' = Append(rows, row), position' = position + 1,
         batch' = batch, utf8' = utf8, driver' = "suite", status' = status, reached' = reached,
         row.file = position, row.overall <=> status[position] = "returned",
         ~row.overall => status[position] = "raised" /\ row.failed = FailedStage(position)
  PROVE  RowsInv'
<1>1. /\ rows \in Seq(AnyRow) /\ position \in 1 .. Artworks + 1
      /\ Len(rows) = position - 1 /\ Artworks \in Nat
  BY ArtworksAssumption DEF RowsInv
<1>2. /\ rows' \in Seq(AnyRow) /\ Len(rows') = position
      /\ rows'[position] = row
      /\ \A n \in 1 .. Len(rows) : rows'[n] = rows[n]
  BY <1>1
<1>3. ASSUME NEW n \in 1 .. Len(rows') PROVE RowInv(n)'
  <2>1. CASE n = position
    BY <1>1, <1>2, <2>1 DEF RowInv, FailedStage
  <2>2. CASE n # position
    <3>1. n \in 1 .. Len(rows) /\ n \in Nat
      BY <1>1, <1>2, <2>2
    <3>2. RowInv(n) /\ rows'[n] = rows[n]
      BY <1>2, <3>1 DEF RowsInv
    <3>3. QED
      BY <1>1, <3>1, <3>2 DEF RowInv, FailedStage
  <2>3. QED
    BY <2>1, <2>2
<1>4. position' \in 1 .. Artworks + 1 /\ position = position' - 1
  BY <1>1
<1>5. Len(rows') = position' - 1
  BY <1>2, <1>4
<1>6. utf8 \in SUBSET (1 .. Artworks)
  BY DEF RowsInv
<1>7. QED
  BY <1>2, <1>3, <1>4, <1>5, <1>6 DEF RowsInv

LEMMA SuiteKeepsBatchInv == BatchInv /\ Suite => BatchInv'
<1>1. SUFFICES ASSUME RunsInv, RowsInv, driver = "suite", driver' = driver, BatchNext
               PROVE  RunsInv' /\ RowsInv'
  BY DEF Suite, BatchInv
<1>2. position \in 1 .. Artworks + 1 /\ Artworks \in Nat
  BY <1>1, ArtworksAssumption DEF RowsInv
<1>3. position <= Artworks => position \in Runs
  BY <1>2, RunsAssumption
<1>4. UNCHANGED runVars => RunsInv'
  BY <1>1, SameRuns
<1>5. CASE ReadArtwork
  <2>1. position \in Runs /\ Enter(position) /\ UNCHANGED batchVars
    BY <1>1, <1>5, RunsAssumption DEF ReadArtwork, RowsInv
  <2>2. QED
    BY <1>1, <2>1, EnterStep, RunningStep
<1>6. CASE UnreadableArtwork
  <2>1. RowsInv'
    BY <1>1, <1>2, <1>6 DEF UnreadableArtwork, RowsInv
  <2>2. QED
    BY <1>4, <1>6, <2>1 DEF UnreadableArtwork
<1>7. CASE RunArtwork
  <2>1. position \in Runs /\ Run(position) /\ UNCHANGED batchVars
    BY <1>3, <1>7 DEF RunArtwork
  <2>2. QED
    BY <1>1, <2>1, RunStep, RunningStep
<1>8. CASE RecordPass
  <2>1. PassRow(position) \in AnyRow
    BY <1>2 DEF PassRow, AnyRow, ColumnTexts, StageNames
  <2>2. RowsInv'
    BY <1>1, <1>8, <2>1, RecordStep DEF RecordPass, PassRow, runVars
  <2>3. QED
    BY <1>4, <1>8, <2>2 DEF RecordPass
<1>9. CASE RecordFailure
  <2>1. FailedStage(position) \in StageNames
    BY <1>1, <1>3, <1>9, BlameStep DEF RecordFailure
  <2>2. FailRow(position) \in AnyRow
    BY <1>2, <2>1 DEF FailRow, AnyRow, ColumnTexts, ColumnStatus
  <2>3. RowsInv'
    BY <1>1, <1>9, <2>2, RecordStep DEF RecordFailure, FailRow, runVars
  <2>4. QED
    BY <1>4, <1>9, <2>3 DEF RecordFailure
<1>10. CASE ReturnRows
  <2>1. RowsInv'
    BY <1>1, <1>2, <1>10 DEF ReturnRows, RowsInv, RowInv, FailedStage, runVars
  <2>2. QED
    BY <1>4, <1>10, <2>1 DEF ReturnRows
<1>11. QED
  BY <1>1, <1>5, <1>6, <1>7, <1>8, <1>9, <1>10 DEF BatchNext

LEMMA CommandLineKeepsBatchInv == BatchInv /\ CommandLine => BatchInv'
<1>1. SUFFICES ASSUME RunsInv, RowsInv, driver = "command line", driver' = driver,
                      UNCHANGED batchVars, NEW r \in Runs, Process(r)
               PROVE  RunsInv' /\ RowsInv'
  BY DEF CommandLine, CliNext, BatchInv
<1>2. RowsInv'
  <2>1. /\ rows' = rows /\ position' = position /\ batch' = batch /\ utf8' = utf8
        /\ rows = <<>>
    BY <1>1 DEF RowsInv, batchVars
  <2>2. Len(rows) = 0 /\ \A n \in 1 .. Len(rows') : FALSE
    BY <2>1
  <2>3. QED
    BY <1>1, <2>1, <2>2 DEF RowsInv
<1>3. CASE Prepare(r)
  BY <1>1, <1>2, <1>3, EnterStep DEF Prepare
<1>4. CASE RunPipeline(r)
  BY <1>1, <1>2, <1>4, RunStep DEF RunPipeline
<1>5. CASE UNCHANGED runVars
  BY <1>1, <1>2, <1>5, SameRuns
<1>6. UNCHANGED runVars \/ Prepare(r) \/ RunPipeline(r)
  BY <1>1 DEF Process, StartProcess, ToOutput, OpenDxf, CloseDxf, OpenReport, CloseReport, Open,
     Close, Finish, Fail, Kill
<1>7. QED
  BY <1>2, <1>3, <1>4, <1>5, <1>6

LEMMA NextKeepsBatchInv == BatchInv /\ [Next]_vars => BatchInv'
<1>1. CASE Suite
  BY <1>1, SuiteKeepsBatchInv
<1>2. CASE CommandLine
  BY <1>2, CommandLineKeepsBatchInv
<1>3. ASSUME BatchInv, UNCHANGED vars PROVE BatchInv'
  <2>1. UNCHANGED <<runVars, batchVars, driver>> /\ status' = status /\ reached' = reached
    BY <1>3 DEF vars, runVars
  <2>2. QED
    BY <1>3, <2>1, SameRuns, RunningStep DEF BatchInv
<1>4. QED
  BY <1>1, <1>2, <1>3 DEF Next

\* The conjunction above holds in every state, for any number of files.
THEOREM BatchInvariance == Spec => []BatchInv
<1>1. QED
  BY InitBatchInv, NextKeepsBatchInv, PTL DEF Spec

\* validate_artwork_directory returns one row for every file, in order, and a
\* row passed exactly if its run returned (production_validation.py:141-145).
THEOREM RowsAreComplete == Spec => []OneRowPerArtwork
<1>1. ASSUME BatchInv PROVE OneRowPerArtwork
  <2>1. CASE batch = "returned"
    <3>1. Len(rows) = position - 1 /\ position = Artworks + 1
      BY <1>1, <2>1 DEF BatchInv, RowsInv
    <3>2. Len(rows) = Artworks
      BY <3>1, ArtworksAssumption
    <3>3. \A n \in 1 .. Artworks : RowInv(n)
      BY <1>1, <3>2 DEF BatchInv, RowsInv
    <3>4. QED
      BY <3>2, <3>3 DEF OneRowPerArtwork, RowInv
  <2>2. QED
    BY <2>1 DEF OneRowPerArtwork
<1>2. QED
  BY <1>1, BatchInvariance, PTL

\* Whatever on_progress was called with, a failure is reported for the stage
\* whose engine call raised (production_validation.py:20-22, 105).
THEOREM FailuresNameTheirStage == Spec => []FailureNamesItsStage
<1>1. ASSUME BatchInv PROVE FailureNamesItsStage
  <2>1. ASSUME NEW n \in DOMAIN rows, ~rows[n].overall
        PROVE  /\ rows[n].file = n
               /\ reached[n] # <<>> => rows[n].failed = NextCall(n).stage
    <3>1. n \in 1 .. Len(rows) /\ RowInv(n) /\ position \in 1 .. Artworks + 1
      <4>1. rows \in Seq(AnyRow) /\ position \in 1 .. Artworks + 1
        BY <1>1 DEF BatchInv, RowsInv
      <4>2. n \in 1 .. Len(rows)
        BY <2>1, <4>1
      <4>3. QED
        BY <1>1, <4>1, <4>2 DEF BatchInv, RowsInv
    <3>2. n \in Runs /\ status[n] = "raised"
      BY <2>1, <3>1, RunsAssumption, ArtworksAssumption DEF RowInv
    <3>3. QED
      BY <1>1, <2>1, <3>1, <3>2, BlameStep DEF BatchInv, RowInv
  <2>2. QED
    BY <2>1 DEF FailureNamesItsStage
<1>2. QED
  BY <1>1, BatchInvariance, PTL

(***************************************************************************)
(* What the stages reported by run() and the results of its calls say, for *)
(* either driver.                                                          *)
(***************************************************************************)

\* The number of the stage a call belongs to, and of the stages reported when
\* n calls have been begun.
StageOfCall == <<1, 1, 2, 3, 4, 5, 5, 6, 7, 7, 7, 8, 9, 10>>
StagesUpTo(n) == IF n = 0 THEN 0 ELSE StageOfCall[n]

\* The versions the result of each call is about.
SubjectOfCall == <<
    {Imported}, {Original}, {Original}, {Mended}, {Mended}, {Repaired}, {Repaired},
    {Repaired}, {Repaired}, {Repaired}, {Repaired}, {Original, Repaired}, {Original, Repaired},
    {Original, Mended, Repaired}>>

Prefix(n) == SubSeq(Stages, 1, n)

\* The stages reported follow from the calls made; a run that raised while it
\* loaded the rules has reported none.
ReachedInv(r) ==
    /\ status[r] = "calling" => reached[r] = Prefix(StagesUpTo(step[r]))
    /\ status[r] = "raised" =>
        \/ step[r] = 0 /\ reached[r] = <<>>
        \/ reached[r] = Prefix(StagesUpTo(step[r] + 1))
    /\ status[r] = "returned" => step[r] = Len(Calls) /\ reached[r] = Stages

\* The results there are describe what their calls read.
DescribesInv(r) ==
    \A k \in 1 .. step[r] : describes[r][Calls[k].makes] = SubjectOfCall[k]

ResultsInv ==
    /\ describes \in [Runs -> [Results -> SUBSET Versions]]
    /\ \A r \in Runs : ReachedInv(r) /\ DescribesInv(r)

\* The columns of a row are those of its failed stage.
ColumnsInv ==
    \A n \in 1 .. Len(rows) :
        rows[n].columns = IF rows[n].overall THEN [c \in Columns |-> "PASS"]
                          ELSE [c \in Columns |-> ColumnStatus(c, IndexOf(rows[n].failed))]

(***************************************************************************)
(* The table of calls.                                                     *)
(***************************************************************************)
LEMMA StagesLength == Len(Stages) = 10
  BY DEF Stages

LEMMA StageOfCallBounds ==
  /\ \A k \in 1 .. 14 : StageOfCall[k] \in 1 .. 10
  /\ StageOfCall[1] = 1 /\ StageOfCall[14] = 10
  /\ \A k \in 1 .. 13 : StageOfCall[k + 1] \in {StageOfCall[k], StageOfCall[k] + 1}
  BY DEF StageOfCall

LEMMA CallStages == \A k \in 1 .. 14 : Calls[k].stage = Stages[StageOfCall[k]]
  BY DEF Calls, Stages, StageOfCall, Engine

\* No two results have one name, nor have two stages.
LEMMA DistinctNames ==
  /\ \A j, k \in 1 .. 14 : Calls[j].makes = Calls[k].makes => j = k
  /\ \A i, j \in 1 .. 10 : Stages[i] = Stages[j] => i = j
<1>1. \A j, k \in 1 .. 14 : Calls[j].makes = Calls[k].makes => j = k
  BY DEF Calls, Engine, Imported, Original, Mended, Repaired
<1>2. \A i, j \in 1 .. 10 : Stages[i] = Stages[j] => i = j
  BY DEF Stages
<1>3. QED
  BY <1>1, <1>2

LEMMA StagesSequence == Stages \in Seq({Stages[i] : i \in StageIndices}) /\ StageIndices = 1 .. 10
  BY StagesLength DEF Stages, StageIndices

LEMMA PrefixGrows ==
  /\ Prefix(0) = <<>> /\ Prefix(10) = Stages
  /\ \A n \in 0 .. 9 : Append(Prefix(n), Stages[n + 1]) = Prefix(n + 1)
<1>1. ASSUME NEW n \in 0 .. 9 PROVE Append(Prefix(n), Stages[n + 1]) = Prefix(n + 1)
  <2> DEFINE S == {Stages[i] : i \in StageIndices}
  <2>1. /\ n + 1 \in 1 .. Len(Stages) /\ 1 \in 1 .. Len(Stages)
        /\ n + 1 \in 1 .. 10 /\ (n + 1) - 1 = n
    BY StagesLength
  <2>2. Prefix(n + 1) = Prefix(n) \o <<Stages[n + 1]>>
    BY <2>1, StagesLength, StagesSequence, SubSeqRecursiveSecond DEF Prefix
  <2>3. Prefix(n) \in Seq(S)
    BY <2>1, StagesSequence, SubSeqProperties DEF Prefix
  <2>4. Stages[n + 1] \in S
    BY <2>1, StagesSequence
  <2>5. QED
    BY <2>2, <2>3, <2>4, AppendIsConcat
<1>2. Prefix(0) = <<>>
  BY SubSeqEmpty DEF Prefix
<1>3. Prefix(10) = Stages
  BY StagesLength, StagesSequence, SubSeqFull DEF Prefix
<1>4. QED
  BY <1>1, <1>2, <1>3

(***************************************************************************)
(* Steps of a run.                                                         *)
(***************************************************************************)

\* What on_progress has been called with when the next engine call starts.
LEMMA ReportedPrefix ==
  ASSUME RunsInv, NEW r \in Runs, ReachedInv(r), status[r] = "calling"
  PROVE  Reported(r) = Prefix(StagesUpTo(step[r] + 1))
<1>1. step[r] \in 0 .. 13 /\ step[r] + 1 \in 1 .. 14
  BY CallsLength DEF RunsInv, RunInv
<1>2. /\ reached[r] = Prefix(StagesUpTo(step[r]))
      /\ NextCall(r).stage = Stages[StageOfCall[step[r] + 1]]
      /\ StagesUpTo(step[r] + 1) = StageOfCall[step[r] + 1]
  BY <1>1, CallStages DEF ReachedInv, NextCall, StagesUpTo
<1>3. CASE step[r] = 0
  <2>1. Reported(r) = Append(reached[r], NextCall(r).stage)
    BY <1>3 DEF Reported
  <2>2. /\ reached[r] = Prefix(step[r]) /\ step[r] \in 0 .. 9
        /\ NextCall(r).stage = Stages[step[r] + 1] /\ StagesUpTo(step[r] + 1) = step[r] + 1
    BY <1>2, <1>3, StageOfCallBounds DEF StagesUpTo
  <2>3. Append(Prefix(step[r]), Stages[step[r] + 1]) = Prefix(step[r] + 1)
    BY <2>2, PrefixGrows
  <2>4. QED
    BY <2>1, <2>2, <2>3
<1>4. CASE step[r] # 0
  <2>1. /\ step[r] \in 1 .. 13 /\ step[r] > 0 /\ step[r] \in 1 .. 14
        /\ StagesUpTo(step[r]) = StageOfCall[step[r]]
        /\ Calls[step[r]].stage = Stages[StageOfCall[step[r]]]
    BY <1>1, <1>4, CallStages DEF StagesUpTo
  <2>2. /\ StageOfCall[step[r]] \in 1 .. 10 /\ StageOfCall[step[r] + 1] \in 1 .. 10
        /\ StageOfCall[step[r] + 1] \in {StageOfCall[step[r]], StageOfCall[step[r]] + 1}
    BY <1>1, <2>1, StageOfCallBounds
  <2>3. CASE StageOfCall[step[r] + 1] = StageOfCall[step[r]]
    BY <1>2, <2>1, <2>3 DEF Reported
  <2>4. CASE StageOfCall[step[r] + 1] = StageOfCall[step[r]] + 1
    <3>1. StageOfCall[step[r] + 1] # StageOfCall[step[r]] /\ StageOfCall[step[r]] \in 0 .. 9
      BY <2>2, <2>4
    <3>2. Reported(r) = Append(reached[r], NextCall(r).stage)
      BY <1>2, <2>1, <2>2, <3>1, DistinctNames DEF Reported
    <3>3. QED
      BY <1>2, <2>1, <2>4, <3>1, <3>2, PrefixGrows
  <2>5. QED
    BY <2>2, <2>3, <2>4
<1>5. QED
  BY <1>3, <1>4

LEMMA MakesAndReads ==
  /\ Calls[1].makes = Imported
  /\ Calls[2].makes = Original
  /\ Calls[3].makes = "issues_before" /\ Calls[3].reads = {Original}
  /\ Calls[4].makes = Mended
  /\ Calls[5].makes = "warnings_before" /\ Calls[5].reads = {Mended}
  /\ Calls[6].makes = Repaired
  /\ Calls[7].makes = "warnings_after" /\ Calls[7].reads = {Repaired}
  /\ Calls[8].makes = "male" /\ Calls[8].reads = {Repaired}
  /\ Calls[9].makes = "female" /\ Calls[9].reads = {Repaired}
  /\ Calls[10].makes = "marks" /\ Calls[10].reads = {Repaired}
  /\ Calls[11].makes = "relief" /\ Calls[11].reads = {Repaired}
  /\ Calls[12].makes = "preview"
  /\ Calls[12].reads = {Original, Repaired, "male", "female", "marks", "relief"}
  /\ Calls[13].makes = "dxf" /\ Calls[13].reads = {"preview"}
  /\ Calls[14].makes = "report"
  /\ Calls[14].reads = {"issues_before", Mended, "warnings_before", Repaired, "warnings_after"}
  BY DEF Calls, Engine, ValidatedAgain, Dies

\* What a call makes is about what the calls before it made.
LEMMA AboutSubject ==
  ASSUME RunsInv, NEW r \in Runs, DescribesInv(r), NEW n \in 1 .. 14, n = step[r] + 1
  PROVE  About(r, Calls[n]) = SubjectOfCall[n]
<1>1. step[r] \in Nat /\ \A k \in Nat : 1 <= k /\ k < n => describes[r][Calls[k].makes] = SubjectOfCall[k]
  BY CallsLength DEF RunsInv, DescribesInv
<1>2. CASE Calls[n].makes \in Versions
  <2>1. n \in {1, 2, 4, 6}
    BY <1>2, MakesAndReads DEF Versions, Imported, Original, Mended, Repaired
  <2>2. QED
    BY <1>2, <2>1, MakesAndReads DEF About, SubjectOfCall
<1>3. CASE Calls[n].makes \notin Versions
  <2>1. About(r, Calls[n]) = UNION {describes[r][p] : p \in Calls[n].reads}
    BY <1>3 DEF About
  <2>2. n \in {3, 5, 7, 8, 9, 10, 11, 12, 13, 14}
    BY <1>3, MakesAndReads DEF Versions
  <2>3. CASE n = 3
    BY <1>1, <2>1, <2>3, MakesAndReads DEF SubjectOfCall
  <2>5. CASE n = 5
    BY <1>1, <2>1, <2>5, MakesAndReads DEF SubjectOfCall
  <2>7. CASE n \in {7, 8, 9, 10, 11}
    <3>1. Calls[n].reads = {Repaired} /\ SubjectOfCall[n] = {Repaired}
      BY <2>7, MakesAndReads DEF SubjectOfCall
    <3>2. describes[r][Repaired] = {Repaired}
      BY <1>1, <2>7, MakesAndReads DEF SubjectOfCall
    <3>3. QED
      BY <2>1, <3>1, <3>2
  <2>12. CASE n = 12
    <3>1. /\ describes[r][Original] = {Original} /\ describes[r][Repaired] = {Repaired}
          /\ describes[r]["male"] = {Repaired} /\ describes[r]["female"] = {Repaired}
          /\ describes[r]["marks"] = {Repaired} /\ describes[r]["relief"] = {Repaired}
      BY <1>1, <2>12, MakesAndReads DEF SubjectOfCall
    <3>2. About(r, Calls[n]) = {Original, Repaired}
      BY <2>1, <2>12, <3>1, MakesAndReads
    <3>3. QED
      BY <2>12, <3>2 DEF SubjectOfCall
  <2>13. CASE n = 13
    BY <1>1, <2>1, <2>13, MakesAndReads DEF SubjectOfCall
  <2>14. CASE n = 14
    <3>1. /\ describes[r]["issues_before"] = {Original} /\ describes[r][Mended] = {Mended}
          /\ describes[r]["warnings_before"] = {Mended} /\ describes[r][Repaired] = {Repaired}
          /\ describes[r]["warnings_after"] = {Repaired}
      BY <1>1, <2>14, MakesAndReads DEF SubjectOfCall
    <3>2. About(r, Calls[n]) = {Original, Mended, Repaired}
      BY <2>1, <2>14, <3>1, MakesAndReads
    <3>3. QED
      BY <2>14, <3>2 DEF SubjectOfCall
  <2>15. QED
    BY <2>2, <2>3, <2>5, <2>7, <2>12, <2>13, <2>14
<1>4. QED
  BY <1>2, <1>3

LEMMA StartsNothing ==
  ASSUME RunsInv, ResultsInv, NEW r \in Runs, Enter(r) \/ LoadRules(r) \/ RulesRaise(r)
  PROVE  ResultsInv'
<1>1. PICK new \in RunStatuses \ {"idle", "returned"} :
          /\ status' = [status EXCEPT ![r] = new]
          /\ status[r] \in {"idle", "loading"}
          /\ step' = step /\ reached' = reached /\ describes' = describes
  BY DEF Enter, LoadRules, RulesRaise, Become, RunStatuses
<1>2. step[r] = 0 /\ reached[r] = <<>>
  BY <1>1 DEF RunsInv, RunInv
<1>3. \A q \in Runs : DescribesInv(q)'
  BY <1>1 DEF ResultsInv, DescribesInv
<1>4. ASSUME NEW q \in Runs PROVE ReachedInv(q)'
  <2>1. CASE q = r
    BY <1>1, <1>2, <2>1, PrefixGrows DEF RunsInv, ReachedInv, StagesUpTo
  <2>2. CASE q # r
    BY <1>1, <2>2 DEF RunsInv, ResultsInv, ReachedInv
  <2>3. QED
    BY <2>1, <2>2
<1>5. QED
  BY <1>1, <1>3, <1>4 DEF ResultsInv

LEMMA CallRaisesStep ==
  ASSUME RunsInv, ResultsInv, NEW r \in Runs, CallRaises(r)
  PROVE  ResultsInv'
<1>1. /\ status' = [status EXCEPT ![r] = "raised"]
      /\ status[r] = "calling"
      /\ reached' = [reached EXCEPT ![r] = Reported(r)]
      /\ step' = step /\ describes' = describes
  BY DEF CallRaises, Become
<1>2. Reported(r) = Prefix(StagesUpTo(step[r] + 1))
  BY <1>1, ReportedPrefix DEF ResultsInv
<1>3. \A q \in Runs : DescribesInv(q)'
  BY <1>1 DEF ResultsInv, DescribesInv
<1>4. ASSUME NEW q \in Runs PROVE ReachedInv(q)'
  <2>1. CASE q = r
    BY <1>1, <1>2, <2>1 DEF RunsInv, ReachedInv
  <2>2. CASE q # r
    BY <1>1, <2>2 DEF RunsInv, ResultsInv, ReachedInv
  <2>3. QED
    BY <2>1, <2>2
<1>5. QED
  BY <1>1, <1>3, <1>4 DEF ResultsInv

LEMMA SubjectsAreVersions == \A k \in 1 .. 14 : SubjectOfCall[k] \subseteq Versions
<1>1. Imported \in Versions /\ Original \in Versions /\ Mended \in Versions /\ Repaired \in Versions
  BY DEF Versions
<1>2. QED
  BY <1>1 DEF SubjectOfCall

LEMMA CallStep ==
  ASSUME RunsInv, ResultsInv, NEW r \in Runs, Call(r)
  PROVE  ResultsInv'
<1> DEFINE n == step[r] + 1
<1>1. step[r] \in 0 .. 13 /\ n \in 1 .. 14 /\ status[r] = "calling"
  BY CallsLength DEF RunsInv, RunInv, Call
<1>2. /\ status' = [status EXCEPT ![r] = IF n = Len(Calls) THEN "returned" ELSE "calling"]
      /\ reached' = [reached EXCEPT ![r] = Prefix(StagesUpTo(n))]
      /\ step' = [step EXCEPT ![r] = n]
      /\ describes' = [describes EXCEPT ![r][Calls[n].makes] = SubjectOfCall[n]]
  <2>1. Reported(r) = Prefix(StagesUpTo(n))
    BY <1>1, ReportedPrefix DEF ResultsInv
  <2>2. About(r, Calls[n]) = SubjectOfCall[n]
    BY <1>1, AboutSubject DEF ResultsInv
  <2>3. NextCall(r) = Calls[n]
    BY DEF NextCall
  <2>4. step' = [step EXCEPT ![r] = n]
    BY DEF Call
  <2>5. QED
    BY <2>1, <2>2, <2>3, <2>4 DEF Call, Become
<1> HIDE DEF n
<1>3. Calls[n].makes \in Results /\ SubjectOfCall[n] \subseteq Versions
  BY <1>1, CallsLength, SubjectsAreVersions DEF Results, Calls
<1>4. describes \in [Runs -> [Results -> SUBSET Versions]]
  BY DEF ResultsInv
<1>5. describes' \in [Runs -> [Results -> SUBSET Versions]]
  BY <1>2, <1>3, <1>4
<1>6. \A q \in Runs \ {r} : ReachedInv(q)' /\ DescribesInv(q)'
  BY <1>2, <1>4 DEF RunsInv, ResultsInv, ReachedInv, DescribesInv
<1>7. ReachedInv(r)'
  <2>1. step'[r] = n /\ reached'[r] = Prefix(StagesUpTo(n))
    BY <1>2 DEF RunsInv
  <2>2. status'[r] = IF n = 14 THEN "returned" ELSE "calling"
    BY <1>2, CallsLength DEF RunsInv
  <2>3. n = 14 => Prefix(StagesUpTo(n)) = Stages
    <3>1. n = 14 => StagesUpTo(n) = 10
      BY StageOfCallBounds DEF StagesUpTo
    <3>2. QED
      BY <3>1, PrefixGrows
  <2>4. QED
    BY <2>1, <2>2, <2>3, CallsLength DEF ReachedInv
<1>8. DescribesInv(r)'
  <2>1. ASSUME NEW k \in 1 .. n PROVE describes'[r][Calls[k].makes] = SubjectOfCall[k]
    <3>1. CASE k = n
      BY <1>2, <1>3, <1>4, <3>1
    <3>2. CASE k # n
      <4>1. k \in 1 .. 14 /\ k \in 1 .. step[r]
        BY <1>1, <3>2 DEF n
      <4>2. Calls[k].makes # Calls[n].makes
        BY <1>1, <3>2, <4>1, DistinctNames
      <4>3. describes[r][Calls[k].makes] = SubjectOfCall[k]
        BY <4>1 DEF ResultsInv, DescribesInv
      <4>4. QED
        BY <1>2, <1>4, <4>2, <4>3
    <3>3. QED
      BY <3>1, <3>2
  <2>2. step'[r] = n
    BY <1>2 DEF RunsInv
  <2>3. QED
    BY <2>1, <2>2 DEF DescribesInv
<1>9. QED
  BY <1>5, <1>6, <1>7, <1>8 DEF ResultsInv

(***************************************************************************)
(* The invariants of the drivers.                                          *)
(***************************************************************************)

\* What a step of either program does to the runs.
LEMMA StepsOfRuns ==
  ASSUME BatchInv, [Next]_vars
  PROVE  \/ \E r \in Runs : Enter(r) \/ Run(r)
         \/ UNCHANGED runVars
<1>1. CASE Suite
  <2>1. position \in 1 .. Artworks + 1 /\ utf8 \subseteq 1 .. Artworks
    BY DEF BatchInv, RowsInv
  <2>2. position <= Artworks => position \in Runs
    BY <2>1, RunsAssumption, ArtworksAssumption
  <2>3. position \in utf8 => position \in Runs
    BY <2>1, RunsAssumption
  <2>4. BatchNext
    BY <1>1 DEF Suite
  <2>5. QED
    BY <2>2, <2>3, <2>4 DEF BatchNext, ReadArtwork, UnreadableArtwork, RunArtwork, RecordPass,
       RecordFailure, ReturnRows
<1>2. CASE CommandLine
  BY <1>2 DEF CommandLine, CliNext, Process, StartProcess, Prepare, RunPipeline, ToOutput, OpenDxf,
     CloseDxf, OpenReport, CloseReport, Open, Close, Finish, Fail, Kill
<1>3. CASE UNCHANGED vars
  BY <1>3 DEF vars
<1>4. QED
  BY <1>1, <1>2, <1>3 DEF Next

LEMMA InitResultsInv == Init => ResultsInv
<1>1. SUFFICES ASSUME Init PROVE ResultsInv
  OBVIOUS
<1>2. /\ status = [r \in Runs |-> "idle"] /\ step = [r \in Runs |-> 0]
      /\ describes = [r \in Runs |-> [p \in Results |-> {}]]
  BY <1>1 DEF Init, RunInit
<1>3. QED
  BY <1>2 DEF ResultsInv, ReachedInv, DescribesInv

LEMMA NextKeepsResultsInv == BatchInv /\ ResultsInv /\ [Next]_vars => ResultsInv'
<1>1. SUFFICES ASSUME BatchInv, ResultsInv, [Next]_vars PROVE ResultsInv'
  OBVIOUS
<1>2. RunsInv
  BY <1>1 DEF BatchInv
<1>3. CASE \E r \in Runs : Enter(r) \/ Run(r)
  <2>1. PICK r \in Runs : Enter(r) \/ Run(r)
    BY <1>3
  <2>2. QED
    BY <1>1, <1>2, <2>1, StartsNothing, CallStep, CallRaisesStep DEF Run
<1>4. CASE UNCHANGED runVars
  BY <1>1, <1>4 DEF runVars, ResultsInv, ReachedInv, DescribesInv
<1>5. QED
  BY <1>1, <1>3, <1>4, StepsOfRuns

\* The stages reported and the results made follow the calls, in every state
\* and for any number of runs.
THEOREM ResultsInvariance == Spec => []ResultsInv
<1>1. QED
  BY InitResultsInv, NextKeepsResultsInv, BatchInvariance, PTL DEF Spec

\* The verdict of the report, every die and the DXF are about the geometry
\* repair_manufacturing made (orchestrator.py:160-215).
THEOREM ReportsDescribeTheDies == Spec => []ReportDescribesTheDies
<1>1. ASSUME ResultsInv PROVE ReportDescribesTheDies
  <2>1. ASSUME NEW r \in Runs, status[r] = "returned"
        PROVE  /\ \A d \in Dies : describes[r][d] = {Repaired}
               /\ describes[r]["warnings_after"] = {Repaired}
               /\ Repaired \in describes[r]["dxf"] \cap describes[r]["report"]
    <3>1. \A k \in 1 .. 14 : describes[r][Calls[k].makes] = SubjectOfCall[k]
      BY <1>1, <2>1, CallsLength DEF ResultsInv, ReachedInv, DescribesInv
    <3>2. /\ describes[r]["warnings_after"] = {Repaired}
          /\ describes[r]["male"] = {Repaired} /\ describes[r]["female"] = {Repaired}
          /\ describes[r]["marks"] = {Repaired} /\ describes[r]["relief"] = {Repaired}
          /\ describes[r]["dxf"] = {Original, Repaired}
          /\ describes[r]["report"] = {Original, Mended, Repaired}
      BY <3>1, MakesAndReads DEF SubjectOfCall
    <3>3. QED
      BY <3>2 DEF Dies
  <2>2. QED
    BY <2>1 DEF ReportDescribesTheDies
<1>2. QED
  BY <1>1, ResultsInvariance, PTL

LEMMA InitColumnsInv == Init => ColumnsInv
<1>1. Init => rows = <<>>
  BY DEF Init, BatchInit
<1>2. \A n \in 1 .. Len(<<>>) : FALSE
  OBVIOUS
<1>3. QED
  BY <1>1, <1>2 DEF ColumnsInv

LEMMA NextKeepsColumnsInv == BatchInv /\ ColumnsInv /\ [Next]_vars => ColumnsInv'
<1>1. SUFFICES ASSUME BatchInv, ColumnsInv, [Next]_vars PROVE ColumnsInv'
  OBVIOUS
<1>2. rows \in Seq(AnyRow) /\ Len(rows) \in Nat
  <2>1. rows \in Seq(AnyRow)
    BY <1>1 DEF BatchInv, RowsInv
  <2>2. QED
    BY <2>1
<1>3. CASE \E row : /\ rows' = Append(rows, row)
                    /\ row = PassRow(position) \/ row = FailRow(position)
  <2>1. PICK row : /\ rows' = Append(rows, row)
                   /\ row = PassRow(position) \/ row = FailRow(position)
    BY <1>3
  <2>2. row.columns = IF row.overall THEN [c \in Columns |-> "PASS"]
                      ELSE [c \in Columns |-> ColumnStatus(c, IndexOf(row.failed))]
    BY <2>1 DEF PassRow, FailRow
  <2>3. /\ Len(rows') = Len(rows) + 1 /\ rows'[Len(rows) + 1] = row
        /\ \A n \in 1 .. Len(rows) : rows'[n] = rows[n]
    BY <1>2, <2>1
  <2>4. QED
    BY <1>1, <1>2, <2>2, <2>3 DEF ColumnsInv
<1>4. CASE rows' = <<>>
  <2>1. \A n \in 1 .. Len(rows') : FALSE
    BY <1>4
  <2>2. QED
    BY <2>1 DEF ColumnsInv
<1>5. CASE rows' = rows
  BY <1>1, <1>5 DEF ColumnsInv
<1>6. \/ rows' \in {<<>>, rows}
      \/ rows' = Append(rows, PassRow(position)) \/ rows' = Append(rows, FailRow(position))
  BY <1>1 DEF Next, Suite, CommandLine, BatchNext, ReadArtwork, UnreadableArtwork, RunArtwork,
     RecordPass, RecordFailure, ReturnRows, batchVars, vars
<1>7. QED
  BY <1>3, <1>4, <1>5, <1>6

\* The columns of every row are those of the stage it blames.
THEOREM ColumnsInvariance == Spec => []ColumnsInv
<1>1. QED
  BY InitColumnsInv, NextKeepsColumnsInv, BatchInvariance, PTL DEF Spec

\* The stage a row is blamed on is where its run came to, even if the rules
\* could not be loaded and nothing had been reported.
LEMMA BlamedStage ==
  ASSUME RunsInv, ResultsInv, NEW r \in Runs, status[r] = "raised"
  PROVE  FailedStage(r) = NextCall(r).stage /\ step[r] \in 0 .. 13
<1>1. step[r] \in 0 .. 13
  BY CallsLength DEF RunsInv, RunInv
<1>2. CASE reached[r] # <<>>
  BY <1>1, <1>2, BlameStep
<1>3. CASE reached[r] = <<>>
  <2>1. step[r] = 0
    <3>1. SUFFICES ASSUME reached[r] = Prefix(StageOfCall[step[r] + 1]) PROVE FALSE
      BY <1>1 DEF ResultsInv, ReachedInv, StagesUpTo
    <3>2. PICK m \in 1 .. 10 : m = StageOfCall[step[r] + 1]
      BY <1>1, StageOfCallBounds
    <3>3. /\ m - 1 \in 0 .. 9 /\ (m - 1) + 1 = m
          /\ \A i \in 1 .. m : Stages[i] \in {Stages[j] : j \in StageIndices}
      BY <3>2, StagesSequence
    <3>4. Len(Prefix(m)) = m
      BY <3>3, SubSeqProperties DEF Prefix
    <3>5. QED
      BY <1>3, <3>1, <3>2, <3>4
  <2>2. FailedStage(r) = Stages[1] /\ NextCall(r) = Calls[1]
    BY <1>3, <2>1 DEF FailedStage, NextCall
  <2>3. QED
    BY <1>1, <2>2, CallStages, StageOfCallBounds
<1>4. QED
  BY <1>1, <1>2, <1>3

\* The columns of a failed row: those of the stage its run came to, or those of a
\* failed import if it came to none.
LEMMA ColumnsOfFailure ==
  ASSUME NEW c \in Columns, NEW failed \in 1 .. 10, NEW at \in {0, failed},
         at = 0 => failed = 1
  PROVE  ColumnTells(c, at, ColumnStatus(c, failed))
<1>1. /\ ColumnStages(c) \subseteq 1 .. 10
      /\ 1 \in ColumnStages(c) => c = "Import"
  BY StagesSequence DEF ColumnStages, StageColumns
<1>2. ColumnStatus(c, failed) =
        CASE failed \in ColumnStages(c) -> "FAIL"
          [] failed \notin ColumnStages(c) /\ (\E i \in ColumnStages(c) : i < failed) -> "PASS"
          [] OTHER -> "NOT REACHED"
  BY DEF ColumnStatus, ColumnStages
<1>3. CASE failed \in ColumnStages(c)
  BY <1>1, <1>2, <1>3 DEF ColumnTells
<1>4. CASE failed \notin ColumnStages(c) /\ \E i \in ColumnStages(c) : i < failed
  <2>1. PICK i \in ColumnStages(c) : i < failed
    BY <1>4
  <2>2. at = failed
    BY <1>1, <2>1
  <2>3. QED
    BY <1>2, <1>4, <2>1, <2>2 DEF ColumnTells
<1>5. CASE failed \notin ColumnStages(c) /\ ~\E i \in ColumnStages(c) : i < failed
  <2>1. ColumnStatus(c, failed) = "NOT REACHED"
    BY <1>2, <1>5
  <2>2. \A s \in ColumnStages(c) : s > failed
    BY <1>1, <1>5
  <2>3. \A s \in ColumnStages(c) : s > at
    BY <1>1, <2>2
  <2>4. QED
    BY <2>1, <2>3 DEF ColumnTells
<1>6. QED
  BY <1>3, <1>4, <1>5

\* How far the run behind a failed row came.
LEMMA StageOfFailure ==
  ASSUME RunsInv, ResultsInv, NEW r \in Runs, status[r] = "raised"
  PROVE  /\ IndexOf(FailedStage(r)) \in 1 .. 10
         /\ StageAt(r) = IF reached[r] = <<>> THEN 0 ELSE IndexOf(FailedStage(r))
         /\ reached[r] = <<>> => IndexOf(FailedStage(r)) = 1
<1>1. FailedStage(r) = NextCall(r).stage /\ step[r] \in 0 .. 13
  BY BlamedStage
<1>2. \E i \in 1 .. 10 : Stages[i] = NextCall(r).stage
  <2>1. step[r] + 1 \in 1 .. 14 /\ NextCall(r) = Calls[step[r] + 1]
    BY <1>1 DEF NextCall
  <2>2. Calls[step[r] + 1].stage = Stages[StageOfCall[step[r] + 1]]
    BY <2>1, CallStages
  <2>3. StageOfCall[step[r] + 1] \in 1 .. 10
    BY <2>1, StageOfCallBounds
  <2>4. QED
    BY <2>1, <2>2, <2>3
<1>3. IndexOf(FailedStage(r)) \in 1 .. 10
  BY <1>1, <1>2, StagesSequence DEF IndexOf
<1>4. step[r] < Len(Calls) /\ step[r] # Len(Calls)
  BY <1>1, CallsLength
<1>5. StageAt(r) = IF reached[r] = <<>> THEN 0 ELSE IndexOf(FailedStage(r))
  BY <1>1, <1>4 DEF StageAt
<1>6. ASSUME reached[r] = <<>> PROVE IndexOf(FailedStage(r)) = 1
  <2>1. FailedStage(r) = Stages[1]
    BY <1>6 DEF FailedStage
  <2>2. \A i \in 1 .. 10 : Stages[i] = Stages[1] => i = 1
    BY DistinctNames
  <2>3. QED
    BY <2>1, <2>2, StagesSequence DEF IndexOf
<1>7. QED
  BY <1>3, <1>5, <1>6

\* FAIL is said of the column of the stage that raised, NOT REACHED of columns
\* none of whose stages had begun and PASS of columns one of whose stages had
\* ended; only a run that had begun none is said to have failed in the import
\* (production_validation.py:105-121).
THEOREM ColumnsAccuseNobody == Spec => []ColumnsDoNotAccuse
<1>1. ASSUME BatchInv, ResultsInv, ColumnsInv PROVE ColumnsDoNotAccuse
  <2>1. SUFFICES ASSUME NEW n \in DOMAIN rows, NEW c \in Columns
                 PROVE  rows[n].file = n /\ ColumnTells(c, StageAt(n), rows[n].columns[c])
    BY DEF ColumnsDoNotAccuse
  <2>2. /\ n \in 1 .. Len(rows) /\ RowInv(n) /\ n \in Runs
    <3>1. rows \in Seq(AnyRow) /\ position \in 1 .. Artworks + 1
      BY <1>1 DEF BatchInv, RowsInv
    <3>2. n \in 1 .. Len(rows)
      BY <2>1, <3>1
    <3>3. RowInv(n)
      BY <1>1, <3>2 DEF BatchInv, RowsInv
    <3>4. QED
      BY <3>1, <3>2, <3>3, RunsAssumption, ArtworksAssumption DEF RowInv
  <2>3. CASE rows[n].overall
    <3>1. rows[n].columns[c] = "PASS" /\ rows[n].file = n /\ status[n] = "returned"
      <4>1. rows[n].columns = [d \in Columns |-> "PASS"]
        BY <1>1, <2>2, <2>3 DEF ColumnsInv
      <4>2. QED
        BY <2>1, <2>2, <2>3, <4>1 DEF RowInv
    <3>2. StageAt(n) = 11
      BY <1>1, <2>2, <3>1, StagesLength DEF ResultsInv, ReachedInv, StageAt
    <3>3. \E s \in ColumnStages(c) : s < 11
      <4>1. \E i \in 1 .. 10 : StageColumns[i] = c
        BY DEF Columns, StageColumns
      <4>2. QED
        BY <4>1, StagesSequence DEF ColumnStages
    <3>4. QED
      BY <3>1, <3>2, <3>3 DEF ColumnTells
  <2>4. CASE ~rows[n].overall
    <3>1. /\ rows[n].columns[c] = ColumnStatus(c, IndexOf(rows[n].failed))
          /\ rows[n].failed = FailedStage(n) /\ status[n] = "raised" /\ rows[n].file = n
      BY <1>1, <2>2, <2>4 DEF ColumnsInv, RowInv
    <3>2. /\ IndexOf(FailedStage(n)) \in 1 .. 10
          /\ StageAt(n) \in {0, IndexOf(FailedStage(n))}
          /\ StageAt(n) = 0 => IndexOf(FailedStage(n)) = 1
      BY <1>1, <2>2, <3>1, StageOfFailure DEF BatchInv
    <3>3. ColumnTells(c, StageAt(n), ColumnStatus(c, IndexOf(FailedStage(n))))
      BY <3>2, ColumnsOfFailure
    <3>4. rows[n].columns[c] = ColumnStatus(c, IndexOf(FailedStage(n)))
      BY <3>1
    <3>5. QED
      BY <3>1, <3>3, <3>4
  <2>5. QED
    BY <2>3, <2>4
<1>2. QED
  BY <1>1, BatchInvariance, ResultsInvariance, ColumnsInvariance, PTL
=============================================================================
