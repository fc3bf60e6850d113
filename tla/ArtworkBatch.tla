---------------------------- MODULE ArtworkBatch ----------------------------
(***************************************************************************)
(* The production validation suite: validate_artwork_directory reads the   *)
(* artworks of a directory in order, runs the orchestrator on each through *)
(* validate_single_artwork, which turns an exception into a row of the     *)
(* summary table, and returns the rows.                                    *)
(***************************************************************************)
EXTENDS Orchestrator

CONSTANT Artworks   \* how many *.svg files the directory holds

ASSUME ArtworksAssumption == Artworks \in Nat

Columns == {"Import", "Validation", "Repair", "Male", "Female", "Preview", "DXF", "Report"}

\* _STAGE_TO_COLUMN, in the order of Stages.
StageColumns == <<"Import", "Validation", "Repair", "Validation", "Repair", "Male",
                  "Female", "Preview", "DXF", "Report">>

StageIndices == 1 .. Len(Stages)
IndexOf(stage) == CHOOSE i \in StageIndices : Stages[i] = stage

NoStage == "none"

VARIABLES
    utf8,       \* which of the files decode as UTF-8
    position,   \* the file the loop is at
    rows,       \* results so far
    batch       \* is the loop going, has it returned, has it raised?

batchVars == <<utf8, position, rows, batch>>

Row == [file : 1 .. Artworks, columns : [Columns -> {"PASS", "FAIL", "NOT REACHED"}],
        overall : BOOLEAN, failed : {Stages[i] : i \in StageIndices} \cup {NoStage}]

BatchTypeOK ==
    /\ utf8 \in SUBSET (1 .. Artworks)
    /\ position \in 1 .. Artworks + 1
    /\ rows \in Seq(Row)
    /\ batch \in {"going", "returned", "raised"}

BatchInit ==
    /\ utf8 \in SUBSET (1 .. Artworks)
    /\ position = 1
    /\ rows = <<>>
    /\ batch = "going"

\* The loop's read_text, and the entry of run() for the file.
ReadArtwork ==
    /\ batch = "going"
    /\ position \in utf8
    /\ Enter(position)
    /\ UNCHANGED batchVars

\* Mutant: the file is skipped.
SkipUnreadable ==
    /\ batch = "going"
    /\ position \in 1 .. Artworks \ utf8
    /\ position' = position + 1
    /\ UNCHANGED <<utf8, rows, batch, runVars>>

\* UnicodeDecodeError is raised outside validate_single_artwork: the loop is
\* left with it and its results are gone.
UnreadableArtwork ==
    /\ batch = "going"
    /\ position \in 1 .. Artworks \ utf8
    /\ batch' = "raised"
    /\ rows' = <<>>
    /\ UNCHANGED <<utf8, position, runVars>>

RunArtwork ==
    /\ batch = "going"
    /\ position <= Artworks
    /\ Run(position)
    /\ UNCHANGED batchVars

PassRow(i) ==
    [file |-> i, columns |-> [c \in Columns |-> "PASS"], overall |-> TRUE, failed |-> NoStage]

\* "reached[-1] if reached else _STAGE_ORDER[0]"
FailedStage(i) ==
    IF reached[i] = <<>> THEN Stages[1] ELSE reached[i][Len(reached[i])]

\* Mutant: NOT REACHED is assigned, not defaulted.
ColumnOverwritten(column, failed) ==
    LET indices == {i \in StageIndices : StageColumns[i] = column} IN
    CASE \E i \in indices : i > failed -> "NOT REACHED"
      [] failed \in indices -> "FAIL"
      [] OTHER -> "PASS"

\* What the loop over the stages leaves in a column: PASS and FAIL overwrite,
\* NOT REACHED is set by setdefault.
ColumnStatus(column, failed) ==
    LET indices == {i \in StageIndices : StageColumns[i] = column} IN
    CASE failed \in indices -> "FAIL"
      [] failed \notin indices /\ (\E i \in indices : i < failed) -> "PASS"
      [] OTHER -> "NOT REACHED"

FailRow(i) ==
    [file |-> i, overall |-> FALSE, failed |-> FailedStage(i),
     columns |-> [c \in Columns |-> ColumnStatus(c, IndexOf(FailedStage(i)))]]

RecordPass ==
    /\ batch = "going"
    /\ position <= Artworks
    /\ status[position] = "returned"
    /\ rows' = Append(rows, PassRow(position))
    /\ position' = position + 1
    /\ UNCHANGED <<utf8, batch, runVars>>

\* The except clause of validate_single_artwork.
RecordFailure ==
    /\ batch = "going"
    /\ position <= Artworks
    /\ status[position] = "raised"
    /\ rows' = Append(rows, FailRow(position))
    /\ position' = position + 1
    /\ UNCHANGED <<utf8, batch, runVars>>

ReturnRows ==
    /\ batch = "going"
    /\ position = Artworks + 1
    /\ batch' = "returned"
    /\ UNCHANGED <<utf8, position, rows, runVars>>

BatchNext ==
    \/ ReadArtwork
    \/ UnreadableArtwork
    \/ RunArtwork
    \/ RecordPass
    \/ RecordFailure
    \/ ReturnRows

(***************************************************************************)
(* Properties.                                                             *)
(***************************************************************************)
ColumnStages(c) == {i \in StageIndices : StageColumns[i] = c}

\* How far the run of a file came: 0 if no stage had begun, since the rules were
\* not loaded; the stage of the call that was next; or one more than there are
\* stages.
StageAt(i) ==
    CASE step[i] = Len(Calls) -> Len(Stages) + 1
      [] step[i] < Len(Calls) /\ reached[i] = <<>> -> 0
      [] OTHER -> IndexOf(NextCall(i).stage)

\* What validate_artwork_directory returns has one row for every file, in order,
\* and a row passed exactly if its run returned (production_validation.py:141-145).
OneRowPerArtwork ==
    batch = "returned" =>
        /\ Len(rows) = Artworks
        /\ \A i \in 1 .. Artworks :
            rows[i].file = i /\ (rows[i].overall <=> status[i] = "returned")

\* The stage a failure is reported for is the one whose call raised, provided
\* the rules were loaded.
FailureNamesItsStage ==
    \A n \in DOMAIN rows :
        LET i == rows[n].file IN
        ~rows[n].overall /\ reached[i] # <<>> => rows[n].failed = NextCall(i).stage

\* What column c may say of a run that came to stage `at`.
ColumnTells(c, at, said) ==
    /\ said = "FAIL" => at \in ColumnStages(c) \/ (at = 0 /\ c = "Import")
    /\ said = "NOT REACHED" => \A s \in ColumnStages(c) : s > at
    /\ said = "PASS" => \E s \in ColumnStages(c) : s < at

\* A column says FAIL if its stage raised, NOT REACHED if none of its stages had
\* begun and PASS if one of them had ended, with one exception: of a run that
\* raised before any stage, the row says that the import failed ("else
\* _STAGE_ORDER[0]", production_validation.py:105-116).
ColumnsDoNotAccuse ==
    \A n \in DOMAIN rows, c \in Columns :
        ColumnTells(c, StageAt(rows[n].file), rows[n].columns[c])
=============================================================================
