---------------------------- MODULE Orchestrator ----------------------------
(***************************************************************************)
(* core.orchestration.orchestrator.run: the ten stages of the              *)
(* manufacturing pipeline as the sequence of engine calls they consist of. *)
(* A run is the activation of run() for one artwork; the drivers (the      *)
(* validation suite, the command line) start it and see how it ends.       *)
(*                                                                         *)
(* An engine call is atomic and may raise.  What it computes is reduced to *)
(* the versions of the geometry it is about: the import, the geometry      *)
(* repair and the manufacturing repair each make a new version, and what   *)
(* is checked, cut or reported describes the versions it was computed from.*)
(***************************************************************************)
EXTENDS Naturals, Sequences

CONSTANT Runs

Stages == <<"svg_import", "geometry_validation", "geometry_repair",
            "manufacturing_validation", "manufacturing_repair", "male_generator",
            "female_generator", "preview_generator", "dxf_export", "validation_report">>

Imported == "imported"          \* svg_to_neutral
Original == "original"          \* neutral_to_shape
Mended == "geometry_repaired"   \* repair_geometry
Repaired == "repaired"          \* repair_manufacturing
Versions == {Imported, Original, Mended, Repaired}
Dies == {"male", "female", "marks", "relief"}

Engine(stage, reads, makes) == [stage |-> stage, reads |-> reads, makes |-> makes]

\* Mutant: the warnings that decide "passed" are those of the unrepaired outline.
SecondValidationReads == {Mended}

\* validate_manufacturing(repaired, rule_set)
ValidatedAgain == {Repaired}

\* The calls of run(), in order: the stage reported last before the call, the
\* results it takes and the one it makes.  Neighbours that differ in nothing
\* here (the bounding box and the two kinds of marks) are one call.
Calls == <<
    Engine("svg_import", {}, Imported),
    Engine("svg_import", {Imported}, Original),
    Engine("geometry_validation", {Original}, "issues_before"),
    Engine("geometry_repair", {Original}, Mended),
    Engine("manufacturing_validation", {Mended}, "warnings_before"),
    Engine("manufacturing_repair", {Mended}, Repaired),
    Engine("manufacturing_repair", ValidatedAgain, "warnings_after"),
    Engine("male_generator", {Repaired}, "male"),
    Engine("female_generator", {Repaired}, "female"),
    Engine("female_generator", {Repaired}, "marks"),
    Engine("female_generator", {Repaired}, "relief"),
    Engine("preview_generator", {Original, Repaired} \cup Dies, "preview"),
    Engine("dxf_export", {"preview"}, "dxf"),
    Engine("validation_report", {"issues_before", Mended, "warnings_before", Repaired,
                                 "warnings_after"}, "report")>>

Results == {Calls[i].makes : i \in DOMAIN Calls}

VARIABLES
    status,     \* of each run: has run() been entered, has it returned, raised?
    step,       \* how many calls have returned
    reached,    \* the stages passed to on_progress so far
    describes   \* for each result of a run, the versions it is about

runVars == <<status, step, reached, describes>>

RunTypeOK ==
    /\ status \in [Runs -> {"idle", "loading", "calling", "returned", "raised"}]
    /\ step \in [Runs -> 0 .. Len(Calls)]
    /\ reached \in [Runs -> {SubSeq(Stages, 1, n) : n \in 0 .. Len(Stages)}]
    /\ describes \in [Runs -> [Results -> SUBSET Versions]]

RunInit ==
    /\ status = [r \in Runs |-> "idle"]
    /\ step = [r \in Runs |-> 0]
    /\ reached = [r \in Runs |-> <<>>]
    /\ describes = [r \in Runs |-> [p \in Results |-> {}]]

Become(r, new) == status' = [status EXCEPT ![r] = new]

\* run() is entered.
Enter(r) ==
    /\ status[r] = "idle"
    /\ Become(r, "loading")
    /\ UNCHANGED <<step, reached, describes>>

\* "rule_set or RuleSet.load_default()"
LoadRules(r) ==
    /\ status[r] = "loading"
    /\ Become(r, "calling")
    /\ UNCHANGED <<step, reached, describes>>

NextCall(r) == Calls[step[r] + 1]

\* Mutant: on_progress is called before every engine call.
ReportedEachCall(r) == Append(reached[r], NextCall(r).stage)

\* Mutant: on_progress is called when the stage has been completed.
ReportedLate(r) ==
    IF step[r] > 0 /\ Calls[step[r]].stage # NextCall(r).stage
    THEN Append(reached[r], Calls[step[r]].stage)
    ELSE reached[r]

\* report(stage), before the first call of each stage.
Reported(r) ==
    IF step[r] > 0 /\ Calls[step[r]].stage = NextCall(r).stage
    THEN reached[r]
    ELSE Append(reached[r], NextCall(r).stage)

\* The versions a call's result is about.
About(r, c) ==
    IF c.makes \in Versions THEN {c.makes}
    ELSE UNION {describes[r][p] : p \in c.reads}

\* The next engine call, with the report of its stage; the last one returns.
Call(r) ==
    /\ status[r] = "calling"
    /\ reached' = [reached EXCEPT ![r] = Reported(r)]
    /\ describes' = [describes EXCEPT ![r][NextCall(r).makes] = About(r, NextCall(r))]
    /\ step' = [step EXCEPT ![r] = @ + 1]
    /\ Become(r, IF step[r] + 1 = Len(Calls) THEN "returned" ELSE "calling")

\* The next engine call raises, and so does run().
CallRaises(r) ==
    /\ status[r] = "calling"
    /\ reached' = [reached EXCEPT ![r] = Reported(r)]
    /\ Become(r, "raised")
    /\ UNCHANGED <<step, describes>>

\* The rule file is missing, incomplete or no number: before any report.
RulesRaise(r) ==
    /\ status[r] = "loading"
    /\ Become(r, "raised")
    /\ UNCHANGED <<step, reached, describes>>

Run(r) == LoadRules(r) \/ RulesRaise(r) \/ Call(r) \/ CallRaises(r)

(***************************************************************************)
(* Properties of a run, whatever the driver.                               *)
(***************************************************************************)

\* The "passed" of the report is about the geometry the dies were cut from:
\* warnings_after, every die and the DXF agree on the version.
ReportDescribesTheDies ==
    \A r \in Runs : status[r] = "returned" =>
        /\ \A d \in Dies : describes[r][d] = describes[r]["warnings_after"]
        /\ describes[r]["warnings_after"] \subseteq
               describes[r]["dxf"] \cap describes[r]["report"]
=============================================================================
