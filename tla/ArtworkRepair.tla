---------------------------- MODULE ArtworkRepair ----------------------------
(***************************************************************************)
(* One artwork on its way from import to the dies: the orchestrator's      *)
(* geometry, repair and die stages, each as one step on the compound path  *)
(* the stage before it has made.  Every version stays, as it does in the   *)
(* orchestrator's locals, so that the properties compare them.             *)
(***************************************************************************)
EXTENDS PathRepair, DieOutline

CONSTANTS
    Artworks,   \* the compound paths an import may deliver
    Samples     \* points at which the properties look whether the shape is filled

Points == [x : Int, y : Int]
Segments == [kind : {"line", "bezier", "arc"}, start : Points, via : Seq(Points), end : Points]
Paths == [segments : Seq(Segments), closed : BOOLEAN]

ASSUME ArtworksAssumption == Artworks \subseteq Seq(Paths)

VARIABLES
    stage,      \* the next stage, or how the run ended
    artwork,    \* `original`
    issues,     \* structural issues before repair, per subpath
    mended,     \* `geometry_repaired`
    warnings,   \* manufacturing warnings before repair
    cleaned, merged, rounded,   \* repair_manufacturing's `current`, pass by pass
    repaired    \* `repaired`

vars == <<stage, artwork, issues, mended, warnings, cleaned, merged, rounded, repaired>>

Stages == {"validate", "mend", "warn", "clean", "merge", "round", "widen", "dies",
           "made", "failed"}

TypeOK ==
    /\ stage \in Stages
    /\ artwork \in Artworks
    /\ issues \in Seq(SUBSET IssueTypes)
    /\ \A i \in DOMAIN mended : mended[i].closed = artwork[i].closed
    /\ \A w \in warnings : w[2] \in DOMAIN mended
    /\ {Len(c) : c \in {cleaned, merged, rounded, repaired}} \subseteq 0 .. Len(artwork)

Init ==
    /\ stage = "validate"
    /\ artwork \in Artworks
    /\ issues = <<>>
    /\ mended = <<>>
    /\ warnings = {}
    /\ cleaned = <<>>
    /\ merged = <<>>
    /\ rounded = <<>>
    /\ repaired = <<>>

Advance(from, to) == stage = from /\ stage' = to

ValidateStructure ==
    /\ Advance("validate", "mend")
    /\ issues' = ValidateCompound(artwork)
    /\ UNCHANGED <<artwork, mended, warnings, cleaned, merged, rounded, repaired>>

MendGeometry ==
    /\ Advance("mend", "warn")
    /\ mended' = RepairGeometry(artwork)
    /\ UNCHANGED <<artwork, issues, warnings, cleaned, merged, rounded, repaired>>

ValidateManufacturing ==
    /\ Advance("warn", "clean")
    /\ warnings' = ManufacturingWarnings(mended)
    /\ UNCHANGED <<artwork, issues, mended, cleaned, merged, rounded, repaired>>

CleanHoles ==
    /\ Advance("clean", "merge")
    /\ cleaned' = RemoveTinyHoles(mended)
    /\ UNCHANGED <<artwork, issues, mended, warnings, merged, rounded, repaired>>

MergeIslands ==
    /\ Advance("merge", "round")
    /\ merged' = MergeTinyIslands(cleaned)
    /\ UNCHANGED <<artwork, issues, mended, warnings, cleaned, rounded, repaired>>

RoundCorners ==
    /\ Advance("round", "widen")
    /\ rounded' = RoundSharpCorners(merged)
    /\ UNCHANGED <<artwork, issues, mended, warnings, cleaned, merged, repaired>>

WidenBridges ==
    /\ Advance("widen", "dies")
    /\ repaired' = WidenWeakBridges(rounded)
    /\ UNCHANGED <<artwork, issues, mended, warnings, cleaned, merged, rounded>>

\* generate_male, generate_female and generate_relief offset every subpath; the
\* first that is no ring raises ValueError and ends the run.
GenerateDies ==
    /\ IF GenerateDieSucceeds(repaired) THEN Advance("dies", "made") ELSE Advance("dies", "failed")
    /\ UNCHANGED <<artwork, issues, mended, warnings, cleaned, merged, rounded, repaired>>

Next ==
    \/ ValidateStructure \/ MendGeometry \/ ValidateManufacturing
    \/ CleanHoles \/ MergeIslands \/ RoundCorners \/ WidenBridges
    \/ GenerateDies

Spec == Init /\ [][Next]_vars
-----------------------------------------------------------------------------
(* Properties. *)

Mended == stage \notin {"validate", "mend"}
Merged == stage \in {"round", "widen", "dies", "made", "failed"}
Rounded == stage \in {"widen", "dies", "made", "failed"}
Ended == stage \in {"made", "failed"}

Rings(compound) == [i \in DOMAIN compound |-> Ring(compound[i])]

Returns(path) == Last(path.segments).end = Head(path.segments).start

\* A run that ends in the die generator was given artwork that the structural
\* validation, which does not stop the run, had reported, or a path that ends beside
\* its start, within the tolerance, so that closing the gap may leave a sliver of two
\* corners: sound artwork always gets its dies (offset_points' ValueError, offset.py:73).
SoundArtworkGetsDies ==
    stage = "failed" =>
        \E i \in DOMAIN artwork : issues[i] # {} \/ ~Returns(artwork[i])

\* Repairing the geometry keeps what the even-odd rule fills, whatever it removes,
\* closes and reverses; the nonzero rule's filling it does not keep.
MendKeepsTheFilling ==
    Mended => \A p \in Samples :
        PointInCompound(p, Rings(mended), "evenodd") = PointInCompound(p, Rings(artwork), "evenodd")

\* What the artwork cut out of its outline is still a hole after the geometry
\* repair (model.py:131-134: "an outer Path plus an inner hole Path with opposite
\* winding").  The code breaks it: each subpath is wound the same way.
HolesStayHoles ==
    Mended => \A i \in DOMAIN artwork : IsHole(Rings(artwork), i) => IsHole(Rings(mended), i)

\* What the geometry repair leaves as it was, but for its direction.
Tidy(path) ==
    LET ends(i) == {path.segments[i].start, path.segments[i].end}
    IN  /\ path.closed
        /\ \A i \in DOMAIN path.segments :
              ~ZeroLength(path.segments[i]) /\ \A p \in ends(i) : RoundPoint(p) = p
        /\ \A i \in 1 .. Len(path.segments) - 1 :
              path.segments[i].end = path.segments[i + 1].start

\* Which is why remove_tiny_holes leaves the holes of tidy artwork alone: what is
\* missing from its result was open, or of an outline that cleaning or rounding can
\* turn over, or it lies in such a one.
OnlyUntidyHolesAreRemoved ==
    Merged => \A i \in DOMAIN mended : mended[i] \in Range(cleaned)
        \/ \E j \in DOMAIN mended : ~Tidy(artwork[j]) /\ (j = i \/ LiesIn(Rings(mended), i, j))

\* Merging islands through keyholes neither adds nor loses area: the slit has none,
\* and the island keeps its own.
MergingKeepsTheArea ==
    LET total(compound) ==
            LET area(i) == DoubledArea(Ring(compound[i])) IN MapThenSumSet(area, DOMAIN compound)
    IN  Merged => total(merged) = total(cleaned)

\* A tiny island that is still loose after merging was out of reach of the main
\* body as it was before any island had been merged into it.
LooseIslandsAreOutOfReach ==
    Merged => LET infos == ClassifySubpaths(cleaned)
                  body == MainBody(infos)
              IN  \A i \in Range(infos) \ {body} :
                      (Tiny(i) /\ ~i.hole /\ cleaned[i.index] \in Range(merged)) =>
                      \A p \in Range(body.ring), q \in Range(i.ring) : ~Within(p, q, MergeRadius)

\* After rounding, consecutive segments of a polygon meet, and its end meets its
\* start unless its first corner is one of those rounded: then the last edge still
\* runs to the corner the fillet has cut off (repair.py:198-199).
OnlyTheFirstCornerGapes ==
    Rounded => \A k \in DOMAIN merged :
        LET before == merged[k]
            after == rounded[k].segments
        IN  before.closed /\ Len(before.segments) >= 3 /\ AllLines(before) =>
                /\ \A i \in 1 .. Len(after) - 1 : after[i].end = after[i + 1].start
                /\ (Last(after).end # Head(after).start) <=>
                       after[1].kind = "arc" /\ after[1].start # At(before.segments[1].start)

\* The two edges of the neck that is pushed open are farther apart than before,
\* though they need not reach the minimum, and the shape beside them may be narrower
\* for it (repair.py:220-227): of edges at the same distance the first pair is
\* pushed, which may be one that only meets the neck (repair.py:242-260).
PushedEdgesPart ==
    LET corners(path) == [i \in DOMAIN path.segments |-> path.segments[i].start.corner]
    IN  Ended => \A k \in DOMAIN rounded : repaired[k] # rounded[k] =>
            LET after == corners(repaired[k])
                neck == MinSelfDistance(corners(rounded[k]))
            IN  EdgeDistance(after, neck.i, after, neck.j) > neck.distance
=============================================================================
