# TLA+ models of the PMS Core

This directory specifies the Paul Manufacturing Suite (PMS) Core in TLA+: what its
components do, which properties make them correct, what TLC finds on small
instances, and what TLAPS proves for every size. Paths below are relative to the
repository root (`src/` in `PROJECT.json`); TDD is
`docs/TechnicalDesignDocument_v1.md`.

`PROJECT.json` lists the components, the runs, the source lines every definition
models, the mutations each property is known to detect, the hazards, the
disagreements found, and the theorems.

## 1. The system and its inventory

Two programs share the code. The **Core process** (`core/api/server.py`) is a
local HTTP server that Adapters use through `CoreClient`; it validates
and stores submitted jobs. The **pipeline** (`core/orchestration`) turns SVG
artwork into the male and female die outlines and a DXF; it is driven by the
command line and by the production validation suite. The two do not call each
other yet: queue, workflow and plugin engines, and the products, exist only as documents.

| Component | State | Operations | Talks to | Hard about it |
|---|---|---|---|---|
| `CoreClient` (`adapters/coreldraw/reference_client`) | per call: key, token, attempt | `submit_job`, retry loop of `_request` | Core, by HTTP | a timeout says nothing about the Core; retries overlap |
| Request threads (`ThreadingWSGIServer`, `CoreApp`) | per request: route, reply | authenticate, replay, route, read, invoke, remember | both stores, auth, errors | one thread per request; three critical sections, no lock across them |
| `IdempotencyStore` | key → response, in memory | `get`, `put` | request threads | check and put are apart; `put` overwrites; lost on restart |
| `InMemoryJobStore` | job id → record, in memory | `create`, `get` | `create_job` | lost on restart |
| Core process (`server.py`, `auth.py`) | token file, port, running | start, serve, stop | Adapters read the token file | token written before the bind; shutdown race |
| Wire format (`core/geometry`) | none | validate, deserialise, round trip | `create_job` | the validator accepts what the deserialiser refuses |
| Orchestrator | local variables of `run()` | ten stages | engines, `on_progress` | four versions of the geometry are live at once |
| Validation suite | rows of the batch | loop, row per artwork | orchestrator | failure isolation; two stages in one column |
| Command line | output directory | one process per run | orchestrator, file system | crash between two files; two processes in one directory |
| Geometry engine | none (pure) | repair, winding, offset, bounds, ... | orchestrator | repairs undo what later steps rely on |
| Manufacturing engine | rule set | validate, repair, dies, preview | orchestrator | order of the repairs |
| SVG, neutral, DXF I/O | scanner position | parse, compose transforms, emit | orchestrator | order of composition, progress of the scanner |
| Event bus | handler lists | subscribe, publish | (no caller yet) | handlers that subscribe or publish |
| Configuration, logging, exceptions | merged config; handlers | load; log | everything | sequential |

What makes each correct:

* **Job submission.** A call is answered with a job of its own key; a remembered
  response names a stored job; an error leaves no job; a key is executed once; a
  call ends; a stored job becomes replayable.
* **Dispatch.** Authentication before anything else; no replay of errors; every
  error in the envelope; the correlation id echoed; a 2xx of `/v1/jobs` names a job.
* **Pipeline.** The report and the dies are about the same geometry; a failure is
  reported for the stage that failed; one artwork cannot spoil the others; exit
  code 0 means that both output files are there, whole and of one run.
* **Core process.** Whoever is configured like the Core that serves finds that
  Core at the port and its token in the file; an interrupted Core exits.
* **Wire format and configuration.** What an adapter sends comes back as it was;
  every setting follows the precedence environment, file, default.
* **Repair and dies.** What was filled stays filled; holes stay holes; sound artwork
  always gets its dies; no pass leaves damage that is not accounted for.
* **SVG import.** The scanner ends and makes chains of segments; every drawing is drawn
  once, in document order and where the transforms around it put it; paths survive the
  trip through the wire format.

## 2. Modules

| Module | Models | Notes |
|---|---|---|
| `JobSubmission` | `core_client.py`, `app.py`, `idempotency.py`, `store.py`, `server.py`, end to end | interleaving, timeouts, restarts |
| `JobLedger` | the promise of the idempotency contract (TDD 4.3, `idempotency.py:1-9`) | abstract specification |
| `MCJobSubmission` | | symmetry for TLC |
| `JobSubmissionProofs` | | theorems about `JobSubmission` |
| `WireFormat` | `core/geometry`: models, validator, deserialiser, serialiser, `assert_round_trip` | operators on JSON values |
| `ApiDispatch` | `CoreApp._dispatch`, sequentially, for every kind of request | extends `WireFormat` |
| `MCApiDispatch` | | the documents a client may send |
| `DispatchProofs` | | theorems about `ApiDispatch` |
| `ConfigLoader` | `ConfigLoader.load`, `defaults.py`, `schema.py` | operators; extends `WireFormat` |
| `CoreHost` | `server.py` `main()`, `serve_forever`, `shutdown`, `auth.py` | processes on one machine; extends `ConfigLoader` |
| `MCCoreHost` | | contents of `config.yaml` and environments |
| `HostProofs` | | theorems about `ConfigLoader` and `CoreHost` |
| `Orchestrator` | `orchestrator.run()`, `RuleSet.load` | engine calls that may raise |
| `ArtworkBatch` | `validate_artwork_directory`, `validate_single_artwork` | extends `Orchestrator` |
| `PipelineCli` | `tools/run_svg_pipeline.py` | extends `Orchestrator`; processes, kills, shared directory |
| `Pipeline` | the two drivers | composes the three modules above |
| `BatchProofs`, `PipelineProofs` | | theorems about `Pipeline` and `Orchestrator` |
| `Polygons` | `model.py`, `winding.py`, `flatten.py` on integers | points, paths, area, fill rules |
| `PathRepair` | `geometry/validation.py`, `boolean_prep.py`, `geometry/repair.py` | extends `Polygons` |
| `OutlineAnalysis` | `analysis_utils.py` | holes, necks, sharp corners |
| `DieOutline` | `manufacturing/validator.py`, `manufacturing/repair.py`, the refusals of `offset.py` | extends `OutlineAnalysis` |
| `ArtworkRepair` | the orchestrator's geometry, repair and die stages on one artwork | composes `PathRepair` and `DieOutline` |
| `MCArtworkRepair` | | a catalogue of small outlines |
| `RepairProofs` | | theorems about `ArtworkRepair` |
| `AffineTransform` | `transform.py`, arcs of `model.py` and `flatten.py` | extends `Polygons` |
| `SvgScanner` | `svg_io._parse_path_d` | one action per kind of command |
| `SvgElements` | transform lists, units and basic shapes of `svg_io.py` | extends `SvgScanner` |
| `NeutralIo` | `neutral_io.py` | segments to nodes and back |
| `SvgImport` | `svg_to_neutral` as a whole | composes `SvgElements` and `NeutralIo` |
| `MCSvgImport` | | commands and documents |
| `SvgProofs` | | theorems about `SvgImport` |
| `SequenceLemmas` | | folds, flattening, sums and greatest elements, for the proofs |

### JobSubmission

A request is a pair `<<call, attempt>>`: the Core gives each a thread of its own,
and a job is named by the request that created it (its id is a fresh uuid). The
state of a thread is the critical section it is about to enter:

| `thread[r]` | next action | code |
|---|---|---|
| `sent` | `Dispatch`: token check and `IdempotencyStore.get` | `app.py:97-104` |
| `invoke` | `Invoke`: validation, deserialisation, `InMemoryJobStore.create` | `routes_jobs.py:13-43` |
| `put` | `PutResponse`: `IdempotencyStore.put` | `app.py:117-118` |
| `respond` | `Respond`: the response is written | `app.py:72-87` |
| `answered`, `dead` | none | |

Several code steps are one action where no other thread can see the difference:
the token never changes within a process, and `create_job` touches shared state
once. A client may take `RetryAfterException` at any moment it waits, since a read
timeout does not depend on what the Core does; the old request lives on. `StopCore` empties both stores (they are
in memory) and resets the connections; `StartCore` begins a new lifetime, whose
number stands for the token. A payload is one of three: valid, rejected by the
validator, or accepted by it and refused by `geometry_from_dict` (`"loose"`, a 500).
`Overlapping = FALSE` restricts the environment: no attempt is sent
while another request of the key is at work. It is an assumption, not
something the code enforces, and it separates what holds anyway from
what holds only then. `lost` and `resubmits` are history variables that no guard
of the program reads.

### WireFormat and ApiDispatch

A JSON value is a record tagged with its type, a dataclass a record whose leaves are
the values they were read from. `ValidGeometry`, `Parses`, `GeometryFromDict`
and `GeometryToDict` walk the document as the four functions of the code do, each
by itself: what one of them forgets shows as a document on which they disagree.

One request per step, of every method, path, key, correlation id, authorization
and document; the seven disjuncts of `Dispatch` are the exits of `_dispatch` in
the order of the code, each with the response and what it leaves in both stores.
`strayed` and the document kept beside a job are history. Logging is left out.

### ConfigLoader and CoreHost

`Merged` overlays the file over the defaults, `WithEnvironment` the environment over
both, and `LoadRaises` is every way in which the merge, a cast or a dataclass
raises. `Over(f, g)` is the update of one dictionary by another.

`CoreHost` is `main()` of `server.py` statement by statement, for any number of
processes. `stage[p]` is the statement a process has reached:

| `stage[p]` | next action | code |
|---|---|---|
| `off` | `Start` | `ConfigLoader.load`, `LogWriter()` |
| `checking` | `CheckHost` | the assertion on `bind_host` |
| `opening`, `writing` | `OpenToken` or `TokenUnwritable`, `WriteToken` | `generate_and_persist`: `write_text` truncates, then writes |
| `binding` | `Bind` | `make_server` |
| `announcing`, `entering` | `Announce`, `EnterLoop` | the prints; up to the loop inside `serve_forever` |
| `serving` | none but `Interrupt` | the loop |
| `stopping` | `Stop` | `shutdown()` waits for the event that the loop sets when it is left |
| `closing`, `closingLog` | `CloseServer`, `CloseLog` | the two `finally` blocks |

`Interrupt` is Ctrl+C at any of these, `Kill` the end of the process by the operating
system. A port belongs to one process at a time, as on POSIX; on Windows
`SO_REUSEADDR` would let two share it. `alone` and `entered` are history.

### Orchestrator, ArtworkBatch, PipelineCli, Pipeline

`Calls` is the straight-line code of `run()` as a table: the stage reported before
each engine call, the results it takes and the one it makes. `Call` performs the
next one, `CallRaises` lets it raise, `Reported` is the `report(stage)` in front of
a stage's first call. `describes` follows the versions of the geometry (imported,
original, geometry-repaired, manufacturing-repaired) from each call to the next.
`RulesRaise` is the failure of `RuleSet.load_default()`, before any report.

`ArtworkBatch` is the loop of the suite. A file that does not decode
(`UnreadableArtwork`) raises out of the loop, since it is read outside
`validate_single_artwork`; `FailRow` and `ColumnStatus` are the except clause.

`PipelineCli` gives every run a process. `write_text` is two steps, opening (which
truncates) and closing; a process may fail or be killed between any two steps.
When two processes write at once, the file that is closed may be a mixture
(`Absent`, of no run); `rivals` is the history of the runs this could happen to.
Every process here has the same `--output`: other directories do not interact. The
exit code 2 of a wrong command line, before anything happened, is left out. The
preview is not serialised by the present `ManufacturingPreview` (it has none of
the three methods), so there are two output files.

`Pipeline` lets a behaviour be one of the suite or of the command line (`driver`).

### PathRepair, DieOutline, ArtworkRepair

Coordinates are integers, so that comparisons are exact. A segment is a line or a
curve given by its corners; `repair_path` is the composition of its five passes
(duplicates, zero-length segments, gaps, winding, rounding) per subpath.
Distances in `OutlineAnalysis` are in tenths of a unit, rounded up. `ArtworkRepair`
runs the passes as steps on one compound path and keeps every version, as the
locals of `run()` do, so that properties compare the versions. The die stage is the
condition on which `offset_points` raises. `Artworks` is any set of compound paths
(`ArtworksAssumption`).

### SvgScanner, SvgImport

The variables of the scanner are the locals of `_parse_path_d`; every turn of its loop is
one action, for the command letter ahead or, if a number is ahead, the last command.
`SvgImport` is the recursion of `_walk` with its stack (`pending`), the scan of the path
that is met, the scaling to millimetres, validation and conversion. `Documents` is a function
from families of documents to their trees; what a tree and a unit may be is said by
`DocumentsAssumption` and `UnitAssumption`. The place of an element is the number of the child to
take at each level; the places on the stack, `scannedAt` and `drawn` (the paths of each element
extracted, before any transform, with its place) are history. `Descent`, `Drawable` and
`ListsAround` read the document at a place without the walk, so that the properties compare what
the walk did with what the document says. `Places` is the set of places at which
`DrawnInDocumentOrder` looks for a drawing that was left out.

## 3. Runs

| Run | Configuration | Shows |
|---|---|---|
| `submission_overlap` | 2 calls, 2 keys, 2 attempts, 2 lifetimes, overlap | type invariant; remembered responses name stored jobs; returned jobs are stored; errors leave no job; resubmission creates nothing |
| `submission_serial` | 2 calls, 1 key, 2 attempts, 2 lifetimes, no overlap | one job per key, replays return the original, refinement of `JobLedger` |
| `submission_live` | 1 call, 3 attempts, 2 lifetimes, fairness | every call ends; a stored job becomes replayable or its process ends |
| `submission_duplicate` | 1 call, 2 attempts, overlap | **violated:** `OneJobPerKey` |
| `dispatch` | 1 key, 2 correlation ids, 2 jobs, 14 geometries and 4 other bodies | whose response a client may get; a 2xx of `/v1/jobs` names a job; only a 201 stores one; a stored geometry comes back as it was sent |
| `core_host` | 2 Cores, 7 files, 4 environments, 2 interrupts | adapters find the Core that serves and its token; an interrupted Core exits |
| `pipeline` | 2 artworks or 2 processes | the report is about the dies; rows and columns; output files and exit codes |
| `repair` | a body and up to 2 further outlines of a catalogue | the filling survives, sound artwork gets dies; what each manufacturing repair keeps and what it leaves undone |
| `repair_holes` | the same | **violated:** `HolesStayHoles` |
| `svg_import` | paths of up to 4 commands; trees of groups, transforms and shapes | subpaths are chains, smooth controls are fresh, the scan ends; every drawing is drawn once, in order and where the transforms put it; round trip |
| `svg_nesting` | the same | **violated:** `DrawnAsInSvg` |
| `svg_arcs` | the same | **violated:** `ArcsStayCircular` |

The passing runs take less than two minutes each; the largest have 154 483
(`svg_import`) and 140 742 (`core_host`) distinct states, `dispatch` 16 307
and `repair` 4 941, each of them a long computation.

**The disagreements that a run shows.**

1. *Duplicate jobs* (`app.py:101-118`). The key is looked up, the handler runs, and
   only then is the response remembered; nothing reserves the key in between. A
   client that times out while the handler runs retries with the same key and
   creates a second job, against `idempotency.py:1-3`. One call suffices.
2. *Holes become islands* (`geometry/repair.py:137`). Every closed subpath is wound
   counter-clockwise on its own; the manufacturing step, which tells a hole by
   its opposite winding, no longer sees one, against `model.py:131-134`.
   `OnlyUntidyHolesAreRemoved` is the consequence: the tiny holes of tidy artwork stay. A
   subpath goes only if it, or one around it, is open, or is a sliver that
   cleaning and rounding turn over.
3. *Transforms composed outermost first* (`svg_io.py:178`, `586`). The transform of an
   element is applied after the one of the group around it, and the last function of a list
   after the first; in SVG the innermost moves a point first. A rectangle that is moved inside
   a group that is turned ends elsewhere, against lines 19-20 and 696-697.
   `DrawnWhereNested` says what the code does instead.
4. *Sheared circles* (`transform.py:58`). Two columns of equal length count as a uniform
   scale even if they are not perpendicular, so an arc stays an arc although it is no
   longer one of a circle, against `transform.py:8-14`.

**Disagreements met while modelling**, which the models contain and no run is spent on:

* `put` overwrites (`idempotency.py:29`), so of two overlapping requests of a key each
  is answered with its own job, and later replays follow whichever put was last,
  against TDD line 198. `ReplayReturnsOriginal` holds without overlap only.
* The body is parsed outside the `try` of `_invoke` (`app.py:114`, `191`): malformed JSON
  is answered by `wsgiref` in plain text, against the envelope of TDD line 176. A replayed
  body has the correlation id of the request it was made for (`app.py:104`), against TDD
  line 175. `OnlyReplaysStray` says that nothing else strays.
* Two stages share the column Validation of the suite's table and two share Repair
  (`production_validation.py:112`): if a stage between them fails, the column says PASS,
  against lines 9-11 and 22-24 of the module's docstring. The rules are loaded before the first
  stage is reported: when that raises, the suite falls back on the first stage (line 105) and the
  column Import says FAIL, against lines 12-14 and 20-22. `ColumnsDoNotAccuse` says what
  a column does tell, and makes that one exception.
* A file that is not UTF-8 ends the whole batch (`production_validation.py:143`), against
  line 104. A configuration file that is corrupt, or has an empty section, makes the start
  raise, where TDD line 605 promises the defaults and a CRITICAL record.
* The token file is written before the port is bound (`server.py:64`, `72`), so a second
  start that then fails to bind takes the token of the Core that runs away; the
  property holds for a Core that was started alone, until another is started. A quoted
  port passes the loader and fails at the bind. An interrupt just before the loop of
  `serve_forever` leaves `shutdown()` waiting (`server.py:102`) until the next one.
* Numbers behind a closepath turn the loop of the scanner for ever (`svg_io.py:395`), the
  exception in `ScanEnds`; a batch or a run with such a file therefore never ends. A width of 0 beside a viewBox gives the scale 0
  (`svg_io.py:133`); the origin of the viewBox is ignored; shapes inside `defs`
  and `clipPath` are extracted, although lines 32-38 say the geometry of clipping is not.
* The structural validation accepts a path that ends beside its start, within the tolerance
  (`validation.py:115-129`). `close_tiny_gaps` then moves its end, which may leave two corners, and
  the offset raises: hence `~Returns` in `SoundArtworkGetsDies`.
* `widen_weak_bridges` may never reach the minimum width (`manufacturing/repair.py:224-225`),
  since one pair of edges is pushed once; `PushedEdgesPart` says that this pair parts. Other places
  may become narrower, as the prong beside a gap of a comb does; rounding the first corner
  leaves the last edge running to the corner cut off (lines 198-199,
  `OnlyTheFirstCornerGapes`).

**Bounds.** Each is a CONSTANT or a line of a `.cfg`. Two calls and two attempts are
the smallest instance with both a client's own retry and a second caller of a key;
two lifetimes give every request a process before and after a restart. What a third
call, attempt or lifetime could add is covered by the proofs, which have no bounds. The liveness run has one call with
three attempts, since calls interfere only through the cache. In `ApiDispatch` one
key and two correlation ids distinguish an echoed id from a remembered one, and two
jobs a confirmed job from an earlier one. Two artworks give a row before and after a
failure, two processes every overlap of two writers; `BatchProofs` and
`PipelineProofs` lift both. Symmetry is used for calls and keys in safety runs only.
Deadlock is not checked where the system may stop: all calls answered and no Core to
restart, both programs finished, every Core exited, the artwork or document done.
`ApiDispatch` always accepts a further request, so there it is checked.

A request has a body of its own only where it is read; its geometry is one that is
accepted, varied at one place of the wire format at a time, once for each way in
which validator, deserialiser and serialiser could disagree. Two Cores give every
overlap of a start with a start, a run or a stop; two interrupts hit a `finally` that
the first one is in; the theorems of `HostProofs` are for any number.

`ArtworkRepair` has one catalogue of outlines, each there for a case of the code: a short segment, a
gap, a crossing, a needle, a narrow neck, a comb, an open path, a hole, an island in and out of
reach, two slivers, both windings. `MendKeepsTheFilling` looks at points farther from every edge than
the tolerances, which is what "keeps" can mean when points are moved. Tolerances are constants in proportion to it: `Grain` and `ZeroTolerance` 4,
`GapTolerance` and `FlattenTolerance` 10, line width 20, bridge 32, spacing 20, enclosed area 1600,
20 nodes per 100 units, merge radius 60, coordinates up to 320. In `SvgImport` kappa is 1/2 (0.5523 in the
code), angles are quarter turns, the only skew is by 45 degrees, coordinates are multiples of
6 or 12, circular arcs are half, quarter or three-quarter turns and elliptical ones
quarter turns along the axes; `Drift` (1) is the rounding error of the ends of the
latter. Four commands are every pair of commands after a moveto with one more to
see what the pair has left. Trees have three levels of at most three children (`Places`): an element
before, inside and after a group inside a group, a path of two subpaths and one that draws nothing
among them; `SvgProofs` is about any `Places`, depth and width. A Bezier span added only because of a rounding of the
angle is left out.

**Fairness.** `JobSubmission!Fairness` is weak fairness of every step of a client in
its request loop (each wait has a timeout, `core_client.py:144-157`) and of every
thread of the Core (locks are held for one dictionary operation, so no thread is
blocked for ever). Nothing makes a caller submit, or the Core stop or start.
Nothing is assumed, or claimed, of how long an engine call of the pipeline takes: the import of
numbers behind a closepath never returns. `CoreHost!Fairness` is weak fairness of each process: one that does not wait
is scheduled; nothing makes a Core start, be interrupted or be killed. `SvgImport!Spec`
has weak fairness of the scanner's loop, with which nothing else in its thread interleaves.

## 4. What is proved

All theorems are checked by TLAPS from the constant assumptions in the modules and
nothing else. The sets of calls, keys, runs and artworks need not be small.

**`JobSubmissionProofs`.** `IInv` is the inductive invariant. `CacheHoldsStoredJob`
alone is not inductive: that the cached job is stored follows from what the thread
about to put knows (`ThreadsInv`: it belongs to this process and its job is stored),
that it is not removed again from the fact that jobs and cache go together
(`JobsInv`), and that results keep their meaning after a restart from `RepliesInv`
and `ResultsInv`: an answer either *confirms* an accepted job of the same key and
token or *refuses* for a reason that lasts, a payload that is not valid or a token
of the past. From it follow `TypeCorrect`, `CacheIsSound`, `ReturnedJobsAreStored`
and `ErrorResponsesLeaveNoJob`. `ReplayInv` adds that whatever was answered is
remembered as long as the process lives, hence `ReplaysCreateNothing`. `SerialInv`
adds, for `~Overlapping`, that one request of a key is at work and each stored job is
remembered or about to be: `OneJobPerKeyWithoutOverlap`, `ReplaysReturnTheOriginal`,
and `RefinesLedger`, the refinement of `JobLedger` step by step.

**`BatchProofs`.** `RunInv` says that the stage reported last is the stage of the
last call that returned, or of the one that raised; `RowInv` says what each row was
made of. `RowsAreComplete` and `FailuresNameTheirStage` follow. That part does not
depend on which stages there are, only that there are fourteen calls. `ResultsInv` adds, from the
table of calls, which stages have been reported when (`ReachedInv`) and which version of the
geometry each result made so far is about (`DescribesInv`), hence `ReportsDescribeTheDies`;
`ColumnsInv`, that the columns of a row are those of the stage its run came to, or of a failed
import if it came to none, hence `ColumnsAccuseNobody`: FAIL, NOT REACHED and PASS each say of
the stages of a column what they should, but for the rules that cannot be loaded.

**`PipelineProofs`.** Ownership of the output files. `WriterInv`: a file is of a run
that has opened it. `AloneInv`: a process without a rival that is between its first
open and its last close owns the DXF, and nobody else is writing. `WrittenInv`: what it has written so far is whole. Without `AloneInv` the
report could be somebody else's by the time of the exit. From it
`FailuresLeaveTheOutput`, `SuccessMeansWritten` and `SuccessMeansAMatchingReport`. `PipelineTypes`
puts the types of the runs, of the rows and of the files together.

**`DispatchProofs`.** `DispatchInv` adds to the properties of `ApiDispatch` why they
last: `CacheInv`, only successes are remembered and only under a key, without which a
replay could be an error or be nobody's; and `KeyedJobsInv`, that a key used for
submissions alone holds the answer of a stored job, which survives because the store only
grows (`NewRecord`). From it `DispatchTypeCorrect`, `ErrorsAreOnesOwn`, `JobAnswersAreJobs` and the
action property `StoredJobsAreConfirmed`. `GeometryIsNeverLost` is about the wire format: a body
that is accepted is stored, and rendered again, with every layer, object, subpath and node it came
with (`StoredGeometryComesBack`). It goes up level by level, point, node, subpath, object and layer,
each with the lemma that what the validation accepts and the parsing reads is what the
serialization writes; the number of objects and nodes that is checked on the way back is the sum
over the same layers. The requests, their documents included, are
arbitrary; the assumptions are `ConstantsAssumption`, `RequestsAssumption` and
`DocumentsAssumption`, which says that the parts of a document are documents.

**`HostProofs`.** `LoadFollowsPrecedence` is about the operators of `ConfigLoader`, for every
file and environment. `HostInv`: `LoadedInv`, a process that runs has a configuration that
did not raise; `BoundInv`, a socket is held from the bind to some way of closing it; `PortInv`,
no two processes hold one port; `AloneInv`, while a process is alone nobody else is on
the way to write a token; `TokenInv`, so its token is in the file from the write on. `AloneInv` is what makes
`TokenInv` inductive. With the precedence lemma, which turns what the Core
has loaded into what an adapter would read, `AdaptersFindTheirCore` follows, for any number of
Cores, files, environments and interrupts (`HostAssumption`).

**`SequenceLemmas`.** The library states induction with the property as an operator parameter,
which no backend instantiates. `Induction` states it for a *set* of numbers: if 0 is in the set and
the successor of each member is, all numbers are. With it the definitions of the community modules
over data of any length are within reach: `FlattenSeqFlattens` (what a flattened sequence is, part
by part), its type and its ends, and the greatest and the least of a finite set of numbers.
`RepairProofs` goes on to left folds, sums and selections.

**`SvgProofs`.** `ScannerInv` follows the pen: the open segments run from where the subpath began to
where the pen is, to within the drift, every finished path is a chain, and the control point that is
kept is the one of the segment right before. Hence `EverySubpathIsAChain` and `ControlsStayFresh`, for
any path data. `WalkInv` and `ScanningInv` say that what waits, on the stack or for the
scanner, is the element of the document at its place, with the product of the transform lists from the
root down to it, and `DrawnInv` that each path put out is the drawn one under that product. That a product takes a point
where its functions take it one after the other (`ParseTransformMoves`, by induction on the list) gives
`TransformsPlaceTheDrawing`, at any depth. `WalkOrderInv` is about the places: what was drawn, what is
scanned and what waits on the stack come one after the other in document order (`OrderInv`), and every drawing of the
document is drawn, is scanned, or is at or inside something that waits (`CoverInv`). When nothing waits any more,
everything is drawn: `DrawnInOrder`.
`ImportedGeometryRoundTrips` goes through the nodes of the wire format segment by segment.
`StageInv` completes `ImportTypes`. `TurnsReadOn` is the variant of the scanner's loop: a turn ends the scan or
leaves fewer tokens, since a command takes its letter or, when it has none, at least one number, all but the
closepath. `NumbersAfterCloseAreForGood` says that the latter then turns for ever. `ScanEnds` adds the fairness of the
loop, and is model-checked. The documents are arbitrary (`DocumentsAssumption`,
`UnitAssumption`, `DriftAssumption`), and so are the places (`PlacesAssumption`).

**`RepairProofs`.** `RepairInv` says which pass has made each version from which; it is inductive since
no pass writes an earlier version, and it turns every property into one about a pass, for paths of any
length, any number of subpaths and any tolerances (`ToleranceAssumption`, `RuleAssumption`,
`MergeAssumption`). `SoundArtworkIsDied`: a path that the validation accepts and that comes
back to its start has three corners no pass can take, since a segment longer than the flatten tolerance is
longer than the one for zero length, and no later pass merges or drops corners. `OnlyTheFirstCornerCanGape`: the
fillets and edges are a flattened sequence of short chains, each of which begins where the one before
ends. `OnlyIslandsOutOfReachStayLoose`: the ring that grows never loses a corner of the body, so
an island in reach of the body is in reach when its turn comes. `MergingKeepsAllArea`: the edges of a
ring after a keyhole are those of both rings and a slit that is walked in both directions; the shoelace sums
are added stretch by stretch. `OnlyUntidyHolesGo`: the repair of a tidy path is that path, its end
snapped to its start, or the same walked back. The polyline of a path walked back is the reversed
polyline, and the shoelace sum of a reversed polyline is the opposite, so that the area of what was
tidy is never negative once it is mended, and no two of such subpaths have opposite orientations.
`TidyPathsKeepTheirFilling`: the edges of a ring walked back are those of the ring, each the other way
(`EdgesTurned`), and a ray crosses an edge whichever way it is walked, so that the even-odd rule fills the
same; over a compound the parities add up (`SameParity`). Hence a point changes sides only where a
subpath changes that was not tidy or that ended beside its start. This is the part of `MendKeepsTheFilling` that
does not depend on the tolerances. A proof attempt that failed showed two properties to hold of
the catalogue only; they now say what the code does (`OnlyUntidyHolesAreRemoved`,
`PushedEdgesPart`), and the catalogue has the counterexamples.

**Only model-checked:** all liveness (`EveryCallEnds`, `StoredJobBecomesReplayable`,
`InterruptedCoreExits`, `ScanEnds`), which is beyond TLAPS with fairness;
`MendKeepsTheFilling`, which for paths that are not tidy holds of points away from the edges only; and
`PushedEdgesPart`, which measures with a square root computed by recursion, and whose push is
rounded to whole units, so that on edges a few units long it may point elsewhere.

## 5. What is not modelled, and why

* Floating-point formulas: the miter joins of the offset, `bounds.py`, `simplify.py`,
  `measure.py`. They keep no state, and their results are matters of rounding, which
  integers cannot show. Where a rounding decides something (the ends of an elliptical arc,
  the grid of `repair_path`), it is a constant or a choice of the model.
* `dxf_io.py`, `preview.py`, `rdworks_layers.py`, and the rendering of tables and failure
  reports: they write text and change nothing. `manufacturing/pipeline.py` repeats the
  order of the orchestrator and is not called by it.
* The lexing of SVG attributes and the parsing of XML, JSON and YAML, which are external.
* The event bus. Nothing in the repository publishes but the self-test, and no
  subscriber publishes or subscribes.
* Logging: a facade over the standard library's handlers, which swallow I/O errors.
* Exceptions beyond the status that each category maps to; `core/main.py`, a self-test
  that raises and logs each exception class.
* Queue, workflow, plugin and the other engines that exist as documents only.

## 6. Plan

The modules and the proofs of the plan are written, but for the event bus (section 5). Two things would
go further:

1. `MendKeepsTheFilling` for paths that are not tidy: a bound on how far from an edge the passes of the
   repair move what is filled, in terms of the tolerances.
2. The floating-point passes of the offset, over numbers that round.

## 7. How to run

    tlc -config JobSubmission_overlap.cfg MCJobSubmission
    tlc -config ApiDispatch.cfg MCApiDispatch
    tlc -config CoreHost.cfg MCCoreHost
    tlc -config Pipeline.cfg Pipeline
    tlc -config ArtworkRepair.cfg MCArtworkRepair
    tlc -config SvgImport.cfg MCSvgImport
    tlapm JobSubmissionProofs.tla
    tlapm BatchProofs.tla
    tlapm PipelineProofs.tla
    tlapm DispatchProofs.tla
    tlapm HostProofs.tla
    tlapm SequenceLemmas.tla
    tlapm SvgProofs.tla
    tlapm RepairProofs.tla
