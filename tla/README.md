# Formal models of the fat binary entry selection project

The repository explains and reproduces how the CUDA driver picks the one entry
of a fat binary it executes. Its core is a parser, `fatbin_entry_selection.py`,
that walks a container the way the driver does and predicts the winner; around
it stand sweeps over libraries, a second computation of the same decision, a
measuring harness, tools that edit containers, and two web pages that show the
rule. This directory holds TLA+ models of that code, what TLC checks of them,
and what TLAPS proves.

Source paths below are relative to `src/`.

## 1. The system

| part | state it keeps | operations | talks to |
|---|---|---|---|
| `would_execute`, `arch_compatible`, `payload_rejected` | pool, incumbent, loop position | filter, one comparison per entry, return | called by everything below |
| `parse_container` | offset, entries, notes | open, read an entry, five ways to stop, look past the end | reads the bytes the driver reads |
| `find_containers`, `walk_nv_fatbin` | wrapper index, chain offset, offsets already yielded; suspended at each yield | yield, reject, chain | its caller parses while it is suspended |
| `describe`, `main`, `print_report` | the report so far | parse, append, print | `find_containers`, `parse_container` |
| `survey_libs.py`, `decisive_level.py` main, `wheel_census.py` | tallies per file, totals | sweep, count, skip, add up | as above, and each handles errors in its own way |
| `decide` (`decisive_level.py`) | group in contention | narrow level by level | `would_execute` for the last level |
| `naive_*` | none | search | compared with `would_execute` |
| `docs/entry-explorer.html` | entries, check box, pressed preset, drawing | 10 handlers, each redraws | its own copy of the rule |
| `docs/entry-selection.html` | step, timer handle, playing flag, drawing | timer callbacks, 3 kinds of click | the browser's timers |
| payload extent, decompression, hashing (`Entry`) | notes, payload | slice, decompress, follow the ELF | `parse_container` |
| `divergence_matrix.py`, `src/harness/loader.cpp` | rows, four tallies; the child's buffer, output and exit status | run the child, name entries, compare, record; load, fill, launch, read back | the driver, by subprocess with a timeout |
| `patch_*.py` | the buffer edited, index and offset of a walk | append, walk, edit, write | an index read from the parser's listing; their output is parsed and loaded |
| `probes/`, `src/kernels`, `tools/` | none | straight-line calls, build rules, wrappers | external |

There is little concurrency: two pages with event handlers and timers, one
generator interleaved with its caller, one subprocess with a timeout whose
output is taken for a measurement. What is hard besides: a decision computed
five times in three ways (scan, narrowing, page) that must agree; a walk over
sizes an input controls, in a mixture of u64 and truncated signed arithmetic,
that must agree with another program's walk and announce where it does not;
four copies of that walk with three different bounds that share one index; and sweeps
whose counters are reset, skipped and added up around exceptions of several
classes.
`PROJECT.json` lists each hazard at its line with the properties aimed at it.

## 2. Modules

Entries are records of the fields that decide anything: kind, architecture,
the set of named flag bits, and the architecture the payload's ELF claims.
Names, strings, hashes and the wording of notes are abstracted; a note is a
member of a small set.

| module | models | state | actions |
|---|---|---|---|
| `FatbinEntries` | entry fields, kinds, ranks, the candidate filter, `payload_rejected` | | |
| `EntryOrder` | the four ranking levels as a relation, `Outranks`, `BestOf` | | |
| `SelectionRule` | abstract specification: one answer, the candidate none outranks | `answer` | `Commit` |
| `EntrySelection` | `would_execute` | `pc pool rest best` | `FilterPool`, one action per branch of the comparison chain, `Return` |
| `EntrySelectionProofs` | theorems about it, and about the report | | |
| `Readings` | the three conventional scanners, beside the rule's own reading | | |
| `SelectionReport` | the record and `print_report`, once the scan has returned (extends `EntrySelection`, `Readings`) | | |
| `ContainerWalk` | `parse_container` beside the driver's walk | `pc pos entries notes extending`, `dpc dpos visited` | one per break, entry and note; `Driver*` external |
| `ContainerEdit` | the three editors between two listings and before a load (extends `ContainerWalk`) | `edit stage listing buf eidx epos outcome` | refuse, open, append, pass a header, count for ever, five ways to fail, one per edit, write |
| `ContainerEditProofs` | theorems about the walk and about the composition | | |
| `ContainerDiscovery` | `find_containers`, `walk_nv_fatbin` and the caller | generator state, `item` it is suspended at, report | one per yield, raise and return |
| `ContainerDiscoveryProofs` | theorems about it | | |
| `LibrarySurvey` | the three sweeps | `tally grand rows` | open, count, skip, print, drop, crash |
| `LibrarySurveyProofs` | theorems about it | | |
| `DecisiveLevel` | `decide` and the columns `main` counts the container in | `stage group kindGroup level winner columns` | one per narrowing, `Tabulate` |
| `DecisiveLevelProofs` | theorems about it | | |
| `DivergenceMatrix` | `divergence_matrix.py` and the `loader.cpp` process of each row (extends `Readings`) | `rows wrong status`; `child`: step, environment, buffer, output, exit status | run, collect, time out, stop, finish; one per driver call |
| `DivergenceMatrixProofs` | theorems about it | | |
| `PayloadExtent` | `Entry.__init__`: slicing, decoding, `resolve_extent`, `read_elf_arch` | `stored declared payload elfArch notes` | one per branch, in the order of the calls |
| `PayloadExtentProofs` | theorems about it | | |
| `EntryExplorer` | the explorer page | `entries forced pressed shown` | one per handler |
| `RulePlayer` | the player page | `step playing timer pending painted` | timer callbacks and clicks |
| `PageProofs` | theorems about the two pages | | |

`MC*.tla` give the constants their values. `EntrySelection` implements
`SelectionRule` through the mapping `answer <- IF pc = "done" THEN best ELSE
Pending`. `DecisiveLevel`, the second computation of the decision, implements the
same rule with `answer <- winner` once the narrowing is done; it has no policy
(`policy <- "default"`), and its `NoLevel`, the Python None, stands both for no
answer yet and for none. `EntryExplorer` and `RulePlayer` are compared with
the same `EntryOrder`. Where `decide` calls `would_execute`, its model takes
the rule's answer, which is what the theorem `ScanImplementsRule` allows.

`ContainerEdit` composes: its states are those of `ContainerWalk` with the
editor's, its next-state relation lets the parser run before the edit
(`Lists` in stage `list`), the editor alone, and then the parser and the driver
on what was written. What an editor changes are fields of the same buffers: a
flag set at +0x28 or an architecture at +0x1c lies in the unit where another
walk may read a size, so a write can turn into another header's field, and the
model has it so. Bytes that come to stand where no header was readable before
read as any of `Unknown`.

In `DivergenceMatrix` the driver is external and almost free: it selects any
entry or none, accepts or refuses it, fails any call, and may never return from
a load. Only on a host marked `faithful` does it select as `would_execute` and
refuse as `payload_rejected` say (or because the entry is obfuscated); the
property about false alarms is about such hosts, the others hold for every
driver. Four more things a host brings are in the model because the code
inherits them: variables of the environment, code in the JIT cache, markers in
device memory, and the path of the checkout.

Offsets are in units of 16 bytes in the walk and in discovery. A container
header is one unit, and the fields of an entry header the walk reads fill its
first unit, so headers at different offsets share no field and every
combination in the model is a real buffer. The 32-bit word of the walk bound is
scaled by the constant `HalfWord`, half the range of the word. Offsets that wrap
around 2^64 are not modelled.

The driver is closed source. Its walk in `ContainerWalk` is the loop the
repository recovered (`analysis/decompiled-selection.md`), marked external, and
without the nested walk of CONCAT groups.

## 3. What the runs check

All instances are exhaustive within their bounds, and finish in at most a minute and a half.

**selection** (`MCEntrySelection`). Every container of up to three entries from
fourteen (cubins of two architectures with and without bit 24, an older
generation, one newer than the GPU, a suffix, kind 0x10, PTX, a kind that is
never ranked, a cubin that is refused when it is read) and of four from the
eight plain candidates, both policies. Three entries are what non-transitivity
takes; four add a displaced incumbent in between. Shows that the incumbent only
climbs (`ScanOnlyClimbs`), that permuting a container changes nothing but which
of equal entries wins (`PositionNeverOverturnsContent`), that forcing the JIT is
a filter and no demotion (`ForcingOnlyRemovesCubins`) and that the scan refines
the rule (`ImplementsRule`). `ReportAgainstTheRule` is about what is printed of
the result: a report without a line means that the marked entry is loaded and
all scanners agree; every disagreement has its line, also where a scanner finds
nothing; and when the exact-architecture reading is right and the reading that
prefers PTX cannot be.

**edit** (`MCContainerEdit`). Two families of buffers. Those of `MCContainerWalk`,
which are only read: 9 and 13 units with a chain of three headers of every
interesting kind and size, or where every other offset reads as an entry, and
container sizes that are zero, end inside an entry, on a boundary, past the
buffer, truncate to negative, and truncate from above; `Fixed = 4` is the real
ratio of an entry header to a unit, `HalfWord = 16` puts both truncations within
reach. And two-entry containers that are edited: the first entry takes each
shape a walk can meet (short and oversized headers, no kind, an ELF payload
shorter than its header, stride zero), the size ends on a boundary, in an entry,
in a header, past the buffer, or is negative or cut by the truncation. Every
editor, every index from -1 (`--entry` is any integer) to one past the last, each
flag and architecture edit, and size edits absolute, relative, negative, too
large for their field (2^64 units of the model, where `pack_into` raises for a
padded size and `--fatbin-size` wraps around), with and without an entry or raw
units appended (`MCEdits`). The parser and the driver interleave freely. Shows

* of the walk, before and after any edit: the two read the same offsets, a loss
  is announced except at a short header, the look past the end names dead
  entries where no bad header stopped the walk, and only a last entry extends;
* of the editors: the entry edited is the one the listing has under the index
  (`EditsTheListedEntry`); where the walks differ in reach it is the one header
  that crosses the declared end, or the listing carried a warning
  (`ReachOfTheEditors`); a size edit moves nothing up to the edited entry, flag
  and architecture edits move nothing, unless e_flags lie behind a payload
  shorter than an ELF header (`SizesMoveOnlyWhatFollows`); an appended entry
  is dead until the container's size grows by one unit and then wholly live
  (`AppendedEntryCountsByOneUnit`);
* that every listing and every edit ends, except one (`CallsReturn`): the walks of
  `patch_entry.py` and `patch_arch.py` have no test for a stride of zero and only
  their counter to end them, and a negative index is never counted up to. That
  loop is the stage `spinning`; where it can be reached, the listing the index is
  not from carried a warning (`ReachOfTheEditors`).

**discovery** (`MCContainerDiscovery`). ELF files of three units with every
combination of five headers, up to two wrapper records that resolve to each
offset, past the file, or nowhere, and a section that starts late, ends early,
runs past the file or is missing; every other kind of file; both callers.
Shows that a call that returns handed over exactly the containers registered or
chained, that repeats come from wrappers only, that "carries no GPU code" is
said only of such files, that nothing handed over is lost from a report that is
returned, and that discovery ends.

**survey** (`MCLibrarySurvey`). Corpora of up to two files with up to two
containers (unreadable, noted without entries, clean, noted and misread), which
raise nothing, a `ValueError` or something else; two files are what a counter
that is not reset takes. The three sweeps count the same containers. `ZeroNotesMeansLiveContainersAreClean` is what a zero in
the notes column does mean.

**decisive_level** (`MCDecisiveLevel`). Containers of up to four of nine
entries; a three-way tie with an outsider takes four. The narrowing commits
once, and to what the rule selects (`DecideImplementsRule`); the level named separated something, and the columns mean what they are
read for (`ColumnsMean`): "multi-cand" counts the containers decided at an
undocumented level, and "win!=last" on cubins in ascending order a tie.

**matrix** (`MCDivergenceMatrix`). Two rows, the second forcing the JIT, over
every pair of nine small containers, a missing and an unreadable one: cubins and
PTX of both variants, an edited payload known by its marker only, a winner that
is refused, an obfuscated one, payloads that name nothing or the wrong variant,
an entry too new. A plain host and hosts that differ from it in one respect
(cached code, forced JIT, path, GPU suffix, another `--sm`, an unfaithful driver,
loader not built). Two rows are what state left behind by a row takes. Shows
that the driver column is what ran (`ColumnIsWhatRan`), that exit status 0 is
evidence for the rule (`CleanExitIsEvidence`), that under a faithful driver a
wrong row has a cause that is named (`WrongRowsAreExplained`), and that the
matrix ends although a child may not (`MatrixEnds`).

**payload** (`MCPayloadExtent`). Payloads of up to four units of 64 bytes. Raw
bytes with the first NUL anywhere and ELFs that end before, at and behind the
padded size and the buffer; encoded bytes under right, wrong, missing and
contradictory flags, with the stream length right, short, long and absent, an
LZ4 hint that suffices or not, and every combination of installed modules.
`Growth = 2` stands for the 2^7 by which eight attempts multiply the hint. The
two codecs are external. Shows that the bytes hashed are those
`analysis/declared-versus-executed.md` measured the driver to read, that the
notes name exactly the gaps, and that a missing hash or architecture is
explained. What decoding takes is part of the statement (`Decodable`): the codec,
the whole stream, and a result within what the decoders may make, eight doublings
of the hint for LZ4 (`HintCovers`), and `max_output_size` for a zstd frame that
does not state its content size (`CapCovers`; `MaxOutput = 2` stands for its 64
MiB). It is a sequential calculation: its difficulty is the number of branches,
not their interleaving.

**explorer** (`MCEntryExplorer`). Three of the page's four places, four kinds,
numbers in and out of range, bit 24, all presets: every sequence of edits. Bit 16
comes with the preset that sets it. Three entries are what an incumbent that beats
one and loses to another takes. Shows that the winner is the rule's, that the
headline refuses it exactly when it is obfuscated, and that each loser's level is
one it lost at.

**player** (`MCRulePlayer`). Any four clicks at any time around the timers, all
three ways the page opens. Two handles are enough to show a timer out of
control, since the code never holds two.

Deadlock is not checked where a call ends: `would_execute`, the parser and the
others return and stop. The explorer never stops and is checked for deadlock.

### Fairness

`parse_container`, the editors and `find_containers` with its caller are
programs that run on one thread until they return: weak fairness on `Lists`, on
`Editor` and on discovery's `Next`, none on the driver. The matrix has weak
fairness on the interpreter's steps (`Script`) and on the 60-second timer of
`subprocess.run` (`Timeout`); nothing is asked of the child, which may spin or
stop anywhere. In the player the browser calls a pending
timer: `WF_playerVars(Fire)`, and the reader may do nothing. `PlaysOn` is conditional
on the page playing for ever; clicks are bounded by `MaxClicks`, so the reader
stops at some point, which is the case the property is about.

### Violations: where the code and its words differ

Each is a run of its own that TLC ends with a counterexample.

| run | says | code does |
|---|---|---|
| `loss_is_silent` | everything clamped is noted (`fatbin_entry_selection.py:612`) | a short header ends the walk without a note (654) |
| `chain_in_entry` | chaining cannot land in an entry (715) | it can where an entry crosses the declared end |
| `zero_notes` | zero notes: everything parsed cleanly (`survey_libs.py:114`) | containers without entries are not counted |

For each of the walk's and survey's statements the passing run checks the
weaker one that is true.

More were met while modelling and have no run of their own. The docstring of
`resolve_extent` says of the differences between padded size and extent "Both
directions are recorded as notes" (348): for an ELF cut off by the end of the
buffer `elf_extent` has no answer (251), the declared bytes are hashed, and
nothing is noted though more are present and read. The closing text of
`decisive_level.py` says a zero under "win!=last" means that proximity and
taking the last compatible entry agree (160-162): the column looks at the
winning kind only, and a compatible PTX behind the last cubin is not counted.
`patch_arch.py` says that no size, offset or magic is touched: true unless the
payload is shorter than the ELF header its e_flags are in. `run_driver` searches
the loader's whole output for a variant's name (176), the image's path included:
a checkout whose path contains `variant_a` decides every row that loads.
The look past the
end notes a header as "outside the declared container" (703) that lies inside
it, when the walk was stopped by that header being larger than the buffer;
`FurtherEntryIsDead` holds where no bad header stopped it. `decide` names bit 24
as the lowest level consulted (`decisive_level.py:11`) although file order picked
among several entries without the bit; `LevelSeparates` is what the level does
mean. `elf_extent` follows no segments, which the driver does
(`declared-versus-executed.md:108`). A cubin with slack behind its own extent
hashes differently when compressed, since only the raw one is cut
(comment at 320: hashing must not depend on compression). The note at
`fatbin_entry_selection.py:676` says the driver's stride carries it past the end
of the container, but the stride is not looked at, and with a small one a live
entry follows. `naive_exact_arch` is called right on ordinary libraries (946);
it is where the library has the GPU's own number
(`ExactArchRightWhenBuiltForTheGPU`). A preset of the explorer leaves the force
box ticked, so that "Cubin beats PTX" (`entry-explorer.html:235`) can show PTX
executing. Its headline says "Refused at load" of an obfuscated winner (409), while
the label beside the same entry says "executes" (339). An index that
is not there is to be reported ("no entry", `patch_entry.py:48`, `patch_arch.py:62`):
with `--entry -1` and a header whose two sizes are zero the loop does not end,
which `patch_size.py` tests for (39).

## 4. What is proved

Every safety property of the passing runs, invariant, action property or
refinement, is also a theorem, for every value of the constants. Of the four
liveness properties three have a theorem of the measure they stand on.

`EntrySelectionProofs`, for all containers, targets and policies. The
assumptions are that containers are sequences of entries, targets are targets,
and the two sentinels are no indices.

* `InductiveInvariant`: `Spec => []IInv`. That the incumbent outranks what was
  scanned is not inductive alone: a step needs to know that the scanned part
  lies before the rest (position is the last level, so the candidate must come
  later in the file than the incumbent), that the pool consists of ranked
  entries, and that there is an incumbent as soon as something was scanned.
  `IInv` adds these. The heart is a lemma per level and the transitivity of
  `Outranks` on ranked entries, which is where the direction of file order
  depending on the kind matters.
* `TypeCorrect`, `IncumbentIsBestOfScanned` follow; `IncumbentOnlyImproves` is
  the action property; `ScanImplementsRule` maps every step to a commit or a
  stutter; `ForcingRemovesAndDemotesNothing` and `ContentIsNeverOverturned`
  use that the best of a pool is unique.
* `ReportKeepsItsWord`: `Spec => []ReportAgainstTheRule`. Each scanner is a
  search for a first entry; the lemmas say what the first of a nonempty set of
  positions is (by the well-founded order of Nat), and what each scanner then
  returns beside the entry that `IInv` shows to be the best of the pool.

`ContainerEditProofs`, of the walk, for every buffer and every scale of the word.

* `WalkTypeCorrect`: `Spec => []TypeOK`.
* `ParserReportsWhatTheDriverReads`, `LossIsAnnounced`, `NotedFurtherEntryIsDead`,
  `LastEntryAloneExtends`: the four safety properties the run checks of the
  walk. The two walks run at different speeds, so equality of what both have
  read is not inductive. The invariant `WalkInv` says that each list is a chain
  of strides from the first header, that each position is one stride past its
  list, and for every way the parser can have stopped what the header at its
  position is and which note was written; both lists are then prefixes of one
  road, and what the driver reads beyond the parser's stop has its explanation
  in how the parser stopped.

`ContainerEditProofs`, of the editors, for every file, command line and unknown bytes. It
assumes `Fixed >= 3`: the fixed part of an entry header is 64 bytes, four units,
and the fields the editors change lie in its first three
(`FIXED_ENTRY_HEADER`).

* `EditorsWriteContainers`: whatever is appended, patched or resized, what is
  written is a buffer as the walk's model requires, so the assumption on
  `Images` is discharged for edited files.
* `EditorsEditTheListedEntry`: the invariant `EditorInv` says that the editor's
  position is that of the listing's entry with its index as long as there is
  one. That rests on the proved fact that headers of listed entries are whole,
  and on appending leaving every header read so far in place.
* `EditedFilesAreReported`: the theorems of the walk carry over, since writing
  a file starts both walks from the beginning.
* `EditorsReachWhatIsSaid`, `EditsMoveOnlyWhatFollows`,
  `OneUnitTakesTheEntryIn` compare two whole walks, one of the file listed and
  one of the file written, of which only the second is still in the state. The
  invariant `FollowInv` keeps of the first what the second needs: the listing is
  a road (each header on it is one the walk continues from, its stop is one it
  does not, and the notes say why); the editor stands on that road; the buffer
  it holds is the listed one up to what was appended or written, which is known
  field by field; and the parser, on the written file, comes along the same road
  as far as the two files agree. Where they stop agreeing is the edited entry,
  and that is what the three properties are about.

`DecisiveLevelProofs`, for all containers and targets, from the invariant
`DecideInv`: what is in contention at each stage is exactly what levels above
it leave of the pool.

* `DecideIsTheRule`: `Spec => DecideImplementsRule`, every step of the narrowing
  is a commit to the rule's answer or a stutter; `DecideAgreesWithWouldExecute`
  is the same as a statement about states, and `NamedLevelSeparates` is about the
  level named. They rest on cardinality facts: a group of one is a winner, a group
  of more has a rival.
* `ColumnsCountWhatTheySay`: `Spec => []ColumnsMean`. The columns are filled
  after the narrowing, so the invariant must also say what the group of the
  winning kind was when the narrowing began (`KindGroupKnown`).

`DivergenceMatrixProofs`, for all corpora, lists of cases, hosts and drivers,
from the invariant `MatrixInv`: what a loader holds at each of its steps (from
the sentinel on, its buffer is the sentinel or what its own entry wrote), and
that a zero tally means no wrong row so far.

* `MatrixTypeCorrect`, `DriverColumnIsGroundTruth`, `CleanExitMeansAgreement`.
* `NoFalseAlarm`: `Spec => []WrongRowsAreExplained`. `FaithInv` adds what a
  driver that keeps the rule has told the child at each step; that the entry it
  selects is the one the script predicts comes from the best of a pool being
  unique.

`PayloadExtentProofs`, for every header, buffer and set of installed modules.
An ELF, where there is one, has a header, so it is not empty (`IsInput`).

* `ExtentTypes`: `Spec => []TypeOK`.
* `HashedBytesAreTheDrivers`: `Spec => []HashesWhatTheDriverReads`. The
  invariant gives each of the three byte strings its closed form once it is
  computed; the two lemmas it rests on say that a compressed entry reaches the
  decoder its flag names with exactly its stream, and that the extent followed
  is the driver's where the ELF describes no more than is there.
* `EveryGapIsNoted`: `Spec => []ExactlyTheGapsAreNoted`, from the same invariant
  and that only `resolve_extent` writes these notes.
* `EveryGapIsExplained`: `Spec => []WhatIsMissingIsExplained`, from `ExplainedInv`:
  a payload given up has its note from the step that gave it up, and the
  architecture is read of the bytes kept.

`ContainerDiscoveryProofs`, for files with any number of wrappers and sections of
any length, and both callers.

* `DiscoveryInvariant`: `Spec => []DiscoveryInv`. The chain is a least fixed
  point (`Chained`, the smallest set of links closed under strides), so that
  the generator hands over no more than it is shown by every closed set holding
  what was handed over, and that it hands over no less by the set it has visited
  being closed once it stops. In between the invariant says what has been
  visited, that an offset seen twice came from wrappers, and what the caller
  has done with each.
* `HandsOverExactlyTheContainers`, `OnlyRecordsRepeat`, `RefusalsAreRight`,
  `ReportsLoseNothing`: the four safety properties of the run.

`LibrarySurveyProofs`, for corpora and files of any length.

* `SurveyInvariant`: `Spec => []SurveyInv`. Totals and tallies are cardinalities:
  of the live containers in the files passed, and of those among the first `k`
  of the file at hand; a zero in the notes says each counted so far is clean,
  and that in a file that has one every container parsed.
* `OneDenominator`, `ZeroNotesCleared` follow at the end of a sweep.

`PageProofs`, of the explorer for pages of any number of entries, of the player
for any number of clicks and handles.

* `ThePageIsTheRule`, `LosersHaveTheirReason`. The invariant `PageInv` says that
  the page holds entries as a container does and shows the drawing for them. What
  a drawing is comes by induction over the entries, done without an
  induction rule: a set of numbers that holds zero and all successors is Nat,
  since its complement would have a least element (`SetInduction`). The induction
  shows first that the loop is well defined (`SomeRun`), then that every round
  keeps the incumbent the best of the entries passed and what is written beside
  the others at or below the level they lose at (`Sound`). That an incumbent's
  own victims keep their reasons when it is displaced is the transitivity of
  `Outranks`, level by level.
* `ThePlayerHoldsItsTimer`: what is pending is what the button says, in every
  state.
* `ThePictureIsTheRules`: `PlayerSpec => []PictureFollowsTheRule`. The page carries
  its answer with it, as a table of the gate each row dies at (`Dies`), and the
  theorem is that this table is the rule. `BeatenPairs` computes from the four
  levels which of the six entries beat which; `LevelsLeave` derives what stands
  after each gate, which is what the table says (`StillUp`), and the counts
  painted at the gates are their cardinalities. `PictureInv` says that what is
  painted is the picture of the step: every handler that moves the step paints.

That the calls run out is proved of each program that loops, in the module of
its component: `DiscoveryRunsOut` (`find_containers` and its caller, on files of
any length), `CallsRunOut` (parser and editors, on every file and command line)
and `MatrixRunsOut` (on every list of cases, whatever the driver does). Each gives
a tuple of natural numbers and shows that every step of the program lowers it
in lexicographic order:

* discovery: the phases of the generator ahead; the wrapper records or the bytes
  of the section ahead; whether an item is in the caller's hand. A link lowers
  the second, or the first where it declares zero and so ends the chain;
* listings and edits: the stages and the parser's phases ahead, then the bytes
  between the walk and the end of the buffer, or the headers the editor has yet to count. An
  editor whose walk stands still on a stride of zero still counts up to its
  index, unless that is negative. `CallsRunOut` therefore speaks of all steps but
  `CountForEver`, which begins that loop, and adds that whoever is in it is at
  a header of stride zero with an index below zero (`SpinsAtZeroStride`). The
  driver's steps leave the pair as it is (`NoFurther`);
* the matrix: the rows not recorded and the exit status, then the driver calls
  the loader has not made. A loader that spins has only the clock left to lower
  it, and a row given up is not run again.

The liveness properties follow from these with the fairness the runs state and
the well-foundedness of that order. Both last steps are out of the prover's reach,
ENABLED and an induction over the order, so that these stay with TLC.

Model-checked only, then: the liveness properties `CallsReturn`, `DiscoveryEnds`,
`MatrixEnds` and `PlaysOn`. The last has no measure: the player, when left alone,
plays for ever.

## 5. Not modelled, and why

* The strings of an entry header (`read_strings`): offsets and lengths into
  bytes whose contents decide nothing. The hash function is the identity on the
  bytes it is given.
* Values of `--set-bit`, `--header-arch` and `--elf-arch` too wide for their
  fields, where `pack_into` raises and nothing is written.
* Of the report and the matrix: fields only repeated, layout, the compression
  label (which tests the four flags in another order than `decompress` does).
* `loader.cpp --fatbinary`: no script gives it.
* Offsets that wrap around 2^64; buffers of 2^31 bytes and more in full.
* The driver's nested walk of CONCAT groups.
* `probes/`, `src/kernels`, `tools/`: no state of their own; they drive external
  libraries or download other projects.
* The table `wheel_census.py` prints per target: sums of `would_execute`, which
  is modelled; only its denominator is.

## 6. Hazards without a property

Each has its reason in `PROJECT.json`: a section that runs past the file, where
no document promises another outcome than the model's step (`SectionPastFile`); `elf_extent` beyond the buffer and segments, where the code falls
short of its docstring and no weaker statement holds.
