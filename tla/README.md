# mmap-chunker-core: specification and proofs

mmap-chunker-core splits a large file into byte ranges that parallel consumers
can read independently. It answers two questions about a file and a delimiter:
where do chunks of roughly a given size end (*scanning*), and how is the file
divided into N ranges of similar length that never split a record
(*partitioning*). The bytes come from a full mapping, from a bounded window that
is remapped as needed, or from positional reads; the answers are served through a
Rust type, a C ABI, a command line and a Python package.

This directory holds TLA+ models of that code, TLC configurations that check
them on small instances, and TLAPS proofs for all instances. `PROJECT.json`
maps every definition to the source lines it stands for.

## Inventory

| component | state | operations | hard behaviours |
|---|---|---|---|
| slice partition planner, `src/scanner.rs` 1361-1523 | loop index, last cut, cut list, output ranges | one call | collapsed targets, requests past the file length, exact targets, self-overlapping delimiters |
| byte-source planner, `src/source.rs` | scan buffer, probe length, offset, filled bytes | one call, many `read_at` | short reads, a delimiter across two probes, a file that changes while it is planned, read errors |
| windowed mapping, `src/mmap.rs` 171-563 | mutex, cached view, mapped views | open, `read_at`, drop | threads sharing one view, remap and unmap, map failure under the lock, extreme window sizes |
| byte and pattern search, `src/scanner.rs` 1030-1278 | position, word index | one call | borrows in the word test, alignment prefix, false candidates |
| chunk scanner and cursors, `src/scanner.rs` 14-48, 950-1222 | chunk list; cursor position | scan; `next` | saturating targets, two implementations of one rule |
| engine handle, `src/lib.rs`, `src/ffi.rs`, `src/plan.rs`, `src/mmap.rs` 565-980 | mapping, plan, pin, stashed mismatch, per-thread error | open, open pinned, five gated calls, get_chunk, take_pin_error, free | every system call races with other processes; different error contracts of the two surfaces; resources on partial failure |
| pinning, `src/pin.rs` | captured size, mtime, dev/ino, flags | capture, revalidate | stat and use are apart; A-B-A changes |
| multi-file planner, `src/bin/mmap-chunker.rs` 328-941 | prefix sums, mappings or one open source, search state per source, cut list | partition-files | lengths taken in a first phase and used in a second; a cached boundary and a resumed scan; descriptors; a second buffered search |
| command line, `src/bin/mmap-chunker.rs` 71-326, 943-1148 | option locals | partition, partition-files | options in any order and combination; output that fails half way |
| range-planning ABI and openers, `src/ffi.rs` 810-909, `src/source.rs`, `src/mmap.rs` | caller's buffer and count; kernel objects | plan_partition_ranges | capacity chosen by the caller; several kernel objects taken in turn |
| Python planning, `python/mmap_chunker/` | none kept | plan_file, plan_file_ranges | stat, plan and verify look the path up separately; a two-phase native call with a retry |
| test oracles and fuzz targets, `src/scanner.rs` tests, `src/ffi.rs` tests, `fuzz/` | none | reference loops | several independent definitions of one rule |
| datatrove reader | none kept | run, read_range | range assignment to ranks |

How they interact: both handle surfaces map the file, gate a call on the pin,
hand the mapped slice to the scanner or the slice planner, and store the result
as a `ChunkPlan` that `get_chunk` reads. `plan_partition_ranges` opens a source and
runs the byte-source planner, which delegates to the slice planner when the
source is a full mapping and otherwise repeats its loop over `read_at`; the windowed
source serves `read_at` from the windowed mapping. Command line and Python call these
entry points. The only shared mutable state inside the process is the cached view
(behind a mutex) and the thread-local error buffers; everything else that moves
is the file system.

What makes each correct: plans cover the file without gaps and cut only at record
ends; all sources plan alike; a view is never used after it is unmapped, never
leaks and never outlives its lock; a gate that passes says something about the
mapping; a layout that lost its gate is not served; searches find the leftmost match and end;
the rows of a multi-file plan assign every byte of every source once, whatever was renamed
over the paths; a caller's buffer is never overrun; rows are printed only from a complete plan.

## Modules

`Records` is the common vocabulary: occurrences of a delimiter (`MatchAt`,
`FirstMatchIn`, `NoMatchIn`), record ends (`EndsRecord`), the ideal target and
`Covers`. Bytes are sequence elements and offsets are 0-based as in the code.

`PartitionPlanner` models both slice planners; the one-byte function is the pattern
function at length 1. One iteration of the loop is one action, named for its
outcome: `SkipTarget`, `AcceptExactTarget`, `SearchHit`, `SearchMiss` (the break),
`LeaveLoop`. `AssembleCut` and `AssembleTail` are `ranges_from_boundaries`.

`SourcePlanner` extends it with the buffer. `ReadTail` and `ReadFill` are single
`read_at` calls that return any legal number of bytes, `ScanHit`, `ScanNone` and
`ScanAdvance` the three outcomes of a probe. The variable `stable` says whether the file keeps
its bytes during the call. If it does, the buffer is a part of the data; if not, reads may
return nothing and comparisons go either way; the plan must still cover the length recorded at open (`RecordedLengthCovered`). Errors of open, allocation and read end the
call (`OpenError`, `SrcNoBuffer`, `ReadError`).

`WindowedMmap` models `WindowedMmapFile` with threads as processes: taking the lock,
looking at the cached view, mapping, copying and installing are separate steps.
The byte at offset o is represented by o, so "the right bytes" is "the right
offset". `live` is the set of mappings the process holds.

`PatternSearch` models `find_pattern_in_slice` over `find_byte_swar`. The word test works
on numbers of `ByteBits * WordBytes` bits, because it is the borrow between bytes that
could make it wrong.

`ChunkScanner` runs the eager scan and a cursor (with its `size_hint`) side by side over the same
bytes, in any interleaving, and defines the arithmetic of fixed chunks in `usize`.

`ScalarOracles` translates the byte-at-a-time reference loops of the repository's own tests: those of
the differential tests, of the C ABI tests and of the two fuzz targets, and what these assert of a
result. They were written separately from the code and from each other. Each loop is a recursive
function. `OracleTheorems` proves what they compute. `PartitionDifferential` and `ChunkDifferential` put the planner and the scanner next to all
of them: what the fuzz target samples at random, TLC does for every input up to a length.

`LogicalPlanner` models `partition-files`. Its two engines share the planning loop. With `--source mmap`
every file is mapped (`emit_file_partitions`), the prefix sums are those of the mapped lengths (`AddPrefix`, one source a step), and a target
inside a source is one `MappedTarget`. The sourced engine stats every path (`StatPath`), then works
target by target: `SourcedTarget` decides whether bytes are needed, `CloseCurrent` and `OpenSource` move on to another
source, `ProbeTarget` looks for an exact boundary, `ScanByte` and `ScanPattern` are single reads of the
scan; the advance has the code's `.max(1)`, which only a read no longer than the overlap needs. `Replace` renames or unlinks a path between any two steps. `Assemble` cuts the logical
string into workers' ranges and `write_assignments` prints them. In both engines a target reaches the
search only when it lies beyond the last cut, which is never before the cached boundary of its source, so the
branch that answers from the cache is never taken; it is modelled because the code has it.

`CommandLine` models `main`, `run` and the two argument loops: one step consumes one argument, then come the checks
in the code's order, the dispatch to an engine, and the rows, each of which may fail to be
written. An argument is a token with a meaning for each parser. The plan is its number of ranges.

`RangePlanning` is one call of a range planner by one of three clients: C code, Python's `plan_file_ranges`
(count, allocate, fill, one retry), and Python's `plan_file` (through an engine handle). It composes the
argument checks of `mmap_engine_plan_partition_ranges`, the openers of the three source modes on Unix and
Windows, the fill of the caller's buffer, and Python's checks of the result. An opener is one action per
system call (`OpenUnix`, `LseekUnix`, `MmapUnix`; `CreateFileW` ... `MapViewOfFile`; the `Windowed...` and `Pread...` ones), and
each of its exits names the objects the code closes there: `NativeFails({"mapping", "file"})` is the exit of
`MapViewOfFile` with its two `CloseHandle`s, an empty file closes its descriptor and returns a struct without one. `handles` are the kernel
objects open, `owned` the fields of the source struct that hold one, and the three Drops close the fields that
are set, whatever is open. `stray` records a close of something that was not open. The first read of a windowed source adds a view
(`WindowedReadAt`). A file is its size and its record ends, and the plan of a file is given by definition.
Another process may rename files over the path for ever, on Windows only while the path is not open.

`Engine` models a handle's life through either surface (`api`). Opening is one step per
system call: `Capture`, `Probe`, `OpenFd`, `Measure`, `MapPages`, each with its failure.
Four actions end an open (`OpenedRust`, `OpenedPinnedRust`, `OpenedFfi`, `OpenedPinnedFfi`). A gated call is `ScanCall` or `PartitionCall`, then the gate (`GateUnpinned`, `GatePass`, `GateFailRust`,
`GateFailFfi`), then the work. `Rename` and `Write` are other processes, allowed between
any two steps. The contents of files are left out: a delimited scan or a partitioning
yields any covering of the mapping (for chunks, one whose inner chunks are longer
than `chunk_size`), which is what the planner and the scanner are shown to
deliver. `Revalidate` compares size, identity and modification time in the code's order and yields the first
class that differs, which is what the stash and the caller are told. A scan that looks at bytes the mapped file has lost ends in `ScanFault`
(SIGBUS). `drift` and `raced` are history variables: has the path's metadata left
the pin (and come back), and has a file changed since the last stat?

Bodies named after a mistake (`ScanAdvanceNoOverlap`, `LockNotTaken`, ...) are
plausible slips in the definition they stand beside. No specification uses them;
substituting one must make the property it is paired with fail, which shows
that the property depends on that line of the code.

## Runs

| run | instance | question |
|---|---|---|
| `partition` | all strings up to 9 over two bytes, 3 delimiters, requests 0..11 | coverage, alignment, equality with every scalar oracle of the tests and the fuzz target, no split record |
| `overlap_split` | strings up to 6, delimiter of two equal bytes | violation: a record is split |
| `source` | strings up to 7, 3 delimiters, requests 0..3, buffers 0, 4, 6, first probe 1 | no occurrence skipped, refinement of the slice planner, the recorded length covered whatever happens to the file, termination under any reads |
| `windowed` | 2 threads, files of 0 and 5 bytes, alignment 2, windows 1, 2, 7 (= `u64::MAX`) | exact bytes, no use after unmap, no leak, aligned and bounded views inside the file, lock released |
| `one_window` | the same | violation: two windows at once |
| `engine` | 2 files, 1 directory, sizes 0 and 3, at most 3 file-system changes, 2 threads | soundness of the gate, what a fault presupposes, layouts, errors, resources |
| `swap_back` | the same with 2 changes | violation: swap and swap back pass the gate |
| `chunks` | strings up to 8, 4 delimiters, chunk sizes 0, 1, 2, 3, 8 and `usize::MAX` = 15 | tiling, cursor parity and `size_hint`, equality with every scalar oracle, fixed chunks against wide arithmetic |
| `search` | 2-bit bytes, 3-byte words, haystacks up to 7, every alignment | leftmost match, termination |
| `logical` | every single file up to 4 bytes and 32 lists of three, 2 delimiters, 1, 3 or 9 workers, scan buffers 0 and 3, 1 replacement | rows tile the sources, cuts equal the stateless definition and the single-file oracle, one open at a time, termination |
| `command_line` | 6 tokens, up to 2 files, plans of up to 3 ranges | the grammar decides, rows only from a complete plan |
| `ranges` | files of size 0 to 6, capacities 0, 1, 3, 1, 2 or 4 parts, both platforms, every argument defect, unbounded replacement | buffer never overrun, coherent plan, every object closed exactly once, the call returns |

Why the bounds are enough to be interesting. Two byte values distinguish "part of a
delimiter" from "not"; strings of 9 hold three records of a three-byte delimiter; requests up to 11
exceed every length, so the cap acts. A first probe of 1 and buffers of 4 and 6 let
the probe double twice and an occurrence straddle probes of several sizes. `IsizeMax` 5 makes the
largest buffer refused. A request of 3 on a window of 2 is the real situation of a 1 MiB scan
buffer on a 64 KiB window. In `logical`, the lists contain
empty sources in each place and sources without a delimiter; nine workers exceed some totals; a buffer
of 3 makes a scan read twice; one replacement is enough for a length that no longer fits
the prefix sums, and may also keep the length. In `ranges`, the files include one whose plan has more ranges than another's of any
count asked for, so that the fill call can find its buffer too small in both attempts. Three file-system changes are what it takes to swap a file in,
out, and truncate it. A haystack of 7 has a prefix, a whole word and a tail at some alignment,
and the byte values 0, 1, 2 include the pattern byte, its successor (the one
a borrow turns into a false zero) and one with the top bit set.
`SYMMETRY` in `engine` permutes the two regular files, which nothing distinguishes;
that configuration checks no liveness. In `MCEngine`, model time is a counter of modification-time ticks; a write
may or may not tick, as on a coarse clock.

Deadlock is checked in every run; finished calls, killed processes and closed files
stutter explicitly.

### What the violations show

* `overlap_split`. `find_partition_boundaries_pattern` promises that "no record is split", naming
  `"\r\n\r\n"` framing. It searches from the ideal target without knowing which
  occurrences a sequential reader would already have consumed. On `x\n\n\nx` with `\n\n` and two partitions
  the cut is 4; a reader's first record ends at 3. For delimiters that cannot overlap themselves
  run `partition` shows the promise holds, and theorem `RecordsStayWhole` proves it.
* `one_window`. `WindowedMmapSource` is documented as mapping "at most one window at
  a time". `read_at` maps the new view, copies, and only then unmaps the old. `ViewBudget` states what does hold:
  at most two views. Each is bounded by window or request (whichever is larger) plus alignment; a request longer than the window
  enlarges the view beyond the documented `window_bytes` plus slack.
* `swap_back`. `open_pinned` is documented to catch a swap between capture and map at
  the first gated call. It does if the swapped-in file is still there; if the first file is back, the gate
  passes and the mapping belongs to the other file. `GateIsSound` states what holds: a passed gate
  identifies the mapping provided the path's metadata never left the snapshot and returned.
  The documentation's immutable-input contract excludes this, the sentence about the gate does not.

Smaller observations without a run: on an empty file the C scans return 0 with no message,
although their comments (`src/ffi.rs` 335-337, 361-363, 506-507) say "0 on error (null handle, empty file, ...). On error, call `mmap_engine_last_error()`", which
is why `ErrorsExplained` speaks of scans of non-empty files only; `requested_partitions == 0` on an empty file is not an error; a pin on size alone compares the path with the
snapshot, never with the mapping; a target that falls inside a multi-byte delimiter
is searched past, so a cut can lie more than one record after its target; the help text's "a source whose length
changed mid-planning aborts the plan" is about sources that are opened (a source no target falls into is printed with the length of
the first stat, which is why `LogicalCoverage` relates the file to its length only for sources that are cut).

### Fairness

`SrcFairSpec` and the fairness of `PatternSearch` say that a running call keeps taking steps: sequential code with no
waiting in it. `WindowedMmap` has weak fairness of each thread's steps inside `read_at`
only: a thread that holds the mutex is never blocked, so it reaches the release if it
is scheduled. Nothing assumes that the mutex is fair to waiters, that callers call, or that reads return
more than they must. `LogicalPlanner` and `RangePlanning` have weak fairness of the calling thread's steps: one
thread, no waiting. In `LogicalPlanner` a failing read is left out of the fair steps, so termination does not rest on a
failure. In `RangePlanning` nothing is assumed of the processes that rename files; they may do so between any two steps and for ever, and
`CallReturns` holds because the retry is bounded.

## Proofs

TLAPS proves the theorems below for every value of the constants: any input, delimiter, request and buffer size, any
number of threads, any set of files, any number of changes by other processes. A property of the runs appears with
the theorem that generalises it. The proof modules state no assumption of their own.

The assumptions are the named `ASSUME`s of the modelled modules, which TLC evaluates in every run. They say that
delimiters are non-empty byte strings, that sizes, counts and capacities are natural numbers (`InputAssumption`, `BufferAssumption`, `ChunkAssumption`,
`LogicalAssumption`, `EngineAssumption`, ...), and that a model value that stands for "nothing" is none of the values
it is told apart from (`NoneIsNoView`, and the conjuncts about `None`, `Invalid`, `Missing`, `NoPosition` and `NoSource`), which is
what `Option::None` gives the code.

| theorem | property | argument |
|---|---|---|
| `PlannerProofs` `PlannerTypeCorrect`, `PlannerCovers`, `PlannerAligned`, `PlannerBounded`, `PlannerCutsIncrease` | `TypeOK`, `Coverage`, `RecordAligned`, `AtMostRequested`, `CutsIncrease` | `PlanInv`, `AlignInv` |
| `RecordsStayWhole` | `NoRecordSplit`, if the delimiter does not overlap itself | alignment, and two occurrences of such a delimiter never overlap |
| `PlannerMatchesOracles` | `MatchesScalarOracles` of `PartitionDifferential` | `PlanInv`, `OracleInv`, `OracleTheorems` |
| `SourceTypeCorrect`, `SourceSkipsNothing`, `SourceNeverStarves` | `SrcTypeOK`, `NoMatchSkipped`, `ProbeHoldsPattern` | `SearchInv` |
| `SourceImplementsSlice` | `PlansLikeSlice` | `SearchInv`, `ParityInv`, a refinement mapping |
| `SourceCoversAnyFile` | `RecordedLengthCovered`: coverage and the bound for the buffered planner, on any file | `SearchInv`, `SourcePlanInv` |
| `SourceAligned` | `RecordAligned` of the buffered planner on a stable file | `SearchInv`, `SourcePlanInv`, `AlignInv` |
| `WindowedMmapProofs` `ReadsAreExact`, `CopiesAreSafe`, `NothingLeaks`, `BudgetHolds` | `ExactBytes`, `CopiesFromLiveView`, `NoViewLeaks`, `ViewBudget` | `ViewInv` |
| `ScannerProofs` `ScanTiles`, `CursorParity`, `FixedChunksExact` | `ChunksTile`, `CursorAgrees`, `FixedMatchesOracle` | `ChunkInv` |
| `ScanMatchesOracles` | `MatchesScalarOracles` of `ChunkDifferential` | `ChunkInv`, `OracleTheorems` |
| `WordTestFindsFirst`, `SearchFindsFirst` | `FindsFirst` | `NoBorrow`, `WordTest`; `SearchInv` |
| `EngineProofs` `TypeCorrect`, `HandlesAreReleased`, `MismatchFailsClosed`, `ErrorsAreExplained`, `LayoutTiles`, `PassedGateIsSound`, `FaultOnlyByRace` | `TypeOK`, `NothingLeaks`, `FailClosed`, `ErrorsExplained`, `LayoutTilesMapping`, `GateIsSound`, `FaultNeedsRace` | `EngineInv` |
| `ErrorsKeepLayout` | `LayoutSurvivesErrors` (action property) | `EngineInv` |
| `RangePlanningProofs` `ObjectsAreReleased`, `BufferIsExact`, `PlansAreCoherent` | `HandlesReleased`, `BufferNeverOverrun`, `PlanIsCoherent` | `RangeInv` |
| `CommandLineProofs` `GrammarIsDecided`, `RowsAreAllOrNothing` | `GrammarDecides`, `AllOrNothing` | `CommandInv` |
| `LogicalPlannerProofs` `SourcesOpenOnce`, `CutsFallBetweenRecords` | `OpensOnceInOrder`, and that every cut is sound | `LogicalInv` |
| `PlansCover` | `LogicalCoverage` | `LogicalInv`, `AssignInv` |
| `CutsAreReference` | `CutsMatchReference` | `LogicalInv`, `ReferenceInv` |

Why the properties need a stronger invariant:

* **Slice planner.** The properties speak of the output, which is determined by the cut list built earlier. `PlanInv` carries the
  cut list (strictly increasing, at most `i - 1` cuts, the last equal to `last_boundary` while the loop
  runs) through the loop, and in the assembly phase says that the ranges so far tile `[0, prev)` and `prev` is the last cut consumed. `AlignInv` adds, separately, that
  each cut is at EOF or at a record end. The one
  arithmetic fact, `TargetInFile`, says an ideal target with `i < n` lies inside the file. `RecordsStayWhole` turns the finding of `overlap_split`
  into its exact positive counterpart: `Unbordered(d)` says that no proper shift of the delimiter agrees with it, two occurrences are then
  disjoint, so a sequential reader sees each of them, and a cut after an occurrence is a record end to that reader too. (Whether the reader's
  recursive definition has a solution is settled by a witness, the set of all occurrences, and not by induction.)
* **Byte-source planner.** `SearchInv` adds to the shape of the state that, on a stable file, no delimiter starts between the target and the
  buffer, that the probe never becomes shorter than the delimiter, and that the probe is full (`filled = want`) when it is searched. The
  step that needs all three is `ScanAdvance`: an occurrence that starts before the new offset would have lain entirely inside the bytes just searched.
  Without a full probe the `max(1)` advance could pass over an occurrence that was only partly read.
* **Refinement.** The mapping sends the steps of a search (`ReadTail`, `ReadFill`, `ScanAdvance`, ...) to stuttering and its outcome to the slice planner's
  outcome: a hit is the first occurrence after the target because `NoMatchSkipped` excluded an earlier one. `ParityInv` says that on a stable file a
  search begins only where the slice planner would begin one, at a target that does not already follow a delimiter. An unstable file, for which
  nothing is promised, maps to a planner that never begins. `SourceCoversAnyFile` and `SourceAligned` state coverage, the bound and alignment for the
  buffered planner itself: `SourcePlanInv` says that it keeps the slice planner's `PlanInv`, which says nothing of bytes, on any file, a search under way standing
  for one step of the loop: whatever a comparison answers, the cut it pushes lies beyond the last one and inside the recorded length. `AlignInv` needs the bytes and holds on a stable file only.
* **Oracles.** A reference loop is a recursive function, and TLA+ defines that as some function which solves the loop's equation. `OracleTheorems` shows of each loop that
  its equation has a solution and only one. The solution is a closed form (the first match from here on), or, for a loop that carries a variable, a table of rows built downwards
  from the last; two solutions agree because the greatest argument at which they differ would not be the greatest. This replaces the induction schema. Then
  `OracleInv` compares loops that have already done something: what the planner has pushed followed by what the oracle's table still pushes from here on is what the oracle pushes from the
  start, for the cuts and for the ranges. The cap on the request is not observable because, when more parts are requested than there are bytes, consecutive
  targets are at most one byte apart (`TargetsAreClose`), so a target lost to the cap would have collapsed or cut at the same place (`CutsCapped`). The scanner's chunks
  are the oracles' walk because both are built by `ChunkEnd` (`TiledIsWalk`).
* **Windowed mapping.** The properties speak of one thread; what protects them is that the others stay out. `ViewInv` says that only the
  holder of the mutex is past the check, which view is cached and which is fresh at each of its steps, and that `live` is exactly these.
* **Chunk scanner.** `ChunkInv` says that scan and cursor stand at the ends of chunk sequences that each begin at 0 and are built by one
  rule, so that they agree on the shorter of the two; `size_hint` is then arithmetic about how many chunks of at least one byte, or of more than
  the chunk size, fit in the rest. `FixedMatchesOracle` is a statement about saturating and wide arithmetic with no state in it.
* **Search.** A word is the sum of its bytes times powers of two. If no byte below byte k is zero, subtracting the word of ones borrows nothing from byte k (`NoBorrow`), so up to
  and including the first zero byte the test marks exactly the zero bytes (`WordTest`); above it a borrow may mark a byte falsely, and the code looks only at the least mark. `WordTestFindsFirst`
  says so for every word, any number of bits in a byte and bytes in a word. `SearchInv` of `ScannerProofs` then says that nothing matches below `search_start` and that from there to
  `i` no byte is the first of the pattern, whether it was passed in the prefix, by a word or in the tail. That the powers of two satisfy their equation is
  derived from the cardinality of a power set.
* **Engine.** What a gate shows is a fact about the past: the descriptor was opened and measured in steps it never sees. `IdentityInv` says
  that as long as the path's metadata never left the captured identity, the inode opened is the one captured and the length measured is the one captured;
  `DriftInv` ties that history to what `Revalidate` observes; `RaceInv` says what can have changed since. `PlanFits` says of a stored layout that
  it was computed for a mapping of this length, `HeldInv` what is held at each stage of an open.
* **Range planning.** `RangeInv` follows the call: which kernel objects exist at each step of each opener and which fields hold them (`HandleInv`), that
  a step of an opener is reached only on its platform and in its mode (`RouteInv`), so that the Drop and the exit reached close exactly what is open, that the ranges are the plan of the
  file the last open returned (`SourceInv`), that the buffer is empty or holds exactly that plan (`BufferInv`), and, as long as nothing was renamed over the path, that
  this file is the one the path names and the fill call has the capacity for its plan (`QuietInv`). Cuts are a set; that the k-th and
  the (k+1)-st smallest of them are in order is proved about `Ranked`.
* **Command line.** The grammar is defined on the whole argument list, without an order; the loop sees one argument at a time. `ReadInv` says that
  the options collected are exactly what the part already read means, `CheckedInv` that the checks passed so far are the clauses of the grammar in the code's order. A
  refused argument is shown to make every continuation ungrammatical.
* **Multi-file planner.** A source is never opened twice because the targets grow, so the source they fall into does, and `SourcedInv` says that none beyond the
  current target's has been opened. A cut is sound because `SourceInv` ties each opened file to the length the prefix sums were made from,
  and a boundary carried over from an earlier target is a record end of that same file (`StateOK`). The theorem holds with any number of
  renames between the stat and the open.
* **Its rows.** Any strictly growing cuts of the logical string, cut further at the source boundaries, give rows that tile it in order (`IntervalTiles`, `AssignmentsTile`,
  `AllRowsTile`), with every worker's rows inside its interval; `AssignInv` says that the rows printed are those of the plan's cuts.
* **Its reference.** `CutsMatchReference` compares the engines with a definition that carries nothing from target to target. `QuietInv` says that the boundary cached for a source
  never lies beyond the last cut; a target at or before the last cut is skipped, so the branch that answers from the cache is dead and resuming a scan
  cannot skip a match. `MatchInv` is the comparison of two loops as for the oracles. For a single file the stateless definition, its targets and its rows are those of the
  partition oracle (`SingleFileMatches`), so `partition-files` of one file is `partition` of it.

Only model-checked: liveness under fairness (`SrcTerminates`, `LockReleased`, `SearchTerminates`, `PlanningEnds`,
`CallReturns`), which the prover does not treat. Every invariant, the action property and the refinement of the passing runs
have a theorem. The properties of the three violation runs have none, being false.

## Not modelled

* The datatrove reader: range reading and rank assignment inside the host library's process model; it keeps no
  state between calls and the record parsing is the host library's.
* Argument coercion, library loading and plan manifests of the Python package; the version, ABI and capability queries of
  the C ABI, which return constants.
* The identity class of a pin on Windows, which has no file key and always passes there. The Windows open and windowed open are modelled (in
  `RangePlanning`); the Windows variants of map and unmap inside `read_at` differ from Unix in the calls only.
* Files that can be opened and mapped but are not regular (block devices): the probe refuses them. The Rust
  path probes eligibility twice in a row, which is one `Probe`.
* Message texts, output formats and `madvise`; the `catch_unwind` around the C entry points, except where a reachable panic
  is caught (`PanicPattern`); input decoding and pseudo-random generation in tests and fuzz targets.
* Arithmetic failures the types exclude: the `u128` sums of `LogicalPlanner` and the internal-error branches that guard
  them.
* A file written in place while `partition-files` or a range planner reads it. The documentation's immutable-input contract
  excludes it; `SourcePlanner` and `Engine` do model it, as the places where the code says what then happens.
* Conformance clients, examples and benchmarks: they exercise the program and contain none of it.

## Plan

Done, in this order because every other part relies on the plans being right: `Records`, `PartitionPlanner`,
`SourcePlanner`, `WindowedMmap`, `PatternSearch`, `ChunkScanner`, `Engine`, the proofs about the two planners; then the oracles
with the two differential modules, `LogicalPlanner`, `CommandLine` and `RangePlanning`; then the refinement and the proofs
about each of the other components; last the proofs about what the loops compute: the oracles, the word test, the rows and the
reference of the multi-file planner.

Next: a reader of ranges (ranks reading the ranges of a plan, every record read by exactly one rank) would be the next component.
