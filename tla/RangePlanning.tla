---------------------------- MODULE RangePlanning ----------------------------
(***************************************************************************)
(* One call of a range planner by its client, while other processes rename *)
(* files over the path: the C ABI's stateless                              *)
(* mmap_engine_plan_partition_ranges and the openers behind it, Python's   *)
(* two-phase use of it (plan_file_ranges: ask for the count, allocate,     *)
(* fill, retry once when the count grew), and Python's plan_file, which    *)
(* goes through an engine handle.  Both Python functions stat the path     *)
(* first and check the plan against that size and against the bytes of a   *)
(* separate open afterwards; every open and every stat looks the path up   *)
(* anew.                                                                   *)
(*                                                                         *)
(* A file is its size and the set of its record ends (offsets following a  *)
(* delimiter byte).  The planner itself is PartitionPlanner/SourcePlanner; *)
(* here its result is given by definition.  An operating system call may   *)
(* fail.  On Windows every file is opened with FILE_SHARE_READ only, so    *)
(* nothing can be renamed over a path while it is held open.               *)
(***************************************************************************)
EXTENDS Integers, FiniteSets, Sequences

CONSTANTS Files,       \* [size, ends]: what the path can name
          PartCounts,  \* requested partitions (validated > 0 by Python)
          Capacities,  \* what a C caller offers
          Missing, None

ASSUME RangePlanningAssumption ==
    /\ \A f \in Files : f.size \in Nat /\ f.ends \subseteq 1..f.size
    /\ PartCounts \subseteq Nat \ {0}
    /\ Capacities \subseteq Nat
    /\ None \notin {"plan", "failed", "changed", "returned"}

VARIABLES
    path,       \* what the path names now
    disturbed,  \* some file was renamed over it since the call began
    req,        \* [client, platform, options, parts, defect]
    pc,
    file_size,  \* _verify_file's answer
    attempt,    \* 0 or 1, plan_partition_ranges' loop
    phase,      \* "count" or "fill"
    capacity,   \* elements the output buffer has
    out_ranges, \* [slot |-> range] the elements written, 0-based
    out_count,
    code,       \* the C ABI's return value
    error,      \* mmap_engine_last_error() is not null
    source,     \* the file the last open returned
    handles,    \* kernel objects the native side has open
    owned,      \* the fields of the source struct that hold one
    stray,      \* something was closed that was not open
    ranges,     \* the plan computed last
    verified,   \* the file _verify_record_alignment read
    result      \* None, "plan", "failed" or "changed"; for C "returned"

vars == <<path, disturbed, req, pc, file_size, attempt, phase, capacity, out_ranges,
          out_count, code, error, source, handles, owned, stray, ranges, verified, result>>

objects == <<handles, owned, stray>>
world == <<path, disturbed, req>>
python == <<file_size, attempt, phase, capacity, verified>>
buffer == <<out_ranges, out_count>>
------------------------------------------------------------------------------
SourceMode == {"mmap", "windowed", "pread"}

(* with_window_bytes: too small a window is only noticed by the opener.    *)
PlannerOptions == [mode : SourceMode, window_bytes : {"enough", "too small"}]

(* What is wrong with a C caller's arguments. *)
Defects == {"path is null", "delimiter_len is 0", "delimiter is null",
            "delimiter_len exceeds isize", "out_count is null",
            "out_ranges is null", "requested_partitions is 0", "bad source_mode"}

(* The least of a set of numbers. *)
First(S) == CHOOSE e \in S : \A other \in S : e <= other

(* The plan of a file: cuts at the first record end at or after each ideal *)
(* target.                                                                 *)
Cuts(f, parts) ==
    LET n == IF parts < f.size THEN parts ELSE f.size
    IN  {First({e \in f.ends \cup {f.size} : e >= (f.size * i) \div n}) : i \in 1..n}

(* The k-th smallest element of a set of numbers. *)
Ranked(S, k) == CHOOSE e \in S : Cardinality({other \in S : other <= e}) = k

plan_partition_boundaries(f, parts) ==
    LET cuts == Cuts(f, parts)
    IN  [k \in 1..Cardinality(cuts) |->
            <<IF k = 1 THEN 0 ELSE Ranked(cuts, k - 1), Ranked(cuts, k)>>]
------------------------------------------------------------------------------
Init ==
    /\ path \in Files
    /\ disturbed = FALSE
    /\ req \in [client : {"plan_file"}, platform : {"unix", "windows"},
                options : [mode : {"mmap"}, window_bytes : {"enough"}],
                parts : PartCounts, defect : {None}]
              \cup
              [client : {"plan_file_ranges"}, platform : {"unix", "windows"},
               options : [mode : SourceMode, window_bytes : {"enough"}],
               parts : PartCounts, defect : {None}]
              \cup
              [client : {"c"}, platform : {"unix", "windows"},
               options : PlannerOptions, parts : PartCounts,
               defect : Defects \cup {None}]
    /\ capacity \in IF req.client = "c" THEN Capacities ELSE {0}
    /\ pc = IF req.client = "c" THEN "call" ELSE "verify_file"
    /\ file_size = 0
    /\ attempt = 0
    /\ phase = IF req.client = "c" THEN "fill" ELSE "count"
    /\ out_ranges = <<>>
    /\ out_count = 0
    /\ code = 0
    /\ error = FALSE
    /\ source = None
    /\ handles = {}
    /\ owned = {}
    /\ stray = FALSE
    /\ ranges = <<>>
    /\ verified = None
    /\ result = None

(* Another process renames a file over the path, or removes it.            *)
Replace(f) ==
    /\ pc # "done"
    /\ f # path
    /\ req.platform = "windows" => handles = {}
    /\ path' = f
    /\ disturbed' = TRUE
    /\ UNCHANGED <<req, pc, python, buffer, code, error, source, objects, ranges, result>>

Finish(outcome) ==
    /\ pc' = "done"
    /\ result' = outcome
    /\ UNCHANGED <<world, file_size, attempt, phase, capacity, buffer, code, error,
                   source, objects, ranges>>

Raise == Finish("failed") /\ UNCHANGED verified

(* _verify_file: os.stat of the path. *)
_verify_file ==
    /\ pc = "verify_file"
    /\ \/ path = Missing /\ Raise
       \/ /\ path # Missing
          /\ file_size' = path.size
          /\ pc' = IF req.client = "plan_file" THEN "probe" ELSE "call"
          /\ UNCHANGED <<world, attempt, phase, capacity, verified, buffer, code, error,
                         source, objects, ranges, result>>
------------------------------------------------------------------------------
(* close, CloseHandle, munmap or UnmapViewOfFile on each of them.          *)
Close(closed) ==
    /\ handles' = handles \ closed
    /\ stray' = (stray \/ ~(closed \subseteq handles))

(* An exit with an error, after the closes it makes itself: set_error, -1, *)
(* and no source.                                                          *)
NativeFails(closed) ==
    /\ Close(closed)
    /\ owned' = {}
    /\ error' = TRUE
    /\ code' = -1
    /\ pc' = "returned"
    /\ UNCHANGED <<world, python, buffer, source, ranges, result>>

(* mmap_engine_plan_partition_ranges: the argument checks. *)
CheckArguments ==
    LET bad == req.defect # None /\ ~(req.defect = "out_ranges is null" /\ capacity = 0)
    IN  /\ pc = "call"
        /\ \/ bad /\ NativeFails({})
           \/ /\ ~bad
              /\ error' = FALSE
              /\ pc' = "probe"
              /\ UNCHANGED <<world, python, buffer, code, source, objects, ranges, result>>

(* probe_mmap_eligible is the first step of every opener. *)
ProbeThen(opener) ==
    /\ pc = "probe"
    /\ \/ path = Missing /\ NativeFails({})
       \/ /\ path # Missing
          /\ pc' = opener
          /\ error' = FALSE
          /\ UNCHANGED <<world, python, buffer, code, source, objects, ranges, result>>

(* MmapFile::open_path encodes the path as it is; MmapFile::open, behind   *)
(* mmap_engine_open, goes through lossy UTF-8 (the path here is UTF-8).    *)
open_path_windows ==
    /\ req.options.mode = "mmap" /\ req.platform = "windows" /\ req.client # "plan_file"
    /\ ProbeThen("CreateFileW")

open_windows ==
    /\ req.platform = "windows" /\ req.client = "plan_file"
    /\ ProbeThen("CreateFileW")

ProbeUnix ==
    /\ req.options.mode = "mmap" /\ req.platform = "unix"
    /\ ProbeThen("open")

ProbeUnmapped ==
    \/ req.options.mode = "windowed" /\ ProbeThen("window size")
    \/ req.options.mode = "pread" /\ ProbeThen("pread open")
------------------------------------------------------------------------------
(* The openers, one system call a step.  Each step may fail, and its exit  *)
(* closes what the code closes there.                                      *)

(* The path is opened: from here on the source is the file it named. *)
OpensFile(next) ==
    /\ path # Missing
    /\ source' = path
    /\ handles' = handles \cup {"file"}
    /\ pc' = next
    /\ UNCHANGED <<world, python, buffer, code, error, owned, stray, ranges, result>>

(* A step that opens nothing. *)
GoesOn(next) ==
    /\ pc' = next
    /\ UNCHANGED <<world, python, buffer, code, error, source, objects, ranges, result>>

(* Another object is opened. *)
Acquires(object, next) ==
    /\ handles' = handles \cup {object}
    /\ pc' = next
    /\ UNCHANGED <<world, python, buffer, code, error, source, owned, stray, ranges, result>>

(* The opener returns a source with these fields set. *)
Returns(fields) ==
    /\ owned' = fields
    /\ pc' = "plan"
    /\ UNCHANGED <<world, python, buffer, code, error, source, ranges, result>>

(* MmapFile::open_unix.  For an empty file the descriptor is closed and    *)
(* the struct holds -1.                                                    *)
OpenUnix ==
    /\ pc = "open"
    /\ NativeFails({}) \/ OpensFile("lseek")

(* Plausible slip: the struct of an empty file keeps the closed descriptor. *)
LseekKeepsFd ==
    /\ pc = "lseek"
    /\ \/ NativeFails({"file"})
       \/ source.size = 0 /\ Close({"file"}) /\ Returns({"file"})
       \/ source.size > 0 /\ GoesOn("mmap")

LseekUnix ==
    /\ pc = "lseek"
    /\ \/ NativeFails({"file"})
       \/ source.size = 0 /\ Close({"file"}) /\ Returns({})
       \/ source.size > 0 /\ GoesOn("mmap")

MmapUnix ==
    /\ pc = "mmap"
    /\ \/ NativeFails({"file"})
       \/ /\ handles' = handles \cup {"view"}
          /\ Returns({"view", "file"})
          /\ UNCHANGED stray

(* MmapFile::open_windows_wide.  For an empty file the handle is closed    *)
(* and the struct holds zeros.                                             *)
CreateFileW ==
    /\ pc = "CreateFileW"
    /\ NativeFails({}) \/ OpensFile("GetFileSizeEx")

GetFileSizeEx ==
    /\ pc = "GetFileSizeEx"
    /\ \/ NativeFails({"file"})
       \/ source.size = 0 /\ Close({"file"}) /\ Returns({})
       \/ source.size > 0 /\ GoesOn("CreateFileMappingW")

CreateFileMappingW ==
    /\ pc = "CreateFileMappingW"
    /\ NativeFails({"file"}) \/ Acquires("mapping", "MapViewOfFile")

(* Plausible slip: the file handle is forgotten. *)
MapViewClosesMappingOnly ==
    /\ pc = "MapViewOfFile"
    /\ \/ NativeFails({"mapping"})
       \/ /\ handles' = handles \cup {"view"}
          /\ Returns({"view", "mapping", "file"})
          /\ UNCHANGED stray

(* When the view cannot be mapped, both handles are closed. *)
MapViewOfFile ==
    /\ pc = "MapViewOfFile"
    /\ \/ NativeFails({"mapping", "file"})
       \/ /\ handles' = handles \cup {"view"}
          /\ Returns({"view", "mapping", "file"})
          /\ UNCHANGED stray

(* WindowedMmapSource::open_path: a window below the minimum is refused    *)
(* before the file is opened.                                              *)
open_windowed ==
    /\ pc = "window size"
    /\ \/ req.options.window_bytes = "too small" /\ NativeFails({})
       \/ /\ req.options.window_bytes = "enough"
          /\ GoesOn(IF req.platform = "unix" THEN "windowed open" ELSE "windowed CreateFileW")

(* On Unix the descriptor is kept, for an empty file too; views come with  *)
(* the reads.                                                              *)
WindowedOpen ==
    /\ pc = "windowed open"
    /\ NativeFails({}) \/ OpensFile("windowed lseek")

WindowedLseek ==
    /\ pc = "windowed lseek"
    /\ NativeFails({"file"}) \/ (Returns({"file"}) /\ UNCHANGED <<handles, stray>>)

(* On Windows a section object for the whole file is kept as well, unless  *)
(* the file is empty.                                                      *)
WindowedCreateFileW ==
    /\ pc = "windowed CreateFileW"
    /\ NativeFails({}) \/ OpensFile("windowed GetFileSizeEx")

WindowedGetFileSizeEx ==
    /\ pc = "windowed GetFileSizeEx"
    /\ \/ NativeFails({"file"})
       \/ source.size = 0 /\ Returns({"file"}) /\ UNCHANGED <<handles, stray>>
       \/ source.size > 0 /\ GoesOn("windowed CreateFileMappingW")

WindowedCreateFileMappingW ==
    /\ pc = "windowed CreateFileMappingW"
    /\ \/ NativeFails({"file"})
       \/ /\ handles' = handles \cup {"mapping"}
          /\ Returns({"mapping", "file"})
          /\ UNCHANGED stray

(* PreadSource::open_path; a File that leaves its scope is closed.         *)
PreadOpen ==
    /\ pc = "pread open"
    /\ NativeFails({}) \/ OpensFile("pread metadata")

PreadMetadata ==
    /\ pc = "pread metadata"
    /\ NativeFails({"file"}) \/ (Returns({"file"}) /\ UNCHANGED <<handles, stray>>)
------------------------------------------------------------------------------
(* What the Drop of each source closes: the fields that are set.           *)
DropMmapFile ==
    owned \cap (IF req.platform = "unix" THEN {"view", "file"} ELSE {"view", "mapping", "file"})

DropWindowedMmapFile ==
    owned \cap (IF req.platform = "unix" THEN {"view", "file"} ELSE {"view", "mapping", "file"})

DropPreadSource == owned \cap {"file"}

Dropped ==
    CASE req.options.mode = "mmap" -> DropMmapFile
      [] req.options.mode = "windowed" -> DropWindowedMmapFile
      [] req.options.mode = "pread" -> DropPreadSource

(* A source without a slice is planned through a buffer, which may not be  *)
(* had, and is read unless one partition is all there can be.              *)
Buffered == req.options.mode # "mmap" /\ req.parts > 1 /\ source.size > 0
Reads == Buffered /\ source.size > 1

(* The first read of a windowed source maps a view, which is then cached   *)
(* (later ones replace it: WindowedMmap.tla).                              *)
WindowedReadAt ==
    /\ pc = "plan"
    /\ req.options.mode = "windowed" /\ Reads
    /\ "view" \notin owned
    /\ handles' = handles \cup {"view"}
    /\ owned' = owned \cup {"view"}
    /\ UNCHANGED <<world, pc, python, buffer, code, error, source, stray, ranges, result>>

(* plan_partition_ranges computes the plan and drops the source, at its    *)
(* end or when a read fails.  plan_file's handle is freed by its `finally`. *)
plan_partition_ranges ==
    /\ pc = "plan"
    /\ \/ Buffered /\ NativeFails(Dropped)
       \/ /\ req.options.mode = "windowed" /\ Reads => "view" \in owned
          /\ ranges' = plan_partition_boundaries(source, req.parts)
          /\ Close(Dropped)
          /\ owned' = {}
          /\ pc' = IF req.client = "plan_file" THEN "lengths" ELSE "fill"
          /\ UNCHANGED <<world, python, buffer, code, error, source, result>>

(* Plausible slip: the capacity check is off by one. *)
FillRoomForOneMore ==
    /\ pc = "fill"
    /\ out_count' = Len(ranges)
    /\ \/ /\ Len(ranges) > capacity + 1
          /\ code' = -2
          /\ UNCHANGED out_ranges
       \/ /\ Len(ranges) <= capacity + 1
          /\ code' = 0
          /\ out_ranges' = [slot \in 0..(Len(ranges) - 1) |-> ranges[slot + 1]]
    /\ pc' = "returned"
    /\ UNCHANGED <<world, python, error, source, objects, ranges, result>>

(* The count is always reported; the ranges only when they all fit.        *)
Fill ==
    /\ pc = "fill"
    /\ out_count' = Len(ranges)
    /\ \/ /\ Len(ranges) > capacity
          /\ code' = -2
          /\ UNCHANGED out_ranges
       \/ /\ Len(ranges) <= capacity
          /\ code' = 0
          /\ out_ranges' = [slot \in 0..(Len(ranges) - 1) |-> ranges[slot + 1]]
    /\ pc' = "returned"
    /\ UNCHANGED <<world, python, error, source, objects, ranges, result>>
------------------------------------------------------------------------------
(* The client looks at the return code. *)
CReturns ==
    /\ pc = "returned"
    /\ req.client = "c"
    /\ Finish("returned")
    /\ UNCHANGED verified

(* plan_file's native call failed. *)
HandleFails ==
    /\ pc = "returned"
    /\ req.client = "plan_file"
    /\ Raise

(* plan_file: offsets from the chunk lengths; an empty plan is right for   *)
(* an empty file only.                                                     *)
Lengths ==
    /\ pc = "lengths"
    /\ \/ /\ file_size = 0 /\ ranges = <<>>
          /\ Finish("plan")
          /\ UNCHANGED verified
       \/ /\ (file_size = 0) # (ranges = <<>>)
          /\ Raise
       \/ /\ file_size # 0 /\ ranges # <<>>
          /\ pc' = "coverage"
          /\ UNCHANGED <<world, python, buffer, code, error, source, objects, ranges, result>>

(* _native.plan_partition_ranges after its count call: 0 means no ranges,  *)
(* -2 the count to allocate for.                                           *)
CountPhase ==
    /\ pc = "returned"
    /\ req.client = "plan_file_ranges"
    /\ phase = "count"
    /\ \/ code = -1 /\ Raise
       \/ /\ code = 0
          /\ pc' = "coverage"
          /\ UNCHANGED <<world, python, buffer, code, error, source, objects, ranges, result>>
       \/ /\ code = -2
          /\ capacity' = out_count
          /\ phase' = "fill"
          /\ out_ranges' = <<>>
          /\ out_count' = 0
          /\ pc' = "call"
          /\ UNCHANGED <<world, file_size, attempt, verified, code, error, source,
                         objects, ranges, result>>

(* Plausible slip: the retry is not counted. *)
RetryForever ==
    /\ pc = "returned"
    /\ req.client = "plan_file_ranges"
    /\ phase = "fill"
    /\ \/ code = -1 /\ Raise
       \/ /\ code = 0
          /\ pc' = "coverage"
          /\ UNCHANGED <<world, python, buffer, code, error, source, objects, ranges, result>>
       \/ /\ code = -2
          /\ capacity' = 0
          /\ phase' = "count"
          /\ pc' = "call"
          /\ UNCHANGED <<world, file_size, attempt, verified, buffer, code, error,
                         source, objects, ranges, result>>

(* After its fill call: too small again means the file changed between the *)
(* phases; one retry, then it gives up.                                    *)
FillPhase ==
    /\ pc = "returned"
    /\ req.client = "plan_file_ranges"
    /\ phase = "fill"
    /\ \/ code = -1 /\ Raise
       \/ /\ code = 0
          /\ pc' = "coverage"
          /\ UNCHANGED <<world, python, buffer, code, error, source, objects, ranges, result>>
       \/ /\ code = -2 /\ attempt = 1
          /\ Finish("changed")
          /\ UNCHANGED verified
       \/ /\ code = -2 /\ attempt = 0
          /\ attempt' = 1
          /\ capacity' = 0
          /\ phase' = "count"
          /\ pc' = "call"
          /\ UNCHANGED <<world, file_size, verified, buffer, code, error, source, objects,
                         ranges, result>>

(* The pairs the client holds: out[:filled], or plan_file's own list.      *)
Pairs ==
    IF req.client = "plan_file" THEN ranges
    ELSE [k \in 1..out_count |-> out_ranges[k - 1]]

PairsEnd == IF Pairs = <<>> THEN 0 ELSE Pairs[Len(Pairs)][2]

(* Plausible slip: the plan is not compared with the size. *)
AcceptAnyCoverage ==
    /\ pc = "coverage"
    /\ pc' = "alignment"
    /\ UNCHANGED <<world, python, buffer, code, error, source, objects, ranges, result>>

(* Contiguous from 0 and ending at the size of the first stat. *)
CheckCoverage ==
    LET gap == \E k \in 1..Len(Pairs) :
                  Pairs[k][1] # (IF k = 1 THEN 0 ELSE Pairs[k - 1][2])
    IN  /\ pc = "coverage"
        /\ \/ (gap \/ PairsEnd # file_size) /\ Raise
           \/ /\ ~gap /\ PairsEnd = file_size
              /\ pc' = "alignment"
              /\ UNCHANGED <<world, python, buffer, code, error, source, objects, ranges,
                             result>>

(* _verify_record_alignment opens the path once more and reads one byte    *)
(* before every inner boundary; reading past its end raises too.           *)
_verify_record_alignment ==
    LET inner == {Pairs[k][2] : k \in 1..(Len(Pairs) - 1)}
    IN  /\ pc = "alignment"
        /\ \/ Pairs = <<>> /\ Finish("plan") /\ UNCHANGED verified
           \/ /\ Pairs # <<>> /\ path = Missing
              /\ Raise
           \/ /\ Pairs # <<>> /\ path # Missing
              /\ verified' = path
              /\ Finish(IF inner \subseteq path.ends THEN "plan" ELSE "failed")

Done == pc = "done" /\ UNCHANGED vars

Step ==
    \/ _verify_file \/ CheckArguments
    \/ open_path_windows \/ open_windows \/ ProbeUnix \/ ProbeUnmapped
    \/ OpenUnix \/ LseekUnix \/ MmapUnix
    \/ CreateFileW \/ GetFileSizeEx \/ CreateFileMappingW \/ MapViewOfFile
    \/ open_windowed \/ WindowedOpen \/ WindowedLseek
    \/ WindowedCreateFileW \/ WindowedGetFileSizeEx \/ WindowedCreateFileMappingW
    \/ PreadOpen \/ PreadMetadata \/ WindowedReadAt \/ plan_partition_ranges \/ Fill
    \/ CReturns \/ HandleFails \/ Lengths \/ CountPhase \/ FillPhase
    \/ CheckCoverage \/ _verify_record_alignment

Next == Step \/ (\E f \in Files \cup {Missing} : Replace(f)) \/ Done

Spec == Init /\ [][Next]_vars

(* The calling thread keeps running; nothing is assumed of the others,     *)
(* which may rename files for ever.                                        *)
FairSpec == Spec /\ WF_vars(Step)
------------------------------------------------------------------------------
(* The output buffer is never written past its capacity and never left     *)
(* partly written: success fills exactly the count reported, -2 reports a  *)
(* larger count and writes nothing, and a client never reads an element    *)
(* the call did not write.                                                 *)
BufferNeverOverrun ==
    /\ \A slot \in DOMAIN out_ranges : slot < capacity
    /\ pc = "returned" /\ code = 0 => DOMAIN out_ranges = {s \in 0..capacity : s < out_count}
    /\ pc = "returned" /\ code = -2 => out_count > capacity /\ ~error
    /\ pc = "coverage" /\ req.client = "plan_file_ranges" =>
          \A k \in 1..out_count : k - 1 \in DOMAIN out_ranges

(* A plan a Python caller gets tiles the size its first stat saw, has no   *)
(* more ranges than asked for, cuts only where the file the last open saw  *)
(* ends a record, and is the plan of the file if nothing was renamed over  *)
(* the path; and "count changed between phases" is reported only if        *)
(* something was.                                                          *)
PlanIsCoherent ==
    /\ result = "plan" =>
          /\ PairsEnd = file_size
          /\ Len(Pairs) <= req.parts
          /\ \A k \in 1..Len(Pairs) :
                /\ Pairs[k][1] = IF k = 1 THEN 0 ELSE Pairs[k - 1][2]
                /\ Pairs[k][1] < Pairs[k][2]
                /\ k < Len(Pairs) => Pairs[k][2] \in verified.ends
          /\ ~disturbed => Pairs = plan_partition_boundaries(path, req.parts)
    /\ result = "changed" => disturbed

(* The exits of the openers and the Drops (mmap.rs, source.rs) close each  *)
(* object exactly once: whichever system call fails, whatever was opened   *)
(* before it is open no more when the native call returns, and nothing is  *)
(* closed that was not open.                                               *)
HandlesReleased ==
    /\ ~stray
    /\ pc \in {"verify_file", "call", "returned", "fill", "lengths", "coverage", "alignment",
              "done"} => handles = {}

(* Every call comes to an end, even if files are renamed over the path for *)
(* ever: the retry is bounded.                                             *)
CallReturns == <>(pc = "done")
==============================================================================
