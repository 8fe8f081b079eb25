--------------------------- MODULE LogicalPlanner ---------------------------
(***************************************************************************)
(* `mmap-chunker partition-files`: one plan over an ordered list of files, *)
(* each an independent source of one logical byte string.  Logical cuts    *)
(* fall on a source boundary or on a record end inside one source.         *)
(*                                                                         *)
(* Two engines compute it.  --source mmap maps every file first and reads  *)
(* the lengths of the mappings.  --source windowed and --source pread stat *)
(* every path, then open a source only while targets fall inside it, with  *)
(* the length checked again at that open.  Between any two steps another   *)
(* process may rename a different file over a path or unlink it: the file  *)
(* an earlier open returned is unaffected, a later stat or open sees the   *)
(* new one.  (Writing to a file while it is read is outside the CLI's      *)
(* contract.)                                                              *)
(*                                                                         *)
(* Source k is 1-based here: prefixes[k] is the logical offset of its      *)
(* first byte, prefixes[k + 1] of the byte after its last.  The logical    *)
(* offsets are u128 sums of u64 lengths and cannot overflow; the internal  *)
(* error branches guarding that are unreachable and left out.              *)
(***************************************************************************)
EXTENDS Integers, FiniteSets, ScalarOracles

CONSTANTS Byte,
          FileLists,       \* initial contents of the paths, a sequence each
          Contents,        \* what a path can be replaced by
          Delims,          \* delimiters parse_delimiter_* can return
          PartCounts,      \* values of --parts
          ScanBuffers,     \* PlannerOptions.scan_buffer_bytes
          MaxReplacements, \* bound on the environment's renames
          Missing,         \* a path that names no file
          NoSource         \* Option::None of `current`

ASSUME LogicalAssumption ==
    /\ Delims \subseteq Seq(Byte) /\ \A d \in Delims : Len(d) > 0
    /\ PartCounts \subseteq Nat \ {0}
    /\ ScanBuffers \subseteq Nat
    /\ MaxReplacements \in Nat
    /\ FileLists \subseteq Seq(Seq(Byte)) /\ Contents \subseteq Seq(Byte)
    /\ Missing \notin Seq(Byte)
    /\ NoPosition \notin Nat
    /\ NoSource \notin [index : Nat, state : [scan_from : Nat,
                                             cached_boundary : Nat \cup {NoPosition}]]

VARIABLES
    fs,           \* what each path names now
    replaced,     \* number of replacements so far
    req,          \* [mode, parts, delim, scan_buffer]
    pc,
    prefixes,
    sources,      \* [k |-> file] every source opened so far (history if closed)
    handles,      \* sources held open
    opens,        \* the order in which sources were opened (history)
    states,       \* mmap: BoundarySearchState per source
    current,      \* sourced: [index, state] or NoSource
    partition,    \* loop counter of the planning loop
    last_cut,
    cut_points,
    target,       \* the logical target being projected
    offset,       \* sourced: where the next scan read begins
    assignments,  \* per worker, the ranges the planner returned
    output,       \* rows on stdout
    outcome       \* "none", "ok" or "error"

vars == <<fs, replaced, req, pc, prefixes, sources, handles, opens, states,
          current, partition, last_cut, cut_points, target, offset,
          assignments, output, outcome>>

env == <<fs, replaced, req>>
plan == <<partition, last_cut, cut_points>>
search == <<target, offset>>
held == <<sources, handles, opens, states, current>>
report == <<assignments, output, outcome>>
------------------------------------------------------------------------------
Paths == 1..Len(fs)

Total == prefixes[Len(prefixes)]

effective_parts == MinOf(req.parts, Total)

(* buffer_len: every search window holds at least one complete pattern.    *)
buffer_len == MaxOf(MaxOf(req.scan_buffer, Len(req.delim)), 1)

SourceRange(source_index, start, end_exclusive) ==
    [source_index |-> source_index, start |-> start,
     end_exclusive |-> end_exclusive, length |-> end_exclusive - start]

BoundarySearchState == [scan_from |-> 0, cached_boundary |-> NoPosition]

(* The source a target strictly inside a source falls into:                *)
(* prefixes.partition_point(|prefix| *prefix <= target) - 1.               *)
SourceOf(t) == Cardinality({k \in DOMAIN prefixes : prefixes[k] <= t})

IsSourceBoundary(t) == \E k \in DOMAIN prefixes : prefixes[k] = t

(* What the open of source k returned is the file from then on.            *)
WithSource(k, file) ==
    [i \in DOMAIN sources \cup {k} |-> IF i = k THEN file ELSE sources[i]]

(* An early return of Err: the locals are dropped, every handle with them. *)
Fail ==
    /\ pc' = "done"
    /\ outcome' = "error"
    /\ handles' = {}
    /\ current' = NoSource
    /\ UNCHANGED <<env, prefixes, sources, opens, states, plan, search,
                   assignments, output>>
------------------------------------------------------------------------------
Init ==
    /\ fs \in FileLists
    /\ replaced = 0
    /\ req \in [mode : {"mmap"}, parts : PartCounts, delim : Delims, scan_buffer : {0}]
              \cup
              [mode : {"sourced"}, parts : PartCounts, delim : Delims,
               scan_buffer : ScanBuffers]
    /\ pc = IF req.mode = "mmap" THEN "map" ELSE "stat"
    /\ prefixes = <<0>>
    /\ sources = <<>>
    /\ handles = {}
    /\ opens = <<>>
    /\ states = <<>>
    /\ current = NoSource
    /\ partition = 1
    /\ last_cut = 0
    /\ cut_points = <<>>
    /\ target = 0
    /\ offset = 0
    /\ assignments = <<>>
    /\ output = <<>>
    /\ outcome = "none"

(* Another process renames a file over a path, or unlinks it.  (Once the   *)
(* ranges are assembled no path is looked at again.)                       *)
Replace(k, file) ==
    /\ replaced < MaxReplacements
    /\ pc \notin {"assemble", "write", "done"}
    /\ file # fs[k]
    /\ fs' = [fs EXCEPT ![k] = file]
    /\ replaced' = replaced + 1
    /\ UNCHANGED <<req, pc, prefixes, held, plan, search, report>>
------------------------------------------------------------------------------
(* --source mmap: open every file, in order; the first failure aborts.     *)
emit_file_partitions ==
    LET k == Len(opens) + 1
    IN  /\ pc = "map"
        /\ k \in Paths
        /\ \/ /\ fs[k] # Missing
              /\ sources' = WithSource(k, fs[k])
              /\ handles' = handles \cup {k}
              /\ opens' = Append(opens, k)
              /\ UNCHANGED <<env, pc, prefixes, states, current, plan, search, report>>
           \/ fs[k] = Missing /\ Fail

(* The prefix sums of the mapped lengths, one source at a time. *)
AddPrefix ==
    LET k == Len(prefixes)
    IN  /\ pc = "map"
        /\ Len(opens) = Len(fs)
        /\ k \in Paths
        /\ prefixes' = Append(prefixes, prefixes[k] + Len(sources[k]))
        /\ UNCHANGED <<env, pc, held, plan, search, report>>

(* Then the loop, unless every file is empty: there is no row to write.    *)
plan_logical_partitions ==
    /\ pc = "map"
    /\ Len(prefixes) = Len(fs) + 1
    /\ states' = [k \in Paths |-> BoundarySearchState]
    /\ pc' = IF Total = 0 THEN "write" ELSE "loop"
    /\ UNCHANGED <<env, prefixes, sources, handles, opens, current, plan, search, report>>

(* Phase 1 of the sourced engine: metadata(path).len(), nothing held.      *)
StatPath ==
    LET k == Len(prefixes)
    IN  /\ pc = "stat"
        /\ k \in Paths
        /\ \/ /\ fs[k] # Missing
              /\ prefixes' = Append(prefixes, prefixes[k] + Len(fs[k]))
              /\ UNCHANGED <<env, pc, held, plan, search, report>>
           \/ fs[k] = Missing /\ Fail

EnterSourcedLoop ==
    /\ pc = "stat"
    /\ Len(prefixes) = Len(fs) + 1
    /\ pc' = IF Total = 0 THEN "write" ELSE "loop"
    /\ UNCHANGED <<env, prefixes, held, plan, search, report>>
------------------------------------------------------------------------------
(* What the planning loops do with a projected target. *)
TakeCut(projected) ==
    LET ends == projected > last_cut /\ projected = Total
        cuts == projected > last_cut /\ projected # Total
    IN  /\ partition' = partition + 1
        /\ pc' = IF ends THEN "assemble" ELSE "loop"
        /\ cut_points' = IF cuts THEN Append(cut_points, projected) ELSE cut_points
        /\ last_cut' = IF cuts THEN projected ELSE last_cut

(* data[from..upto].iter().position(|byte| *byte == delimiter), as an       *)
(* offset of data.                                                         *)
position_from(data, delimiter, from, upto) ==
    LET hits == {p \in from..(upto - 1) : data[p + 1] = delimiter}
    IN  IF hits = {} THEN NoPosition
        ELSE CHOOSE p \in hits : \A q \in hits : p <= q

(* find_first_pattern_from(haystack, pattern), haystack = data[from..upto]. *)
find_first_pattern_from(data, pattern, from, upto) ==
    LET hits == {p \in from..(upto - Len(pattern)) : MatchAt(data, pattern, p)}
    IN  IF hits = {} THEN NoPosition
        ELSE CHOOSE p \in hits : \A q \in hits : p <= q

Cached(state, local_target) ==
    /\ state.cached_boundary # NoPosition
    /\ local_target < state.cached_boundary

(* The state a search leaves behind, and an exact target.                  *)
Found(boundary) == [scan_from |-> boundary, cached_boundary |-> boundary]

FoundExactly(state, t) ==
    [scan_from |-> MaxOf(t, state.scan_from), cached_boundary |-> t]

(* Both return the boundary and the next state. *)
next_record_boundary(data, t, delimiter, state) ==
    IF Cached(state, t) THEN <<state.cached_boundary, state>>
    ELSE IF t >= 1 /\ t <= Len(data) /\ data[t] = delimiter
    THEN <<t, FoundExactly(state, t)>>
    ELSE LET position == position_from(data, delimiter, MaxOf(t, state.scan_from), Len(data))
             boundary == IF position = NoPosition THEN Len(data) ELSE position + 1
         IN  <<boundary, Found(boundary)>>

next_record_boundary_pattern(data, t, delimiter, state) ==
    IF Cached(state, t) THEN <<state.cached_boundary, state>>
    ELSE IF EndsRecord(data, delimiter, t) THEN <<t, FoundExactly(state, t)>>
    ELSE LET scan_from == MaxOf(t, state.scan_from)
             position == find_first_pattern_from(data, delimiter, scan_from, Len(data))
             boundary == IF position = NoPosition THEN Len(data)
                         ELSE position + Len(delimiter)
         IN  <<boundary, Found(boundary)>>

(* The projection of a target inside source k: the boundary and the state. *)
project_logical_target(t) ==
    LET k == SourceOf(t)
        local_target == t - prefixes[k]
    IN  IF Len(req.delim) = 1
        THEN next_record_boundary(sources[k], local_target, req.delim[1], states[k])
        ELSE next_record_boundary_pattern(sources[k], local_target, req.delim, states[k])

IdealLogicalTarget == (Total * partition) \div effective_parts

(* One iteration of the loop over mapped sources. *)
MappedTarget ==
    LET t == IdealLogicalTarget
        k == SourceOf(t)
        local == project_logical_target(t)
    IN  /\ req.mode = "mmap"
        /\ pc = "loop"
        /\ partition < effective_parts
        /\ \/ /\ t <= last_cut
              /\ partition' = partition + 1
              /\ UNCHANGED <<pc, states, last_cut, cut_points>>
           \/ /\ t > last_cut
              /\ IsSourceBoundary(t)
              /\ TakeCut(t)
              /\ UNCHANGED states
           \/ /\ t > last_cut
              /\ ~IsSourceBoundary(t)
              /\ TakeCut(prefixes[k] + local[1])
              /\ states' = [states EXCEPT ![k] = local[2]]
        /\ UNCHANGED <<env, prefixes, sources, handles, opens, current, search, report>>
------------------------------------------------------------------------------
(* One iteration of the sourced loop, up to the need for a source's bytes. *)
SourcedTarget ==
    LET t == IdealLogicalTarget
    IN  /\ req.mode = "sourced"
        /\ pc = "loop"
        /\ partition < effective_parts
        /\ \/ /\ t <= last_cut
              /\ partition' = partition + 1
              /\ UNCHANGED <<pc, last_cut, cut_points, target>>
           \/ /\ t > last_cut
              /\ IsSourceBoundary(t)
              /\ TakeCut(t)
              /\ UNCHANGED target
           \/ /\ t > last_cut
              /\ ~IsSourceBoundary(t)
              /\ target' = t
              /\ pc' = IF current # NoSource /\ current.index = SourceOf(t)
                       THEN "boundary" ELSE "close"
              /\ UNCHANGED <<partition, last_cut, cut_points>>
        /\ UNCHANGED <<env, prefixes, held, offset, report>>

(* Plausible slip: the next source is opened before this one is dropped.  *)
OpenBeforeClose ==
    /\ pc = "close"
    /\ pc' = "open"
    /\ UNCHANGED <<env, prefixes, held, plan, search, report>>

(* *current = None, before the next source is opened. *)
CloseCurrent ==
    /\ pc = "close"
    /\ current' = NoSource
    /\ handles' = IF current = NoSource THEN handles ELSE handles \ {current.index}
    /\ pc' = "open"
    /\ UNCHANGED <<env, prefixes, sources, opens, states, plan, search, report>>

(* open_sourced: what the path names now, or the open fails.               *)
open_sourced(k) == IF fs[k] = Missing THEN {} ELSE {fs[k]}

(* Plausible slip: the length is not checked again. *)
OpenUnchecked ==
    LET k == SourceOf(target)
    IN  /\ pc = "open"
        /\ \/ open_sourced(k) = {} /\ Fail
           \/ \E file \in open_sourced(k) :
                /\ sources' = WithSource(k, file)
                /\ handles' = handles \cup {k}
                /\ opens' = Append(opens, k)
                /\ current' = [index |-> k, state |-> BoundarySearchState]
                /\ pc' = "boundary"
                /\ UNCHANGED <<env, prefixes, states, plan, search, report>>

(* The opened source must still have the length the plan was made for.     *)
OpenSource ==
    LET k == SourceOf(target)
    IN  /\ pc = "open"
        /\ \/ open_sourced(k) = {} /\ Fail
           \/ \E file \in open_sourced(k) :
                Len(file) # prefixes[k + 1] - prefixes[k] /\ Fail
           \/ \E file \in open_sourced(k) :
                /\ Len(file) = prefixes[k + 1] - prefixes[k]
                /\ sources' = WithSource(k, file)
                /\ handles' = handles \cup {k}
                /\ opens' = Append(opens, k)
                /\ current' = [index |-> k, state |-> BoundarySearchState]
                /\ pc' = "boundary"
                /\ UNCHANGED <<env, prefixes, states, plan, search, report>>
------------------------------------------------------------------------------
(* next_record_boundary_sourced, over the open source. *)
Data == sources[current.index]

LocalTarget == target - prefixes[current.index]

Reaches(boundary, state) ==
    /\ current' = [current EXCEPT !.state = state]
    /\ TakeCut(prefixes[current.index] + boundary)

(* fill_from(source, at, &mut buffer[..want]): short reads are retried, so *)
(* only the end of the source shortens it.  The end of the bytes read.     *)
fill_from(at, want) == MinOf(at + want, Len(Data))

(* A read that fails ends the plan. *)
ReadFails == pc \in {"boundary", "scan"} /\ Fail

(* Is the target itself a boundary?  One delimiter byte before it.         *)
ExactByte ==
    /\ LocalTarget >= 1
    /\ fill_from(LocalTarget - 1, 1) = LocalTarget
    /\ Data[LocalTarget] = req.delim[1]

ExactPattern ==
    LET dlen == Len(req.delim)
    IN  /\ LocalTarget >= dlen
        /\ fill_from(LocalTarget - dlen, dlen) = LocalTarget
        /\ MatchAt(Data, req.delim, LocalTarget - dlen)

ExactTarget == IF Len(req.delim) = 1 THEN ExactByte ELSE ExactPattern

(* A target before the boundary found last has that boundary; a target      *)
(* that ends a record is its own; otherwise the scan begins.                *)
ProbeTarget ==
    LET state == current.state
        known == Cached(state, LocalTarget) \/ ExactTarget
    IN  /\ pc = "boundary"
        /\ \/ /\ known
              /\ IF Cached(state, LocalTarget)
                 THEN Reaches(state.cached_boundary, state)
                 ELSE Reaches(LocalTarget, FoundExactly(state, LocalTarget))
              /\ UNCHANGED offset
           \/ /\ ~known
              /\ offset' = MaxOf(LocalTarget, state.scan_from)
              /\ pc' = "scan"
              /\ UNCHANGED <<current, plan>>
        /\ UNCHANGED <<env, prefixes, sources, handles, opens, states, target, report>>

ScanUnchanged == UNCHANGED <<env, prefixes, sources, handles, opens, states, target, report>>

Advance(to) == offset' = to /\ UNCHANGED <<pc, current, plan>>

(* One read of the one-byte scan: the next one begins where it ended.      *)
ScanByte ==
    LET end == fill_from(offset, buffer_len)
        position == position_from(Data, req.delim[1], offset, end)
    IN  /\ pc = "scan"
        /\ Len(req.delim) = 1
        /\ \/ /\ position # NoPosition
              /\ Reaches(position + 1, Found(position + 1))
              /\ UNCHANGED offset
           \/ /\ position = NoPosition
              /\ end = Len(Data)
              /\ Reaches(Len(Data), Found(Len(Data)))
              /\ UNCHANGED offset
           \/ /\ position = NoPosition
              /\ end < Len(Data)
              /\ Advance(end)
        /\ ScanUnchanged

(* One read of the pattern scan; the next one begins `step` bytes later.   *)
ScanPatternWith(step) ==
    LET dlen == Len(req.delim)
        end == fill_from(offset, buffer_len)
        position == find_first_pattern_from(Data, req.delim, offset, end)
    IN  /\ pc = "scan"
        /\ dlen > 1
        /\ \/ /\ position # NoPosition
              /\ Reaches(position + dlen, Found(position + dlen))
              /\ UNCHANGED offset
           \/ /\ position = NoPosition
              /\ end = Len(Data)
              /\ Reaches(Len(Data), Found(Len(Data)))
              /\ UNCHANGED offset
           \/ /\ position = NoPosition
              /\ end < Len(Data)
              /\ Advance(offset + step)
        /\ ScanUnchanged

(* The bytes one read brings in. *)
filled == fill_from(offset, buffer_len) - offset

(* Plausible slip: a whole pattern is read again, and the step may be 0.   *)
ScanWholePatternAgain == ScanPatternWith(MaxOf(filled - Len(req.delim), 0))

(* Plausible slip: reads follow each other without an overlap. *)
ScanWithoutOverlap == ScanPatternWith(MaxOf(filled, 1))

(* The last dlen - 1 bytes are read again; the step is never 0.            *)
ScanPattern == ScanPatternWith(MaxOf(filled - (Len(req.delim) - 1), 1))
------------------------------------------------------------------------------
(* The loop over the sources: an interval's non-empty part of each. *)
ranges_for_interval(start, end) ==
    LET lo(k) == MaxOf(start, prefixes[k])
        hi(k) == MinOf(end, prefixes[k + 1])
        ranges[k \in 1..(Len(fs) + 1)] ==
            IF k > Len(fs) THEN <<>>
            ELSE IF lo(k) >= hi(k) THEN ranges[k + 1]
            ELSE <<SourceRange(k, lo(k) - prefixes[k], hi(k) - prefixes[k])>> \o ranges[k + 1]
    IN  IF start >= end THEN <<>> ELSE ranges[1]

(* The loop over the cut points and the end of the last source.  An        *)
(* interval without bytes has no rows and takes no worker index.           *)
Assignments ==
    LET ends == Append(cut_points, Total)
        Interval(j) == ranges_for_interval(IF j = 1 THEN 0 ELSE ends[j - 1], ends[j])
        workers[j \in 1..(Len(ends) + 1)] ==
            IF j > Len(ends) THEN <<>>
            ELSE IF Interval(j) = <<>> THEN workers[j + 1]
            ELSE <<Interval(j)>> \o workers[j + 1]
    IN  workers[1]

(* The planner returns: the sourced one drops its open source, the         *)
(* mappings live until the rows are written.                               *)
Assemble ==
    /\ \/ pc = "assemble"
       \/ pc = "loop" /\ partition >= effective_parts
    /\ assignments' = Assignments
    /\ pc' = "write"
    /\ current' = NoSource
    /\ handles' = IF req.mode = "mmap" THEN handles ELSE {}
    /\ UNCHANGED <<env, prefixes, sources, opens, states, plan, search, output, outcome>>

Row(worker_index, range) ==
    [worker |-> worker_index, source_index |-> range.source_index,
     start |-> range.start, end_exclusive |-> range.end_exclusive, length |-> range.length]

(* A row for each range of each worker. *)
Rows ==
    LET rows[w \in 1..(Len(assignments) + 1)] ==
            IF w > Len(assignments) THEN <<>>
            ELSE [j \in 1..Len(assignments[w]) |-> Row(w - 1, assignments[w][j])] \o rows[w + 1]
    IN  rows[1]

(* A failed write leaves a prefix of the rows behind. *)
write_assignments ==
    /\ pc = "write"
    /\ pc' = "done"
    /\ handles' = {}
    /\ \/ output' = Rows /\ outcome' = "ok"
       \/ \E n \in 0..Len(Rows) : output' = SubSeq(Rows, 1, n) /\ outcome' = "error"
    /\ UNCHANGED <<env, prefixes, sources, opens, states, current, plan, search, assignments>>

Done == pc = "done" /\ UNCHANGED vars

Plan ==
    \/ emit_file_partitions \/ AddPrefix \/ plan_logical_partitions \/ MappedTarget
    \/ StatPath \/ EnterSourcedLoop \/ SourcedTarget
    \/ CloseCurrent \/ OpenSource
    \/ ProbeTarget \/ ScanByte \/ ScanPattern
    \/ Assemble \/ write_assignments

Next ==
    \/ Plan
    \/ ReadFails
    \/ \E k \in Paths, file \in Contents \cup {Missing} : Replace(k, file)
    \/ Done

Spec == Init /\ [][Next]_vars

(* The command is one thread that runs until it exits; no read has to fail. *)
FairSpec == Spec /\ WF_vars(Plan)
------------------------------------------------------------------------------
(* The logical offset of row j's end, and of its start. *)
RowStart(j) == prefixes[output[j].source_index] + output[j].start
RowEnd(j) == prefixes[output[j].source_index] + output[j].end_exclusive

(* The rows of a plan that succeeded tile the logical byte string, in the  *)
(* order of the sources, each inside its source; workers are numbered      *)
(* without gaps, at most as many as requested; and two workers share a     *)
(* source only where the file the planner opened ends a record, whatever   *)
(* was renamed over the paths meanwhile.                                   *)
LogicalCoverage ==
    outcome = "ok" =>
        LET n == Len(output)
            inner == 1..(n - 1)
        IN  /\ n = 0 <=> Total = 0
            /\ n > 0 => RowStart(1) = 0 /\ RowEnd(n) = Total
                        /\ output[1].worker = 0 /\ output[n].worker < req.parts
            /\ \A j \in 1..n :
                  LET k == output[j].source_index
                  IN  /\ output[j].length = output[j].end_exclusive - output[j].start
                      /\ output[j].length > 0
                      /\ RowEnd(j) <= prefixes[k + 1]
            /\ \A j \in inner :
                  LET k == output[j].source_index
                      shared == output[j + 1].source_index = k
                  IN  /\ RowEnd(j) = RowStart(j + 1)
                      /\ output[j + 1].worker - output[j].worker \in 0..1
                      /\ shared =>
                            /\ output[j + 1].worker # output[j].worker
                            /\ k \in DOMAIN sources
                            /\ Len(sources[k]) = prefixes[k + 1] - prefixes[k]
                            /\ EndsRecord(sources[k], req.delim, output[j].end_exclusive)

(* The cuts by their definition, with no search state carried over: a      *)
(* target beyond the last cut moves to the first source boundary or record *)
(* end its own source has for it.                                          *)
StatelessCut(t) ==
    LET k == SourceOf(t)
        local_target == t - prefixes[k]
        position == find_first_pattern_from(sources[k], req.delim, local_target, Len(sources[k]))
    IN  IF IsSourceBoundary(t) \/ EndsRecord(sources[k], req.delim, local_target) THEN t
        ELSE IF position = NoPosition THEN prefixes[k + 1]
        ELSE prefixes[k] + position + Len(req.delim)

StatelessCuts ==
    LET n == effective_parts
        Target(i) == (Total * i) \div n
        cuts[i \in 1..n] == [last \in 0..Total |->
            IF i = n THEN <<>>
            ELSE IF Target(i) <= last THEN cuts[i + 1][last]
            ELSE LET cut == StatelessCut(Target(i))
                 IN  IF cut = Total THEN <<>> ELSE <<cut>> \o cuts[i + 1][cut]]
    IN  cuts[1][0]

(* Both engines, each with its cached boundary and resumed scan, and the   *)
(* sourced one reading piecewise, cut where the stateless definition cuts; *)
(* the plan of a single file is the plan of `partition` for it.            *)
CutsMatchReference ==
    outcome = "ok" /\ Total > 0 =>
        /\ cut_points = StatelessCuts
        /\ Len(fs) = 1 /\ opens # <<>> =>
              [j \in DOMAIN output |-> <<output[j].start, output[j].end_exclusive>>]
                  = scalar_partition_boundaries_pattern(sources[1], req.parts, req.delim)

(* "Once a source is closed it is never reopened": the sourced engine      *)
(* opens sources in increasing order, never two at a time, and nothing     *)
(* stays open when the command returns, failed or not.                     *)
OpensOnceInOrder ==
    /\ \A i, j \in DOMAIN opens : i < j => opens[i] < opens[j]
    /\ req.mode = "sourced" => Cardinality(handles) <= 1
    /\ pc = "done" => handles = {}

(* The planning loop and the scans inside it come to an end: the overlap   *)
(* of successive reads never keeps the scan in place.                      *)
PlanningEnds == <>(pc = "done")
==============================================================================
