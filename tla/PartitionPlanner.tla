-------------------------- MODULE PartitionPlanner --------------------------
(***************************************************************************)
(* The slice partition planner: find_partition_boundaries (one-byte        *)
(* delimiter) and find_partition_boundaries_pattern, one action per        *)
(* outcome of a loop iteration, then ranges_from_boundaries.  The          *)
(* one-byte function is the pattern function at Len(delim) = 1: its test   *)
(* data[target - 1] = delimiter is EndsRecord, its find_byte_swar is       *)
(* FirstMatchIn.                                                           *)
(***************************************************************************)
EXTENDS Records

CONSTANTS
    Byte,    \* the byte values that occur
    Datas,   \* the inputs considered
    Delims,  \* the delimiters considered, none of them empty
    Parts    \* the requested partition counts considered

ASSUME InputAssumption ==
    /\ Datas \subseteq Seq(Byte)
    /\ Delims \subseteq Seq(Byte) \ {<<>>}
    /\ Parts \subseteq Nat

VARIABLES
    data, delim, parts,   \* the call's arguments; never change
    pc,
    n, i, last_boundary,  \* the loop `for i in 1..n`
    boundaries,           \* Vec of cut points
    j, prev,              \* the assembly loop of ranges_from_boundaries
    partitions            \* the result

args == <<data, delim, parts>>
loop == <<n, i, last_boundary, boundaries>>
assembly == <<j, prev, partitions>>
vars == <<args, pc, loop, assembly>>

file_len == Len(data)
target == IdealTarget(file_len, i, n)

Init ==
    /\ data \in Datas /\ delim \in Delims /\ parts \in Parts
    /\ pc = "start"
    /\ n = 0 /\ i = 1 /\ last_boundary = 0 /\ boundaries = <<>>
    /\ j = 1 /\ prev = 0 /\ partitions = <<>>

PushBoundary(b) ==
    /\ boundaries' = Append(boundaries, b)
    /\ last_boundary' = b
    /\ i' = i + 1
    /\ UNCHANGED <<args, n, assembly>>
------------------------------------------------------------------------------
(* Plausible slips in the code below, one per property; used only to show  *)
(* that the properties notice them.                                        *)

(* The request is not capped at the file length. *)
EnterLoopUncapped ==
    /\ pc = "start"
    /\ file_len > 0 /\ parts > 1
    /\ n' = parts
    /\ pc' = "loop"
    /\ UNCHANGED <<args, i, last_boundary, boundaries, assembly>>

(* Only the last delimiter byte is compared before the target. *)
AcceptLastByteOnly ==
    /\ pc = "loop" /\ i < n
    /\ target > last_boundary
    /\ data[target] = delim[Len(delim)]
    /\ PushBoundary(target)
    /\ UNCHANGED pc

(* A target that already is a boundary is searched past. *)
SearchHitPastExactTarget ==
    /\ pc = "loop" /\ i < n
    /\ target > last_boundary
    /\ \E p \in target..file_len :
          /\ FirstMatchIn(data, delim, target, file_len, p)
          /\ PushBoundary(MinOf(p + Len(delim), file_len))
    /\ UNCHANGED pc

(* The cut follows the first byte of the delimiter, not all of it. *)
SearchHitAfterFirstByte ==
    /\ pc = "loop" /\ i < n
    /\ target > last_boundary
    /\ ~EndsRecord(data, delim, target)
    /\ \E p \in target..file_len :
          /\ FirstMatchIn(data, delim, target, file_len, p)
          /\ PushBoundary(MinOf(p + 1, file_len))
    /\ UNCHANGED pc

(* `prev` is not moved past the emitted range. *)
AssembleCutKeepsPrev ==
    /\ pc = "assemble" /\ j <= Len(boundaries)
    /\ partitions' = IF boundaries[j] > prev
                     THEN Append(partitions, <<prev, boundaries[j]>>)
                     ELSE partitions
    /\ j' = j + 1
    /\ UNCHANGED <<args, pc, loop, prev>>
------------------------------------------------------------------------------
(* file_len = 0 or num_partitions = 0: no partitions. *)
ReturnEmpty ==
    /\ pc = "start"
    /\ file_len = 0 \/ parts = 0
    /\ pc' = "done"
    /\ UNCHANGED <<args, loop, assembly>>

(* num_partitions = 1: one partition, whatever the data holds. *)
ReturnWhole ==
    /\ pc = "start"
    /\ file_len > 0 /\ parts = 1
    /\ partitions' = <<<<0, file_len>>>>
    /\ pc' = "done"
    /\ UNCHANGED <<args, loop, j, prev>>

(* The request is capped: a slice has at most file_len non-empty ranges. *)
EnterLoop ==
    /\ pc = "start"
    /\ file_len > 0 /\ parts > 1
    /\ n' = MinOf(parts, file_len)
    /\ pc' = "loop"
    /\ UNCHANGED <<args, i, last_boundary, boundaries, assembly>>

(* A target inside the record the last cut already passed collapses. *)
SkipTarget ==
    /\ pc = "loop" /\ i < n
    /\ target <= last_boundary
    /\ i' = i + 1
    /\ UNCHANGED <<args, pc, n, last_boundary, boundaries, assembly>>

AcceptExactTarget ==
    /\ pc = "loop" /\ i < n
    /\ target > last_boundary
    /\ EndsRecord(data, delim, target)
    /\ PushBoundary(target)
    /\ UNCHANGED pc

SearchHit ==
    /\ pc = "loop" /\ i < n
    /\ target > last_boundary
    /\ ~EndsRecord(data, delim, target)
    /\ \E p \in target..file_len :
          /\ FirstMatchIn(data, delim, target, file_len, p)
          /\ PushBoundary(MinOf(p + Len(delim), file_len))
    /\ UNCHANGED pc

(* No delimiter from here on: the last cut is EOF and the loop breaks. *)
SearchMiss ==
    /\ pc = "loop" /\ i < n
    /\ target > last_boundary
    /\ ~EndsRecord(data, delim, target)
    /\ NoMatchIn(data, delim, target, file_len)
    /\ boundaries' = Append(boundaries, file_len)
    /\ pc' = "assemble"
    /\ UNCHANGED <<args, n, i, last_boundary, assembly>>

LeaveLoop ==
    /\ pc = "loop" /\ i >= n
    /\ pc' = "assemble"
    /\ UNCHANGED <<args, loop, assembly>>

(* One cut of ranges_from_boundaries; an empty range is not emitted. *)
AssembleCut ==
    /\ pc = "assemble" /\ j <= Len(boundaries)
    /\ partitions' = IF boundaries[j] > prev
                     THEN Append(partitions, <<prev, boundaries[j]>>)
                     ELSE partitions
    /\ prev' = boundaries[j]
    /\ j' = j + 1
    /\ UNCHANGED <<args, pc, loop>>

AssembleTail ==
    /\ pc = "assemble" /\ j > Len(boundaries)
    /\ partitions' = IF prev < file_len
                     THEN Append(partitions, <<prev, file_len>>)
                     ELSE partitions
    /\ pc' = "done"
    /\ UNCHANGED <<args, loop, j, prev>>

(* The call returned. *)
Done == pc = "done" /\ UNCHANGED vars

Assemble == AssembleCut \/ AssembleTail

Next ==
    \/ ReturnEmpty \/ ReturnWhole \/ EnterLoop
    \/ SkipTarget \/ AcceptExactTarget \/ SearchHit \/ SearchMiss \/ LeaveLoop
    \/ Assemble
    \/ Done

Spec == Init /\ [][Next]_vars
------------------------------------------------------------------------------
(* The shape of the planner's state; the loop never runs past the capped   *)
(* request and no cut leaves the file.                                     *)
TypeOK ==
    /\ data \in Seq(Byte) /\ delim \in Seq(Byte) \ {<<>>} /\ parts \in Nat
    /\ pc \in {"start", "loop", "assemble", "done"}
    /\ n \in 0..file_len /\ i \in Nat \ {0}
    /\ last_boundary \in 0..file_len
    /\ boundaries \in Seq(0..file_len)
    /\ j \in Nat \ {0} /\ prev \in 0..file_len
    /\ partitions \in Seq((0..file_len) \X (0..file_len))

(* A finished plan for a non-empty file and a positive request covers the  *)
(* file: contiguous, non-empty ranges from 0 to EOF, on every path through *)
(* the planner and the assembly loop.                                      *)
Coverage ==
    pc = "done" /\ file_len > 0 /\ parts > 0 => Covers(partitions, file_len)

(* Every partition that does not reach EOF ends right after a complete     *)
(* delimiter, for one-byte and multi-byte delimiters alike.                *)
RecordAligned ==
    \A k \in 1..Len(partitions) :
        partitions[k][2] < file_len => EndsRecord(data, delim, partitions[k][2])

(* The plan has at most as many partitions as requested and as the file    *)
(* has bytes, although cuts and the tail are emitted by different loops.   *)
AtMostRequested ==
    Len(partitions) <= parts /\ Len(partitions) <= file_len

(* The cuts grow strictly: the duplicates ranges_from_boundaries is ready  *)
(* to drop never arise, and collapsed targets leave no cut behind.         *)
CutsIncrease ==
    /\ \A k \in 1..Len(boundaries) : 0 < boundaries[k]
    /\ \A k \in 1..(Len(boundaries) - 1) : boundaries[k] < boundaries[k + 1]

RangeEnds == {partitions[k][2] : k \in 1..Len(partitions)}

(* Where a reader that splits the file left to right finds delimiters: an  *)
(* occurrence that overlaps the previous one is part of the next record.   *)
DelimiterStarts ==
    LET starts[p \in 0..file_len] ==
            /\ MatchAt(data, delim, p)
            /\ \A q \in 0..(p - 1) : q + Len(delim) > p => ~starts[q]
    IN  {p \in 0..file_len : starts[p]}

(* "so no record is split" (scanner.rs, find_partition_boundaries_pattern):*)
(* every cut is the end of a record as a left-to-right reader sees it.     *)
NoRecordSplit ==
    pc = "done" =>
        \A e \in RangeEnds \ {file_len} : \E p \in DelimiterStarts : e = p + Len(delim)
==============================================================================
