---------------------------- MODULE SourcePlanner ----------------------------
(***************************************************************************)
(* plan_partition_boundaries over a ByteSource that exposes no slice       *)
(* (windowed mmap, pread): the partition loop of PartitionPlanner with     *)
(* every look at the data replaced by read_at calls into a scan buffer.    *)
(* A read may be short; the source may fail; and a file that is not        *)
(* `stable` (truncated or rewritten while planning) may return anything.   *)
(*                                                                         *)
(* The buffer's bytes are not kept: on a stable file buffer[..filled] is   *)
(* data[offset .. offset + filled), and on an unstable one it is           *)
(* arbitrary, so each comparison with the delimiter goes either way.       *)
(***************************************************************************)
EXTENDS PartitionPlanner

CONSTANTS
    ScanBuffers,   \* the scan_buffer_bytes values considered
    InitialProbe,  \* ADAPTIVE_INITIAL_PROBE_BYTES
    IsizeMax       \* the largest Vec<u8> that may be allocated

ASSUME BufferAssumption ==
    /\ ScanBuffers \subseteq Nat
    /\ InitialProbe \in Nat \ {0}
    /\ IsizeMax \in Nat

VARIABLES
    scan_buffer,  \* argument scan_buffer_bytes
    stable,       \* the file keeps its bytes while the call runs
    offset,       \* find_pattern_from: where the buffer starts
    probe_len,    \* how much of the buffer the current probe uses
    filled        \* bytes read so far into the buffer (tail_read likewise)

source == <<scan_buffer, stable>>
search == <<offset, probe_len, filled>>
srcVars == <<vars, source, search>>

dlen == Len(delim)
buffer_len == MaxOf(MaxOf(scan_buffer, dlen), 1)
want == MinOf(probe_len, file_len - offset)

SrcInit ==
    /\ Init
    /\ scan_buffer \in ScanBuffers
    /\ stable \in BOOLEAN
    /\ offset = 0 /\ probe_len = 0 /\ filled = 0

(* ByteSource::read_at inside the file: at least one byte, at most k; a    *)
(* file that shrank may return 0.                                          *)
ReadCount(k) == IF stable THEN 1..k ELSE 0..k

StartSearch ==
    /\ offset' = target
    /\ probe_len' = MinOf(MaxOf(dlen, InitialProbe), buffer_len)
    /\ filled' = 0
    /\ pc' = "fill"
------------------------------------------------------------------------------
(* Plausible slips in the code below.                                      *)

(* The overlap is forgotten: the next probe starts where this one ended. *)
ScanAdvanceNoOverlap ==
    /\ pc = "scan" /\ filled > 0
    /\ stable => NoMatchIn(data, delim, offset, offset + filled)
    /\ offset + filled < file_len
    /\ offset' = offset + filled
    /\ probe_len' = MinOf(2 * probe_len, buffer_len)
    /\ filled' = 0
    /\ pc' = "fill"
    /\ UNCHANGED <<args, loop, assembly, source>>

(* max(1) is forgotten: a short read may advance by nothing. *)
ScanAdvanceNoMax ==
    /\ pc = "scan" /\ filled > 0
    /\ stable => NoMatchIn(data, delim, offset, offset + filled)
    /\ offset + filled < file_len
    /\ offset' = offset + (IF filled > dlen - 1 THEN filled - (dlen - 1) ELSE 0)
    /\ probe_len' = MinOf(2 * probe_len, buffer_len)
    /\ filled' = 0
    /\ pc' = "fill"
    /\ UNCHANGED <<args, loop, assembly, source>>

(* The doubled probe is not capped at the buffer. *)
ScanAdvanceUncapped ==
    /\ pc = "scan" /\ filled > 0
    /\ stable => NoMatchIn(data, delim, offset, offset + filled)
    /\ offset + filled < file_len
    /\ offset' = offset + (IF filled > dlen THEN filled - (dlen - 1) ELSE 1)
    /\ probe_len' = 2 * probe_len
    /\ filled' = 0
    /\ pc' = "fill"
    /\ UNCHANGED <<args, loop, assembly, source>>

(* A target the last cut already passed is not skipped. *)
BeginTailAlways ==
    /\ pc = "loop" /\ i < n
    /\ target >= dlen
    /\ filled' = 0
    /\ pc' = "tail"
    /\ UNCHANGED <<args, loop, assembly, source, offset, probe_len>>

(* One read_at per probe: a short read is searched as it is. *)
ReadFillOnce ==
    /\ pc = "fill"
    /\ \E r \in ReadCount(want - filled) :
          /\ filled' = filled + r
          /\ pc' = "scan"
    /\ UNCHANGED <<args, loop, assembly, source, offset, probe_len>>

(* One read_at for the tail: a short read rejects the exact target. *)
ReadTailOnce ==
    /\ pc = "tail"
    /\ \E r \in ReadCount(dlen - filled) :
          /\ filled' = filled + r
          /\ pc' = "tailcheck"
    /\ UNCHANGED <<args, loop, assembly, source, offset, probe_len>>
------------------------------------------------------------------------------
(* Early returns, before anything is allocated. *)
SrcReturn ==
    /\ ReturnEmpty \/ ReturnWhole
    /\ UNCHANGED <<source, search>>

(* plan_partition_ranges: a request for no partitions returns before the   *)
(* file is touched; otherwise opening the source may fail.                 *)
OpenError ==
    /\ pc = "start" /\ parts > 0
    /\ pc' = "error"
    /\ UNCHANGED <<args, loop, assembly, source, search>>

(* A buffer past isize::MAX is InvalidInput; a failed reservation is       *)
(* OutOfMemory.                                                            *)
SrcNoBuffer ==
    /\ pc = "start"
    /\ file_len > 0 /\ parts > 1
    /\ pc' = "error"
    /\ UNCHANGED <<args, loop, assembly, source, search>>

SrcEnterLoop ==
    /\ buffer_len <= IsizeMax
    /\ EnterLoop
    /\ UNCHANGED <<source, search>>

SrcSkipTarget ==
    /\ SkipTarget
    /\ UNCHANGED <<source, search>>

(* target >= dlen: read the dlen bytes before the target. *)
BeginTail ==
    /\ pc = "loop" /\ i < n
    /\ target > last_boundary /\ target >= dlen
    /\ filled' = 0
    /\ pc' = "tail"
    /\ UNCHANGED <<args, loop, assembly, source, offset, probe_len>>

(* target < dlen: no delimiter fits before it. *)
BeginSearch ==
    /\ pc = "loop" /\ i < n
    /\ target > last_boundary /\ target < dlen
    /\ StartSearch
    /\ UNCHANGED <<args, loop, assembly, source>>

(* One read_at of the tail loop; 0 bytes or a full tail end the loop. *)
ReadTail ==
    /\ pc = "tail"
    /\ \E r \in ReadCount(dlen - filled) :
          /\ filled' = filled + r
          /\ pc' = IF r = 0 \/ filled + r = dlen THEN "tailcheck" ELSE "tail"
    /\ UNCHANGED <<args, loop, assembly, source, offset, probe_len>>

TailAccept ==
    /\ pc = "tailcheck"
    /\ filled = dlen
    /\ stable => EndsRecord(data, delim, target)
    /\ PushBoundary(target)
    /\ pc' = "loop"
    /\ UNCHANGED <<source, search>>

TailReject ==
    /\ pc = "tailcheck"
    /\ filled = dlen /\ stable => ~EndsRecord(data, delim, target)
    /\ StartSearch
    /\ UNCHANGED <<args, loop, assembly, source>>

(* One read_at of the fill loop; 0 bytes or a full probe end the loop. *)
ReadFill ==
    /\ pc = "fill"
    /\ \E r \in ReadCount(want - filled) :
          /\ filled' = filled + r
          /\ pc' = IF r = 0 \/ filled + r = want THEN "scan" ELSE "fill"
    /\ UNCHANGED <<args, loop, assembly, source, offset, probe_len>>

(* find_pattern_from returns Some(p). *)
ScanHit ==
    /\ pc = "scan"
    /\ \E p \in offset..(offset + filled) :
          /\ p + dlen <= offset + filled
          /\ stable => FirstMatchIn(data, delim, offset, offset + filled, p)
          /\ PushBoundary(MinOf(p + dlen, file_len))
    /\ pc' = "loop"
    /\ UNCHANGED <<source, search>>

(* find_pattern_from returns None: nothing was read, or the probe reached  *)
(* EOF without an occurrence.  The loop breaks.                            *)
ScanNone ==
    /\ pc = "scan"
    /\ stable => NoMatchIn(data, delim, offset, offset + filled)
    /\ filled = 0 \/ offset + filled >= file_len
    /\ boundaries' = Append(boundaries, file_len)
    /\ pc' = "assemble"
    /\ UNCHANGED <<args, n, i, last_boundary, assembly, source, search>>

(* A miss: keep dlen - 1 bytes of overlap, advance by at least one, double *)
(* the probe up to the buffer.                                             *)
ScanAdvance ==
    /\ pc = "scan" /\ filled > 0
    /\ stable => NoMatchIn(data, delim, offset, offset + filled)
    /\ offset + filled < file_len
    /\ offset' = offset + (IF filled > dlen THEN filled - (dlen - 1) ELSE 1)
    /\ probe_len' = MinOf(2 * probe_len, buffer_len)
    /\ filled' = 0
    /\ pc' = "fill"
    /\ UNCHANGED <<args, loop, assembly, source>>

(* read_at fails and `?` returns the error. *)
ReadError ==
    /\ pc \in {"tail", "fill"}
    /\ pc' = "error"
    /\ UNCHANGED <<args, loop, assembly, source, search>>

SrcLeaveLoop ==
    /\ LeaveLoop
    /\ UNCHANGED <<source, search>>

SrcAssemble ==
    /\ Assemble
    /\ UNCHANGED <<source, search>>

SrcDone ==
    /\ pc \in {"done", "error"}
    /\ UNCHANGED srcVars

SrcStep ==
    \/ OpenError \/ SrcReturn \/ SrcNoBuffer \/ SrcEnterLoop
    \/ SrcSkipTarget \/ BeginTail \/ BeginSearch
    \/ ReadTail \/ TailAccept \/ TailReject
    \/ ReadFill \/ ScanHit \/ ScanNone \/ ScanAdvance \/ ReadError
    \/ SrcLeaveLoop \/ SrcAssemble

SrcNext == SrcStep \/ SrcDone

SrcSpec == SrcInit /\ [][SrcNext]_srcVars
SrcFairSpec == SrcSpec /\ WF_srcVars(SrcNext)
------------------------------------------------------------------------------
(* The shape of the state; the probe and what is read into it fit the scan *)
(* buffer, and every read stays inside the file (so the `offset >=         *)
(* file_len` return at the top of the search loop is never taken).         *)
SrcTypeOK ==
    /\ data \in Seq(Byte) /\ delim \in Seq(Byte) \ {<<>>} /\ parts \in Nat
    /\ pc \in {"start", "loop", "tail", "tailcheck", "fill", "scan",
               "assemble", "done", "error"}
    /\ n \in 0..file_len /\ i \in Nat \ {0}
    /\ last_boundary \in 0..file_len
    /\ boundaries \in Seq(0..file_len)
    /\ j \in Nat \ {0} /\ prev \in 0..file_len
    /\ partitions \in Seq((0..file_len) \X (0..file_len))
    /\ scan_buffer \in Nat /\ stable \in BOOLEAN
    /\ probe_len \in 0..buffer_len /\ filled \in 0..buffer_len
    /\ offset \in 0..file_len
    /\ pc \in {"fill", "scan"} => offset < file_len /\ filled <= want

(* The buffered search passes over no occurrence: none of a stable file's  *)
(* delimiters starts between the target and the current buffer, although   *)
(* reads are short and an occurrence may straddle two probes.              *)
NoMatchSkipped ==
    stable /\ pc \in {"fill", "scan"} =>
        \A q \in target..(offset - 1) : ~MatchAt(data, delim, q)

(* The matcher is never starved: whenever a stable file's probe is         *)
(* searched it holds a whole delimiter or reaches EOF, however short the   *)
(* reads that filled it.                                                   *)
ProbeHoldsPattern ==
    stable /\ pc = "scan" => filled >= dlen \/ offset + filled = file_len

(* A plan that is returned covers the length recorded at open, contiguous, *)
(* without empty ranges and within the request, whatever the file does     *)
(* meanwhile: a search that sees other bytes than the one before it, or    *)
(* none, never moves a cut back, past the end or out of the plan.          *)
RecordedLengthCovered == Coverage /\ AtMostRequested

(* Parity: on a stable file every step of the buffered planner is a step   *)
(* of the slice planner or changes nothing it can see, so all sources plan *)
(* the same ranges.  For an unstable file see RecordedLengthCovered.       *)
OnStable(v, initial) == IF stable THEN v ELSE initial
slicePc ==
    IF pc \in {"start", "loop", "assemble", "done"} THEN pc
    ELSE IF n = 0 THEN "start" ELSE "loop"
Slice == INSTANCE PartitionPlanner WITH
    pc <- OnStable(slicePc, "start"),
    n <- OnStable(n, 0), i <- OnStable(i, 1),
    last_boundary <- OnStable(last_boundary, 0),
    boundaries <- OnStable(boundaries, <<>>),
    j <- OnStable(j, 1), prev <- OnStable(prev, 0),
    partitions <- OnStable(partitions, <<>>)
PlansLikeSlice == Slice!Spec

(* Planning returns, with a plan or an error, even when the file shrinks   *)
(* under it and reads come back empty or shorter than the delimiter.       *)
SrcTerminates == <>(pc \in {"done", "error"})
==============================================================================
