---------------------------- MODULE ChunkScanner ----------------------------
(***************************************************************************)
(* Approximate-size chunking, eager and lazy over the same bytes:          *)
(* find_chunk_boundaries(_pattern) fills a Vec while a ChunkCursor or      *)
(* PatternChunkCursor is pulled at its own pace.  The one-byte variants    *)
(* are the pattern variants at Len(delim) = 1.  Fixed-size chunks are      *)
(* never stored: their count and bounds are computed on demand.            *)
(***************************************************************************)
EXTENDS Records

CONSTANTS
    Byte, Datas, Delims,
    ChunkSizes,           \* the chunk_size arguments considered
    UsizeMax              \* usize::MAX

ASSUME ChunkAssumption ==
    /\ Datas \subseteq Seq(Byte)
    /\ Delims \subseteq Seq(Byte) \ {<<>>}
    /\ UsizeMax \in Nat /\ ChunkSizes \subseteq 0..UsizeMax
    /\ \A d \in Datas : Len(d) <= UsizeMax

VARIABLES
    data, delim, chunk_size,
    start, chunks,        \* the eager loop and its Vec
    position, yielded     \* the cursor, and what it has yielded

args == <<data, delim, chunk_size>>
scan == <<start, chunks>>
cursor == <<position, yielded>>
vars == <<args, scan, cursor>>

len == Len(data)
step == MaxOf(chunk_size, 1)

SaturatingAdd(a, b) == MinOf(a + b, UsizeMax)

SaturatingMul(a, b) == MinOf(a * b, UsizeMax)

(* Plausible slip: ceiling division by the textbook sum, which wraps.      *)
FixedCountBySum(file_len, size) ==
    LET effective_size == MaxOf(size, 1)
    IN  ((file_len + effective_size - 1) % (UsizeMax + 1)) \div effective_size

(* file_len.div_ceil(chunk_size.max(1)) *)
fixed_chunk_count(file_len, size) ==
    LET effective_size == MaxOf(size, 1)
    IN  file_len \div effective_size
            + (IF file_len % effective_size > 0 THEN 1 ELSE 0)

(* The bounds of the index-th fixed chunk; the empty sequence is None. *)
fixed_chunk_bounds(file_len, size, index) ==
    LET effective_size == MaxOf(size, 1)
        from == SaturatingMul(index, effective_size)
        raw_end == SaturatingAdd(from, effective_size)
    IN  IF file_len = 0 \/ index >= fixed_chunk_count(file_len, size) THEN <<>>
        ELSE <<from, IF raw_end > file_len THEN file_len ELSE raw_end>>

(* ChunkCursor::new *)
NewCursor == position = 0 /\ yielded = <<>>

Init ==
    /\ data \in Datas /\ delim \in Delims /\ chunk_size \in ChunkSizes
    /\ start = 0 /\ chunks = <<>>
    /\ NewCursor
------------------------------------------------------------------------------
(* One iteration of `while start < len`. *)
Push(end) ==
    /\ chunks' = Append(chunks, <<start, end>>)
    /\ start' = end
    /\ UNCHANGED <<args, cursor>>

ScanTarget == SaturatingAdd(start, step)

(* Plausible slip: a target beyond the slice is not clamped to its end. *)
ScanToEndUnclamped ==
    /\ start < len /\ ScanTarget >= len
    /\ Push(ScanTarget)

ScanToEnd ==
    /\ start < len /\ ScanTarget >= len
    /\ Push(len)

(* Plausible slip: the delimiter is searched from the chunk's own start. *)
ScanSnapFromStart ==
    /\ start < len /\ ScanTarget < len
    /\ \E p \in start..len :
          /\ FirstMatchIn(data, delim, start, len, p)
          /\ Push(MinOf(p + Len(delim), len))

ScanSnap ==
    /\ start < len /\ ScanTarget < len
    /\ \E p \in ScanTarget..len :
          /\ FirstMatchIn(data, delim, ScanTarget, len, p)
          /\ Push(MinOf(p + Len(delim), len))

ScanMiss ==
    /\ start < len /\ ScanTarget < len
    /\ NoMatchIn(data, delim, ScanTarget, len)
    /\ Push(len)
------------------------------------------------------------------------------
(* Iterator::next: the consumer pulls one chunk. *)
Yield(end) ==
    /\ yielded' = Append(yielded, <<position, end>>)
    /\ position' = end
    /\ UNCHANGED <<args, scan>>

NextTarget == SaturatingAdd(position, step)

NextToEnd ==
    /\ position < len /\ NextTarget >= len
    /\ Yield(len)

(* Plausible slip: the cursor forgets the delimiter's length. *)
NextSnapBeforeDelim ==
    /\ position < len /\ NextTarget < len
    /\ \E p \in NextTarget..len :
          /\ FirstMatchIn(data, delim, NextTarget, len, p)
          /\ Yield(MinOf(p + 1, len))

NextSnap ==
    /\ position < len /\ NextTarget < len
    /\ \E p \in NextTarget..len :
          /\ FirstMatchIn(data, delim, NextTarget, len, p)
          /\ Yield(MinOf(p + Len(delim), len))

NextMiss ==
    /\ position < len /\ NextTarget < len
    /\ NoMatchIn(data, delim, NextTarget, len)
    /\ Yield(len)

is_empty == position >= len

(* Iterator::size_hint: the chunks still to come are at least and at most  *)
(* this many.                                                              *)
size_hint == IF is_empty THEN <<0, 0>> ELSE <<1, len - position>>

(* Both have come to the end; next() goes on returning None. *)
Exhausted == start >= len /\ is_empty /\ UNCHANGED vars

Next ==
    \/ ScanToEnd \/ ScanSnap \/ ScanMiss
    \/ NextToEnd \/ NextSnap \/ NextMiss
    \/ Exhausted

Spec == Init /\ [][Next]_vars
------------------------------------------------------------------------------
(* The chunks so far tile the bytes before `start` without gap, overlap or *)
(* empty chunk, for every chunk size from 0 to usize::MAX; a finished scan *)
(* of a non-empty slice covers it.                                         *)
ChunksTile ==
    IF chunks = <<>> THEN start = 0 ELSE start <= len /\ Covers(chunks, start)

(* Streaming parity: at every moment what the cursor has yielded and what  *)
(* the scan has found agree as far as both go, and the number of chunks    *)
(* the cursor has left lies within its size_hint.                          *)
CursorAgrees ==
    /\ \A k \in 1..MinOf(Len(chunks), Len(yielded)) : chunks[k] = yielded[k]
    /\ start >= len =>
          Len(chunks) - Len(yielded) \in size_hint[1]..size_hint[2]
=============================================================================
