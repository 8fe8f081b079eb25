-------------------------- MODULE ChunkDifferential --------------------------
(***************************************************************************)
(* The chunk scanner and its cursors beside the reference loops: modes 0   *)
(* and 1 of the scanner_differential fuzz target, the differential tests   *)
(* of scanner.rs and of the C ABI, and the fixed_extremes fuzz target.     *)
(***************************************************************************)
EXTENDS ChunkScanner, ScalarOracles

(* What a ChunkCursor has yielded once next() returns None; it then stands *)
(* at the end of the data and expects nothing more.                        *)
cursor_ranges(expected) ==
    is_empty => yielded = expected /\ position = len /\ size_hint = <<0, 0>>

(* The same of a PatternChunkCursor, which also takes one-byte patterns.   *)
pattern_cursor_ranges(expected) ==
    is_empty => yielded = expected /\ position = len /\ size_hint = <<0, 0>>

(* Mode 0, for a one-byte delimiter. *)
fuzz_single ==
    /\ chunks = scalar_single(data, chunk_size, delim[1])
    /\ assert_cover(data, chunks)

(* Mode 1, for a pattern. *)
fuzz_pattern ==
    /\ chunks = scalar_pattern(data, chunk_size, delim)
    /\ assert_cover(data, chunks)

(* Every reference loop cuts the data where the scanner and the cursor do, *)
(* for delimiters that overlap themselves, that are longer than the data   *)
(* or that reach over the target, and for chunk sizes 0 to usize::MAX.     *)
MatchesScalarOracles ==
    LET expected == scalar_pattern_boundaries(data, chunk_size, delim)
    IN  /\ pattern_cursor_ranges(expected)
        /\ Len(delim) = 1 =>
              cursor_ranges(scalar_single_byte_boundaries(data, chunk_size, delim[1]))
        /\ start >= len =>
              /\ chunks = expected
              /\ chunks = naive_pattern_boundaries(data, chunk_size, delim)
              /\ fuzz_pattern
              /\ Len(delim) = 1 =>
                    /\ chunks = scalar_single_byte_boundaries(data, chunk_size, delim[1])
                    /\ fuzz_single

(* assert_case of the fixed_extremes target. *)
assert_case(file_len, size, index) ==
    LET count == fixed_chunk_count(file_len, size)
    IN  /\ count = oracle_count(file_len, size)
        /\ fixed_chunk_bounds(file_len, size, index)
              = oracle_bounds(file_len, size, index)
        /\ fixed_chunk_bounds(file_len, size, count) = <<>>
        /\ file_len > 0 => fixed_chunk_bounds(file_len, size, count - 1)[2] = file_len

(* The target itself: the case of the input, then every pair of extremes   *)
(* around the ends of usize and a power of two, with the input's index.    *)
fuzz_extremes(file_len, size, index, power) ==
    LET extremes == {0, 1, UsizeMax, UsizeMax - 1, power,
                     MaxOf(power - 1, 0), SaturatingAdd(power, 1)}
    IN  /\ assert_case(file_len, size, index)
        /\ \A length, other \in extremes : assert_case(length, other, index)

(* Fixed chunks computed in usize are those computed in u128: no length,   *)
(* chunk size or index up to usize::MAX overflows the count or a bound.    *)
FixedMatchesOracle ==
    data = <<>> =>
        \A file_len, index \in 0..UsizeMax :
            \A power \in {p \in 1..UsizeMax : \E bit \in 0..p : p = 2^bit} :
                fuzz_extremes(file_len, chunk_size, index, power)
==============================================================================
