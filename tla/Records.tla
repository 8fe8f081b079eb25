------------------------------- MODULE Records -------------------------------
(***************************************************************************)
(* Byte strings, delimiter occurrences and record boundaries: the          *)
(* vocabulary every planner of mmap-chunker-core shares.                   *)
(*                                                                         *)
(* A byte string is a sequence; offsets are 0-based as in the Rust code,   *)
(* so the byte at offset p is data[p + 1].  Ranges are half open.          *)
(***************************************************************************)
EXTENDS Naturals, Sequences

(* data[p..].starts_with(delim) *)
MatchAt(data, delim, p) ==
    /\ p + Len(delim) <= Len(data)
    /\ \A k \in 1..Len(delim) : data[p + k] = delim[k]

(* find_pattern_in_slice(&data[from..upto], delim) = None *)
NoMatchIn(data, delim, from, upto) ==
    \A q \in from..upto : q + Len(delim) <= upto => ~MatchAt(data, delim, q)

(* find_pattern_in_slice(&data[from..upto], delim) = Some(p - from): the   *)
(* leftmost complete occurrence.  find_byte_swar is the one-byte case.     *)
FirstMatchIn(data, delim, from, upto, p) ==
    /\ p \in from..upto
    /\ p + Len(delim) <= upto
    /\ MatchAt(data, delim, p)
    /\ \A q \in from..(p - 1) : ~MatchAt(data, delim, q)

(* The offset t already follows a complete delimiter. *)
EndsRecord(data, delim, t) ==
    t >= Len(delim) /\ MatchAt(data, delim, t - Len(delim))

(* floor(file_len * i / n), computed through u128 so it cannot overflow.   *)
IdealTarget(len, i, n) == (len * i) \div n

MinOf(a, b) == IF a <= b THEN a ELSE b
MaxOf(a, b) == IF a >= b THEN a ELSE b

(* Contiguous, non-empty, half-open ranges covering [0, len). *)
Covers(ranges, len) ==
    /\ Len(ranges) > 0
    /\ ranges[1][1] = 0
    /\ ranges[Len(ranges)][2] = len
    /\ \A k \in 1..Len(ranges) : ranges[k][1] < ranges[k][2]
    /\ \A k \in 1..(Len(ranges) - 1) : ranges[k][2] = ranges[k + 1][1]
==============================================================================
