-------------------------- MODULE MCPatternSearch --------------------------
(***************************************************************************)
(* Two-bit bytes in three-byte words.  Every byte is 0, 1 or 2: equal to   *)
(* the pattern byte, one above it (the byte a borrow turns into a false    *)
(* zero) and one with the top bit set.                                     *)
(***************************************************************************)
EXTENDS PatternSearch

CONSTANTS MaxLen

MCHaystacks == UNION {[1..l -> 0..2] : l \in 0..MaxLen}
MCPatterns == {<<0>>, <<1>>, <<3>>, <<0, 1>>, <<1, 1>>, <<0, 0, 1>>}
=============================================================================
