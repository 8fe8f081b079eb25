--------------------------- MODULE MCChunkScanner ---------------------------
(***************************************************************************)
(* Every slice of up to MaxLen bytes over a plain byte and a delimiter     *)
(* byte, with chunk sizes from 0 (clamped) to usize::MAX (saturates).      *)
(***************************************************************************)
EXTENDS ChunkDifferential

CONSTANTS MaxLen

MCByte == {"x", "\n"}
MCDatas == UNION {[1..l -> MCByte] : l \in 0..MaxLen}
MCDelims == {<<"\n">>, <<"x", "\n">>, <<"\n", "\n">>, <<"\n", "x", "\n">>}
MCChunkSizes == {0, 1, 2, 3, MaxLen, UsizeMax}
=============================================================================
