------------------------ MODULE MCPartitionPlanner ------------------------
(***************************************************************************)
(* Small instances of PartitionPlanner: every byte string up to MaxLen     *)
(* over two byte values, and every request up to MaxParts, which exceeds   *)
(* MaxLen so that the cap on the request is exercised.                     *)
(***************************************************************************)
EXTENDS PartitionDifferential

CONSTANTS MaxLen, MaxParts

MCByte == {"x", "\n"}
MCDatas == UNION {[1..l -> MCByte] : l \in 0..MaxLen}
MCParts == 0..MaxParts

(* A one-byte delimiter, and longer ones no two occurrences of which can   *)
(* overlap.  "\n" stands for any delimiter byte and "x" for any other.     *)
PlainDelims == {<<"\n">>, <<"x", "\n">>, <<"x", "x", "\n">>}

(* A delimiter that overlaps itself, as "\r\n\r\n" does. *)
SelfOverlappingDelims == {<<"\n", "\n">>}
===========================================================================
