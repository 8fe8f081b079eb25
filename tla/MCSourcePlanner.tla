-------------------------- MODULE MCSourcePlanner --------------------------
(***************************************************************************)
(* Small instances of SourcePlanner.  The scan buffers reach from 0        *)
(* (raised to the delimiter length) to more than one doubling of the first *)
(* probe, so that occurrences straddle probes of several sizes.            *)
(***************************************************************************)
EXTENDS SourcePlanner

CONSTANTS MaxLen, MaxParts

MCByte == {"x", "\n"}
MCDatas == UNION {[1..l -> MCByte] : l \in 0..MaxLen}
MCParts == 0..MaxParts
MCDelims == {<<"\n">>, <<"x", "\n">>, <<"\n", "x", "\n">>}
MCScanBuffers == {0, 4, 6}
============================================================================
