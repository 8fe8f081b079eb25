------------------------ MODULE PartitionDifferential ------------------------
(***************************************************************************)
(* The partition planner beside the reference loops: the differential      *)
(* tests of scanner.rs and mode 2 of the scanner_differential fuzz target, *)
(* which compare a finished plan with a byte-at-a-time computation of it.  *)
(***************************************************************************)
EXTENDS PartitionPlanner, ScalarOracles

(* Mode 2 of the fuzz target, for the result of a one-byte partitioning.   *)
fuzz_partition ==
    /\ partitions = scalar_partition(data, parts, delim[1])
    /\ assert_cover(data, partitions)
    /\ \A k \in 1..(Len(partitions) - 1) : data[partitions[k][2]] = delim[1]

(* The plan the loops of the planner build is the plan of every reference  *)
(* loop that applies to it, range by range: the cap on the request (which  *)
(* the pattern oracle does not have), the collapse of targets inside one   *)
(* record and the break at the last delimiter change nothing.              *)
MatchesScalarOracles ==
    pc = "done" =>
        /\ partitions = scalar_partition_boundaries_pattern(data, parts, delim)
        /\ assert_partition_invariants_pattern(data, parts, delim, partitions)
        /\ Len(delim) = 1 =>
              /\ partitions = scalar_partition_boundaries(data, parts, delim[1])
              /\ assert_partition_invariants(data, parts, delim[1], partitions)
              /\ parts > 0 => fuzz_partition
==============================================================================
