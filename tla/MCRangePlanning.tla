--------------------------- MODULE MCRangePlanning ---------------------------
(***************************************************************************)
(* Small instances of RangePlanning: an empty file, one byte (planned      *)
(* through a buffer but never read), two files of one size with different  *)
(* record ends, a file without a delimiter and a longer file with more     *)
(* ranges, so that a replacement can change the count up or down, the      *)
(* size, only the boundaries, or nothing a check can see.                  *)
(***************************************************************************)
EXTENDS RangePlanning

MCFiles == {[size |-> 0, ends |-> {}], [size |-> 1, ends |-> {1}],
            [size |-> 4, ends |-> {2, 4}],
            [size |-> 4, ends |-> {1, 3}], [size |-> 4, ends |-> {}],
            [size |-> 6, ends |-> {1, 2, 3, 5}]}
MCPartCounts == {1, 2, 4}
MCCapacities == {0, 1, 3}
==============================================================================
