------------------------------ MODULE MCEngine ------------------------------
(***************************************************************************)
(* Two regular files and a directory compete for the path while one handle *)
(* is opened, scanned and freed; a second thread calls get_chunk.          *)
(***************************************************************************)
EXTENDS Engine, TLC

CONSTANTS f1, f2, d, t1, t2

MCFiles == {f1, f2}
MCSpecials == {d}
MCSizes == {0, 3}
MCChunkSizes == {0, 2}
MCCounts == {0, 1, 2}
MCFlags == {{}, {"size"}, {"identity", "size"}, {"unknown"}}
MCThreads == {t1, t2}
InterchangeableFiles == Permutations(MCFiles)
=============================================================================
