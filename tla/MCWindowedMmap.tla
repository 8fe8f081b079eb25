--------------------------- MODULE MCWindowedMmap ---------------------------
(***************************************************************************)
(* Two threads on files of a few alignment units.  Windows reach from      *)
(* below the alignment (refused) to u64::MAX (saturates); some requests    *)
(* are longer than the smallest window, as a 1 MiB scan buffer is longer   *)
(* than a 64 KiB window.                                                   *)
(***************************************************************************)
EXTENDS WindowedMmap

MCSizes == {0, 5}
MCWindows == {1, 2, 7}
MCOffsets == {1, 2, 5}
MCLengths == {0, 1, 3}
MCAddresses == 1..2
=============================================================================
