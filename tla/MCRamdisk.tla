----------------------------- MODULE MCRamdisk ------------------------------
(* Ramdisk with a buffer of one byte that grows to two. *)
EXTENDS Ramdisk
CONSTANTS t1, t2, f1, f2
MCThreads == {t1, t2}
MCFiles == {f1, f2}
MCOffsets == {0, 1}
=============================================================================
