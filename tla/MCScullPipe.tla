---------------------------- MODULE MCScullPipe -----------------------------
(* ScullPipe with three threads and buffers of one and three bytes: one that is      *)
(* always full, one where the pointers wrap; either may be taken for the other. *)
EXTENDS ScullPipe, TLC
CONSTANTS t1, t2, t3
MCThreads == {t1, t2, t3}
Symmetric == Permutations(MCThreads)
=============================================================================
