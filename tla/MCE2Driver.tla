----------------------------- MODULE MCE2Driver -----------------------------
(* E2Driver with small sets of threads and files.  Threads and files are      *)
(* interchangeable: the safety runs use that, the liveness runs do not.       *)
EXTENDS E2Driver, TLC

Symmetry == Permutations(Threads) \union Permutations(Files)
=============================================================================
