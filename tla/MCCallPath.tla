----------------------------- MODULE MCCallPath -----------------------------
(* TLC instances of CallPath; the values of the constants are in the cfg   *)
(* files.                                                                  *)
EXTENDS CallPath, TLC

ThreadSymmetry == Permutations(Threads)
=============================================================================
