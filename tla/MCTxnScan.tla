----------------------------- MODULE MCTxnScan -----------------------------
(* TLC instances of TxnScan; the values of the constants are in the cfg    *)
(* files.                                                                  *)
EXTENDS TxnScan, TLC

CallerSymmetry == Permutations(Callers)
=============================================================================
