------------------------------- MODULE MCVault -------------------------------
(* TLC instance of Vault; the values of the constants are in the cfg file.   *)
EXTENDS Vault, TLC

VaultSymmetry == Permutations(Procs) \cup Permutations(Passwords)
=============================================================================
