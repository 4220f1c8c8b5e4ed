---------------------------- MODULE MCAccountScan ----------------------------
(* TLC instances of AccountScan.                                           *)
EXTENDS AccountScan
=============================================================================
