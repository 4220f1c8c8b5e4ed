------------------------------ MODULE MCSession ------------------------------
(* TLC instance of Session; the values of the constants are in the cfg file. *)
EXTENDS Session
=============================================================================
