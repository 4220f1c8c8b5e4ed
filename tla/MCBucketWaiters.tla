--------------------------- MODULE MCBucketWaiters ---------------------------
(* TLC instances of BucketWaiters.                                         *)
EXTENDS BucketWaiters
=============================================================================
