----------------------------- MODULE RateLimiter -----------------------------
(***************************************************************************)
(* The token bucket of AlgoOps (struct RateLimiter in algo_ops/src/ops.rs) *)
(* as operators.  The code keeps a fractional number of tokens; here a     *)
(* token is worth Per units, so that the Capacity tokens that come back    *)
(* over Per clock units come back Capacity units at a time and the         *)
(* arithmetic stays exact (the rounding of f64 is abstracted).             *)
(*                                                                         *)
(*    tokens  what the bucket holds, 0 .. Capacity * Per                   *)
(*    age     time since last_refill; it stops at Per, after which the     *)
(*            bucket is full whatever it held                              *)
(***************************************************************************)
EXTENDS Integers

CONSTANTS
    MaxRequestsPerWindow, \* RateLimitConfig::max_requests
    PerWindow             \* RateLimitConfig::per_millis

ASSUME RateAssumption == MaxRequestsPerWindow \in Nat /\ PerWindow \in Nat

AtLeastOne(n) == IF n < 1 THEN 1 ELSE n

\* RateLimiter::new clamps a zero in either field of the config.
Capacity == AtLeastOne(MaxRequestsPerWindow)
Per == AtLeastOne(PerWindow)
Full == Capacity * Per

NewBucket == [tokens |-> Full, age |-> 0]

\* Mutants: the refill is not capped; the refill is forgotten.
MutRefilled(b) == b.tokens + b.age * Capacity
MutRefilledNever(b) == b.tokens

\* RateLimiter::poll, first half: refill for the time elapsed, up to capacity.
Refilled(b) ==
    IF b.tokens + b.age * Capacity < Full THEN b.tokens + b.age * Capacity ELSE Full

\* RateLimiter::poll, second half: a whole token is consumed ...
Granted(b) == Refilled(b) >= Per

\* Mutant: last_refill is not moved on.
MutPoll(b) == [tokens |-> IF Granted(b) THEN Refilled(b) - Per ELSE Refilled(b),
               age |-> b.age]

Poll(b) == [tokens |-> IF Granted(b) THEN Refilled(b) - Per ELSE Refilled(b),
            age |-> 0]

\* Mutant: the wait is rounded down.
MutPollWait(b) == (Per - Refilled(b)) \div Capacity

\* ... or the caller is told how long the rest of the token takes (rounded up).
PollWait(b) == (Per - Refilled(b) + Capacity - 1) \div Capacity

\* The monotonic clock moves on by one unit.
Aged(b) == [b EXCEPT !.age = IF @ < Per THEN @ + 1 ELSE Per]
=============================================================================
