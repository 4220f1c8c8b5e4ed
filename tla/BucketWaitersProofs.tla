------------------------- MODULE BucketWaitersProofs -------------------------
(***************************************************************************)
(* Threads at the token bucket, for any number of threads and any rate:    *)
(* every interval of time is bounded, and the waits are exact.             *)
(***************************************************************************)
EXTENDS BucketWaiters, RateLimiterProofs

USE HorizonAssumption

-----------------------------------------------------------------------------
(***************************************************************************)
(* The inductive invariants.  A bound on the grants alone is not           *)
(* inductive: what the bucket holds counts as granted already.  A sleeper  *)
(* knows that no token is due before its sleep ends, and that one is due   *)
(* then unless another thread has been granted one.                        *)
(***************************************************************************)
SupplyBounded ==
    \A d \in 1 .. Horizon :
        granted[d] * Per + Refilled(bucket) <= Full + (d - 1) * Capacity

SleepsExactly ==
    \A t \in Threads :
        pc[t] = "sleep" =>
            /\ nap[t] > 0 => Due(bucket, nap[t] - 1) < Per
            /\ t \in first => Due(bucket, nap[t]) >= Per

WaitersInv == TypeOK /\ SupplyBounded /\ SleepsExactly

LEMMA Rates == Capacity \in Nat \ {0} /\ Per \in Nat \ {0} /\ Full \in Nat
BY BucketTypes

LEMMA TypeStep == TypeOK /\ [Next]_vars => TypeOK'
<1> SUFFICES ASSUME TypeOK, [Next]_vars PROVE TypeOK'
  OBVIOUS
<1> USE Rates DEF history
<1>1. bucket \in Buckets
  BY DEF TypeOK, Buckets
<1>2. ASSUME NEW t \in Threads, Arrive(t) \/ Wake(t) PROVE TypeOK'
  BY <1>2 DEF Arrive, Wake, TypeOK
<1>3. ASSUME NEW t \in Threads, PollOrSleep(t) PROVE TypeOK'
  <2>1. Poll(bucket) \in [tokens : 0 .. Full, age : 0 .. Per]
    BY <1>1, PollKeepsSupply DEF Buckets
  <2>2. ~Granted(bucket) => PollWait(bucket) \in 0 .. Per
    BY <1>1, WaitIsFirstDue
  <2>3. CASE Granted(bucket)
    <3>1. granted' \in [1 .. Horizon -> Nat]
      BY <1>3, <2>3 DEF PollOrSleep, TypeOK
    <3>2. QED
      BY <1>3, <2>1, <2>3, <3>1 DEF PollOrSleep, TypeOK
  <2>4. CASE ~Granted(bucket)
    <3>1. nap' \in [Threads -> 0 .. Per]
      BY <1>3, <2>2, <2>4 DEF PollOrSleep, TypeOK
    <3>2. first' \subseteq Threads /\ pc' \in [Threads -> {"out", "poll", "sleep"}]
      BY <1>3, <2>4 DEF PollOrSleep, TypeOK
    <3>3. QED
      BY <1>3, <2>1, <2>4, <3>1, <3>2 DEF PollOrSleep, TypeOK
  <2>5. QED
    BY <2>3, <2>4
<1>4. ASSUME Tick PROVE TypeOK'
  <2>1. Aged(bucket) \in [tokens : 0 .. Full, age : 0 .. Per]
    BY <1>1, BucketTypes DEF Buckets
  <2>2. nap' \in [Threads -> 0 .. Per]
    BY <1>4 DEF Tick, TypeOK
  <2>3. granted' \in [1 .. Horizon -> Nat]
    BY <1>4 DEF Tick, TypeOK
  <2>4. QED
    BY <1>4, <2>1, <2>2, <2>3 DEF Tick, TypeOK
<1>5. ASSUME UNCHANGED vars PROVE TypeOK'
  BY <1>5 DEF vars, TypeOK
<1>6. QED
  BY <1>2, <1>3, <1>4, <1>5 DEF Next

\* A grant takes from the bucket what it adds to every interval; a clock unit adds one
\* refill to both sides.
LEMMA SupplyStep == TypeOK /\ SupplyBounded /\ [Next]_vars => SupplyBounded'
<1> SUFFICES ASSUME TypeOK, SupplyBounded, [Next]_vars PROVE SupplyBounded'
  OBVIOUS
<1> USE Rates DEF history
<1>1. bucket \in Buckets /\ Refilled(bucket) \in Nat
  BY PollKeepsSupply DEF TypeOK, Buckets
<1>2. \A d \in 1 .. Horizon : granted[d] \in Nat
  BY DEF TypeOK
<1>3. ASSUME UNCHANGED <<bucket, granted>> PROVE SupplyBounded'
  BY <1>3 DEF SupplyBounded, Refilled
<1>4. ASSUME NEW t \in Threads, PollOrSleep(t) PROVE SupplyBounded'
  <2>1. bucket' = Poll(bucket)
    BY <1>4 DEF PollOrSleep
  <2>2. CASE Granted(bucket)
    <3>1. granted' = [d \in 1 .. Horizon |-> granted[d] + 1]
      BY <1>4, <2>2 DEF PollOrSleep
    <3>2. Refilled(bucket') = Refilled(bucket) - Per
      BY <1>1, <2>1, <2>2, PollKeepsSupply
    <3>3. ASSUME NEW d \in 1 .. Horizon
          PROVE  granted'[d] * Per + Refilled(bucket') <= Full + (d - 1) * Capacity
      <4>1. granted'[d] * Per = granted[d] * Per + Per /\ granted[d] * Per \in Nat
        BY <1>2, <3>1
      <4>2. granted[d] * Per + Refilled(bucket) <= Full + (d - 1) * Capacity
        BY DEF SupplyBounded
      <4>3. (d - 1) * Capacity \in Nat
        OBVIOUS
      <4>4. QED
        BY <1>1, <3>2, <4>1, <4>2, <4>3
    <3>4. QED
      BY <3>3 DEF SupplyBounded, Refilled
  <2>3. CASE ~Granted(bucket)
    <3>1. granted' = granted /\ Refilled(bucket') = Refilled(bucket)
      BY <1>1, <1>4, <2>1, <2>3, PollKeepsSupply DEF PollOrSleep
    <3>2. QED
      BY <3>1 DEF SupplyBounded, Refilled
  <2>4. QED
    BY <2>2, <2>3
<1>5. ASSUME Tick PROVE SupplyBounded'
  <2>1. Refilled(bucket') <= Refilled(bucket) + Capacity /\ Refilled(bucket') \in 0 .. Full
    <3>1. bucket' = Aged(bucket)
      BY <1>5 DEF Tick
    <3>2. QED
      BY <1>1, <3>1, AgedDue, PollKeepsSupply
  <2>2. ASSUME NEW d \in 1 .. Horizon
        PROVE  granted'[d] * Per + Refilled(bucket') <= Full + (d - 1) * Capacity
    <3>1. CASE d = 1
      <4>1. granted'[d] = 0
        BY <1>5, <3>1 DEF Tick
      <4>2. 0 * Per = 0 /\ (d - 1) * Capacity = 0
        BY <3>1
      <4>3. QED
        BY <2>1, <4>1, <4>2
    <3>2. CASE d # 1
      <4>1. d - 1 \in 1 .. Horizon /\ granted'[d] = granted[d - 1]
        BY <1>5, <3>2 DEF Tick
      <4>2. granted[d - 1] * Per + Refilled(bucket) <= Full + ((d - 1) - 1) * Capacity
        BY <4>1 DEF SupplyBounded
      <4>3. (d - 1) * Capacity = ((d - 1) - 1) * Capacity + Capacity
        OBVIOUS
      <4>4. granted[d - 1] * Per \in Nat /\ ((d - 1) - 1) * Capacity \in Nat
        BY <1>2, <4>1
      <4>5. QED
        BY <1>1, <2>1, <4>1, <4>2, <4>3, <4>4
    <3>3. QED
      BY <3>1, <3>2
  <2>3. QED
    BY <2>2 DEF SupplyBounded, Refilled
<1>6. QED
  BY <1>3, <1>4, <1>5 DEF Next, Arrive, Wake, vars

\* A sleeper's nap and what is due at its end move together; a grant to another thread
\* can only put a token further off.
LEMMA SleepStep == TypeOK /\ SleepsExactly /\ [Next]_vars => SleepsExactly'
<1> SUFFICES ASSUME TypeOK, SleepsExactly, [Next]_vars PROVE SleepsExactly'
  OBVIOUS
<1> USE Rates DEF history
<1>1. bucket \in Buckets /\ \A t \in Threads : nap[t] \in Nat
  BY DEF TypeOK, Buckets
<1>2. \A k \in Nat : Due(bucket, k) \in Nat
  BY <1>1, GrantedWhenDue
<1>3. ASSUME NEW t \in Threads, Arrive(t) \/ Wake(t) PROVE SleepsExactly'
  <2>1. /\ UNCHANGED <<bucket, nap, first>>
        /\ \A u \in Threads : pc'[u] = "sleep" => pc[u] = "sleep"
    BY <1>3 DEF Arrive, Wake, TypeOK
  <2>2. QED
    BY <2>1 DEF SleepsExactly, Due
<1>4. ASSUME NEW t \in Threads, PollOrSleep(t) PROVE SleepsExactly'
  <2>1. bucket' = Poll(bucket) /\ pc \in [Threads -> {"out", "poll", "sleep"}]
    BY <1>4 DEF PollOrSleep, TypeOK
  <2>2. \A k \in Nat : Due(bucket', k) \in Nat
    BY <1>1, <2>1, PollKeepsSupply, GrantedWhenDue
  <2>3. CASE Granted(bucket)
    <3>1. /\ pc' = [pc EXCEPT ![t] = "out"] /\ first' = {} /\ nap' = nap
      BY <1>4, <2>3 DEF PollOrSleep
    <3>2. ASSUME NEW u \in Threads, pc'[u] = "sleep", nap'[u] > 0
          PROVE  Due(bucket', nap'[u] - 1) < Per
      <4>1. pc[u] = "sleep" /\ nap'[u] = nap[u] /\ nap[u] - 1 \in Nat
        BY <1>1, <2>1, <3>1, <3>2
      <4>2. Due(bucket, nap[u] - 1) < Per
        BY <3>1, <3>2, <4>1 DEF SleepsExactly
      <4>3. Due(bucket', nap[u] - 1) <= Due(bucket, nap[u] - 1)
        BY <1>1, <2>1, <2>3, <4>1, PollDue
      <4>4. QED
        BY <1>2, <2>2, <4>1, <4>2, <4>3
    <3>3. QED
      BY <3>1, <3>2 DEF SleepsExactly, Due
  <2>4. CASE ~Granted(bucket)
    <3>1. /\ pc' = [pc EXCEPT ![t] = "sleep"] /\ first' = first \cup {t}
          /\ nap' = [nap EXCEPT ![t] = PollWait(bucket)]
      BY <1>4, <2>4 DEF PollOrSleep
    <3>2. \A k \in Nat : Due(bucket', k) = Due(bucket, k)
      BY <1>1, <2>1, <2>4, PollDue
    <3>3. /\ PollWait(bucket) \in 1 .. Per
          /\ Due(bucket, PollWait(bucket) - 1) < Per /\ Due(bucket, PollWait(bucket)) >= Per
      BY <1>1, <2>4, WaitIsFirstDue
    <3>4. ASSUME NEW u \in Threads, pc'[u] = "sleep"
          PROVE  /\ nap'[u] > 0 => Due(bucket', nap'[u] - 1) < Per
                 /\ u \in first' => Due(bucket', nap'[u]) >= Per
      <4>1. CASE u = t
        <5>1. nap'[u] = PollWait(bucket)
          BY <3>1, <4>1 DEF TypeOK
        <5>2. PollWait(bucket) \in Nat /\ PollWait(bucket) - 1 \in Nat
          BY <3>3
        <5>3. QED
          BY <3>2, <3>3, <5>1, <5>2
      <4>2. CASE u # t
        <5>1. pc[u] = "sleep" /\ nap'[u] = nap[u] /\ (u \in first' <=> u \in first)
          BY <2>1, <3>1, <3>4, <4>2 DEF TypeOK
        <5>2. nap[u] \in Nat /\ (nap[u] > 0 => nap[u] - 1 \in Nat)
          BY <1>1
        <5>3. QED
          BY <3>2, <5>1, <5>2 DEF SleepsExactly
      <4>3. QED
        BY <4>1, <4>2
    <3>5. QED
      BY <3>4 DEF SleepsExactly, Due
  <2>5. QED
    BY <2>3, <2>4
<1>5. ASSUME Tick PROVE SleepsExactly'
  <2>1. /\ bucket' = Aged(bucket) /\ pc' = pc /\ first' = first
        /\ \A u \in Threads : nap'[u] = IF nap[u] > 0 THEN nap[u] - 1 ELSE 0
    BY <1>5 DEF Tick
  <2>2. \A k \in Nat : Due(bucket', k) \in Nat
    BY <1>1, <2>1, AgedDue, GrantedWhenDue
  <2>3. ASSUME NEW u \in Threads, pc'[u] = "sleep"
        PROVE  /\ nap'[u] > 0 => Due(bucket', nap'[u] - 1) < Per
               /\ u \in first' => Due(bucket', nap'[u]) >= Per
    <3>1. CASE nap[u] > 0
      <4> DEFINE k == nap[u] - 1
      <4>1. k \in Nat /\ k + 1 = nap[u] /\ nap'[u] = k
        BY <1>1, <2>1, <3>1
      <4>2. Due(bucket, k) < Per /\ (u \in first => Due(bucket, k + 1) >= Per)
        BY <2>1, <2>3, <3>1, <4>1 DEF SleepsExactly
      <4> HIDE DEF k
      <4>3. u \in first' => Due(bucket', k) >= Per
        BY <1>1, <2>1, <4>1, <4>2, AgedDue
      <4>4. ASSUME k > 0 PROVE Due(bucket', k - 1) < Per
        <5>1. k - 1 \in Nat /\ (k - 1) + 1 = k
          BY <4>1, <4>4
        <5>2. Due(bucket', k - 1) <= Due(bucket, (k - 1) + 1)
          BY <1>1, <2>1, <5>1, AgedDue
        <5>3. QED
          BY <1>2, <2>2, <4>1, <4>2, <5>1, <5>2
      <4>5. QED
        BY <4>1, <4>3, <4>4
    <3>2. CASE ~(nap[u] > 0)
      <4>1. nap[u] = 0 /\ nap'[u] = 0
        BY <1>1, <2>1, <3>2
      <4>2. Due(bucket', 0) >= Due(bucket, 0)
        BY <1>1, <2>1, AgedDue
      <4>3. u \in first => Due(bucket, 0) >= Per
        BY <2>1, <2>3, <4>1 DEF SleepsExactly
      <4>4. QED
        BY <1>2, <2>1, <2>2, <4>1, <4>2, <4>3
    <3>3. QED
      BY <3>1, <3>2
  <2>4. QED
    BY <2>3 DEF SleepsExactly, Due
<1>6. ASSUME UNCHANGED vars PROVE SleepsExactly'
  BY <1>6 DEF vars, SleepsExactly, Due
<1>7. QED
  BY <1>3, <1>4, <1>5, <1>6 DEF Next

LEMMA InitInv == Init => WaitersInv
<1> SUFFICES ASSUME Init PROVE WaitersInv
  OBVIOUS
<1> USE Rates
<1>1. TypeOK
  BY BucketTypes DEF Init, TypeOK
<1>2. SupplyBounded
  <2>1. Refilled(bucket) \in 0 .. Full
    BY <1>1, PollKeepsSupply DEF TypeOK, Buckets
  <2>2. ASSUME NEW d \in 1 .. Horizon
        PROVE  granted[d] * Per + Refilled(bucket) <= Full + (d - 1) * Capacity
    <3>1. granted[d] = 0 /\ 0 * Per = 0 /\ (d - 1) * Capacity \in Nat
      BY DEF Init
    <3>2. QED
      BY <2>1, <3>1
  <2>3. QED
    BY <2>2 DEF SupplyBounded
<1>3. SleepsExactly
  BY DEF Init, SleepsExactly
<1>4. QED
  BY <1>1, <1>2, <1>3 DEF WaitersInv

\* The inductive invariant of the Block loop.
THEOREM WaitersInvariant == Spec => []WaitersInv
<1>1. WaitersInv /\ [Next]_vars => WaitersInv'
  BY TypeStep, SupplyStep, SleepStep DEF WaitersInv
<1>2. QED
  BY <1>1, InitInv, PTL DEF Spec

\* The types: in particular no wait is longer than the time of the configured rate.
THEOREM TypeCorrect == Spec => []TypeOK
<1>1. WaitersInv => TypeOK
  BY DEF WaitersInv
<1>2. QED
  BY <1>1, WaitersInvariant, PTL

\* The rate that with_rate_limit configures holds over every interval of time, not only
\* over aligned ones: d consecutive clock units never grant more than the burst and the
\* refill of the d - 1 units between them, however many threads poll.
THEOREM EveryIntervalIsBounded == Spec => []EveryIntervalBounded
<1>1. WaitersInv => EveryIntervalBounded
  <2> SUFFICES ASSUME WaitersInv, NEW d \in 1 .. Horizon
               PROVE  granted[d] * Per <= Full + (d - 1) * Capacity
    BY DEF EveryIntervalBounded
  <2>1. granted[d] * Per + Refilled(bucket) <= Full + (d - 1) * Capacity
    BY DEF WaitersInv, SupplyBounded
  <2>2. Refilled(bucket) \in Nat
    BY Rates, PollKeepsSupply DEF WaitersInv, TypeOK, Buckets
  <2>3. granted[d] * Per \in Nat /\ (d - 1) * Capacity \in Nat
    BY Rates DEF WaitersInv, TypeOK
  <2>4. QED
    BY Rates, <2>1, <2>2, <2>3
<1>2. QED
  BY <1>1, WaitersInvariant, PTL

\* The wait that RateLimiter::poll hands out is exact, for any rate and any threads: no
\* poll before its end would be granted, and one at its end is, unless another thread has
\* taken the token.
THEOREM WaitIsExactHolds == Spec => []WaitIsExact
<1>1. WaitersInv => WaitIsExact
  <2> SUFFICES ASSUME WaitersInv, NEW t \in Threads, pc[t] = "sleep"
               PROVE  /\ nap[t] > 0 => ~Granted([bucket EXCEPT !.age = @ + nap[t] - 1])
                      /\ t \in first => Granted([bucket EXCEPT !.age = @ + nap[t]])
    BY DEF WaitIsExact
  <2>1. bucket \in Buckets /\ bucket.age \in Nat /\ nap[t] \in Nat
    BY Rates DEF WaitersInv, TypeOK, Buckets
  <2>2. ASSUME nap[t] > 0 PROVE ~Granted([bucket EXCEPT !.age = @ + nap[t] - 1])
    <3> DEFINE k == nap[t] - 1
    <3>1. k \in Nat /\ bucket.age + nap[t] - 1 = bucket.age + k
      BY <2>1, <2>2
    <3>2. [bucket EXCEPT !.age = @ + nap[t] - 1] = Later(bucket, k)
      BY <3>1 DEF Later
    <3>3. Due(bucket, k) < Per
      BY <2>2 DEF WaitersInv, SleepsExactly
    <3> HIDE DEF k
    <3>4. (Granted(Later(bucket, k)) <=> Due(bucket, k) >= Per) /\ Due(bucket, k) \in Nat
      BY <2>1, <3>1, GrantedWhenDue
    <3>5. QED
      BY Rates, <3>2, <3>3, <3>4
  <2>3. ASSUME t \in first PROVE Granted([bucket EXCEPT !.age = @ + nap[t]])
    <3>1. [bucket EXCEPT !.age = @ + nap[t]] = Later(bucket, nap[t])
      BY DEF Later
    <3>2. Due(bucket, nap[t]) >= Per
      BY <2>3 DEF WaitersInv, SleepsExactly
    <3>3. QED
      BY <2>1, <3>1, <3>2, GrantedWhenDue
  <2>4. QED
    BY <2>2, <2>3
<1>2. QED
  BY <1>1, WaitersInvariant, PTL
=============================================================================
