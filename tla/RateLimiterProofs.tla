-------------------------- MODULE RateLimiterProofs --------------------------
(***************************************************************************)
(* What the operators of the token bucket promise, for any rate: cited by  *)
(* CallPathProofs and BucketWaitersProofs.                                 *)
(***************************************************************************)
EXTENDS RateLimiter, TLAPS

USE RateAssumption

Buckets == [tokens : 0 .. Full, age : 0 .. Per]

\* The bucket keeps its types, and a refusal carries a wait.
LEMMA BucketTypes ==
    /\ Capacity \in Nat \ {0} /\ Per \in Nat \ {0} /\ Full \in Nat
    /\ NewBucket \in [tokens : 0 .. Full, age : 0 .. Per]
    /\ \A b \in [tokens : 0 .. Full, age : 0 .. Per] :
        /\ Poll(b) \in [tokens : 0 .. Full, age : 0 .. Per]
        /\ Aged(b) \in [tokens : 0 .. Full, age : 0 .. Per]
        /\ ~Granted(b) => PollWait(b) \in Nat
<1>1. Capacity \in Nat \ {0} /\ Per \in Nat \ {0}
  BY DEF Capacity, Per, AtLeastOne
<1>2. Full \in Nat
  BY <1>1 DEF Full
<1>3. NewBucket \in [tokens : 0 .. Full, age : 0 .. Per]
  BY <1>1, <1>2 DEF NewBucket
<1>4. ASSUME NEW b \in [tokens : 0 .. Full, age : 0 .. Per]
      PROVE  /\ Poll(b) \in [tokens : 0 .. Full, age : 0 .. Per]
             /\ Aged(b) \in [tokens : 0 .. Full, age : 0 .. Per]
             /\ ~Granted(b) => PollWait(b) \in Nat
  <2>1. b.tokens \in 0 .. Full /\ b.age \in 0 .. Per
    OBVIOUS
  <2>2. b.age * Capacity \in Nat
    BY <1>1, <2>1
  <2>3. Refilled(b) \in 0 .. Full
    BY <1>2, <2>1, <2>2 DEF Refilled
  <2>4. Poll(b) \in [tokens : 0 .. Full, age : 0 .. Per]
    <3>1. Granted(b) => Refilled(b) - Per \in 0 .. Full
      BY <1>1, <1>2, <2>3 DEF Granted
    <3>2. QED
      BY <1>1, <2>3, <3>1 DEF Poll
  <2>5. Aged(b) \in [tokens : 0 .. Full, age : 0 .. Per]
    BY <1>1, <2>1 DEF Aged
  <2>6. ASSUME ~Granted(b) PROVE PollWait(b) \in Nat
    <3>1. Per - Refilled(b) + Capacity - 1 \in Nat
      BY <1>1, <1>2, <2>3, <2>6 DEF Granted
    <3>2. QED
      BY <1>1, <3>1 DEF PollWait
  <2>7. QED
    BY <2>4, <2>5, <2>6
<1>5. QED
  BY <1>1, <1>2, <1>3, <1>4

\* The bucket k clock units later, if nobody polls it (its age not cut off at Per).
Later(b, k) == [b EXCEPT !.age = @ + k]

\* What a poll finds then, before the refill is capped.
Due(b, k) == b.tokens + b.age * Capacity + k * Capacity

\* A token is there once a whole one is due: the capacity is at least one token.
LEMMA GrantedWhenDue ==
    ASSUME NEW b \in Buckets, NEW k \in Nat
    PROVE  /\ Due(b, k) \in Nat
           /\ Granted(Later(b, k)) <=> Due(b, k) >= Per
           /\ Granted(b) <=> Due(b, 0) >= Per
           /\ Refilled(b) = IF Due(b, 0) < Full THEN Due(b, 0) ELSE Full
<1>1. Capacity \in Nat \ {0} /\ Per \in Nat \ {0} /\ Full \in Nat
  BY BucketTypes
<1>2. Full >= Per
  BY <1>1 DEF Full
<1>3. b.tokens \in Nat /\ b.age \in Nat
  BY <1>1 DEF Buckets
<1>4. b.age * Capacity \in Nat /\ k * Capacity \in Nat
      /\ (b.age + k) * Capacity = b.age * Capacity + k * Capacity
  BY <1>1, <1>3
<1>5. Later(b, k).tokens = b.tokens /\ Later(b, k).age = b.age + k
  BY DEF Later, Buckets
<1>6. Refilled(Later(b, k)) = IF Due(b, k) < Full THEN Due(b, k) ELSE Full
  BY <1>1, <1>3, <1>4, <1>5 DEF Refilled, Due
<1>7. 0 * Capacity = 0
  BY <1>1
<1>8. Refilled(b) = IF Due(b, 0) < Full THEN Due(b, 0) ELSE Full
  BY <1>1, <1>3, <1>4, <1>7 DEF Refilled, Due
<1>9. Due(b, k) \in Nat /\ Due(b, 0) \in Nat
  <2> DEFINE p == b.age * Capacity
             q == k * Capacity
  <2>1. Due(b, k) = b.tokens + p + q /\ Due(b, 0) = b.tokens + p + 0
    BY <1>7 DEF Due
  <2>2. p \in Nat /\ q \in Nat
    BY <1>4
  <2> HIDE DEF p, q
  <2>3. QED
    BY <1>3, <2>1, <2>2
<1>10. QED
  BY <1>1, <1>2, <1>6, <1>8, <1>9 DEF Granted

\* A poll takes a token, if it finds one, and otherwise only moves the refill into the
\* bucket.
LEMMA PollKeepsSupply ==
    ASSUME NEW b \in Buckets
    PROVE  /\ Poll(b) \in Buckets
           /\ Refilled(b) \in 0 .. Full
           /\ Granted(b) => Refilled(b) >= Per /\ Refilled(Poll(b)) = Refilled(b) - Per
           /\ ~Granted(b) => Refilled(Poll(b)) = Refilled(b)
<1>1. Capacity \in Nat \ {0} /\ Per \in Nat \ {0} /\ Full \in Nat /\ Poll(b) \in Buckets
  BY BucketTypes DEF Buckets
<1>2. Refilled(b) \in 0 .. Full
  BY <1>1, GrantedWhenDue
<1>3. Poll(b).age = 0 /\ Poll(b).tokens = IF Granted(b) THEN Refilled(b) - Per ELSE Refilled(b)
  BY DEF Poll
<1>4. Granted(b) <=> Refilled(b) >= Per
  BY DEF Granted
<1>5. Poll(b).tokens \in 0 .. Full
  BY <1>1, <1>2, <1>3, <1>4
<1>6. Refilled(Poll(b)) = Poll(b).tokens
  <2>1. 0 * Capacity = 0
    BY <1>1
  <2>2. QED
    BY <1>1, <1>3, <1>5, <2>1 DEF Refilled
<1>7. QED
  BY <1>1, <1>2, <1>3, <1>4, <1>6

\* What a poll does to what is due later.
LEMMA PollDue ==
    ASSUME NEW b \in Buckets, NEW k \in Nat
    PROVE  /\ Granted(b) => Due(Poll(b), k) <= Due(b, k)
           /\ ~Granted(b) => Due(Poll(b), k) = Due(b, k)
<1>1. Capacity \in Nat \ {0} /\ Per \in Nat \ {0} /\ Full \in Nat
  BY BucketTypes
<1>2. Full >= Per
  BY <1>1 DEF Full
<1>3. k * Capacity \in Nat /\ 0 * Capacity = 0
  BY <1>1
<1>4. b.tokens \in Nat /\ b.age * Capacity \in Nat
  BY <1>1 DEF Buckets
<1>5. Due(Poll(b), k) = Poll(b).tokens + k * Capacity
  <2>1. Poll(b).age = 0
    BY DEF Poll
  <2>2. Poll(b).tokens \in Nat
    BY <1>1, PollKeepsSupply DEF Buckets
  <2>3. QED
    BY <1>3, <2>1, <2>2 DEF Due
<1>6. Poll(b).tokens = IF Granted(b) THEN Refilled(b) - Per ELSE Refilled(b)
  BY DEF Poll
<1>7. Refilled(b) <= b.tokens + b.age * Capacity /\ Refilled(b) \in Nat
  BY <1>1, <1>4, PollKeepsSupply DEF Refilled
<1>8. ~Granted(b) => Refilled(b) = b.tokens + b.age * Capacity
  BY <1>1, <1>2, <1>4, <1>7 DEF Granted, Refilled
<1>9. QED
  BY <1>1, <1>3, <1>4, <1>5, <1>6, <1>7, <1>8 DEF Due

\* A clock unit adds its refill, or the bucket is full.
LEMMA AgedDue ==
    ASSUME NEW b \in Buckets, NEW k \in Nat
    PROVE  /\ Aged(b) \in Buckets
           /\ Due(Aged(b), k) >= Due(b, k) /\ Due(Aged(b), k) <= Due(b, k + 1)
           /\ Due(b, k) < Per => Due(Aged(b), k) = Due(b, k + 1)
           /\ Refilled(Aged(b)) <= Refilled(b) + Capacity
<1>1. Capacity \in Nat \ {0} /\ Per \in Nat \ {0} /\ Full \in Nat /\ Aged(b) \in Buckets
  BY BucketTypes DEF Buckets
<1>2. b.tokens \in Nat /\ b.age \in 0 .. Per
  BY <1>1 DEF Buckets
<1>3. Aged(b).tokens = b.tokens /\ Aged(b).age = IF b.age < Per THEN b.age + 1 ELSE Per
  BY DEF Aged, Buckets
<1>4. /\ b.age * Capacity \in Nat /\ k * Capacity \in Nat
      /\ (b.age + 1) * Capacity = b.age * Capacity + Capacity
      /\ (k + 1) * Capacity = k * Capacity + Capacity
  BY <1>1, <1>2
<1>5. Aged(b).age * Capacity = IF b.age < Per THEN b.age * Capacity + Capacity ELSE b.age * Capacity
  BY <1>1, <1>2, <1>3, <1>4
<1>6. /\ Due(b, k) = b.tokens + b.age * Capacity + k * Capacity
      /\ Due(b, k + 1) = b.tokens + b.age * Capacity + k * Capacity + Capacity
      /\ Due(Aged(b), k) = b.tokens + Aged(b).age * Capacity + k * Capacity
  <2> DEFINE p == b.age * Capacity
             q == k * Capacity
  <2>1. Due(b, k) = b.tokens + p + q /\ Due(b, k + 1) = b.tokens + p + (q + Capacity)
    BY <1>4 DEF Due
  <2>2. b.tokens + p + (q + Capacity) = b.tokens + p + q + Capacity
    <3>1. p \in Nat /\ q \in Nat
      BY <1>4
    <3> HIDE DEF p, q
    <3>2. QED
      BY <1>1, <1>2, <3>1
  <2>3. Due(Aged(b), k) = b.tokens + Aged(b).age * Capacity + k * Capacity
    BY <1>3 DEF Due
  <2>4. QED
    BY <2>1, <2>2, <2>3
<1>7. Due(b, k) < Per => b.age < Per
  <2>1. b.age * Capacity >= b.age
    BY <1>1, <1>2
  <2>2. QED
    BY <1>1, <1>2, <1>4, <1>6, <2>1
<1>8. Refilled(Aged(b)) <= Refilled(b) + Capacity
  BY <1>1, <1>2, <1>3, <1>4, <1>5 DEF Refilled
<1>9. QED
  BY <1>1, <1>2, <1>4, <1>5, <1>6, <1>7, <1>8

\* Integer division rounds down.
LEMMA DivisionBounds ==
    ASSUME NEW a \in Nat, NEW c \in Nat \ {0}
    PROVE  /\ a \div c \in Nat /\ (a \div c) * c \in Nat
           /\ (a \div c) * c <= a /\ a < (a \div c) * c + c
<1>1. a \div c \in Int /\ a % c \in 0 .. c - 1 /\ a = (a \div c) * c + (a % c)
  OBVIOUS
<1>2. a \div c \in Nat
  OBVIOUS
<1>3. (a \div c) * c \in Nat
  BY <1>2
<1>4. QED
  BY <1>1, <1>2, <1>3

\* The wait handed out by poll is the first time at which a whole token is due.
LEMMA WaitIsFirstDue ==
    ASSUME NEW b \in Buckets, ~Granted(b)
    PROVE  /\ PollWait(b) \in 1 .. Per
           /\ Due(b, PollWait(b) - 1) < Per
           /\ Due(b, PollWait(b)) >= Per
<1> DEFINE need == Per - Refilled(b)
           a == need + Capacity - 1
           w == a \div Capacity
<1>1. Capacity \in Nat \ {0} /\ Per \in Nat \ {0} /\ Full \in Nat
  BY BucketTypes
<1>2. Refilled(b) \in Nat /\ Refilled(b) = Due(b, 0) /\ Refilled(b) < Per
  <2>1. Full >= Per
    BY <1>1 DEF Full
  <2>2. QED
    BY <1>1, <2>1, GrantedWhenDue DEF Granted
<1>3. need \in 1 .. Per /\ a \in Nat
  BY <1>1, <1>2
<1>4. w \in Nat /\ w * Capacity \in Nat /\ w * Capacity <= a /\ a < w * Capacity + Capacity
  BY <1>1, <1>3, DivisionBounds
<1> HIDE DEF w
<1>5. w * Capacity >= need /\ w * Capacity <= need + Capacity - 1
  <2> DEFINE p == w * Capacity
  <2>1. p \in Nat /\ p <= a /\ a < p + Capacity
    BY <1>4
  <2> HIDE DEF p
  <2>2. p >= need /\ p <= need + Capacity - 1
    BY <1>1, <1>3, <2>1
  <2>3. QED
    BY <2>2 DEF p
<1>6. w \in 1 .. Per
  <2>1. w # 0
    <3>1. 0 * Capacity = 0
      BY <1>1
    <3>2. QED
      BY <1>3, <1>5, <3>1
  <2>2. ASSUME w >= Per + 1 PROVE FALSE
    <3>1. w * Capacity >= (Per + 1) * Capacity
      BY <1>1, <1>4, <2>2
    <3>2. (Per + 1) * Capacity = Per * Capacity + Capacity /\ Per * Capacity >= Per
      BY <1>1
    <3>3. w * Capacity \in Nat /\ Per * Capacity \in Nat
      BY <1>1, <1>4
    <3>4. QED
      BY <1>1, <1>3, <1>5, <3>1, <3>2, <3>3
  <2>3. QED
    BY <1>1, <1>4, <2>1, <2>2
<1>7. (w - 1) * Capacity = w * Capacity - Capacity /\ w * Capacity \in Nat
  BY <1>1, <1>6
<1>8. \A k \in Nat : Due(b, k) = Due(b, 0) + k * Capacity
  <2>1. b.tokens \in Nat /\ b.age * Capacity \in Nat /\ 0 * Capacity = 0
    BY <1>1 DEF Buckets
  <2>2. ASSUME NEW k \in Nat PROVE k * Capacity \in Nat
    BY <1>1
  <2>3. QED
    BY <2>1, <2>2 DEF Due
<1>9. PollWait(b) = w
  BY DEF PollWait, w
<1> HIDE DEF a
<1>10. Due(b, w) = Due(b, 0) + w * Capacity /\ Due(b, w - 1) = Due(b, 0) + (w - 1) * Capacity
  BY <1>6, <1>8
<1>11. QED
  BY <1>1, <1>2, <1>3, <1>5, <1>6, <1>7, <1>9, <1>10
=============================================================================
