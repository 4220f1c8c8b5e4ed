--------------------------- MODULE CallPathProofs ---------------------------
(***************************************************************************)
(* Safety of the outbound call path for any number of threads, any budget, *)
(* any bucket, any number of requests, day boundaries and restarts:        *)
(*   - the types;                                                          *)
(*   - neither limiter is charged for a request the other blocks;          *)
(*   - a daily window never counts more than the maximum plus the racers,  *)
(*     and admits no more than that unless the budget went back.           *)
(***************************************************************************)
EXTENDS CallPath, RateLimiterProofs, FiniteSetTheorems, TLAPS

USE DayLenAssumption, OffsetAssumption, MaxPerDayAssumption, RateAssumption,
    ThreadsAssumption, SwitchAssumption, CallAssumption, BoundAssumption

-----------------------------------------------------------------------------
(* Arithmetic of the daily budget.                                         *)

LEMMA WindowStartType == ASSUME NEW n \in Nat PROVE WindowStartFor(n) \in Nat
<1>1. Offset \in Nat
  BY DEF Offset
<1>2. (n - Offset) \div DayLen \in Int
  BY <1>1
<1>3. ((n - Offset) \div DayLen) * DayLen + Offset \in Int
  BY <1>1, <1>2
<1>4. QED
  BY <1>3 DEF WindowStartFor

LEMMA WindowsType == \A w \in Windows : w \in Nat
BY WindowStartType DEF Windows

\* A time lies in the window that starts at its WindowStartFor, also when
\* that start is clamped at the epoch.
LEMMA WindowContains ==
    ASSUME NEW n \in Nat
    PROVE  WindowStartFor(n) <= n /\ n < WindowStartFor(n) + DayLen
<1> DEFINE q == (n - Offset) \div DayLen
           m == (n - Offset) % DayLen
<1>1. Offset \in Nat
  BY DEF Offset
<1>2. q \in Int /\ m \in 0 .. DayLen - 1
  BY <1>1
<1>3. n - Offset = q * DayLen + m
  BY <1>1
<1>4. q * DayLen \in Int
  BY <1>2
<1>5. QED
  BY <1>1, <1>2, <1>3, <1>4 DEF WindowStartFor

LEMMA BudgetTypes ==
    ASSUME NEW b \in [window : Windows, spent : Nat], NEW n \in 0 .. MaxWall
    PROVE  /\ Roll(b, n) \in [window : Windows, spent : Nat]
           /\ Record(b, n) \in [window : Windows, spent : Nat]
           /\ Record(b, n).window = Roll(b, n).window
           /\ Record(b, n).spent = Roll(b, n).spent + 1
           /\ Roll(b, n) = b \/ (Roll(b, n).spent = 0 /\ Roll(b, n).window # b.window)
<1>1. WindowStartFor(n) \in Windows
  BY DEF Windows
<1>2. Roll(b, n) \in [window : Windows, spent : Nat]
  BY <1>1 DEF Roll, NewBudget
<1>3. Roll(b, n) = b \/ (Roll(b, n).spent = 0 /\ Roll(b, n).window # b.window)
  <2>1. n \in Nat
    OBVIOUS
  <2>2. WindowStartFor(n) \in Nat
    BY <2>1, WindowStartType
  <2>3. b.window \in Nat
    BY WindowsType
  <2>4. WindowStartFor(n) <= n /\ n < WindowStartFor(n) + DayLen
    BY <2>1, WindowContains
  <2>5. QED
    BY <2>1, <2>2, <2>3, <2>4 DEF Roll, NewBudget
<1>4. QED
  BY <1>2, <1>3 DEF Record

-----------------------------------------------------------------------------
(* Counting threads by where they are.                                     *)

LEMMA AtFinite ==
    ASSUME NEW S
    PROVE  /\ IsFiniteSet(At(S)) /\ Cardinality(At(S)) \in Nat
           /\ Cardinality(At(S)) <= Cardinality(Threads)
           /\ Cardinality(Threads) \in Nat \ {0}
<1>1. At(S) \subseteq Threads
  BY DEF At
<1>2. QED
  BY <1>1, FS_Subset, FS_CardinalityType, FS_EmptySet

LEMMA AtFinitePrimed ==
    ASSUME NEW S
    PROVE  /\ IsFiniteSet(At(S)') /\ Cardinality(At(S)') \in Nat
           /\ Cardinality(At(S)') <= Cardinality(Threads)
<1>1. At(S)' \subseteq Threads
  BY DEF At
<1>2. QED
  BY <1>1, FS_Subset, FS_CardinalityType, FS_EmptySet

\* One thread goes to label l: it enters, leaves or stays with the threads
\* that are at one of the labels of S.
LEMMA MoveCounts ==
    ASSUME TypeOK, NEW t \in Threads, NEW l, Goto(t, l), NEW S
    PROVE  /\ pc[t] \notin S /\ l \in S => Cardinality(At(S)') = Cardinality(At(S)) + 1
           /\ pc[t] \in S /\ l \notin S => Cardinality(At(S)') = Cardinality(At(S)) - 1
           /\ (pc[t] \in S <=> l \in S) => At(S)' = At(S)
<1>1. pc' = [pc EXCEPT ![t] = l] /\ pc \in [Threads -> PCs]
  BY DEF Goto, TypeOK
<1>2. \A u \in Threads : pc'[u] = IF u = t THEN l ELSE pc[u]
  BY <1>1
<1>3. ASSUME pc[t] \notin S, l \in S
      PROVE  Cardinality(At(S)') = Cardinality(At(S)) + 1
  <2>1. At(S)' = At(S) \cup {t} /\ t \notin At(S)
    BY <1>2, <1>3 DEF At
  <2>2. QED
    BY <2>1, AtFinite, FS_AddElement
<1>4. ASSUME pc[t] \in S, l \notin S
      PROVE  Cardinality(At(S)') = Cardinality(At(S)) - 1
  <2>1. At(S)' = At(S) \ {t} /\ t \in At(S)
    BY <1>2, <1>4 DEF At
  <2>2. IsFiniteSet(At(S))
    BY AtFinite
  <2>3. Cardinality(At(S) \ {t}) = Cardinality(At(S)) - 1
    BY <2>1, <2>2, FS_RemoveElement
  <2>4. QED
    BY <2>1, <2>3
<1>5. ASSUME pc[t] \in S <=> l \in S
      PROVE  At(S)' = At(S)
  BY <1>2, <1>5 DEF At
<1>6. QED
  BY <1>3, <1>4, <1>5

-----------------------------------------------------------------------------
(* Type correctness.                                                       *)

LEMMA InitType == Init => RetryInv
<1> SUFFICES ASSUME Init PROVE RetryInv
  OBVIOUS
<1>1. WindowStartFor(StartWall) \in Windows
  BY DEF Windows
<1>2. NewBucket \in [tokens : 0 .. Full, age : 0 .. Per]
  BY BucketTypes
<1>3. /\ budget \in [window : Windows, spent : Nat]
      /\ saved \in [window : Windows, spent : Nat, count : Nat]
      /\ admitted \in [Windows -> Nat]
  BY <1>1 DEF Init, NewBudget
<1>4. rolledBack \in BOOLEAN
  BY Zenon DEF Init
<1>5. TypeOK
  BY <1>2, <1>3, <1>4 DEF Init, TypeOK, PCs, CallKinds, Results
<1>6. QED
  BY <1>5 DEF RetryInv, Init

LEMMA TypeStep == RetryInv /\ [Next]_vars => TypeOK'
<1> SUFFICES ASSUME RetryInv, TypeOK, [Next]_vars PROVE TypeOK'
  BY DEF RetryInv
<1> USE DEF limiters, locals, store, history, Goto, Return, OnRefusal, AttemptsLeft, RestoredSpent
<1>1. ASSUME NEW t \in Threads, ReadClock(t) PROVE TypeOK'
  BY <1>1 DEF ReadClock, TypeOK, PCs, AfterCheck, AfterBucket
<1>2. ASSUME NEW t \in Threads, CheckBudget(t) PROVE TypeOK'
  <2>1. Roll(budget, nowSecs[t]) \in [window : Windows, spent : Nat]
    BY BudgetTypes DEF TypeOK
  <2>2. rolledBack' \in BOOLEAN
    BY <1>2 DEF CheckBudget, SetBudget, TypeOK
  <2>3. QED
    BY <1>2, <2>1, <2>2 DEF CheckBudget, SetBudget, TypeOK, PCs, Results, AfterCheck, AfterBucket
<1>3. ASSUME NEW t \in Threads, PollBucket(t) PROVE TypeOK'
  <2>1. /\ Poll(bucket) \in [tokens : 0 .. Full, age : 0 .. Per]
        /\ ~Granted(bucket) => PollWait(bucket) \in Nat
    BY BucketTypes DEF TypeOK
  <2>2. QED
    BY <1>3, <2>1 DEF PollBucket, TypeOK, PCs, Results, AfterBucket
<1>4. ASSUME NEW t \in Threads, Wake(t) PROVE TypeOK'
  BY <1>4 DEF Wake, TypeOK, PCs
<1>5. ASSUME NEW t \in Threads, RecordBudget(t) PROVE TypeOK'
  <2>1. Record(budget, nowSecs[t]) \in [window : Windows, spent : Nat]
    BY BudgetTypes DEF TypeOK
  <2>2. rolledBack' \in BOOLEAN
    BY <1>5 DEF RecordBudget, SetBudget, TypeOK
  <2>3. QED
    BY <1>5, <2>1, <2>2 DEF RecordBudget, SetBudget, TypeOK, PCs
<1>6. ASSUME NEW t \in Threads, CountRequest(t) PROVE TypeOK'
  BY <1>6 DEF CountRequest, TypeOK, PCs
<1>7. ASSUME NEW t \in Threads, Retry(t) PROVE TypeOK'
  BY <1>7 DEF Retry, TypeOK, RetryInv, PCs
<1>8. ASSUME NEW t \in Threads, NEW r \in Answers, Respond(t, r) PROVE TypeOK'
  <2>1. FinalResult(kind[t], r) \in Results
    BY DEF FinalResult, Results
  <2>2. QED
    BY <1>8, <2>1 DEF Respond, TypeOK, PCs
<1>9. ASSUME NEW t \in Threads, NEW k \in Kinds, StartCall(t, k) PROVE TypeOK'
  BY <1>9 DEF StartCall, TypeOK, PCs, Results
<1>10. ASSUME NEW t \in Threads, BlockSeed(t) PROVE TypeOK'
  BY <1>10 DEF BlockSeed, TypeOK
<1>11. ASSUME Tick PROVE TypeOK'
  <2>1. Aged(bucket) \in [tokens : 0 .. Full, age : 0 .. Per]
    BY BucketTypes DEF TypeOK
  <2>2. QED
    BY <1>11, <2>1 DEF Tick, TypeOK
<1>12. ASSUME NEW d \in ClockSteps, SetClockBack(d) PROVE TypeOK'
  BY <1>12 DEF SetClockBack, TypeOK
<1>13. ASSUME Snapshot PROVE TypeOK'
  <2>1. Roll(budget, wall) \in [window : Windows, spent : Nat]
    BY BudgetTypes DEF TypeOK
  <2>2. rolledBack' \in BOOLEAN
    BY <1>13 DEF Snapshot, SetBudget, TypeOK
  <2>3. QED
    BY <1>13, <2>1, <2>2 DEF Snapshot, SetBudget, TypeOK
<1>14. ASSUME Restart PROVE TypeOK'
  <2>1. WindowStartFor(wall) \in Windows
    BY DEF Windows, TypeOK
  <2>2. NewBucket \in [tokens : 0 .. Full, age : 0 .. Per]
    BY BucketTypes
  <2>3. rolledBack' \in BOOLEAN
    BY <1>14 DEF Restart, SetBudget, TypeOK
  <2>4. QED
    BY <1>14, <2>1, <2>2, <2>3 DEF Restart, SetBudget, NewBudget, TypeOK, PCs, Results
<1>15. ASSUME UNCHANGED vars PROVE TypeOK'
  BY <1>15 DEF vars, TypeOK
<1>16. QED
  BY <1>1, <1>2, <1>3, <1>4, <1>5, <1>6, <1>7, <1>8, <1>9, <1>10, <1>11, <1>12, <1>13,
     <1>14, <1>15 DEF Next, Step

LEMMA RetryStep == RetryInv /\ [Next]_vars => RetryInv'
<1> SUFFICES ASSUME RetryInv, TypeOK, TypeOK', [Next]_vars PROVE RetryInv'
  BY TypeStep DEF RetryInv
<1> USE DEF limiters, locals, store, history, Goto, Return, OnRefusal, AttemptsLeft, RestoredSpent
<1>1. ASSUME NEW t \in Threads, ReadClock(t) PROVE RetryInv'
  BY <1>1 DEF ReadClock, RetryInv, TypeOK, AfterCheck, AfterBucket
<1>2. ASSUME NEW t \in Threads, CheckBudget(t) PROVE RetryInv'
  BY <1>2 DEF CheckBudget, RetryInv, TypeOK, AfterCheck, AfterBucket
<1>3. ASSUME NEW t \in Threads, PollBucket(t) PROVE RetryInv'
  BY <1>3 DEF PollBucket, RetryInv, TypeOK, AfterBucket
<1>4. ASSUME NEW t \in Threads, Wake(t) PROVE RetryInv'
  BY <1>4 DEF Wake, RetryInv, TypeOK
<1>5. ASSUME NEW t \in Threads, RecordBudget(t) PROVE RetryInv'
  BY <1>5 DEF RecordBudget, RetryInv, TypeOK
<1>6. ASSUME NEW t \in Threads, CountRequest(t) PROVE RetryInv'
  BY <1>6 DEF CountRequest, RetryInv, TypeOK
<1>7. ASSUME NEW t \in Threads, Retry(t) PROVE RetryInv'
  BY <1>7 DEF Retry, RetryInv, TypeOK
<1>8. ASSUME NEW t \in Threads, NEW r \in Answers, Respond(t, r) PROVE RetryInv'
  <2>1. FinalResult(kind[t], r) = "transient" => IsRetryableFor(kind[t], r)
    BY DEF FinalResult
  <2>2. QED
    BY <1>8, <2>1 DEF Respond, RetryInv, TypeOK
<1>9. ASSUME NEW t \in Threads, NEW k \in Kinds, StartCall(t, k) PROVE RetryInv'
  BY <1>9 DEF StartCall, RetryInv, TypeOK
<1>10. ASSUME NEW t \in Threads, BlockSeed(t) PROVE RetryInv'
  BY <1>10 DEF BlockSeed, RetryInv, TypeOK
<1>11. ASSUME Tick PROVE RetryInv'
  BY <1>11 DEF Tick, RetryInv, TypeOK
<1>12. ASSUME NEW d \in ClockSteps, SetClockBack(d) PROVE RetryInv'
  BY <1>12 DEF SetClockBack, RetryInv, TypeOK
<1>13. ASSUME Snapshot PROVE RetryInv'
  BY <1>13 DEF Snapshot, RetryInv, TypeOK
<1>14. ASSUME Restart PROVE RetryInv'
  BY <1>14 DEF Restart, RetryInv, TypeOK
<1>15. ASSUME UNCHANGED vars PROVE RetryInv'
  BY <1>15 DEF vars, RetryInv
<1>16. QED
  BY <1>1, <1>2, <1>3, <1>4, <1>5, <1>6, <1>7, <1>8, <1>9, <1>10, <1>11, <1>12, <1>13,
     <1>14, <1>15 DEF Next, Step

\* The retry bookkeeping of call_with_retry is inductive: the attempt counter
\* tells how many requests the call has made, and no backoff starts without an
\* attempt left.
THEOREM RetryInvariant == Spec => []RetryInv
BY InitType, RetryStep, PTL DEF Spec

\* The type invariant of the call path: in particular the bucket never holds
\* more than its capacity, and every window the budget counts or the consumer
\* saves is the start of a real window.
THEOREM TypeCorrect == Spec => []TypeOK
<1>1. RetryInv => TypeOK
  BY DEF RetryInv
<1>2. QED
  BY <1>1, RetryInvariant, PTL

\* call_with_retry makes at most 1 + MAX_RETRIES requests per call, and reports
\* "transient" only when it has made all of them.
THEOREM RetriesAreExhausted == Spec => []RetriesExhausted
<1>1. RetryInv => RetriesExhausted
  BY DEF RetryInv, TypeOK, RetriesExhausted, PCs
<1>2. QED
  BY <1>1, RetryInvariant, PTL

-----------------------------------------------------------------------------
(* The two limiters and the counter are charged together.                  *)

\* MoveCounts for the two sets of labels ChargedTogether counts.
LEMMA ChargeCounts ==
    ASSUME TypeOK, NEW t \in Threads, NEW l \in PCs, Goto(t, l)
    PROVE  /\ Cardinality(At({"record", "count"})) \in Nat
           /\ Cardinality(At({"count"})) \in Nat
           /\ Cardinality(At({"record", "count"})') = Cardinality(At({"record", "count"}))
                + (IF l \in {"record", "count"} THEN 1 ELSE 0)
                - (IF pc[t] \in {"record", "count"} THEN 1 ELSE 0)
           /\ Cardinality(At({"count"})') = Cardinality(At({"count"}))
                + (IF l = "count" THEN 1 ELSE 0)
                - (IF pc[t] = "count" THEN 1 ELSE 0)
<1>1. /\ Cardinality(At({"record", "count"})) \in Nat
      /\ Cardinality(At({"count"})) \in Nat
  BY AtFinite
<1>2. Cardinality(At({"record", "count"})') = Cardinality(At({"record", "count"}))
                + (IF l \in {"record", "count"} THEN 1 ELSE 0)
                - (IF pc[t] \in {"record", "count"} THEN 1 ELSE 0)
  BY <1>1, MoveCounts
<1>3. Cardinality(At({"count"})') = Cardinality(At({"count"}))
                + (IF l \in {"count"} THEN 1 ELSE 0)
                - (IF pc[t] \in {"count"} THEN 1 ELSE 0)
  BY <1>1, MoveCounts
<1>4. QED
  BY <1>1, <1>2, <1>3

LEMMA ChargedStep == RetryInv /\ ChargedTogether /\ [Next]_vars => ChargedTogether'
<1> SUFFICES ASSUME TypeOK, ChargedTogether, [Next]_vars PROVE ChargedTogether'
  BY DEF RetryInv
<1> USE DEF limiters, locals, store, history, Return, OnRefusal
\* A thread moves between labels that are not counted.
<1>1. ASSUME NEW t \in Threads, NEW l \in PCs, Goto(t, l),
             UNCHANGED <<granted, recorded, requestsMade, base>>,
             pc[t] \notin {"record", "count"}, l \notin {"record", "count"}
      PROVE  ChargedTogether'
  <2>1. At({"record", "count"})' = At({"record", "count"}) /\ At({"count"})' = At({"count"})
    BY <1>1, MoveCounts
  <2>2. QED
    BY <1>1, <2>1 DEF ChargedTogether
\* No thread moves.
<1>2. ASSUME UNCHANGED <<pc, granted, recorded, requestsMade, base>>
      PROVE  ChargedTogether'
  <2>1. At({"record", "count"})' = At({"record", "count"}) /\ At({"count"})' = At({"count"})
    BY <1>2 DEF At
  <2>2. QED
    BY <1>2, <2>1 DEF ChargedTogether
<1>3. ASSUME NEW t \in Threads, ReadClock(t) PROVE ChargedTogether'
  <2>1. PICK l \in PCs : l = (IF BudgetOn THEN "check" ELSE AfterCheck)
    BY DEF AfterCheck, AfterBucket, PCs
  <2>2. QED
    BY <1>3, <2>1, ChargeCounts DEF ReadClock, ChargedTogether, AfterCheck, AfterBucket
<1>4. ASSUME NEW t \in Threads, CheckBudget(t) PROVE ChargedTogether'
  <2>1. CASE CheckPasses(budget, nowSecs[t])
    <3>1. PICK l \in PCs : l = AfterCheck
      BY DEF AfterCheck, AfterBucket, PCs
    <3>2. pc[t] = "check" /\ Goto(t, l) /\ UNCHANGED <<granted, recorded, requestsMade, base>>
      BY <1>4, <2>1, <3>1 DEF CheckBudget
    <3>3. QED
      BY <3>1, <3>2, ChargeCounts DEF ChargedTogether, AfterCheck, AfterBucket, TypeOK
  <2>2. CASE ~CheckPasses(budget, nowSecs[t])
    BY <1>4, <2>2, <1>1 DEF CheckBudget, PCs
  <2>3. QED
    BY <2>1, <2>2
<1>5. ASSUME NEW t \in Threads, PollBucket(t) PROVE ChargedTogether'
  <2>1. CASE Granted(bucket)
    <3>1. PICK l \in PCs : l = AfterBucket
      BY DEF AfterBucket, PCs
    <3>2. /\ pc[t] = "poll" /\ Goto(t, l) /\ granted' = granted + 1
          /\ UNCHANGED <<recorded, requestsMade, base>>
      BY <1>5, <2>1, <3>1 DEF PollBucket
    <3>3. QED
      BY <3>1, <3>2, ChargeCounts DEF ChargedTogether, AfterBucket, TypeOK
  <2>2. CASE ~Granted(bucket)
    BY <1>5, <2>2, <1>1 DEF PollBucket, PCs
  <2>3. QED
    BY <2>1, <2>2
<1>6. ASSUME NEW t \in Threads, Wake(t) PROVE ChargedTogether'
  BY <1>6, <1>1 DEF Wake, PCs
<1>7. ASSUME NEW t \in Threads, RecordBudget(t) PROVE ChargedTogether'
  <2>1. /\ pc[t] = "record" /\ Goto(t, "count") /\ recorded' = recorded + 1
        /\ UNCHANGED <<granted, requestsMade, base>>
    BY <1>7 DEF RecordBudget
  <2>2. QED
    BY <2>1, ChargeCounts DEF ChargedTogether, TypeOK, PCs
<1>8. ASSUME NEW t \in Threads, CountRequest(t) PROVE ChargedTogether'
  <2>1. /\ pc[t] = "count" /\ Goto(t, "sent") /\ requestsMade' = requestsMade + 1
        /\ UNCHANGED <<granted, recorded, base>>
    BY <1>8 DEF CountRequest
  <2>2. QED
    BY <2>1, ChargeCounts DEF ChargedTogether, TypeOK, PCs
<1>9. ASSUME NEW t \in Threads, Retry(t) PROVE ChargedTogether'
  BY <1>9, <1>1 DEF Retry, PCs
<1>10. ASSUME NEW t \in Threads, NEW r \in Answers, Respond(t, r) PROVE ChargedTogether'
  BY <1>10, <1>1 DEF Respond, PCs
<1>11. ASSUME NEW t \in Threads, NEW k \in Kinds, StartCall(t, k) PROVE ChargedTogether'
  BY <1>11, <1>1 DEF StartCall, PCs
<1>12. ASSUME NEW t \in Threads, BlockSeed(t) PROVE ChargedTogether'
  BY <1>12, <1>2 DEF BlockSeed
<1>13. ASSUME Tick PROVE ChargedTogether'
  BY <1>13, <1>2 DEF Tick
<1>14. ASSUME NEW d \in ClockSteps, SetClockBack(d) PROVE ChargedTogether'
  BY <1>14, <1>2 DEF SetClockBack
<1>15. ASSUME Snapshot PROVE ChargedTogether'
  BY <1>15, <1>2 DEF Snapshot
<1>16. ASSUME Restart PROVE ChargedTogether'
  <2>1. At({"record", "count"})' = {} /\ At({"count"})' = {}
    BY <1>16 DEF Restart, At
  <2>2. Cardinality(At({"record", "count"})') = 0 /\ Cardinality(At({"count"})') = 0
    BY <2>1, FS_EmptySet
  <2>3. QED
    BY <1>16, <2>2 DEF Restart, ChargedTogether, TypeOK
<1>17. ASSUME UNCHANGED vars PROVE ChargedTogether'
  BY <1>17, <1>2 DEF vars
<1>18. QED
  BY <1>3, <1>4, <1>5, <1>6, <1>7, <1>8, <1>9, <1>10, <1>11, <1>12, <1>13, <1>14, <1>15,
     <1>16, <1>17 DEF Next, Step

\* apply_rate_limit charges neither limiter for a request the other one blocks:
\* for any number of threads, with any interleaving of the locked sections, the
\* tokens granted and the requests recorded are those counted or about to be.
THEOREM LimitersChargedTogether == Spec => []ChargedTogether
<1>1. Init => ChargedTogether
  <2> SUFFICES ASSUME Init PROVE ChargedTogether
    OBVIOUS
  <2>1. At({"record", "count"}) = {} /\ At({"count"}) = {}
    BY DEF Init, At
  <2>2. Cardinality(At({"record", "count"})) = 0 /\ Cardinality(At({"count"})) = 0
    BY <2>1, FS_EmptySet
  <2>3. QED
    BY <2>2 DEF Init, ChargedTogether
<1>2. QED
  BY <1>1, ChargedStep, RetryInvariant, PTL DEF Spec

-----------------------------------------------------------------------------
(* The daily budget.                                                       *)

LEMMA PendingCounts ==
    /\ IsFiniteSet(Pending) /\ Cardinality(Pending) \in Nat
    /\ Cardinality(Pending) <= Cardinality(Threads)
    /\ Cardinality(Threads) \in Nat \ {0}
    /\ SoftCap \in Nat
BY AtFinite DEF Pending, SoftCap

LEMMA PendingCountsPrimed ==
    Cardinality(Pending') \in Nat /\ Cardinality(Pending') <= Cardinality(Threads)
BY AtFinitePrimed DEF Pending

\* Rolling the budget to the window of a time n, before anything is recorded,
\* keeps all of BudgetInv (WindowsSettled and SnapshotCovers spelled out for the
\* rolled budget).
LEMMA RollKeeps ==
    ASSUME BudgetInv, BudgetOn, NEW n \in 0 .. MaxWall, NEW b, b = Roll(budget, n)
    PROVE  /\ b \in [window : Windows, spent : Nat]
           /\ b.spent + Cardinality(Pending) <= SoftCap
           /\ MaxPerDay = 0 => Pending = {} /\ b.spent = 0
           /\ ~rolledBack /\ b.window >= budget.window =>
                /\ \A w \in Windows : w > b.window => admitted[w] = 0
                /\ \A w \in Windows : w < b.window => admitted[w] <= SoftCap + lost
                /\ admitted[b.window] <= b.spent + lost
                /\ saved.window <= b.window
                /\ saved.window = b.window => b.spent <= saved.spent + unsaved
                /\ saved.window < b.window => b.spent <= unsaved
<1>1. /\ budget \in [window : Windows, spent : Nat]
      /\ saved \in [window : Windows, spent : Nat, count : Nat]
      /\ admitted \in [Windows -> Nat] /\ unsaved \in Nat /\ lost \in Nat
  BY DEF BudgetInv, TypeOK
<1>2. /\ b \in [window : Windows, spent : Nat]
      /\ b = budget \/ (b.spent = 0 /\ b.window # budget.window)
  BY <1>1, BudgetTypes
<1>3. CASE b = budget
  BY <1>1, <1>3 DEF BudgetInv, SpentWithinSoftCap, WindowsSettled, SnapshotCovers
<1>4. CASE b.spent = 0 /\ b.window # budget.window
  <2>1. b.spent + Cardinality(Pending) <= SoftCap
    BY <1>4, PendingCounts, FS_EmptySet DEF BudgetInv, SpentWithinSoftCap, SoftCap
  <2>2. MaxPerDay = 0 => Pending = {} /\ b.spent = 0
    BY <1>4 DEF BudgetInv, SpentWithinSoftCap
  <2>3. ASSUME ~rolledBack, b.window >= budget.window
        PROVE  /\ \A w \in Windows : w > b.window => admitted[w] = 0
               /\ \A w \in Windows : w < b.window => admitted[w] <= SoftCap + lost
               /\ admitted[b.window] <= b.spent + lost
               /\ saved.window < b.window
    <3>1. b.window > budget.window
      BY <1>1, <1>2, <1>4, <2>3, WindowsType
    <3>2. admitted[budget.window] <= SoftCap + lost
      BY <1>1, <2>3, PendingCounts DEF BudgetInv, WindowsSettled, SpentWithinSoftCap
    <3>3. \A w \in Windows : w > budget.window => admitted[w] = 0
      BY <2>3 DEF BudgetInv, WindowsSettled
    <3>4. \A w \in Windows : w < budget.window => admitted[w] <= SoftCap + lost
      BY <2>3 DEF BudgetInv, WindowsSettled
    <3>5. saved.window <= budget.window
      BY <2>3 DEF BudgetInv, SnapshotCovers
    <3>6. QED
      BY <1>1, <1>2, <1>4, <3>1, <3>2, <3>3, <3>4, <3>5, WindowsType, PendingCounts
  <2>4. QED
    BY <1>1, <1>2, <1>4, <2>1, <2>2, <2>3, WindowsType
<1>5. QED
  BY <1>2, <1>3, <1>4

\* A step that sets the budget to window v without going back.
LEMMA NotBack ==
    ASSUME TypeOK, NEW v \in Windows, rolledBack' = (rolledBack \/ v < budget.window),
           ~rolledBack'
    PROVE  ~rolledBack /\ v >= budget.window
<1>1. ~rolledBack /\ ~(v < budget.window)
  BY Zenon
<1>2. v \in Nat /\ budget.window \in Nat
  BY WindowsType DEF TypeOK
<1>3. QED
  BY <1>1, <1>2

LEMMA BudgetStep == RetryInv /\ BudgetInv /\ [Next]_vars => BudgetInv'
<1> SUFFICES ASSUME RetryInv, BudgetInv, [Next]_vars, BudgetOn, TypeOK, TypeOK'
             PROVE  (SpentWithinSoftCap /\ WindowsSettled /\ SnapshotCovers)'
  BY TypeStep DEF BudgetInv, SpentWithinSoftCap
<1> DEFINE Goal == (SpentWithinSoftCap /\ WindowsSettled /\ SnapshotCovers)'
<1> USE DEF limiters, locals, store, history, Return, OnRefusal
<1>t. /\ budget \in [window : Windows, spent : Nat]
      /\ saved \in [window : Windows, spent : Nat, count : Nat]
      /\ admitted \in [Windows -> Nat] /\ unsaved \in Nat /\ lost \in Nat
      /\ wall \in 0 .. MaxWall /\ \A t \in Threads : nowSecs[t] \in 0 .. MaxWall
  BY DEF TypeOK
\* The budget is left alone and nobody gets past the check.
<1>1. ASSUME UNCHANGED <<budget, saved, admitted, unsaved, lost, rolledBack>>,
             Pending' \subseteq Pending
      PROVE  Goal
  <2>1. Cardinality(Pending') <= Cardinality(Pending)
    BY <1>1, PendingCounts, FS_Subset
  <2>2. SpentWithinSoftCap'
    BY <1>1, <1>t, <2>1, PendingCounts, PendingCountsPrimed
       DEF BudgetInv, SpentWithinSoftCap, SoftCap
  <2>3. WindowsSettled' /\ SnapshotCovers'
    BY <1>1 DEF BudgetInv, WindowsSettled, SnapshotCovers, SoftCap
  <2>4. QED
    BY <2>2, <2>3
\* A thread moves without getting past the check.
<1>2. ASSUME UNCHANGED <<budget, saved, admitted, unsaved, lost, rolledBack>>,
             NEW t \in Threads, NEW l, Goto(t, l),
             pc[t] \in {"poll", "sleep", "record"} \/ l \notin {"poll", "sleep", "record"}
      PROVE  Goal
  <2>1. Pending' \subseteq Pending
    BY <1>2 DEF Pending, At, Goto, TypeOK
  <2>2. QED
    BY <1>1, <1>2, <2>1
<1>3. ASSUME NEW t \in Threads, ReadClock(t) PROVE Goal
  BY <1>2, <1>3 DEF ReadClock
<1>4. ASSUME NEW t \in Threads, CheckBudget(t) PROVE Goal
  <2> DEFINE b == Roll(budget, nowSecs[t])
  <2>1. /\ budget' = b /\ rolledBack' = (rolledBack \/ b.window < budget.window)
        /\ UNCHANGED <<saved, admitted, unsaved, lost>>
    BY <1>4 DEF CheckBudget, SetBudget
  <2>2. /\ b \in [window : Windows, spent : Nat]
        /\ b.spent + Cardinality(Pending) <= SoftCap
        /\ MaxPerDay = 0 => Pending = {} /\ b.spent = 0
    BY <1>t, RollKeeps
  <2>3. WindowsSettled' /\ SnapshotCovers'
    <3>1. ~rolledBack' => ~rolledBack /\ b.window >= budget.window
      BY <2>1, <2>2, NotBack
    <3>2. ~rolledBack /\ b.window >= budget.window =>
            /\ \A w \in Windows : w > b.window => admitted[w] = 0
            /\ \A w \in Windows : w < b.window => admitted[w] <= SoftCap + lost
            /\ admitted[b.window] <= b.spent + lost
            /\ saved.window <= b.window
            /\ saved.window = b.window => b.spent <= saved.spent + unsaved
            /\ saved.window < b.window => b.spent <= unsaved
      BY <1>t, RollKeeps
    <3>3. QED
      BY <2>1, <3>1, <3>2 DEF WindowsSettled, SnapshotCovers, SoftCap, BudgetInv
  <2>4. SpentWithinSoftCap'
    <3>1. CASE CheckPasses(budget, nowSecs[t])
      <4>1. b.spent < MaxPerDay
        BY <3>1 DEF CheckPasses
      <4>2. QED
        BY <2>1, <2>2, <4>1, PendingCountsPrimed, PendingCounts DEF SpentWithinSoftCap, SoftCap
    <3>2. CASE ~CheckPasses(budget, nowSecs[t])
      <4>1. pc[t] = "check" /\ Goto(t, "idle")
        BY <1>4, <3>2 DEF CheckBudget
      <4>2. Pending' = Pending
        BY <4>1, MoveCounts DEF Pending
      <4>3. QED
        BY <2>1, <2>2, <4>2 DEF SpentWithinSoftCap, SoftCap
    <3>3. QED
      BY <3>1, <3>2
  <2>5. QED
    BY <2>3, <2>4
<1>5. ASSUME NEW t \in Threads, PollBucket(t) PROVE Goal
  BY <1>2, <1>5 DEF PollBucket
<1>6. ASSUME NEW t \in Threads, Wake(t) PROVE Goal
  BY <1>2, <1>6 DEF Wake
<1>7. ASSUME NEW t \in Threads, RecordBudget(t) PROVE Goal
  <2> DEFINE b == Roll(budget, nowSecs[t])
  <2>1. /\ b \in [window : Windows, spent : Nat]
        /\ Record(budget, nowSecs[t]).window = b.window
        /\ Record(budget, nowSecs[t]).spent = b.spent + 1
    <3>1. budget \in [window : Windows, spent : Nat] /\ nowSecs[t] \in 0 .. MaxWall
      BY <1>t
    <3>2. QED
      BY ONLY <3>1, BudgetTypes
  <2>2. /\ budget'.window = b.window /\ budget'.spent = b.spent + 1
        /\ rolledBack' = (rolledBack \/ b.window < budget.window)
        /\ admitted' = [admitted EXCEPT ![b.window] = @ + 1]
        /\ unsaved' = unsaved + 1
        /\ UNCHANGED <<saved, lost>>
    BY <1>7, <2>1 DEF RecordBudget, SetBudget
  <2>3. /\ b.spent + Cardinality(Pending) <= SoftCap
        /\ MaxPerDay = 0 => Pending = {} /\ b.spent = 0
    BY <1>t, RollKeeps
  <2>4. t \in Pending /\ Cardinality(Pending') = Cardinality(Pending) - 1
    <3>1. pc[t] = "record" /\ Goto(t, "count")
      BY <1>7 DEF RecordBudget
    <3>2. t \in Pending
      BY <3>1 DEF Pending, At
    <3>3. Cardinality(Pending') = Cardinality(Pending) - 1
      BY <3>1, MoveCounts DEF Pending
    <3>4. QED
      BY <3>2, <3>3
  <2>5. SpentWithinSoftCap'
    BY <2>1, <2>2, <2>3, <2>4, PendingCounts DEF SpentWithinSoftCap, SoftCap
  <2>6. WindowsSettled' /\ SnapshotCovers'
    <3>1. ~rolledBack' => ~rolledBack /\ b.window >= budget.window
      BY <2>1, <2>2, NotBack
    <3>2. ~rolledBack /\ b.window >= budget.window =>
            /\ \A w \in Windows : w > b.window => admitted[w] = 0
            /\ \A w \in Windows : w < b.window => admitted[w] <= SoftCap + lost
            /\ admitted[b.window] <= b.spent + lost
            /\ saved.window <= b.window
            /\ saved.window = b.window => b.spent <= saved.spent + unsaved
            /\ saved.window < b.window => b.spent <= unsaved
      BY <1>t, RollKeeps
    <3>3. WindowsSettled'
      BY <1>t, <2>1, <2>2, <3>1, <3>2, WindowsType DEF WindowsSettled, SoftCap
    <3>4. SnapshotCovers'
      BY <1>t, <2>1, <2>2, <3>1, <3>2, WindowsType DEF SnapshotCovers, SoftCap, BudgetInv
    <3>5. QED
      BY <3>3, <3>4
  <2>7. QED
    BY <2>5, <2>6
<1>8. ASSUME NEW t \in Threads, CountRequest(t) PROVE Goal
  BY <1>2, <1>8 DEF CountRequest
<1>9. ASSUME NEW t \in Threads, Retry(t) PROVE Goal
  BY <1>2, <1>9 DEF Retry
<1>10. ASSUME NEW t \in Threads, NEW r \in Answers, Respond(t, r) PROVE Goal
  BY <1>2, <1>10 DEF Respond
<1>11. ASSUME NEW t \in Threads, NEW k \in Kinds, StartCall(t, k) PROVE Goal
  BY <1>2, <1>11 DEF StartCall
<1>12. ASSUME NEW t \in Threads, BlockSeed(t) PROVE Goal
  BY <1>1, <1>12 DEF BlockSeed, Pending, At
<1>13. ASSUME Tick PROVE Goal
  BY <1>1, <1>13 DEF Tick, Pending, At
<1>14. ASSUME NEW d \in ClockSteps, SetClockBack(d) PROVE Goal
  BY <1>1, <1>14 DEF SetClockBack, Pending, At
<1>15. ASSUME Snapshot PROVE Goal
  <2> DEFINE b == Roll(budget, wall)
  <2>1. /\ budget' = b /\ rolledBack' = (rolledBack \/ b.window < budget.window)
        /\ saved'.window = b.window /\ saved'.spent = b.spent
        /\ unsaved' = 0 /\ UNCHANGED <<pc, admitted, lost>>
    BY <1>15 DEF Snapshot, SetBudget
  <2>2. /\ b \in [window : Windows, spent : Nat]
        /\ b.spent + Cardinality(Pending) <= SoftCap
        /\ MaxPerDay = 0 => Pending = {} /\ b.spent = 0
    BY <1>t, RollKeeps
  <2>3. Pending' = Pending
    BY <2>1 DEF Pending, At
  <2>4. SpentWithinSoftCap'
    BY <2>1, <2>2, <2>3 DEF SpentWithinSoftCap, SoftCap
  <2>5. ~rolledBack' => ~rolledBack /\ b.window >= budget.window
    BY <2>1, <2>2, NotBack
  <2>6. ~rolledBack /\ b.window >= budget.window =>
          /\ \A w \in Windows : w > b.window => admitted[w] = 0
          /\ \A w \in Windows : w < b.window => admitted[w] <= SoftCap + lost
          /\ admitted[b.window] <= b.spent + lost
    BY <1>t, RollKeeps
  <2>7. WindowsSettled'
    BY <2>1, <2>5, <2>6 DEF WindowsSettled, SoftCap
  <2>8. SnapshotCovers'
    BY <2>1, <2>2, PendingCounts, WindowsType DEF SnapshotCovers, SoftCap
  <2>9. QED
    BY <2>4, <2>7, <2>8
<1>16. ASSUME Restart PROVE Goal
  <2> DEFINE v == WindowStartFor(wall)
  <2>1. /\ budget'.window = v
        /\ budget'.spent = IF saved.window = v THEN saved.spent ELSE 0
        /\ rolledBack' = (rolledBack \/ v < budget.window)
        /\ lost' = lost + unsaved /\ unsaved' = 0 /\ UNCHANGED <<saved, admitted>>
    BY <1>16 DEF Restart, SetBudget, NewBudget, RestoredSpent
  <2>2. v \in Windows
    BY <1>t DEF Windows
  <2>3. Pending' = {} /\ Cardinality(Pending') = 0
    BY <1>16, FS_EmptySet DEF Restart, Pending, At
  <2>4. SpentWithinSoftCap'
    BY <1>t, <2>1, <2>3, PendingCounts DEF SpentWithinSoftCap, BudgetInv, SnapshotCovers, SoftCap
  <2>5. ~rolledBack' => ~rolledBack /\ v >= budget.window
    BY <2>1, <2>2, NotBack
  <2>6. budget.spent <= SoftCap
    BY <1>t, PendingCounts DEF BudgetInv, SpentWithinSoftCap
  <2>7. ASSUME ~rolledBack'
        PROVE  /\ \A w \in Windows : w > v => admitted[w] = 0
               /\ \A w \in Windows : w < v => admitted[w] <= SoftCap + lost'
               /\ admitted[v] <= budget'.spent + lost'
    <3>1. /\ \A w \in Windows : w > budget.window => admitted[w] = 0
          /\ \A w \in Windows : w < budget.window => admitted[w] <= SoftCap + lost
          /\ admitted[budget.window] <= budget.spent + lost
      BY <2>5, <2>7 DEF BudgetInv, WindowsSettled
    <3>2. /\ saved.window <= budget.window
          /\ saved.window = budget.window => budget.spent <= saved.spent + unsaved
          /\ saved.window < budget.window => budget.spent <= unsaved
      BY <2>5, <2>7 DEF BudgetInv, SnapshotCovers
    <3>3. \A w \in Windows : w \in Nat
      BY WindowsType
    <3>4. QED
      BY <1>t, <2>1, <2>2, <2>5, <2>6, <2>7, <3>1, <3>2, <3>3, PendingCounts
  <2>8. WindowsSettled'
    BY <2>1, <2>7 DEF WindowsSettled, SoftCap
  <2>9. SnapshotCovers'
    <3>1. \A w \in Windows : w \in Nat
      BY WindowsType
    <3>2. QED
      BY <1>t, <2>1, <2>2, <2>5, <3>1 DEF BudgetInv, SnapshotCovers, SoftCap
  <2>10. QED
    BY <2>4, <2>8, <2>9
<1>17. ASSUME UNCHANGED vars PROVE Goal
  BY <1>1, <1>17 DEF vars, Pending, At
<1>18. QED
  BY <1>3, <1>4, <1>5, <1>6, <1>7, <1>8, <1>9, <1>10, <1>11, <1>12, <1>13, <1>14, <1>15,
     <1>16, <1>17 DEF Next, Step

\* The inductive invariant of the daily budget, across day boundaries, clock
\* changes, snapshots and restarts.
THEOREM BudgetInvariant == Spec => []BudgetInv
<1>1. Init => BudgetInv
  <2> SUFFICES ASSUME Init PROVE BudgetInv
    OBVIOUS
  <2>1. TypeOK
    BY InitType DEF RetryInv
  <2>2. Pending = {} /\ Cardinality(Pending) = 0
    BY FS_EmptySet DEF Init, Pending, At
  <2>3. budget.spent = 0 /\ saved.spent = 0 /\ saved.window = budget.window
    BY DEF Init, NewBudget
  <2>4. SpentWithinSoftCap
    BY <2>2, <2>3, PendingCounts DEF SpentWithinSoftCap
  <2>5. WindowsSettled
    <3>1. budget.window \in Windows
      BY <2>1 DEF TypeOK
    <3>2. \A w \in Windows : admitted[w] = 0
      BY DEF Init
    <3>3. QED
      BY <2>3, <3>1, <3>2, PendingCounts DEF Init, WindowsSettled
  <2>6. SnapshotCovers
    <3>1. budget.window \in Nat
      BY <2>1, WindowsType DEF TypeOK
    <3>2. unsaved = 0
      BY DEF Init
    <3>3. QED
      BY <2>3, <3>1, <3>2, PendingCounts DEF SnapshotCovers
  <2>7. QED
    BY <2>1, <2>4, <2>5, <2>6 DEF BudgetInv
<1>2. QED
  BY <1>1, BudgetStep, RetryInvariant, PTL DEF Spec

\* DailyBudget checks and records in two locked sections: whatever happens in
\* between, a window never counts more than max_requests_per_day plus one request
\* for every other thread.
THEOREM SpentIsCapped == Spec => []SpentWithinSoftCap
<1>1. BudgetInv => SpentWithinSoftCap
  BY DEF BudgetInv
<1>2. QED
  BY <1>1, BudgetInvariant, PTL

\* What the provider sees of the budget: unless it went back to an earlier
\* window, no window admits more than that, plus what a crash made it forget.
THEOREM AdmissionIsCapped == Spec => []AdmittedWithinCap
<1>1. BudgetInv => AdmittedWithinCap
  <2> SUFFICES ASSUME BudgetInv, BudgetOn, ~rolledBack, NEW w \in Windows
               PROVE  admitted[w] <= SoftCap + lost
    BY DEF AdmittedWithinCap
  <2>1. /\ budget.window \in Windows /\ budget.spent \in Nat /\ lost \in Nat
        /\ admitted[w] \in Nat /\ admitted[budget.window] \in Nat
    BY DEF BudgetInv, TypeOK
  <2>2. w \in Nat /\ budget.window \in Nat
    BY <2>1, WindowsType
  <2>3. budget.spent <= SoftCap
    BY <2>1, PendingCounts DEF BudgetInv, SpentWithinSoftCap
  <2>4. QED
    BY <2>1, <2>2, <2>3, PendingCounts DEF BudgetInv, WindowsSettled
<1>2. QED
  BY <1>1, BudgetInvariant, PTL

-----------------------------------------------------------------------------
(* What a window has counted is forgotten only with the window.            *)

LEMMA SpentStep ==
    ASSUME TypeOK, [Next]_vars, budget'.spent < budget.spent
    PROVE  budget'.window # budget.window \/ restarts' > restarts
<1> USE DEF limiters, store
<1>1. /\ budget \in [window : Windows, spent : Nat] /\ restarts \in Nat
      /\ wall \in 0 .. MaxWall /\ \A t \in Threads : nowSecs[t] \in 0 .. MaxWall
  BY DEF TypeOK
\* Rolling the budget, and recording in the rolled one.
<1>2. ASSUME NEW n \in 0 .. MaxWall, budget' = Roll(budget, n) \/ budget' = Record(budget, n)
      PROVE  budget'.window # budget.window
  <2>1. /\ Record(budget, n).window = Roll(budget, n).window
        /\ Record(budget, n).spent = Roll(budget, n).spent + 1
        /\ Roll(budget, n) = budget
             \/ (Roll(budget, n).spent = 0 /\ Roll(budget, n).window # budget.window)
    BY <1>1, BudgetTypes
  <2>2. budget.spent \in Nat
    BY <1>1
  <2>3. QED
    BY <1>2, <2>1, <2>2
<1>3. ASSUME UNCHANGED budget PROVE FALSE
  BY <1>1, <1>3
<1>4. ASSUME NEW t \in Threads, CheckBudget(t) \/ RecordBudget(t)
      PROVE  budget'.window # budget.window
  <2>1. \/ budget' = Roll(budget, nowSecs[t]) \/ budget' = Record(budget, nowSecs[t])
        \/ UNCHANGED budget
    BY <1>4 DEF CheckBudget, RecordBudget, SetBudget
  <2>2. QED
    BY <1>1, <1>2, <1>3, <2>1
<1>5. ASSUME Snapshot PROVE budget'.window # budget.window
  BY <1>1, <1>2, <1>3, <1>5 DEF Snapshot, SetBudget
<1>6. ASSUME Restart PROVE restarts' > restarts
  BY <1>1, <1>6 DEF Restart
<1>7. ASSUME \/ \E t \in Threads : \/ ReadClock(t) \/ PollBucket(t) \/ Wake(t)
                                   \/ CountRequest(t) \/ Retry(t) \/ BlockSeed(t)
                                   \/ \E r \in Answers : Respond(t, r)
                                   \/ \E k \in Kinds : StartCall(t, k)
             \/ Tick \/ (\E d \in ClockSteps : SetClockBack(d)) \/ UNCHANGED vars
      PROVE  UNCHANGED budget
  BY <1>7 DEF ReadClock, PollBucket, Wake, CountRequest, Retry, BlockSeed, Respond,
              StartCall, Tick, SetClockBack, vars
<1>8. QED
  BY <1>3, <1>4, <1>5, <1>6, <1>7 DEF Next, Step

\* roll never restarts the count of the window that is current, whatever the
\* clock does and also at the epoch, where the window start is clamped: no
\* request recorded in a window is forgotten before the window is left.
THEOREM SpentIsKept == Spec => SpentForgottenOnlyWithWindow
<1>1. TypeOK /\ [Next]_vars =>
        [budget'.spent < budget.spent
         => budget'.window # budget.window \/ restarts' > restarts]_vars
  BY SpentStep
<1>2. QED
  BY <1>1, TypeCorrect, PTL DEF Spec, SpentForgottenOnlyWithWindow

-----------------------------------------------------------------------------
(* The counter and the requests that leave.                                *)

LEMMA SentCounts ==
    ASSUME TypeOK, NEW t \in Threads, NEW l, Goto(t, l)
    PROVE  /\ Cardinality(At({"sent"})) \in Nat
           /\ Cardinality(At({"sent"})') = Cardinality(At({"sent"}))
                + (IF l = "sent" THEN 1 ELSE 0) - (IF pc[t] = "sent" THEN 1 ELSE 0)
<1>1. Cardinality(At({"sent"})) \in Nat
  BY AtFinite
<1>2. Cardinality(At({"sent"})') = Cardinality(At({"sent"}))
                + (IF l \in {"sent"} THEN 1 ELSE 0) - (IF pc[t] \in {"sent"} THEN 1 ELSE 0)
  BY <1>1, MoveCounts
<1>3. QED
  BY <1>1, <1>2

LEMMA CountedStep == TypeOK /\ CountedBeforeSent /\ [Next]_vars => CountedBeforeSent'
<1> SUFFICES ASSUME TypeOK, CountedBeforeSent, [Next]_vars PROVE CountedBeforeSent'
  OBVIOUS
<1> USE DEF limiters, locals, store, history, Return, OnRefusal
<1>1. outbound \in Nat /\ seeds \in Nat /\ requestsMade \in Nat /\ base \in Nat
  BY DEF TypeOK
\* A thread moves, and no request is counted or sent.
<1>2. ASSUME NEW t \in Threads, NEW l, Goto(t, l),
             UNCHANGED <<outbound, seeds, requestsMade, base>>, pc[t] # "sent", l # "sent"
      PROVE  CountedBeforeSent'
  BY <1>2, MoveCounts DEF CountedBeforeSent
\* No thread moves: what block_seed sends is among the seeds.
<1>3. ASSUME UNCHANGED <<pc, requestsMade, base>>, outbound' - seeds' = outbound - seeds
      PROVE  CountedBeforeSent'
  <2>1. At({"sent"})' = At({"sent"})
    BY <1>3 DEF At
  <2>2. QED
    BY <1>3, <2>1 DEF CountedBeforeSent
<1>4. ASSUME NEW t \in Threads, CountRequest(t) PROVE CountedBeforeSent'
  <2>1. /\ pc[t] = "count" /\ Goto(t, "sent") /\ requestsMade' = requestsMade + 1
        /\ UNCHANGED <<outbound, seeds, base>>
    BY <1>4 DEF CountRequest
  <2>2. QED
    BY <1>1, <2>1, SentCounts DEF CountedBeforeSent
<1>5. ASSUME NEW t \in Threads, NEW r \in Answers, Respond(t, r) PROVE CountedBeforeSent'
  <2>1. PICK l \in {"backoff", "idle"} : Goto(t, l)
    BY <1>5 DEF Respond
  <2>2. pc[t] = "sent" /\ outbound' = outbound + 1 /\ UNCHANGED <<seeds, requestsMade, base>>
    BY <1>5 DEF Respond
  <2>3. QED
    BY <1>1, <2>1, <2>2, SentCounts DEF CountedBeforeSent
<1>6. ASSUME NEW t \in Threads,
             \/ ReadClock(t) \/ CheckBudget(t) \/ PollBucket(t) \/ Wake(t) \/ RecordBudget(t)
             \/ Retry(t) \/ \E k \in Kinds : StartCall(t, k)
      PROVE  CountedBeforeSent'
  <2>1. /\ UNCHANGED <<outbound, seeds, requestsMade, base>>
        /\ pc[t] # "sent"
    BY <1>6 DEF ReadClock, CheckBudget, PollBucket, Wake, RecordBudget, Retry, StartCall
  <2>2. PICK l \in {"check", "poll", "sleep", "record", "count", "clock", "idle"} : Goto(t, l)
    BY <1>6 DEF ReadClock, CheckBudget, PollBucket, Wake, RecordBudget, Retry, StartCall,
                AfterCheck, AfterBucket
  <2>3. QED
    BY <1>2, <2>1, <2>2
<1>7. ASSUME NEW t \in Threads, BlockSeed(t) PROVE CountedBeforeSent'
  BY <1>1, <1>3, <1>7 DEF BlockSeed
<1>8. ASSUME Tick \/ (\E d \in ClockSteps : SetClockBack(d)) \/ Snapshot \/ UNCHANGED vars
      PROVE  CountedBeforeSent'
  BY <1>3, <1>8 DEF Tick, SetClockBack, Snapshot, vars
<1>9. ASSUME Restart PROVE CountedBeforeSent'
  <2>1. At({"sent"})' = {}
    BY <1>9 DEF Restart, At
  <2>2. Cardinality(At({"sent"})') = 0
    BY <2>1, FS_EmptySet
  <2>3. QED
    BY <1>9, <2>2 DEF Restart, CountedBeforeSent, TypeOK
<1>10. QED
  BY <1>4, <1>5, <1>6, <1>7, <1>8, <1>9 DEF Next, Step

\* requests_made counts a request before it leaves, retries included, for any number of
\* threads and whatever the limiters and the endpoints answer: the requests that left and
\* those about to leave are the ones counted since the client was built, but for those
\* that block_seed sends past the counter.
THEOREM EveryRequestIsCounted == Spec => []CountedBeforeSent
<1>1. Init => CountedBeforeSent
  <2> SUFFICES ASSUME Init PROVE CountedBeforeSent
    OBVIOUS
  <2>1. At({"sent"}) = {}
    BY DEF Init, At
  <2>2. Cardinality(At({"sent"})) = 0
    BY <2>1, FS_EmptySet
  <2>3. QED
    BY <2>2 DEF Init, CountedBeforeSent
<1>2. QED
  BY <1>1, CountedStep, TypeCorrect, PTL DEF Spec

-----------------------------------------------------------------------------
(* The wait that daily_budget_exceeded carries.                            *)

\* A multiple of the day length leaves no remainder.
LEMMA WholeDays == ASSUME NEW k \in Int PROVE (k * DayLen) % DayLen = 0
<1> DEFINE x == k * DayLen
           q == x \div DayLen
<1>1. x \in Int /\ q \in Int /\ x % DayLen \in 0 .. DayLen - 1 /\ x = q * DayLen + (x % DayLen)
  OBVIOUS
<1>2. x % DayLen = (k - q) * DayLen
  BY <1>1
<1>3. k - q = 0
  <2>1. k - q >= 1 => (k - q) * DayLen >= DayLen
    BY <1>1
  <2>2. k - q <= -1 => (k - q) * DayLen <= -DayLen
    BY <1>1
  <2>3. QED
    BY <1>1, <1>2, <2>1, <2>2
<1>4. QED
  BY <1>2, <1>3

\* Windows start at the day-start, but for the one clamped at the epoch.
LEMMA WindowStartsAtDayStart ==
    ASSUME NEW w \in Windows, w >= Offset
    PROVE  (w + DayLen - Offset) % DayLen = 0
<1>1. PICK n \in 0 .. MaxWall : w = WindowStartFor(n)
  BY DEF Windows
<1> DEFINE q == (n - Offset) \div DayLen
<1>2. Offset \in Nat /\ q \in Int /\ n \in Nat
  BY DEF Offset
<1>3. w = q * DayLen + Offset
  <2>1. CASE q * DayLen + Offset < 0
    <3>1. w = 0 /\ Offset = 0 /\ q * DayLen < 0
      BY <1>1, <1>2, <2>1 DEF WindowStartFor
    <3>2. q >= 0
      BY <1>2, <3>1
    <3>3. QED
      BY <1>2, <3>1, <3>2
  <2>2. CASE ~(q * DayLen + Offset < 0)
    BY <1>1, <2>2 DEF WindowStartFor
  <2>3. QED
    BY <2>1, <2>2
<1>4. w + DayLen - Offset = (q + 1) * DayLen
  BY <1>2, <1>3
<1>5. QED
  BY <1>2, <1>4, WholeDays

\* The wait of daily_budget_exceeded is exact for every window the budget can be in and
\* every time of the call, across the epoch and the start of a day: a retry before it has
\* elapsed is refused again, one at its end passes, and its end is a day-start.
THEOREM RefusalWaitIsExact == Spec => []RefusalWaitExact
<1>1. TypeOK => RefusalWaitExact
  <2> SUFFICES ASSUME TypeOK, NEW n \in 0 .. MaxWall, Roll(budget, n).spent >= MaxPerDay
               PROVE  LET b == Roll(budget, n)
                          again == n + CheckWait(budget, n)
                      IN  /\ \A m \in n .. again - 1 : ~CheckPasses(b, m)
                          /\ MaxPerDay > 0 => CheckPasses(b, again)
                          /\ b.window >= Offset => (again - Offset) % DayLen = 0
    BY DEF RefusalWaitExact
  <2> DEFINE b == Roll(budget, n)
             again == n + CheckWait(budget, n)
  <2>1. b.window \in Windows /\ b.window \in Nat /\ b.spent \in Nat /\ n \in Nat
    <3>1. budget \in [window : Windows, spent : Nat]
      BY DEF TypeOK
    <3>2. b \in [window : Windows, spent : Nat]
      BY <3>1, BudgetTypes
    <3>3. b.window \in Windows /\ b.spent \in Nat /\ n \in Nat
      BY <3>2
    <3>4. QED
      BY <3>3, WindowsType
  <2>2. b.window <= n /\ n < b.window + DayLen
    <3>1. budget.window \in Nat
      BY WindowsType DEF TypeOK
    <3>2. WindowStartFor(n) <= n /\ n < WindowStartFor(n) + DayLen
      BY <2>1, WindowContains
    <3>3. QED
      BY <2>1, <3>1, <3>2 DEF Roll, NewBudget
  <2>3. again = b.window + DayLen
    BY <2>1 DEF CheckWait
  <2> HIDE DEF b, again
  <2>4. \A m \in n .. again - 1 : ~CheckPasses(b, m)
    <3>1. ASSUME NEW m \in n .. again - 1 PROVE ~CheckPasses(b, m)
      <4>1. Roll(b, m) = b
        BY <2>1, <2>2, <2>3 DEF Roll
      <4>2. b.spent >= MaxPerDay
        BY DEF b
      <4>3. QED
        BY <2>1, <4>1, <4>2 DEF CheckPasses
    <3>2. QED
      BY <3>1
  <2>5. MaxPerDay > 0 => CheckPasses(b, again)
    BY <2>1, <2>3 DEF CheckPasses, Roll, NewBudget
  <2>6. b.window >= Offset => (again - Offset) % DayLen = 0
    <3>1. Offset \in Nat
      BY DEF Offset
    <3>2. again - Offset = b.window + DayLen - Offset
      BY <2>1, <2>3, <3>1
    <3>3. \A w \in Windows : w >= Offset => (w + DayLen - Offset) % DayLen = 0
      BY WindowStartsAtDayStart
    <3>4. QED
      BY <2>1, <3>2, <3>3
  <2>7. QED
    BY <2>4, <2>5, <2>6 DEF b, again
<1>2. QED
  BY <1>1, TypeCorrect, PTL
=============================================================================
