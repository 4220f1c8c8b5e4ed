------------------------------ MODULE CallPath ------------------------------
(***************************************************************************)
(* The outbound call path of AlgoOps: call_with_retry, apply_rate_limit,   *)
(* the shared token bucket, the shared daily budget and the request        *)
(* counter, driven by threads that hold clones of one client, with the     *)
(* snapshot a consumer persists and restores around a restart.             *)
(*                                                                         *)
(* The mutexes are taken once per step of apply_rate_limit and released    *)
(* between the steps, so every locked section is one action here and       *)
(* anything may happen in between: another thread's step, a tick of the    *)
(* clock across the start of a day, a crash.                               *)
(***************************************************************************)
EXTENDS DailyBudget, RateLimiter, FiniteSets

CONSTANTS
    Threads,      \* threads calling through clones of the client
    BudgetOn,     \* a daily_budget is configured
    BucketOn,     \* a rate_limit is configured
    Mode,         \* RateLimitMode: "Block" or "Reject"
    Kinds,        \* the kinds of call the threads make
    Answers,      \* what the endpoints answer, and whether requests time out
    MaxRetries,   \* MAX_RETRIES of call_with_retry
    StartWall,    \* the wall clock when the client is built
    MaxWall,      \* bound: last value of the wall clock
    MaxRequests,  \* bound: no call starts once so many requests were made
    ClockSteps,   \* how far the wall clock may be set back in one step
    MaxSetBacks,  \* bound: how often the wall clock is set back
    MaxRestarts,  \* bound: how often the process crashes and is restarted
    MayReadSeed   \* whether block_seed is called

CallKinds == {"Algod", "IndexerRead"}

\* What one attempt can come back with: a value, an HTTP status of
\* RETRYABLE_STATUS_CODES, a 500, another status, a failure without an HTTP
\* answer, or the elapsed timeout of rt_block_on.
Responses == {"ok", "retryable", "http500", "httpOther", "transport", "timeout"}

ASSUME ThreadsAssumption == IsFiniteSet(Threads) /\ Threads # {}
ASSUME SwitchAssumption ==
    /\ {BudgetOn, BucketOn, MayReadSeed} \subseteq BOOLEAN
    /\ Mode \in {"Block", "Reject"}
ASSUME CallAssumption == Kinds \subseteq CallKinds /\ Answers \subseteq Responses
ASSUME BoundAssumption ==
    /\ MaxRetries \in Nat /\ MaxRequests \in Nat
    /\ MaxWall \in Nat /\ StartWall \in 0 .. MaxWall
    /\ ClockSteps \subseteq Nat
    /\ MaxRestarts \in Nat /\ MaxSetBacks \in Nat

VARIABLES
    wall,         \* SystemTime, in clock units
    bucket,       \* RateLimiter
    budget,       \* DailyBudget
    requestsMade, \* requests_made
    pc,           \* where each thread is in call_with_retry
    kind,         \* CallKind of the thread's call
    attempt,      \* attempt of call_with_retry
    nowSecs,      \* now_secs, read once per apply_rate_limit
    nap,          \* time left to sleep
    result,       \* how the thread's last call ended
    saved,        \* the snapshot the consumer persisted last
    restarts,     \* crashes so far
    setBacks,     \* how often the wall clock was set back so far
    base,         \* the count with_initial_request_count started from
    \* History variables: read by no action, only by the properties.
    granted,      \* tokens granted since the client was built
    recorded,     \* requests recorded since the client was built
    outbound,     \* requests that left the process since then
    seeds,        \* those of them that block_seed made
    callSends,    \* requests made by the thread's current or last call
    admitted,     \* requests ever recorded, per window
    unsaved,      \* requests recorded since the last snapshot
    lost,         \* requests recorded but never persisted before a crash
    rolledBack    \* the budget once went back to an earlier window

limiters == <<bucket, budget, requestsMade>>
locals == <<kind, attempt, nowSecs, nap, result>>
store == <<saved, base, restarts, setBacks>>
history == <<granted, recorded, outbound, seeds, callSends, admitted, unsaved, lost, rolledBack>>
vars == <<wall, limiters, pc, locals, store, history>>

Results == {"none", "ok", "daily_budget_exceeded", "rate_limited", "transient",
            "http", "error", "timeout"}

PCs == {"idle", "clock", "check", "poll", "sleep", "record", "count", "sent",
        "backoff"}

Windows == {WindowStartFor(n) : n \in 0 .. MaxWall}

TypeOK ==
    /\ wall \in 0 .. MaxWall
    /\ bucket \in [tokens : 0 .. Full, age : 0 .. Per]
    /\ budget \in [window : Windows, spent : Nat]
    /\ requestsMade \in Nat
    /\ pc \in [Threads -> PCs]
    /\ kind \in [Threads -> CallKinds]
    /\ attempt \in [Threads -> 0 .. MaxRetries]
    /\ nowSecs \in [Threads -> 0 .. MaxWall]
    /\ nap \in [Threads -> Nat]
    /\ result \in [Threads -> Results]
    /\ saved \in [window : Windows, spent : Nat, count : Nat]
    /\ base \in Nat
    /\ restarts \in 0 .. MaxRestarts
    /\ setBacks \in 0 .. MaxSetBacks
    /\ granted \in Nat /\ recorded \in Nat /\ outbound \in Nat /\ seeds \in Nat
    /\ callSends \in [Threads -> Nat]
    /\ admitted \in [Windows -> Nat]
    /\ unsaved \in Nat /\ lost \in Nat
    /\ rolledBack \in BOOLEAN

Init ==
    /\ wall = StartWall
    /\ bucket = NewBucket
    /\ budget = NewBudget(StartWall, 0)
    /\ requestsMade = 0
    /\ pc = [t \in Threads |-> "idle"]
    /\ kind = [t \in Threads |-> "Algod"]
    /\ attempt = [t \in Threads |-> 0]
    /\ nowSecs = [t \in Threads |-> 0]
    /\ nap = [t \in Threads |-> 0]
    /\ result = [t \in Threads |-> "none"]
    /\ saved = [window |-> WindowStartFor(StartWall), spent |-> 0, count |-> 0]
    /\ base = 0
    /\ restarts = 0
    /\ setBacks = 0
    /\ granted = 0 /\ recorded = 0 /\ outbound = 0 /\ seeds = 0
    /\ callSends = [t \in Threads |-> 0]
    /\ admitted = [w \in Windows |-> 0]
    /\ unsaved = 0 /\ lost = 0
    /\ rolledBack = FALSE

-----------------------------------------------------------------------------
(***************************************************************************)
(* apply_rate_limit                                                        *)
(***************************************************************************)

\* Mutant: the request is never recorded.
MutAfterBucket == "count"

\* Steps 1 and 3 exist only with a daily budget, step 2 only with a bucket.
AfterBucket == IF BudgetOn THEN "record" ELSE "count"
AfterCheck == IF BucketOn THEN "poll" ELSE AfterBucket

Goto(t, label) == pc' = [pc EXCEPT ![t] = label]

\* The call ends with r and its locals go out of scope.
Return(t, r) == /\ Goto(t, "idle")
                /\ result' = [result EXCEPT ![t] = r]
                /\ nowSecs' = [nowSecs EXCEPT ![t] = 0]
                /\ attempt' = [attempt EXCEPT ![t] = 0]

\* The budget becomes b.
SetBudget(b) == /\ budget' = b
                /\ rolledBack' = (rolledBack \/ b.window < budget.window)

\* now_secs is read once, and only when there is a daily budget.
ReadClock(t) ==
    /\ pc[t] = "clock"
    /\ Goto(t, IF BudgetOn THEN "check" ELSE AfterCheck)
    /\ nowSecs' = [nowSecs EXCEPT ![t] = IF BudgetOn THEN wall ELSE @]
    /\ UNCHANGED <<wall, limiters, kind, attempt, nap, result, store, history>>

\* 1. The daily budget is rolled and peeked at; a spent one ends the call.
CheckBudget(t) ==
    /\ pc[t] = "check"
    /\ SetBudget(Roll(budget, nowSecs[t]))
    /\ IF CheckPasses(budget, nowSecs[t])
       THEN Goto(t, AfterCheck) /\ UNCHANGED <<result, nowSecs, attempt>>
       ELSE Return(t, "daily_budget_exceeded")
    /\ UNCHANGED <<wall, bucket, requestsMade, kind, nap, store,
                   granted, recorded, outbound, seeds, callSends, admitted, unsaved, lost>>

\* Mutant: the loop polls again at once, whatever the mode.
MutOnRefusal(t) == UNCHANGED <<pc, nap, result, nowSecs, attempt>>

\* RateLimitMode: the caller sleeps for the wait, or is turned away.
OnRefusal(t) ==
    \/ /\ Mode = "Reject"
       /\ Return(t, "rate_limited")
       /\ UNCHANGED nap
    \/ /\ Mode = "Block"
       /\ Goto(t, "sleep")
       /\ nap' = [nap EXCEPT ![t] = PollWait(bucket)]
       /\ UNCHANGED <<result, nowSecs, attempt>>

\* 2. The bucket grants a token, or the caller sleeps or is turned away.
PollBucket(t) ==
    /\ pc[t] = "poll"
    /\ bucket' = Poll(bucket)
    /\ \/ /\ Granted(bucket)
          /\ Goto(t, AfterBucket)
          /\ granted' = granted + 1
          /\ UNCHANGED <<nap, result, nowSecs, attempt>>
       \/ /\ ~Granted(bucket)
          /\ OnRefusal(t)
          /\ UNCHANGED granted
    /\ UNCHANGED <<wall, budget, requestsMade, kind, store, recorded,
                   outbound, seeds, callSends, admitted, unsaved, lost, rolledBack>>

\* The sleep ends and the loop polls again.
Wake(t) ==
    /\ pc[t] = "sleep" /\ nap[t] = 0
    /\ Goto(t, "poll")
    /\ UNCHANGED <<wall, limiters, locals, store, history>>

\* 3a. The request is recorded with the clock read at the start of the call.
RecordBudget(t) ==
    /\ pc[t] = "record"
    /\ SetBudget(Record(budget, nowSecs[t]))
    /\ Goto(t, "count")
    /\ recorded' = recorded + 1
    /\ admitted' = [admitted EXCEPT ![Record(budget, nowSecs[t]).window] = @ + 1]
    /\ unsaved' = unsaved + 1
    /\ UNCHANGED <<wall, bucket, requestsMade, locals, store, granted, outbound,
                   seeds, callSends, lost>>

\* 3b. The cumulative counter.
CountRequest(t) ==
    /\ pc[t] = "count"
    /\ requestsMade' = requestsMade + 1
    /\ Goto(t, "sent")
    /\ UNCHANGED <<wall, bucket, budget, locals, store, history>>

-----------------------------------------------------------------------------
(***************************************************************************)
(* call_with_retry                                                         *)
(***************************************************************************)

\* algod_call and indexer_call.
StartCall(t, k) ==
    /\ pc[t] = "idle" /\ requestsMade < MaxRequests
    /\ Goto(t, "clock")
    /\ kind' = [kind EXCEPT ![t] = k]
    /\ result' = [result EXCEPT ![t] = "none"]
    /\ callSends' = [callSends EXCEPT ![t] = 0]
    /\ UNCHANGED <<wall, limiters, attempt, nowSecs, nap, store, granted, recorded,
                   outbound, seeds, admitted, unsaved, lost, rolledBack>>

IsRetryableFor(k, r) == r = "retryable" \/ (k = "IndexerRead" /\ r = "http500")

\* The error a call ends with when its last attempt came back with r.
FinalResult(k, r) ==
    CASE r = "ok" -> "ok"
      [] r = "timeout" -> "timeout"
      [] IsRetryableFor(k, r) -> "transient"
      [] r \in {"http500", "httpOther"} -> "http"
      [] OTHER -> "error"

\* Mutant: one attempt too many.
MutAttemptsLeft(t) == attempt[t] <= MaxRetries

AttemptsLeft(t) == attempt[t] < MaxRetries

\* rt_block_on runs the request and the loop looks at what came back.
Respond(t, r) ==
    /\ pc[t] = "sent"
    /\ outbound' = outbound + 1
    /\ callSends' = [callSends EXCEPT ![t] = @ + 1]
    /\ IF IsRetryableFor(kind[t], r) /\ AttemptsLeft(t)
       THEN Goto(t, "backoff") /\ UNCHANGED <<result, nowSecs, attempt>>
       ELSE Return(t, FinalResult(kind[t], r))
    /\ UNCHANGED <<wall, limiters, kind, nap, store, granted, recorded,
                   seeds, admitted, unsaved, lost, rolledBack>>

\* Mutant: the limiters and the counter apply to the first attempt only.
MutRetry(t) ==
    /\ pc[t] = "backoff"
    /\ attempt' = [attempt EXCEPT ![t] = @ + 1]
    /\ Goto(t, "sent")
    /\ UNCHANGED <<wall, limiters, kind, nowSecs, nap, result, store, history>>

\* The backoff has been slept through: the limiters apply to the next attempt.
\* Its length (RETRY_BASE_MS << attempt) is left open.
Retry(t) ==
    /\ pc[t] = "backoff"
    /\ attempt' = [attempt EXCEPT ![t] = @ + 1]
    /\ Goto(t, "clock")
    /\ UNCHANGED <<wall, limiters, kind, nowSecs, nap, result, store, history>>

\* block_seed reads through rt_block_on directly.
BlockSeed(t) ==
    /\ MayReadSeed
    /\ pc[t] = "idle" /\ outbound < MaxRequests
    /\ outbound' = outbound + 1
    /\ seeds' = seeds + 1
    /\ UNCHANGED <<wall, limiters, pc, locals, store, granted, recorded, callSends,
                   admitted, unsaved, lost, rolledBack>>

-----------------------------------------------------------------------------
(***************************************************************************)
(* Clocks, snapshots and restarts                                          *)
(***************************************************************************)

Tick ==
    /\ wall < MaxWall
    /\ wall' = wall + 1
    /\ bucket' = Aged(bucket)
    /\ nap' = [t \in Threads |-> IF nap[t] > 0 THEN nap[t] - 1 ELSE 0]
    /\ UNCHANGED <<budget, requestsMade, pc, kind, attempt, nowSecs, result, store, history>>

\* The system clock is set back; the monotonic clock is not.
SetClockBack(d) ==
    /\ 0 < d /\ d <= wall
    /\ setBacks < MaxSetBacks
    /\ wall' = wall - d
    /\ setBacks' = setBacks + 1
    /\ UNCHANGED <<limiters, pc, locals, saved, base, restarts, history>>

\* The consumer persists daily_budget_state and requests_made.
Snapshot ==
    /\ MaxRestarts > 0
    /\ LET b == IF BudgetOn THEN Roll(budget, wall) ELSE budget
       IN  /\ SetBudget(b)
           /\ saved' = [window |-> b.window, spent |-> b.spent, count |-> requestsMade]
    /\ unsaved' = 0
    /\ UNCHANGED <<wall, bucket, requestsMade, pc, locals, base, restarts, setBacks, granted,
                   recorded, outbound, seeds, callSends, admitted, lost>>

\* Mutants: the saved count is not restored, or whatever its window.
MutRestoredSpent == 0
MutRestoredSpentAnyWindow == saved.spent

\* What the owner hands to with_daily_spent, which itself takes any count: to restore it
\* "iff the persisted window still matches the current one" is the owner's duty, by the
\* doc of DailyBudgetState, and one that keeps to it is modelled.
RestoredSpent == IF saved.window = WindowStartFor(wall) THEN saved.spent ELSE 0

\* The process dies wherever it is and a new one builds the client: a full
\* bucket, a new budget seeded by with_daily_spent when the saved window is
\* still the current one, the counter seeded by with_initial_request_count.
Restart ==
    /\ restarts < MaxRestarts
    /\ restarts' = restarts + 1
    /\ bucket' = NewBucket
    /\ SetBudget(NewBudget(wall, RestoredSpent))
    /\ requestsMade' = saved.count
    /\ base' = saved.count
    /\ pc' = [t \in Threads |-> "idle"]
    /\ attempt' = [t \in Threads |-> 0]
    /\ nap' = [t \in Threads |-> 0]
    /\ result' = [t \in Threads |-> "none"]
    /\ callSends' = [t \in Threads |-> 0]
    /\ granted' = 0 /\ recorded' = 0 /\ outbound' = 0 /\ seeds' = 0
    /\ lost' = lost + unsaved
    /\ unsaved' = 0
    /\ nowSecs' = [t \in Threads |-> 0]
    /\ UNCHANGED <<wall, kind, saved, setBacks, admitted>>

-----------------------------------------------------------------------------
Step(t) ==
    \/ ReadClock(t) \/ CheckBudget(t) \/ PollBucket(t) \/ Wake(t)
    \/ RecordBudget(t) \/ CountRequest(t) \/ Retry(t)
    \/ \E r \in Answers : Respond(t, r)

Next ==
    \/ \E t \in Threads : Step(t)
    \/ \E t \in Threads, k \in Kinds : StartCall(t, k)
    \/ \E t \in Threads : BlockSeed(t)
    \/ Tick
    \/ \E d \in ClockSteps : SetClockBack(d)
    \/ Snapshot
    \/ Restart

Spec == Init /\ [][Next]_vars

\* A thread that can run is scheduled, and with_timeout makes every request
\* end; nobody is obliged to start a call, and the clock needs no help.
FairSpec == Spec /\ \A t \in Threads : WF_vars(Step(t))

-----------------------------------------------------------------------------
(***************************************************************************)
(* Properties                                                              *)
(***************************************************************************)

At(labels) == {t \in Threads : pc[t] \in labels}

\* Threads whose check passed and whose request is not recorded yet.
Pending == At({"poll", "sleep", "record"})

\* What the check / record split of DailyBudget can admit into one window.
SoftCap == MaxPerDay + Cardinality(Threads) - 1

\* Neither limiter is charged for a request the other one blocks, and nothing
\* is counted twice or forgotten: every token granted and every request
\* recorded belongs to a request that was counted or is about to be
\* (apply_rate_limit: "neither limiter is charged for a request the other
\* blocks", "exactly once per real outbound request").
ChargedTogether ==
    LET counted == requestsMade - base
    IN  /\ BucketOn => granted = counted + Cardinality(At({"record", "count"}))
        /\ BudgetOn => recorded = counted + Cardinality(At({"count"}))

\* The count of a window, with the requests already past the check, exceeds
\* the maximum by less than the number of threads, across day boundaries,
\* clock changes and restarts; a maximum of 0 lets nothing past the check.
SpentWithinSoftCap ==
    BudgetOn => /\ budget.spent + Cardinality(Pending) <= SoftCap
                /\ MaxPerDay = 0 => Pending = {} /\ budget.spent = 0

\* What the provider sees: as long as the budget has never gone back to an
\* earlier window, no window admits more than the soft cap, plus what was
\* recorded after the last snapshot and forgotten by a crash.
AdmittedWithinCap ==
    BudgetOn /\ ~rolledBack => \A w \in Windows : admitted[w] <= SoftCap + lost

\* The inductive invariant behind AdmittedWithinCap.  Until the budget goes
\* back, later windows are untouched, earlier ones are settled, and the count
\* of the current one misses only what a crash lost; what the next crash can
\* lose is what was recorded since the last snapshot.
WindowsSettled ==
    ~rolledBack =>
        /\ \A w \in Windows : w > budget.window => admitted[w] = 0
        /\ \A w \in Windows : w < budget.window => admitted[w] <= SoftCap + lost
        /\ admitted[budget.window] <= budget.spent + lost

SnapshotCovers ==
    /\ saved.spent <= SoftCap
    /\ MaxPerDay = 0 => saved.spent = 0
    /\ ~rolledBack =>
        /\ saved.window <= budget.window
        /\ saved.window = budget.window => budget.spent <= saved.spent + unsaved
        /\ saved.window < budget.window => budget.spent <= unsaved

BudgetInv ==
    /\ TypeOK
    /\ SpentWithinSoftCap
    /\ BudgetOn => WindowsSettled /\ SnapshotCovers

\* The wait carried by daily_budget_exceeded leads to the next day-start and
\* is exact: until it has elapsed the budget stays spent, and once it has
\* elapsed a request passes again (unless the maximum is 0).  Only the window
\* clamped at the epoch does not end at a day-start.
RefusalWaitExact ==
    \A n \in 0 .. MaxWall :
        LET b == Roll(budget, n)
            again == n + CheckWait(budget, n)
        IN  b.spent >= MaxPerDay =>
              /\ \A m \in n .. again - 1 : ~CheckPasses(b, m)
              /\ MaxPerDay > 0 => CheckPasses(b, again)
              /\ b.window >= Offset => (again - Offset) % DayLen = 0

\* One call makes at most 1 + MAX_RETRIES requests, and reports "transient"
\* only after having made all of them.
RetriesExhausted ==
    \A t \in Threads :
        /\ callSends[t] <= 1 + MaxRetries
        /\ result[t] = "transient" => callSends[t] = 1 + MaxRetries

\* The inductive invariant behind RetriesExhausted: the requests a call has
\* made are told by its attempt, and a thread backs off only with attempts left.
RetryInv ==
    /\ TypeOK
    /\ \A t \in Threads :
        /\ pc[t] \notin {"idle", "backoff"} => callSends[t] = attempt[t]
        /\ pc[t] = "backoff" => callSends[t] = attempt[t] + 1 /\ attempt[t] < MaxRetries
        /\ pc[t] = "idle" => attempt[t] = 0 /\ callSends[t] <= 1 + MaxRetries
        /\ result[t] = "transient" => pc[t] = "idle" /\ callSends[t] = 1 + MaxRetries

\* requests_made is counted before the request leaves and never lags behind
\* what was sent, retries included ("exactly once per real outbound request"):
\* of the requests that left, only those of block_seed escape it.
CountedBeforeSent ==
    outbound - seeds + Cardinality(At({"sent"})) = requestsMade - base

\* What a window has counted is forgotten only with the window itself (or by
\* a crash): no roll, forward, back or at the clamped epoch, restarts the
\* count of the window that is current.
SpentForgottenOnlyWithWindow ==
    [][budget'.spent < budget.spent
       => budget'.window # budget.window \/ restarts' > restarts]_vars

\* Nothing but the bucket holds a call up: every call comes back, or is put to
\* sleep until the next token by RateLimitMode::Block (whether the sleeper
\* gets it is the question of BucketWaiters).
CallReturnsOrSleeps == \A t \in Threads : pc[t] # "idle" ~> pc[t] \in {"idle", "sleep"}

(***************************************************************************)
(* Claims of the repository that the code does not keep                    *)
(***************************************************************************)

\* "up to N concurrent requests racing the boundary can admit a few over
\* `max`": at most one more per thread in any window.
WindowAdmitsMaxPlusRacers ==
    BudgetOn => \A w \in Windows : admitted[w] <= MaxPerDay + Cardinality(Threads) + lost
=============================================================================
