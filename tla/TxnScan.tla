------------------------------- MODULE TxnScan -------------------------------
(***************************************************************************)
(* The incremental transaction scan of AlgoOps: fetch_transactions_cached, *)
(* fetch_transactions_cached_with and fetch_scan_page on one caller-owned  *)
(* TxnScanCache, refreshed by several callers while the indexer keeps      *)
(* indexing new rounds and any page request may fail.                      *)
(*                                                                         *)
(* The indexer is external.  The transactions that match the server-side   *)
(* filter are numbered 1, 2, ... in the order in which it returns them,    *)
(* oldest round first; upTo[r] of them are confirmed in rounds 1 .. r.     *)
(* The caller's ingest keeps those whose number is in Ingested.            *)
(***************************************************************************)
EXTENDS Integers

CONSTANTS
    Callers,       \* threads that refresh the cache
    QueryModes,    \* the modes they use: "Refresh", "CacheOnly", "ForceFull"
    Lifetimes,     \* the cache_lifetime_secs they pass; 0 stands for None
    Ingested,      \* the transactions ingest maps to an entry
    PageSize,      \* the indexer's page size
    MaxPerRound,   \* bound: matching transactions per round
    MaxRound,      \* bound: last round
    MaxClock,      \* bound: last value of the wall clock
    MaxFailures,   \* bound: page requests that fail
    MaxCrashes     \* bound: crashes of the process that owns the cache

ASSUME ModeAssumption == QueryModes \subseteq {"Refresh", "CacheOnly", "ForceFull"}
ASSUME DataAssumption == Lifetimes \subseteq Nat /\ Ingested \subseteq Nat
ASSUME SizeAssumption ==
    /\ PageSize \in Nat \ {0} /\ MaxPerRound \in Nat
    /\ MaxRound \in Nat \ {0} /\ MaxClock \in Nat \ {0} /\ MaxCrashes \in Nat
    /\ MaxFailures \in Nat

VARIABLES
    round,      \* the last round the indexer has indexed
    upTo,       \* matching transactions confirmed up to each round
    clock,      \* SystemTime, in seconds
    lastRound,  \* TxnScanCache::last_round
    lastUpdated,\* TxnScanCache::last_updated
    copies,     \* TxnScanCache::entries: how often each transaction occurs
    pc,         \* "idle", waiting for the "lock", or in the page loop ("scan")
    mode,       \* the caller's QueryMode
    lifetime,   \* the caller's cache_lifetime_secs
    now,        \* the clock as the caller read it, before taking the lock
    pos,        \* pagination cursor: transactions up to pos were returned
    watermark,  \* watermark of the page loop
    saved,      \* the cache as last persisted by its owner
    crashes,    \* crashes so far
    failures,   \* failed page requests so far
    ok,         \* history: whether the caller's last call returned Ok
    clean       \* history: no page loop failed half way since entries was cleared

indexer == <<round, upTo>>
cache == <<lastRound, lastUpdated, copies>>
call == <<mode, lifetime, now>>
scan == <<pos, watermark>>
store == <<saved, crashes, failures>>
vars == <<indexer, clock, cache, pc, call, scan, store, ok, clean>>

Rounds == 0 .. MaxRound
Txns == 1 .. MaxPerRound * MaxRound

TypeOK ==
    /\ round \in 1 .. MaxRound
    /\ upTo \in [Rounds -> Nat]
    /\ clock \in 1 .. MaxClock
    /\ lastRound \in Rounds
    /\ lastUpdated \in 0 .. MaxClock
    /\ copies \in [Txns -> Nat]
    /\ pc \in [Callers -> {"idle", "lock", "scan"}]
    /\ mode \in [Callers -> {"Refresh", "CacheOnly", "ForceFull"}]
    /\ lifetime \in [Callers -> Nat]
    /\ now \in [Callers -> 0 .. MaxClock]
    /\ pos \in Nat
    /\ watermark \in Rounds
    /\ saved \in [lastRound : Rounds, lastUpdated : 0 .. MaxClock,
                  copies : [Txns -> Nat], clean : BOOLEAN]
    /\ crashes \in 0 .. MaxCrashes
    /\ failures \in 0 .. MaxFailures
    /\ ok \in [Callers -> BOOLEAN]
    /\ clean \in BOOLEAN

NoCopies == [i \in Txns |-> 0]

Init ==
    /\ round = 1
    /\ \E n \in 0 .. MaxPerRound : upTo = [r \in Rounds |-> IF r = 0 THEN 0 ELSE n]
    /\ clock = 1
    /\ lastRound = 0 /\ lastUpdated = 0 /\ copies = NoCopies
    /\ pc = [c \in Callers |-> "idle"]
    /\ mode = [c \in Callers |-> "Refresh"]
    /\ lifetime = [c \in Callers |-> 0]
    /\ now = [c \in Callers |-> 0]
    /\ pos = 0 /\ watermark = 0
    /\ saved = [lastRound |-> 0, lastUpdated |-> 0, copies |-> NoCopies, clean |-> TRUE]
    /\ crashes = 0 /\ failures = 0
    /\ ok = [c \in Callers |-> FALSE]
    /\ clean = TRUE

-----------------------------------------------------------------------------
\* The indexer indexes one more round, with n matching transactions.
IndexRound(n) ==
    /\ round < MaxRound
    /\ round' = round + 1
    /\ upTo' = [r \in Rounds |-> IF r > round THEN upTo[round] + n ELSE upTo[r]]
    /\ UNCHANGED <<clock, cache, pc, call, scan, store, ok, clean>>

Tick ==
    /\ clock < MaxClock
    /\ clock' = clock + 1
    /\ UNCHANGED <<indexer, cache, pc, call, scan, store, ok, clean>>

-----------------------------------------------------------------------------
LockFree == \A c \in Callers : pc[c] # "scan"

\* The call ends, its locals go out of scope and the lock is released.
Return(c, success) ==
    /\ pc' = [pc EXCEPT ![c] = "idle"]
    /\ ok' = [ok EXCEPT ![c] = success]
    /\ lifetime' = [lifetime EXCEPT ![c] = 0]
    /\ now' = [now EXCEPT ![c] = 0]
    /\ UNCHANGED mode

\* fetch_transactions_cached reads the clock; the lock comes later.
Call(c, m, l) ==
    /\ pc[c] = "idle"
    /\ pc' = [pc EXCEPT ![c] = "lock"]
    /\ mode' = [mode EXCEPT ![c] = m]
    /\ lifetime' = [lifetime EXCEPT ![c] = l]
    /\ now' = [now EXCEPT ![c] = clock]
    /\ UNCHANGED <<indexer, clock, cache, scan, store, ok, clean>>

\* scan_cache_is_fresh, with the saturating subtraction of the code.
ScanCacheIsFresh(c) ==
    LET age == IF now[c] < lastUpdated THEN 0 ELSE now[c] - lastUpdated
    IN  age < lifetime[c]

SkipsNetwork(c) ==
    \/ mode[c] = "CacheOnly"
    \/ mode[c] = "Refresh" /\ lastUpdated # 0 /\ ScanCacheIsFresh(c)

\* The lock is taken and the cache serves as it is.
ServeCached(c) ==
    /\ pc[c] = "lock" /\ LockFree
    /\ SkipsNetwork(c)
    /\ Return(c, TRUE)
    /\ UNCHANGED <<indexer, clock, cache, scan, store, clean>>

\* Mutant: min_round is last_round instead of last_round + 1.
MutStartPos(m) ==
    IF m = "ForceFull" \/ lastUpdated = 0 \/ lastRound = 0 THEN 0 ELSE upTo[lastRound - 1]

\* Where the page loop starts: at the beginning, or at last_round + 1.
StartPos(m) == IF m = "ForceFull" \/ lastUpdated = 0 THEN 0 ELSE upTo[lastRound]

\* The lock is taken and a full or an incremental page loop begins.
BeginScan(c) ==
    /\ pc[c] = "lock" /\ LockFree
    /\ ~SkipsNetwork(c)
    /\ pc' = [pc EXCEPT ![c] = "scan"]
    /\ IF mode[c] = "ForceFull"
       THEN copies' = NoCopies /\ lastRound' = 0 /\ clean' = TRUE
       ELSE UNCHANGED <<copies, lastRound, clean>>
    /\ watermark' = lastRound'
    /\ pos' = StartPos(mode[c])
    /\ UNCHANGED <<indexer, clock, lastUpdated, call, store, ok>>

Smaller(a, b) == IF a < b THEN a ELSE b
Larger(a, b) == IF a > b THEN a ELSE b

\* The last transaction of the page after the cursor.  A page is computed at
\* the round it reports as current-round, here the last one indexed.
PageEnd == Smaller(pos + PageSize, upTo[round])

Push(to) == [i \in Txns |-> IF pos < i /\ i <= to /\ i \in Ingested
                            THEN copies[i] + 1 ELSE copies[i]]

\* Mutant: the next round to fetch is stored as the last one scanned.
MutRaised == Larger(watermark, round) + 1

\* The watermark after a page.
Raised == Larger(watermark, round)

\* A page arrives and the indexer reports more.  It does so whenever there is
\* more, and may do so after any page that is not empty.
NextPage(c) ==
    /\ pc[c] = "scan"
    /\ PageEnd > pos
    /\ watermark' = Raised
    /\ copies' = Push(PageEnd)
    /\ pos' = PageEnd
    /\ UNCHANGED <<indexer, clock, lastRound, lastUpdated, pc, call, store, ok, clean>>

\* The page is the last one: the cache is stamped and released.
LastPage(c) ==
    /\ pc[c] = "scan"
    /\ PageEnd = upTo[round]
    /\ copies' = Push(PageEnd)
    /\ lastRound' = Raised
    /\ lastUpdated' = now[c]
    /\ pos' = 0 /\ watermark' = 0
    /\ Return(c, TRUE)
    /\ UNCHANGED <<indexer, clock, store, clean>>

\* Mutants: the watermark is stored before the error is returned; a failure
\* throws the cache away.
MutFailPage(c) ==
    /\ pc[c] = "scan" /\ failures < MaxFailures
    /\ failures' = failures + 1
    /\ clean' = (clean /\ pos = upTo[lastRound])
    /\ lastRound' = Larger(watermark, lastRound)
    /\ pos' = 0 /\ watermark' = 0
    /\ Return(c, FALSE)
    /\ UNCHANGED <<indexer, clock, lastUpdated, copies, saved, crashes>>
MutFailPageClears(c) ==
    /\ pc[c] = "scan" /\ failures < MaxFailures
    /\ failures' = failures + 1
    /\ clean' = TRUE /\ lastRound' = 0 /\ copies' = NoCopies
    /\ pos' = 0 /\ watermark' = 0
    /\ Return(c, FALSE)
    /\ UNCHANGED <<indexer, clock, lastUpdated, saved, crashes>>

\* A page request fails and the error is returned: what was pushed stays, the
\* watermark and the stamp are not written.
FailPage(c) ==
    /\ pc[c] = "scan" /\ failures < MaxFailures
    /\ failures' = failures + 1
    /\ clean' = (clean /\ pos = upTo[lastRound])
    /\ pos' = 0 /\ watermark' = 0
    /\ Return(c, FALSE)
    /\ UNCHANGED <<indexer, clock, cache, saved, crashes>>

-----------------------------------------------------------------------------
\* The owner persists the cache under its lock, and resumes from what it
\* persisted after a crash.
Persist ==
    /\ MaxCrashes > 0 /\ LockFree
    /\ saved' = [lastRound |-> lastRound, lastUpdated |-> lastUpdated,
                 copies |-> copies, clean |-> clean]
    /\ UNCHANGED <<indexer, clock, cache, pc, call, scan, crashes, failures, ok, clean>>

Crash ==
    /\ crashes < MaxCrashes
    /\ crashes' = crashes + 1
    /\ lastRound' = saved.lastRound /\ lastUpdated' = saved.lastUpdated
    /\ copies' = saved.copies /\ clean' = saved.clean
    /\ pc' = [c \in Callers |-> "idle"]
    /\ ok' = [c \in Callers |-> FALSE]
    /\ pos' = 0 /\ watermark' = 0
    /\ lifetime' = [c \in Callers |-> 0] /\ now' = [c \in Callers |-> 0]
    /\ UNCHANGED <<indexer, clock, mode, saved, failures>>

Next ==
    \/ \E n \in 0 .. MaxPerRound : IndexRound(n)
    \/ Tick
    \/ \E c \in Callers :
        \/ \E m \in QueryModes, l \in Lifetimes : Call(c, m, l)
        \/ ServeCached(c) \/ BeginScan(c)
        \/ NextPage(c) \/ LastPage(c) \/ FailPage(c)
    \/ Persist
    \/ Crash

Spec == Init /\ [][Next]_vars

-----------------------------------------------------------------------------
(***************************************************************************)
(* Properties                                                              *)
(***************************************************************************)

\* No hit is skipped: every ingested transaction of a round at or below the
\* watermark last_round is among the entries, whatever was indexed between
\* the pages and whichever page requests failed (the next incremental scan
\* starts at last_round + 1 and would never see it again).
WatermarkCovers ==
    \A i \in Txns : i <= upTo[lastRound] /\ i \in Ingested => copies[i] >= 1

\* As long as no page loop failed half way, the entries are exactly the
\* ingested transactions up to the watermark, each of them once.
ExactlyOnceWhenClean ==
    clean /\ LockFree =>
        \A i \in Txns :
            copies[i] = IF i <= upTo[lastRound] /\ i \in Ingested THEN 1 ELSE 0

\* Only ForceFull and a crash move the watermark back, and entries never
\* lose a transaction otherwise (the cache is append-only).
WatermarkOnlyAdvances ==
    [][\/ lastRound' >= lastRound /\ \A i \in Txns : copies'[i] >= copies[i]
       \/ crashes' > crashes
       \/ \E c \in Callers : pc[c] = "lock" /\ pc'[c] = "scan" /\ mode[c] = "ForceFull"]_vars

(***************************************************************************)
(* Claims of the repository that the code does not keep                    *)
(***************************************************************************)

\* TxnScanCache: "a refresh fetches only rounds past last_round and pushes the
\* new hits"; no transaction is pushed twice.
PushedOnce == \A i \in Txns : copies[i] <= 1

\* QueryMode::Refresh: "an empty cache does a full scan"; a Refresh that
\* returns Ok leaves a cache that was scanned.
RefreshServesScannedCache ==
    [][\A c \in Callers :
         (pc[c] # "idle" /\ pc'[c] = "idle" /\ ok'[c] /\ mode[c] = "Refresh")
         => lastRound' > 0]_vars
=============================================================================
