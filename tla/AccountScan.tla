----------------------------- MODULE AccountScan -----------------------------
(***************************************************************************)
(* The append-with-revisit account scan of AlgoOps:                        *)
(* fetch_opted_in_accounts_cached and its engine on one AccountScanCache,  *)
(* while accounts opt in, opt out and change their local state between     *)
(* the requests of a refresh, and any request may fail.                    *)
(*                                                                         *)
(* The indexer is external.  An account is a number, its place in the      *)
(* address order of search_for_accounts.  Every change of local state is   *)
(* made by one application transaction of its own round that names the     *)
(* account, so that touched[r] is what collect_changed_addresses finds in  *)
(* round r.  A refresh holds the cache's mutex from end to end, so there   *)
(* is at most one and the callers need no identity.                        *)
(***************************************************************************)
EXTENDS Integers

CONSTANTS
    NumAccounts,   \* accounts 1 .. NumAccounts, in address order
    LocalStates,   \* the local states an opted-in account can hold
    OptedOut,      \* the local state of an account that is not opted in
    Rejected,      \* the local states the caller's ingest maps to None
    NoEntry,       \* stands for the absence of an entry
    Lifetimes,     \* the cache_lifetime_secs callers pass; 0 stands for None
    PageSize,      \* rounds per page of the change-discovery scan
    MaxRound,      \* bound: last round
    MaxClock,      \* bound: last value of the wall clock
    MaxCrashes     \* bound: crashes of the process that owns the cache

ASSUME StateAssumption ==
    /\ OptedOut \notin LocalStates /\ NoEntry \notin LocalStates
    /\ Rejected \subseteq LocalStates /\ Lifetimes \subseteq Nat
ASSUME SizeAssumption ==
    /\ NumAccounts \in Nat \ {0} /\ PageSize \in Nat \ {0}
    /\ MaxRound \in Nat \ {0} /\ MaxClock \in Nat \ {0} /\ MaxCrashes \in Nat

VARIABLES
    round,       \* the last round the indexer has indexed
    local,       \* each account's local state as of that round
    touched,     \* the account named by the transaction of each round
    clock,       \* SystemTime, in seconds
    lastRound,   \* AccountScanCache::last_round
    lastUpdated, \* AccountScanCache::last_updated
    entries,     \* AccountScanCache::entries, keyed by address
    phase,       \* what the refresh is doing: "idle", "full", "discover", "lookup"
    now,         \* the clock as the refresh read it
    pos,         \* pagination cursor: an address, or a round when discovering
    watermark,   \* the round the refresh will stamp
    changed,     \* discovered addresses that still have to be re-read
    saved,       \* the cache as last persisted by its owner
    crashes      \* crashes so far

indexer == <<round, local, touched>>
cache == <<lastRound, lastUpdated, entries>>
refresh == <<phase, now, pos, watermark, changed>>
store == <<saved, crashes>>
vars == <<indexer, clock, cache, refresh, store>>

Accounts == 1 .. NumAccounts
Rounds == 0 .. MaxRound
Nobody == 0

\* The caller's ingest, applied to what the indexer says of an account; an
\* account that has opted out is not handed to it.
Ingest(state) == IF state = OptedOut \/ state \in Rejected THEN NoEntry ELSE state

TypeOK ==
    /\ round \in 1 .. MaxRound
    /\ local \in [Accounts -> LocalStates \cup {OptedOut}]
    /\ touched \in [1 .. MaxRound -> Accounts \cup {Nobody}]
    /\ clock \in 1 .. MaxClock
    /\ lastRound \in 0 .. round
    /\ lastUpdated \in 0 .. MaxClock
    /\ entries \in [Accounts -> LocalStates \cup {NoEntry}]
    /\ phase \in {"idle", "full", "discover", "lookup"}
    /\ now \in 0 .. MaxClock
    /\ pos \in Nat
    /\ watermark \in 0 .. round
    /\ changed \subseteq Accounts
    /\ saved \in [lastRound : 0 .. round, lastUpdated : 0 .. MaxClock,
                  entries : [Accounts -> LocalStates \cup {NoEntry}]]
    /\ crashes \in 0 .. MaxCrashes

NoEntries == [a \in Accounts |-> NoEntry]

Init ==
    /\ round = 1
    /\ local = [a \in Accounts |-> OptedOut]
    /\ touched = [r \in 1 .. MaxRound |-> Nobody]
    /\ clock = 1
    /\ lastRound = 0 /\ lastUpdated = 0 /\ entries = NoEntries
    /\ phase = "idle" /\ now = 0 /\ pos = 0 /\ watermark = 0 /\ changed = {}
    /\ saved = [lastRound |-> 0, lastUpdated |-> 0, entries |-> NoEntries]
    /\ crashes = 0

-----------------------------------------------------------------------------
\* An application transaction names account a and leaves it in state s: an
\* opt-in, an opt-out, a change, or no change at all.
AppTxn(a, s) ==
    /\ round < MaxRound
    /\ round' = round + 1
    /\ local' = [local EXCEPT ![a] = s]
    /\ touched' = [touched EXCEPT ![round + 1] = a]
    /\ UNCHANGED <<clock, cache, refresh, store>>

Tick ==
    /\ clock < MaxClock
    /\ clock' = clock + 1
    /\ UNCHANGED <<indexer, cache, refresh, store>>

-----------------------------------------------------------------------------
\* scan_cache_is_fresh, with the saturating subtraction of the code.
ScanCacheIsFresh(lifetime) ==
    (IF clock < lastUpdated THEN 0 ELSE clock - lastUpdated) < lifetime

\* Mutant: only the stamp is looked at.
MutNeverScanned == lastUpdated = 0

\* Nothing was ever scanned, or the last full scan did not finish.
NeverScanned == lastUpdated = 0 \/ lastRound = 0

\* Mutant: the entries of the scan before stay.
MutBeginFull ==
    /\ phase' = "full"
    /\ now' = clock
    /\ pos' = 0
    /\ watermark' = 0
    /\ UNCHANGED entries

\* The page loop of a full scan begins with an empty set of entries.
BeginFull ==
    /\ phase' = "full"
    /\ now' = clock
    /\ pos' = 0
    /\ watermark' = 0
    /\ entries' = NoEntries

\* QueryMode::ForceFull also drops the watermark.
ForceFull ==
    /\ phase = "idle"
    /\ BeginFull
    /\ lastRound' = 0
    /\ UNCHANGED <<indexer, clock, lastUpdated, changed, store>>

\* QueryMode::Refresh of a cache that was never scanned.
Bootstrap ==
    /\ phase = "idle" /\ NeverScanned
    /\ BeginFull
    /\ UNCHANGED <<indexer, clock, lastRound, lastUpdated, changed, store>>

\* QueryMode::Refresh of a stale cache; a fresh one, and CacheOnly, change
\* nothing.
BeginIncremental(lifetime) ==
    /\ phase = "idle" /\ ~NeverScanned /\ ~ScanCacheIsFresh(lifetime)
    /\ phase' = "discover"
    /\ now' = clock
    /\ pos' = lastRound
    /\ watermark' = lastRound
    /\ changed' = {}
    /\ UNCHANGED <<indexer, clock, cache, store>>

\* The cache is stamped and the lock released.
Finish(lr) ==
    /\ lastRound' = lr
    /\ lastUpdated' = now
    /\ phase' = "idle" /\ now' = 0 /\ pos' = 0 /\ watermark' = 0 /\ changed' = {}

Larger(a, b) == IF a > b THEN a ELSE b

\* Mutants: the current-round of the last page; the round after it.
MutFullWatermark == round
MutFullWatermarkNext == round + 1

\* The watermark of a full scan is the least current-round of its pages; pos
\* is 0 until the first page arrived.
FullWatermark == IF pos = 0 THEN round
                 ELSE IF round < watermark THEN round ELSE watermark

\* A page of search_for_accounts holds the accounts after the cursor up to
\* some address, as they are in the current round.
FullPage(to) ==
    /\ phase = "full"
    /\ to \in pos + 1 .. NumAccounts
    /\ entries' = [a \in Accounts |-> IF pos < a /\ a <= to THEN Ingest(local[a])
                                      ELSE entries[a]]
    /\ \/ /\ to < NumAccounts
          /\ watermark' = FullWatermark
          /\ pos' = to
          /\ UNCHANGED <<lastRound, lastUpdated, phase, now, changed>>
       \/ /\ to = NumAccounts
          /\ Finish(FullWatermark)
    /\ UNCHANGED <<indexer, clock, store>>

\* A page of change discovery holds the transactions of the rounds after the
\* cursor; the last one reaches the current round.
DiscoverPage(to) ==
    /\ phase = "discover"
    /\ to <= round /\ pos <= to /\ to <= pos + PageSize
    /\ changed' = changed \cup ({touched[r] : r \in pos + 1 .. to} \ {Nobody})
    /\ watermark' = Larger(watermark, round)
    /\ pos' = to
    /\ \/ to > pos /\ UNCHANGED phase
       \/ to = round /\ phase' = "lookup"
    /\ UNCHANGED <<indexer, clock, cache, now, store>>

\* Mutant: an account that has opted out keeps its entry.
MutLookupAccount(a) ==
    /\ phase = "lookup" /\ a \in changed
    /\ entries' = [entries EXCEPT ![a] = IF Ingest(local[a]) = NoEntry THEN @
                                         ELSE Ingest(local[a])]
    /\ changed' = changed \ {a}
    /\ UNCHANGED <<indexer, clock, lastRound, lastUpdated, phase, now, pos, watermark, store>>

\* One changed account is re-read: upsert_account_entry, or
\* remove_account_entry when it has opted out or ingest rejects it.
LookupAccount(a) ==
    /\ phase = "lookup" /\ a \in changed
    /\ entries' = [entries EXCEPT ![a] = Ingest(local[a])]
    /\ changed' = changed \ {a}
    /\ UNCHANGED <<indexer, clock, lastRound, lastUpdated, phase, now, pos, watermark, store>>

FinishIncremental ==
    /\ phase = "lookup" /\ changed = {}
    /\ Finish(watermark)
    /\ UNCHANGED <<indexer, clock, entries, store>>

\* A request fails; what was changed stays, nothing is stamped.
FailRequest ==
    /\ \/ phase \in {"full", "discover"}
       \/ phase = "lookup" /\ changed # {}
    /\ phase' = "idle" /\ now' = 0 /\ pos' = 0 /\ watermark' = 0 /\ changed' = {}
    /\ UNCHANGED <<indexer, clock, cache, store>>

\* AccountScanCache::clear, called by the owner through a lock guard.
Clear ==
    /\ phase = "idle"
    /\ lastRound' = 0 /\ lastUpdated' = 0 /\ entries' = NoEntries
    /\ UNCHANGED <<indexer, clock, refresh, store>>

-----------------------------------------------------------------------------
\* The owner persists the cache under its lock, and resumes from what it
\* persisted after a crash.
Persist ==
    /\ MaxCrashes > 0 /\ phase = "idle"
    /\ saved' = [lastRound |-> lastRound, lastUpdated |-> lastUpdated, entries |-> entries]
    /\ UNCHANGED <<indexer, clock, cache, refresh, crashes>>

Crash ==
    /\ crashes < MaxCrashes
    /\ crashes' = crashes + 1
    /\ lastRound' = saved.lastRound /\ lastUpdated' = saved.lastUpdated
    /\ entries' = saved.entries
    /\ phase' = "idle" /\ now' = 0 /\ pos' = 0 /\ watermark' = 0 /\ changed' = {}
    /\ UNCHANGED <<indexer, clock, saved>>

Refreshing ==
    \/ \E to \in Accounts : FullPage(to)
    \/ \E to \in Rounds : DiscoverPage(to)
    \/ \E a \in Accounts : LookupAccount(a)
    \/ FinishIncremental

Next ==
    \/ \E a \in Accounts, s \in LocalStates \cup {OptedOut} : AppTxn(a, s)
    \/ Tick
    \/ ForceFull \/ Bootstrap
    \/ \E l \in Lifetimes : BeginIncremental(l)
    \/ Refreshing
    \/ FailRequest
    \/ Clear
    \/ Persist
    \/ Crash

Spec == Init /\ [][Next]_vars

\* Requests are answered (with_timeout bounds them), but may keep failing;
\* the poller keeps refreshing with a lifetime that is over at once.
FairSpec ==
    /\ Spec
    /\ WF_vars(Refreshing)
    /\ WF_vars(Bootstrap \/ \E l \in Lifetimes : BeginIncremental(l))

-----------------------------------------------------------------------------
(***************************************************************************)
(* Properties                                                              *)
(***************************************************************************)

\* The round after which account a was not named by any transaction.
UnchangedSince(a, r) == \A q \in r + 1 .. round : touched[q] # a

\* The entry of an account says what the indexer says of it.
Current(a) == entries[a] = Ingest(local[a])

\* The watermark is honest: an account that was not touched after last_round
\* has the entry its local state calls for, whatever changed between the
\* requests of the scans and whichever of them failed.  The next refresh
\* re-reads only accounts touched after last_round, so anything else would
\* stay wrong until a ForceFull.
WatermarkHonest ==
    lastRound > 0 =>
        \A a \in Accounts : UnchangedSince(a, lastRound) => Current(a)

\* The inductive invariant behind WatermarkHonest.  StampedTogether: a cache
\* without a stamp has no watermark, so that Bootstrap starts from round 0.
StampedTogether ==
    /\ lastUpdated = 0 => lastRound = 0
    /\ saved.lastUpdated = 0 => saved.lastRound = 0
    /\ phase # "idle" => now > 0

\* The pages of a full scan so far are right about the accounts that were not
\* touched since the first of them.
FullScanSound ==
    phase = "full" =>
        /\ lastRound = 0
        /\ pos <= NumAccounts
        /\ pos > 0 => /\ watermark > 0
                      /\ \A a \in 1 .. pos : UnchangedSince(a, watermark) => Current(a)

\* Change discovery has found every account touched up to its cursor.
DiscoverySound ==
    phase = "discover" =>
        /\ lastRound > 0
        /\ lastRound <= pos /\ pos <= round
        /\ \A q \in lastRound + 1 .. pos : touched[q] \in changed \cup {Nobody}

\* The accounts that are not waiting for their lookup are up to date as far
\* as the watermark goes.
LookupSound ==
    phase = "lookup" =>
        /\ watermark > 0
        /\ \A a \in Accounts \ changed : UnchangedSince(a, watermark) => Current(a)

\* What was persisted was honest then and still is.
SavedHonest ==
    saved.lastRound > 0 =>
        \A a \in Accounts :
            UnchangedSince(a, saved.lastRound) => saved.entries[a] = Ingest(local[a])

ScanInv ==
    /\ TypeOK
    /\ StampedTogether
    /\ WatermarkHonest
    /\ FullScanSound
    /\ DiscoverySound
    /\ LookupSound
    /\ SavedHonest

\* last_round moves back only when the cache is emptied or reloaded.
WatermarkOnlyAdvances ==
    [][lastRound' < lastRound => entries' = NoEntries \/ crashes' > crashes]_vars

\* Once the chain is quiet and refreshes stop failing, the cache catches up
\* with every account and stays there.
Failing == FailRequest \/ Clear \/ ForceFull \/ Crash
CatchesUp ==
    []<><<Failing>>_vars \/ <>[](\A a \in Accounts : Current(a))
=============================================================================
