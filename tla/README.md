# A TLA+ model of blockchain_ops_rust

The repository is a set of Rust crates for clients of the Algorand chain:
`algo_ops` (the client itself, almost all of it in `algo_ops/src/ops.rs`),
`blockchain_account_vault` (sealed key files), `sidewinder_ops` (a client of a
side chain), `sw_identity_tls` (mutual TLS between on-chain identities) and
`blockchain_ops` (traits). This directory models the parts of them that keep
state and share it between threads, processes, files and a remote chain.

## Inventory

| Part | State | Operations | What is hard |
|---|---|---|---|
| Outbound call path | limiters and counter behind mutexes, `attempt` of a call | `algod_call`, `indexer_call`, `call_with_retry`, `apply_rate_limit`, `block_seed` | locks released between check and charge, sleeps, retries, timeouts |
| Daily budget | `window_start_unix`, `spent` | `roll`, `check`, `record`, `daily_budget_state`, `with_daily_spent` | day boundaries, clock set back, restart from a snapshot |
| Token bucket | `tokens`, `last_refill` | `poll` | lazy refill, waiters without a queue |
| Transaction scan cache | `entries`, `last_round`, `last_updated` | `fetch_transactions_cached` (Refresh, CacheOnly, ForceFull) | rounds indexed between pages, a page that fails, crash of the owner |
| Account scan cache | the same, keyed by address | `fetch_opted_in_accounts_cached`, `clear` | accounts that change between pages, failing lookups |
| Signing operations | none but the chain | `send_*`, `create_*`, `deploy_app`, `change_asset_reserve_address`, `wait_for_confirmation`, ... | several transactions without a way back, lost answers, stale reads |
| Queries | an application-creator cache | `confirmed_transaction`, note search, `app_creator` | errors that look like absence |
| Atomic groups | the legs collected so far | `sign_and_send` | one submission with a representative transaction |
| Vault | key files, plain and sealed; the cached password | the commands `create`, `seal`, `open`, `print`; `AccountDir::read_bytes` | a kill between write and removal, commands at the same time without a lock, several passwords |
| Sidewinder client | its transport and pin; the retry loop of a call | `submit`, `watch`, `status`, `params`, `operations`, `health`, `get`; `connect`, `connect_pinned`, `from_algo_ops` | a retried submission, a node that has moved, a refusal that looks like a broken connection |
| Identity TLS | last authenticated peer, endpoint scan | handshakes, membership, `resolve` | one slot shared by handshakes, membership that was polled earlier |

Everything in `algo_ops` that talks to the network goes through the call path.
A client is cloned freely; the clones share the limiters and the counter.
The scan caches belong to the caller, who hands them in behind a mutex and may
persist them. The signing operations are sequences of calls. The TLS resolver
and the membership source sit on the account scan. The vault's commands are
processes that share nothing but the directory. The Sidewinder client finds its
node through the resolver, pins its identity, and shares one verifier between all
its threads. `PROJECT.json` lists every
part, and every hazard at its line.

What makes each part correct:

- call path: no request passes one limiter and is refused by another after
  being charged; retries are bounded and exhausted; every call returns;
- budget: no window admits more than the maximum plus the racing threads plus
  what a crash forgot; no count is forgotten inside its window;
- bucket: every interval is bounded; waits are exact; tokens keep flowing;
- caches: nothing at or below the watermark is missing or wrong;
- signing: Ok means done, and a failure leaves at most one transaction in doubt;
- vault: no key is ever lost, a directory has one password, and a key's clear form
  goes only when its sealed one is whole;
- Sidewinder client: a request is applied once however often it is sent, only the
  pinned node is talked to, and what a node said is final and reported as such.

## Modules

| Module | Models | Proofs |
|---|---|---|
| `DailyBudget` | `DailyBudget` of ops.rs, as operators on `[window, spent]` | |
| `RateLimiter` | `RateLimiter`, as operators on `[tokens, age]` | `RateLimiterProofs` |
| `CallPath` | the call path, composing the two; clock, snapshot, restart | `CallPathProofs` |
| `BucketWaiters` | the Block loop over `RateLimiter` with endless time | `BucketWaitersProofs` |
| `TxnScan` | the transaction scan cache | `TxnScanProofs` |
| `AccountScan` | the account scan cache | `AccountScanProofs` |
| `Submission` | the signing operations and `wait_for_confirmation` | `SubmissionProofs` |
| `KeyStore` | what the vault promises: keys in forms, without files or commands | |
| `Vault` | the commands on a directory of key files; implements `KeyStore` | `VaultProofs` |
| `Session` | the Sidewinder client over identity TLS, its nodes and the parent chain | `SessionProofs` |

`MCCallPath`, `MCBucketWaiters`, `MCTxnScan`, `MCAccountScan`, `MCSubmission`,
`MCVault` and `MCSession` are the modules TLC runs.

**CallPath.** One action per locked section of `apply_rate_limit`: `ReadClock`,
`CheckBudget`, `PollBucket` (with `Wake` for the sleep), `RecordBudget`,
`CountRequest`; then `Respond` and `Retry` for `call_with_retry`, whose answers
are the classes of `is_retryable_for`. `BlockSeed` is the one request that
bypasses all of them. `Tick` and `SetClockBack` are the clocks, `Snapshot` and
`Restart` what an owner does who persists `daily_budget_state` and
`requests_made`. `with_daily_spent` takes any count; to hand it the saved one only
when the saved window is still the current one is the owner's duty (ops.rs:274-278),
and `RestoredSpent` models an owner who does. A day has `DayLen` units and any offset, the first window is
clamped at 0 as in the code. Integers do not wrap: the code's `u32` and `u64`
counters are far from their limits.

**RateLimiter.** Tokens are counted in units of `1 / Per` of a token, so the
refill is exact. The code computes in `f64`; rounding is outside the model.
`age` is the time since `last_refill`, capped where the bucket is full anyway.

**TxnScan.** Transactions are numbered as they are indexed; `upTo[r]` is the
last of round r. `Call` reads the clock before it waits for the cache's lock;
`BeginScan` takes it, and `NextPage`, `LastPage` and `FailPage` are the turns of
the page loop. The current round of a page grows with each request: an indexer
whose round goes back between pages is outside the model (see Observations).

**AccountScan.** `AppTxn` touches an account in a new round. `Bootstrap`,
`ForceFull` and `FullPage` are the full scan with its minimum over the pages'
rounds, `BeginIncremental`, `DiscoverPage`, `LookupAccount` and
`FinishIncremental` the incremental one, `FailRequest` the failure of any request.

**Submission.** An operation is a sequence of steps (`Script`): checks, reads
of a holding, and transactions. Each transaction is submitted (`Submit`, whose
answer may be lost after the node took it) and awaited (`ReadStatus`, `Pending`,
`PendingLost`, `WaitBlock`, `FailWait`: `wait_for_confirmation` line by line).
algod answers `status_after_block` after a minute even when there is no new block,
and the code counts a round whatever the answer, so `WaitBlock` waits for nothing.
An operation that has created something reads the transaction a second time for the
id (`ReadResult`); a node that is behind answers without one, and `create_asset` and
`deploy_app` then return `Ok(None)` (`"ok_none"`), the latter without its other
transactions. Those reads and `Pending` may be answered by a node that is behind, the
checks and the reads of a holding are of the latest round. A read that decides nothing is part of the submission it precedes. The chain is
external: one asset, one application, at most one transaction per round, and
transactions that are confirmed late, rejected with a pool error, or dropped. A
transaction whose operation has given up on it stays in the pool (`orphans`)
and may be confirmed later. `deploy_app` is modelled with an asset. An atomic group
(`sign_and_send`) is one transaction that moves units and calls the application:
the ledger takes its legs together, and the code waits for one of them. Of the
application the model knows whether it was created, funded and deleted, and who
is a member. The fields `done`, `doubt`, `blind`, `arrived` and `undone` are history.

**Vault.** A command is a process. Its phases are the code's, and every file
operation is an action: `Ask` and `Check` (password, `--same-password-as`, the
check against what is sealed), `Refuse` (`refuse_existing`, after the search for
the key), `Look` (the existence checks and the read at the head of `Vault::seal`,
one action: what another process does between them can only make `create_new`
or the read fail), `Make` (`create_new`), `Fill` (`write_all` and `sync_all`
through the open handle), `Verify` (the read-back), `Remove`. A write may fail
half-way (`FillFails`) or be reported as done and not be (`FillDamaged`), a removal
may fail, and `Crash` may come anywhere. `open`, `print` and `AccountDir` share the
reading side: `Source` picks the form, `Decrypt` tries the cached password first,
`BackupPage` is what `print` puts on paper. An envelope is opaque: it opens under
its own password. `sync_all` is taken at its word, directory entries included: the
code syncs no directory, so on a file system where the removal of the plaintext
can become durable before the entry of the sealed file, `KeyKept` is not promised.
`kept`, `unguarded` and `mixed` are history.

**Session.** The world is external: which node listens where, what it has
published, the permission bits on the chain, and the bit as each node polled it
last (`Deploy`, `Stop`, `Publish`, `Permit`, `Poll`). `Resolve` and `Connect` are
`resolve_nodes` and `resolve_and_connect` with the time between them;
`ConnectPinned` and `FromAlgoOps` the other ways to a client. A call is `Start`
(which builds the transaction), then per attempt `Handshake` (the pinned verifier
of `sw_identity_tls/client.rs`), the node's `Handle` or `Deny`, and `Receive` or
`HearRefusal`; `Break`, `CannotConnect` and `Timeout` are the transport failures
and go through `Fail`, the decision of the retry loop, to `Retry` or a result.
`Outcome` is the table of all operations. A submission whose connection broke on
its way is kept in `late` and may still `Arrive`. Whether the text of a failure
looks like an unreachable host is a free choice where the code's list of phrases
does not decide it.

## Runs

| Run | Question | Instance |
|---|---|---|
| `callpath` | Limiters and counter under races, a day boundary, a clock set back, a crash | 2 threads, Reject, max 1 a day, bucket of 1, walls 2..3 around a boundary of a 2-unit day with offset 1, one restart, one clock change, calls start until 3 requests are made |
| `callpath_calls` | Retries, the counter, and that calls return | 2 threads, Block, all six answers, both kinds, `MAX_RETRIES` 3 as in the code, bucket of 4 and 5 a day so that one call can spend all its attempts and two cannot, `block_seed` |
| `callpath_rollback` | Does a window admit at most max plus the racers? **Violated** | 2 threads, 3 a day |
| `bucket` | Rate over every interval, exact waits, progress | 3 threads, 2 per 5 units, intervals of up to 5 units, endless time |
| `txnscan` | Coverage and uniqueness of the entries | 2 callers, all modes, 2 rounds of up to 2 transactions, pages of 1, one failure, one crash |
| `txnscan_dup` | Is each hit pushed once? **Violated** | 1 caller, one failure |
| `txnscan_forcefull` | Does Refresh of an empty cache scan? **Violated** | 1 caller, one failure |
| `accountscan` | Honesty of the watermark, and catching up | 2 accounts, 2 local states of which one is not ingested, 4 rounds, pages of 1, one crash, failures without bound |
| `submission` | Ok means done; one transaction in doubt at most; whole hand-over; timely confirmations are seen by a last look that is answered after a block | 2 accounts, 2 operations, 4 rounds, `timeout_rounds` 2, an application that is there already or not |
| `submission_returns` | Every operation returns | the same with 1 operation |
| `vault` | No key lost; one password; pages under their file's password; implements `KeyStore` | 2 files in every combination of forms, 2 processes, 2 passwords, 3 commands, 1 failed or damaged write or removal, kills without bound |
| `session` | Applied once; pinned node only; what was heard is final; a watch returns | 2 nodes, 2 addresses, 2 callers with the same request, `MAX_RETRIES` 1, 2 calls, 2 changes of the world or the client |

The bounds are the smallest that let the interesting cases meet. Two threads
are enough for a race on the check, because the soft cap is stated in the
number of threads and the theorems hold for any number. Walls 2..3 hold the end
of one window and the start of the next, and setting the clock back by 2 reaches
the window clamped at the epoch. Pages of one item make every scan of two items
a scan with changes between its pages. Four rounds let `deploy_app` confirm its
four transactions, and with `timeout_rounds` 2 a wait can also run out. Two
operations are either concurrent or one after the other by the same account,
with the first one's lost transaction still in the pool. `send_algo` and
`create_asset` are not run by themselves: their steps are those of
`deploy_app`'s first two transactions; `update_app` and `close_out_app` are left to
`delete_app` and `clear_state_app`, which take the same steps. In `vault` two
commands race and a third finds what they left, such as the two forms of an
interrupted seal; one fault is enough, as kills come on top of it. In `session`
one retry tells a first attempt from a repeated one, two callers with one request
are what a second submission of it needs, and two changes let a node leave its
address and another take it, or the client's bit be cleared and set. (The theorems
hold for any number of each.) Symmetry over threads, callers, processes and
passwords is used in runs without liveness only.

CHECK_DEADLOCK is off where the bounded instance ends: no call need start, and
clocks and rounds stop at their bound. `bucket` has no such end and checks it.

**Fairness.** `callpath_calls`: a thread that can run is scheduled, and
`with_timeout` ends every request; no call is obliged to start and the clock
need not move, so the property lets a Block call sleep. `bucket`: time passes and
every thread in the loop is scheduled; the mutex promises no order. `accountscan`:
the owner keeps refreshing, and the started scan goes on; failures are not
excluded, `CatchesUp` is stated against them. `submission_returns`: each client
keeps running and each request ends, as `with_timeout` sees to; nothing is assumed
of the chain, so a wait for a block may end without a block, by an early answer or by
its own failure. `session`: a
caller's own timer runs out and its back-off ends (`Timeout`, `Retry`); nothing is
assumed of the network or a node, so only `watch`, which alone sets a timeout, is
shown to return.

## Findings

- **A late record rolls the budget back** (`callpath_rollback`, ops.rs:924).
  `now_secs` is read before the bucket is waited for. A thread that records after
  another has rolled to the next day moves the window back and zeroes the count,
  so each straggler gives the new day a fresh allowance. The doc at ops.rs:199
  promises at most a few over `max`. What does hold, and is proved: as long as no
  such step happens, a window admits at most `max + threads - 1` plus what
  crashes forgot.
- **A failed page loop duplicates hits** (`txnscan_dup`, ops.rs:2498).
- **A failed ForceFull leaves an empty cache that counts as fresh**
  (`txnscan_forcefull`, ops.rs:2473).

Observations that have no run of their own:

- `wait_for_confirmation` counts answers, not rounds. `status_after_block` answers after
  a minute without a block; the answer is discarded and `current_round` goes up by one
  (ops.rs:4391). On a stalled chain the wait ends before `timeout_rounds` rounds have
  been made, although the doc at ops.rs:4350 says it waits for "up to `timeout_rounds`
  rounds" and the error says "Transaction not confirmed after {} rounds"; the
  transaction may still be confirmed in those rounds. What holds, is checked and
  proved (`ConfirmedInTimeIsSeen`): if its last look was answered and came after a
  block, nothing confirmed in its rounds was missed, however many early answers came
  before, because `current_round` is absolute. The early answer is part of the model
  (`WaitBlock`).
- `deploy_app` can end with `Ok(None)` after its first transaction (ops.rs:3786): when the
  second look at the confirmed create transaction is answered without an application
  id, `unwrap_or(0)` skips the funding, the opt-in and the clawback, although the doc at
  ops.rs:3619 says that the app "is opted into this ASA immediately after creation".
  The exit is part of the model (`ReadResult`). What holds, is checked and proved
  (`OkMeansDone`): the create transaction is confirmed, and with `Ok(Some(id))`
  everything has been done.
- `block_seed` (ops.rs:1953) is sent without limiter or counter, although
  `requests_made` is said to count every request; `CountedBeforeSent` is stated
  with this exception.
- In Block mode a sleeper keeps no place in line and can be overtaken for ever;
  the doc says the request "always eventually goes out". `AloneGoesOut` is the
  part that holds.
- If an indexer's round went back between two pages, the maximum taken at
  ops.rs:2509 would skip rounds, contrary to the comment there.
- `wait_for_confirmation` with `timeout_rounds = 1` looks only before it waits,
  so it misses a confirmation in the one round it is given.
  `ConfirmedInTimeIsSeen` holds from 2 on; every caller in the crate passes 10.
- A `seal` that is cut off before it removes the plaintext leaves a file in both
  forms, which `is_sealed` denies: the next command's password check passes it
  over, and the directory can get a second password. So can two sealing commands
  at the same time. `OnePassword` is stated with both exceptions.
- `seal` can read a plaintext file that `create --plain` has created and not yet
  written; it seals the fragment and removes the file under the writer's handle,
  and `create` reports success. `KeyKept` excepts it (`unguarded`).
- `write_new_plain`, unlike `seal_new`, reads nothing back, so a damaged write of
  a plain key file is never noticed (`unguarded` again).
- An `IdentityRefused` or `HostUnreachable` of a `submit` does not mean that the
  transaction was not taken: an earlier attempt may have been, with its answer
  lost. Nor does `HostUnreachable` mean that nobody was there: "error sending
  request" is also the text of a handshake with the wrong node.
- The verifier's slot is set when the certificate has been checked, before the
  handshake's own signature: `authenticated_peer` is not quite "the last
  successful handshake" of its doc. With the pin it can name nobody else.

## Proofs

`CallPathProofs` proves, for any set of threads, any budget, bucket, day length,
offset, mode and bounds (the named ASSUMEs of `DailyBudget`, `RateLimiter` and
`CallPath`):

- `RetryInvariant`: the requests a call has made are told by its `attempt`, and
  a thread backs off only with attempts left. `TypeCorrect` and
  `RetriesAreExhausted` follow. The bound on requests alone is not inductive: it
  needs to know where in the loop the thread is.
- `LimitersChargedTogether`: by counting the threads between two charges. Each
  step moves one thread from one label to another, which changes the cardinality
  of a set of threads by at most one (`MoveCounts`).
- `BudgetInvariant`: `SpentWithinSoftCap` is inductive because a thread passes
  the check only if the count is below the maximum, so with it at most all
  threads but one can be pending. What a window has *admitted* needs
  `WindowsSettled` (later windows are empty, earlier ones settled, the current
  one is counted up to what was lost) and `SnapshotCovers` (what a crash can lose
  is what was recorded since the snapshot). `SpentIsCapped` and
  `AdmissionIsCapped` follow.
- `SpentIsKept`: an action property, from the fact that a time lies in the
  window that `window_start_for` gives it (`WindowContains`), also when clamped.
- `EveryRequestIsCounted`: again by counting threads, here those between the
  counter and the request.
- `RefusalWaitIsExact`: a statement about every budget and every time of the call,
  not about a behaviour. It rests on the day-starts being whole days past the offset
  (`WholeDays`); the window clamped at the epoch is refused and passes just as exactly,
  but does not end at a day-start.

`RateLimiterProofs` holds the lemmas about `poll` that the call path and the Block
loop share: a refill never exceeds a full bucket, and the wait it hands out is the
first time at which a token is due (`WaitIsFirstDue`).

`BucketWaitersProofs` proves `TypeCorrect`, `EveryIntervalIsBounded` and
`WaitIsExactHolds`, for any number of threads, any rate and intervals of any length.
A bound on the grants alone is not inductive; `SupplyBounded` counts what the bucket
holds as granted already. A grant then moves a token from one term to the other, and
a unit of time adds one refill to both sides. `SleepsExactly` says that no token is
due before a sleep ends, and that one is due then, unless another thread has been
granted one since.

`TxnScanProofs` proves `WatermarkCoversAlways`, `ExactlyOnce`, `WatermarkAdvances`
and `TypeCorrect`, for any number of callers, page size and growth of the chain.
While a page loop runs the entries are ahead of the watermark, so neither property
is inductive: in `EntriesInv` the loop's cursor takes the watermark's place
(`Reached`), and `PushMoves` carries both from the cursor to the end of a page.
`LockInv` adds that one loop runs at a time, `ChainInv` that rounds are only appended.

`AccountScanProofs` proves `ScanInvariant`, `WatermarkIsHonest` and
`TypeCorrect`, for any number of accounts, rounds, local states, page size and
crashes. Honesty of the watermark is not inductive: `ScanInv` adds what is known
in the middle of a scan. `FullScanSound` says the pages read so far are right
about accounts untouched since the smallest round seen, `DiscoverySound` that
every account touched up to the cursor is among the changed, `LookupSound` that
those not waiting for their lookup are right, and `SavedHonest` carries it all
through a crash. `WatermarkAdvances` needs one fact more, `WatermarkAhead`: the round
an incremental scan is about to store is not behind the one in the cache.

`VaultProofs` proves, for any number of files, processes, passwords, commands and
faults, `TypeCorrect`, `KeyKeptHolds`, `OnePasswordHolds`, `PageUnderItsPasswordHolds`
and the refinement `ImplementsStoreHolds`. Only the fourth is inductive by itself.
`VaultInvariance` proves `TypeInv`: the types, what each phase knows of its locals
(`JobsReady`), that a handle belongs to the process that created the file and the
file is a fragment as long (`Handles`), and that two commands past the creation of
their file are never busy with the same sealed one (`Apart`), because the creation
of a file that is there fails. `SafeInv` adds `WritesWell`: what a seal is about to
write holds the key of the plaintext it read, that plaintext stays as it was read
until the seal itself removes it (`SourceKept`; a half-written one makes its key
unguarded), and a key whose sealed form has been read back is whole on disk when
its clear form goes (`Settled`). The argument needs `Apart`: without it another
command could replace the sealed file between its read-back and the removal.

`OnePassword` needs `SamePassword`: as long as `mixed` is empty there is one sealing
command at a time (`Alone`), and all that is sealed opens with its password once that
has been checked; before, it is a file that `discover` has found and the check has
still to open (`Agrees`).

The refinement maps every file operation to a step of `KeyStore` or a stutter. What
the other invariants lack is where a key can be: `KeyStore` creates only a key that is
nowhere yet and speaks of all the forms of a key at once, but a command sees only the
file it works on. `PlaceInv` supplies the rest: a key, on
disk or in the hands of a command, belongs to one file (`OneFile`); a key that
`create` is about to write is on no path and in no other command (`Unwritten`), since
no two commands generate the same one (`OwnNumber`) and none is there before its
command (`Generated`); and what a seal has read was in the clear or under its own
password (`ReadUnder`). With `TypeInv` and `SafeInv`, `StepStore` goes through the
actions one by one.

`SessionProofs` proves `TypeCorrect`, `AppliedOnceHolds`, `PinnedOnlyHolds` and
`HeardIsFinalHolds` for any nodes, addresses, callers, retries, calls and changes.
`SessionInv` says what a call knows in each phase (`CallsWell`), that a connection
over mutual TLS, and a submission that is late, belongs to the pinned node
(`CallsWell`, `LateWell`), that the slot names nobody else (`ClientWell`), and that
everything on its way or taken is the first building of its request. The last is
why a request is applied once: the transaction is built before the retry loop and
the loop posts the same bytes.

The assumptions are the named ASSUMEs of the modules: of the vault that "clear" is
no password and "no process" no process, of the session that `Nobody` is nobody,
that there are addresses for all nodes, and that the bounds are natural numbers.

`SubmissionProofs` proves `TypeCorrect`, `NextOnlyAfterConfirmedHolds` and, for every
`Timeout` above 1, `ConfirmedInTimeHolds`, for any accounts and operations, any supply
and any number of rounds and operations. `SubmissionInv` has one part per question:
`Placed` (a client waits only in a step that sends, and for what it sent), `Settles`
(whoever is about to take a step has no transaction in the pool, which is why the next
one is never sent early) and `InTime`. The last relates the round the wait looks in next
to the chain and to the round its transaction is confirmed in. The history `blind` says
of the latest look that it got no answer or that `status_after_block` had answered
without a block; a look that is not blind, but the first, comes when its round has been
made (`Seen` implies `cur <= round`), so what it does not see there is confirmed later.
Looks before the last may all be blind: `cur` and `end` are rounds of the chain, and
whoever looks in round `end - 1` sees all that came before. `Timeout > 1` is used because
with 1 there is only the first look. `HeldType` says that the units of the asset add up to `Supply`
(`MovedType`), without which an amount that is read could exceed it.

`OkMeansDoneHolds` and `HandedOverHolds` follow from a second invariant, `OutcomeInv`,
that follows the script: a job has achieved what the steps behind its `step` are for
(`JobsDone`), whichever other operation has run since; one that has returned `Ok(None)`
is past the transaction that creates (`NoneMade`, with `IdSteps`: an id is only read
right after it). For what another
operation might undo it needs `DeploymentSafe`, that no transaction in the pool can
delete the application while its creator still deploys it, and that the manager of the
asset never changes.

Every safety invariant, action property and refinement that a passing run checks is
the statement of a theorem. Only model-checked: the liveness properties
(`CallReturnsOrSleeps`, `SomeoneProceeds`, `AloneGoesOut`, `CatchesUp`,
`EveryOperationReturns`, `WatchReturns`), which need fairness and ENABLED; and what the
three violated runs show.

## Not modelled

Encoding and decoding of arguments, state, responses and endpoint records, the
text of errors and logs, cryptography and certificates, mnemonics and the layout
of the backup page are conversions without a protocol. TEAL compilation and fee
estimates are pure functions of the node's answers. The length of back-off sleeps
is left out: a thread may stay in `backoff` as long as the scheduler lets it.

The queries (`confirmed_transaction`, note search) are single reads; `app_creator`
caches a value that never changes; the group builder is a value of one thread.
`reencrypt_envelope` is called by no command of the vault. Directories are one
level deep, and `name_under`, `json_field` and `discover_names` read names only.
The exit codes of `sidewinder-health`, the stages of a Sidewinder transaction
(which the client only decodes) and the order of `params` before a build, which is
the caller's affair, are left out. `EndpointResolver::resolve` takes its cache's
lock twice; what can come in between is a scan of `AccountScan`, whose entries are
honest at every step.

## Plan

1. An abstract cache (a set of entries and a watermark that agree) that `TxnScan`
   implements as long as no page loop fails.
2. Theorems: that refinement, which would use `TxnScanProofs`' `EntriesInv` as it is.
3. The queries, should their results come to be cached or acted upon.
