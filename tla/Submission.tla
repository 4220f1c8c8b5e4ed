----------------------------- MODULE Submission -----------------------------
(***************************************************************************)
(* The signing operations of AlgoOps: every one of them reads what it      *)
(* needs, signs a transaction, submits it, waits for its confirmation and  *)
(* goes on to the next, with no way back.  Clients of several accounts run *)
(* them against one chain on which transactions are confirmed late,        *)
(* evicted or dropped, and any request may fail after its retries.         *)
(*                                                                         *)
(* The chain is external: one asset created by "creator", one application, *)
(* and at most one transaction per round.  A request is one action here    *)
(* (CallPath models its attempts).  A client is named by its account.      *)
(***************************************************************************)
EXTENDS Integers, Sequences

CONSTANTS
    Clients,     \* the accounts that run operations
    Operations,  \* the operations each of them runs
    Timeout,     \* timeout_rounds of wait_for_confirmation
    Supply,      \* units of the asset, all held by its creator at first
    MaxOps,      \* bound: operations started
    MaxRound     \* bound: last round

Accounts == {"creator", "other", "app"}

ASSUME ClientAssumption == Clients \subseteq {"creator", "other"}
ASSUME BoundAssumption ==
    /\ Timeout \in Nat \ {0} /\ Supply \in Nat /\ MaxOps \in Nat /\ MaxRound \in Nat

\* What the operations do, in order.  The steps of TxSteps submit a transaction
\* and wait for it; the others read.  A read that decides nothing here (the
\* suggested params, the balance, the application's creator) is part of the
\* submission it precedes: if it fails the submission fails.
TxSteps == {"plain", "opt_in", "transfer", "reconfigure", "create", "fund", "call",
            "update", "delete", "opt_in_app", "close_out", "clear_state", "group"}

SendAlgo == <<"plain">>
OptInToAsset == <<"opt_in">>
SendAsset == <<"transfer">>

\* These read the transaction once more, for the id or the logs it has produced.
CreateAsset == <<"plain", "id">>
CreateApp == <<"create", "id">>
CallApp == <<"call", "logs">>

OptInAppToAsset == <<"app_opted_in">> \o CallApp
SetAssetClawbackToApp == <<"manager", "reconfigure">>
ChangeAssetReserveAddress ==
    <<"creator", "reconfigure", "holding", "receiver">> \o SendAsset
RecoverReserveBalance == <<"reserve", "receiver", "holding">> \o SendAsset

\* Nothing is sent when the account is a member of the application already.
OptInApp == <<"member", "opt_in_app">>
CloseOutApp == <<"close_out">>
ClearStateApp == <<"clear_state">>
UpdateApp == <<"update">>
DeleteApp == <<"delete">>

\* sign_and_send, of a transfer and a call of the application: the ledger takes all
\* the legs or none, and the wait is for one of them.
Group == <<"group">>

\* With an asset; FundApp is send_algo to the application's address.
FundApp == <<"fund">>
DeployApp == CreateApp \o FundApp \o OptInAppToAsset \o SetAssetClawbackToApp

Script == [
    send_algo                    |-> SendAlgo,
    create_asset                 |-> CreateAsset,
    opt_in_to_asset              |-> OptInToAsset,
    send_asset                   |-> SendAsset,
    opt_in_app_to_asset          |-> OptInAppToAsset,
    set_asset_clawback_to_app    |-> SetAssetClawbackToApp,
    change_asset_reserve_address |-> ChangeAssetReserveAddress,
    recover_reserve_balance      |-> RecoverReserveBalance,
    deploy_app                   |-> DeployApp,
    update_app                   |-> UpdateApp,
    delete_app                   |-> DeleteApp,
    opt_in_app                   |-> OptInApp,
    close_out_app                |-> CloseOutApp,
    clear_state_app              |-> ClearStateApp,
    sign_and_send                |-> Group]

ASSUME OperationAssumption == Operations \in [Clients -> SUBSET DOMAIN Script]

VARIABLES
    round,    \* the last round of the chain
    held,     \* units of the asset held by each account
    optedIn,  \* accounts opted in to the asset
    asset,    \* its manager and its reserve (the clawback is always the reserve)
    app,      \* what has been done to the application: "created", "funded", "deleted"
    members,  \* accounts opted in to the application
    orphans,  \* transactions in the pool whose operation has given them up
    job,      \* what each client is doing, or did last
    ops       \* operations started so far

chain == <<round, held, optedIn, asset, app, members>>
vars == <<chain, orphans, job, ops>>

Statuses == {"pool", "confirmed", "rejected", "gone"}

\* A transaction: its note makes it unlike every other (unique_note).
NoTx == [kind |-> "none", from |-> "app", to |-> "app", amount |-> 0, note |-> 0,
         status |-> "gone", confirmed |-> 0]

Idle == [
    op     |-> "send_algo",  \* the operation
    to     |-> "app",        \* its receiver, or the new reserve
    amount |-> 0,            \* the amount it transfers
    at     |-> 0,            \* the step it is at; 0 when it has returned
    phase  |-> "step",       \* where it is in that step
    note   |-> 0,            \* the note of its transactions
    tx     |-> NoTx,         \* the transaction it submitted last
    cur    |-> 0,            \* current_round of wait_for_confirmation
    end    |-> 0,            \* end_round of wait_for_confirmation
    result |-> "none",       \* how it returned
    \* History, read by no action:
    done    |-> {},          \* kinds of its confirmed transactions
    doubt   |-> FALSE,       \* it left a transaction unconfirmed and sent another
    blind   |-> FALSE,       \* the wait's latest look came before its round, or got no answer
    arrived |-> 0,           \* units received since the holding was read
    undone  |-> FALSE]       \* a transaction given up before it has changed the membership

Step(c) == Script[job[c].op][job[c].at]
Running(c) == job[c].at > 0

TypeOK ==
    /\ round \in 0 .. MaxRound
    /\ held \in [Accounts -> 0 .. Supply]
    /\ optedIn \subseteq Accounts
    /\ asset \in [manager : Accounts, reserve : Accounts]
    /\ app \subseteq {"created", "funded", "deleted"} /\ members \subseteq Clients
    /\ \A t \in orphans : t.kind \in TxSteps /\ t.status = "pool"
    /\ ops \in 0 .. MaxOps
    /\ \A c \in Clients :
         /\ DOMAIN job[c] = DOMAIN Idle
         /\ job[c].op \in DOMAIN Script /\ job[c].at \in 0 .. Len(Script[job[c].op])
         /\ job[c].to \in Accounts /\ job[c].amount \in 0 .. Supply
         /\ job[c].phase \in {"step", "status", "pending", "block"}
         /\ job[c].phase # "step" => Step(c) \in TxSteps /\ job[c].tx # NoTx
         /\ job[c].cur <= job[c].end /\ job[c].end <= MaxRound + 1 + Timeout
         /\ job[c].result \in {"none", "ok", "ok_none", "error", "pool_error", "timeout"}

Init ==
    /\ round = 0
    /\ held = [a \in Accounts |-> IF a = "creator" THEN Supply ELSE 0]
    /\ optedIn \in {{"creator"}, {"creator", "other"}}
    /\ asset = [manager |-> "creator", reserve |-> "creator"]
    /\ \/ app = {} /\ members = {}
       \/ app = {"created", "funded"} /\ members = Clients \ {"creator"}
    /\ orphans = {}
    /\ job = [c \in Clients |-> Idle]
    /\ ops = 0

-----------------------------------------------------------------------------
(***************************************************************************)
(* The operations                                                          *)
(***************************************************************************)

\* The receivers, and the amounts, an operation can be called with.
Destinations(name) ==
    CASE name = "send_asset" -> Clients
      [] name = "change_asset_reserve_address" -> {"other", "app"}
      [] name \in {"recover_reserve_balance", "sign_and_send"} -> {"creator"}
      [] OTHER -> {"app"}

Amounts(name) == IF name \in {"send_asset", "sign_and_send"} THEN 1 .. Supply ELSE {0}

\* Only one deployment is modelled, because there is only one application.
MayStart(name) ==
    name = "deploy_app" =>
        /\ app = {} /\ \A t \in orphans : t.kind # "create"
        /\ \A d \in Clients : job[d].op # "deploy_app"

\* The client's transaction, given up while it is still in the pool.
GivenUp(c) == IF job[c].tx.status = "pool" THEN {job[c].tx} ELSE {}

\* unique_note: no transaction of the account that is still in the pool has it.
UniqueNote(c) == IF \E t \in orphans \cup GivenUp(c) : t.from = c THEN ops + 1 ELSE 1

Set(c, j) == job' = [job EXCEPT ![c] = j]

Start(c, name) ==
    /\ ~Running(c) /\ ops < MaxOps /\ MayStart(name)
    /\ \E dest \in Destinations(name), n \in Amounts(name) :
         Set(c, [Idle EXCEPT !.op = name, !.to = dest, !.amount = n, !.at = 1,
                             !.note = UniqueNote(c)])
    /\ ops' = ops + 1
    /\ orphans' = orphans \cup GivenUp(c)
    /\ UNCHANGED chain

\* The operation returns an error; its locals are gone.
Fail(c, r) ==
    /\ Set(c, [Idle EXCEPT !.result = r, !.doubt = job[c].doubt])
    /\ orphans' = orphans \cup GivenUp(c)

\* The step of j is done, and with it the wait: on to the one k further on, or
\* return Ok.
Skip(j, k) ==
    LET i == [j EXCEPT !.phase = "step", !.cur = 0, !.end = 0, !.blind = FALSE]
    IN  IF j.at + k <= Len(Script[j.op])
        THEN [i EXCEPT !.at = @ + k]
        ELSE [i EXCEPT !.at = 0, !.result = "ok"]

Advance(j) == Skip(j, 1)

AtStep(c, steps) == Running(c) /\ job[c].phase = "step" /\ Step(c) \in steps

\* pending_transaction once more, for the logs or the id.  A node that has not seen
\* the round yet answers without either: the logs are then empty, but without an id
\* create_asset and deploy_app end here, with Ok(None).
ReadResult(c) ==
    /\ AtStep(c, {"logs", "id"})
    /\ \/ Set(c, Advance(job[c]))
       \/ Step(c) = "id" /\ Set(c, [job[c] EXCEPT !.at = 0, !.result = "ok_none"])
    /\ UNCHANGED <<chain, orphans, ops>>

\* The caller must be the asset's manager, creator or reserve, and the receiver
\* must be opted in, at the time of the read.
Permitted(c) ==
    CASE Step(c) = "manager" -> asset.manager = c
      [] Step(c) = "creator" -> c = "creator"
      [] Step(c) = "reserve" -> asset.reserve = c
      [] OTHER -> job[c].to \in optedIn

Check(c) ==
    /\ AtStep(c, {"manager", "creator", "reserve", "receiver"})
    /\ IF Permitted(c) THEN Set(c, Advance(job[c])) /\ UNCHANGED orphans
       ELSE Fail(c, "error")
    /\ UNCHANGED <<chain, ops>>

\* Mutant: the amount is not found in the answer and is taken to be 0.
MutHolding(c) == 0

Holding(c) == held[c]

\* The whole holding is what will be sent; with nothing held all is done.
ReadHolding(c) ==
    /\ AtStep(c, {"holding"})
    /\ LET j == [job[c] EXCEPT !.amount = Holding(c), !.arrived = 0]
       IN  Set(c, IF j.amount = 0 THEN [j EXCEPT !.at = 0, !.result = "ok"]
                  ELSE Advance(j))
    /\ UNCHANGED <<chain, orphans, ops>>

\* opt_in_app_to_asset makes its call unless the application is opted in; a
\* read that fails counts as "not opted in".
CheckApp(c) ==
    /\ AtStep(c, {"app_opted_in"})
    /\ \/ "app" \in optedIn /\ Set(c, Skip(job[c], 1 + Len(CallApp)))
       \/ Set(c, Advance(job[c]))
    /\ UNCHANGED <<chain, orphans, ops>>

\* opt_in_app sends nothing for a member; an error of the read that does not mean
\* an unreachable host counts as "no member".
CheckMember(c) ==
    /\ AtStep(c, {"member"})
    /\ \/ c \in members /\ Set(c, Skip(job[c], Len(OptInApp)))
       \/ Set(c, Advance(job[c]))
    /\ UNCHANGED <<chain, orphans, ops>>

\* Any other read that fails ends the operation.
FailRead(c) ==
    /\ Running(c) /\ job[c].phase = "step"
    /\ Step(c) \notin TxSteps \cup {"app_opted_in"}
    /\ Fail(c, "error")
    /\ UNCHANGED <<chain, ops>>

-----------------------------------------------------------------------------
(***************************************************************************)
(* The chain, as far as the operations see it                              *)
(***************************************************************************)

Pool == orphans \cup {job[c].tx : c \in {d \in Clients : job[d].tx.status = "pool"}}

Deployed == "created" \in app /\ "deleted" \notin app
Callable == Deployed /\ "funded" \in app
Moves(t) == t.kind \in {"transfer", "group"}

\* Whether the chain accepts t in its present state.
Valid(t) ==
    /\ Moves(t) => held[t.from] >= t.amount /\ t.to \in optedIn
    /\ CASE t.kind = "reconfigure" -> asset.manager = t.from
         [] t.kind \in {"call", "group"} -> Callable
         [] t.kind \in {"update", "delete"} -> Deployed /\ t.from = "creator"
         [] t.kind = "opt_in_app" -> Deployed /\ t.from \notin members
         [] t.kind = "close_out" -> Deployed /\ t.from \in members
         [] t.kind = "clear_state" -> t.from \in members
         [] OTHER -> TRUE

Moved(t) ==
    [a \in Accounts |-> held[a] - (IF a = t.from THEN t.amount ELSE 0)
                                + (IF a = t.to THEN t.amount ELSE 0)]

MemberOps == {"opt_in_app", "close_out_app", "clear_state_app"}

\* t leaves the pool as u.
Settle(t, u) ==
    /\ orphans' = orphans \ {t}
    /\ job' = [c \in Clients |->
                 [job[c] EXCEPT
                    !.tx = IF @ = t THEN u ELSE @,
                    !.done = IF job[c].tx = t /\ u.status = "confirmed"
                             THEN @ \cup {t.kind} ELSE @,
                    !.arrived = IF u.status = "confirmed" /\ Moves(t) /\ t.to = c
                                   /\ job[c].op = "change_asset_reserve_address"
                                THEN @ + t.amount ELSE @,
                    !.undone = @ \/ /\ u.status = "confirmed" /\ t \in orphans /\ t.from = c
                                    /\ t.kind \in {"opt_in_app", "close_out", "clear_state"}
                                    /\ job[c].op \in MemberOps]]

\* The next round confirms transaction t.
Confirm(t) ==
    /\ Valid(t) /\ round < MaxRound
    /\ round' = round + 1
    /\ held' = IF Moves(t) THEN Moved(t) ELSE held
    /\ optedIn' = optedIn \cup CASE t.kind = "opt_in" -> {t.from}
                                 [] t.kind = "call" -> {"app"}
                                 [] OTHER -> {}
    /\ asset' = IF t.kind = "reconfigure"
                THEN [manager |-> t.from, reserve |-> t.to] ELSE asset
    /\ app' = app \cup CASE t.kind = "create" -> {"created"}
                         [] t.kind = "fund" -> {"funded"}
                         [] t.kind = "delete" -> {"deleted"}
                         [] OTHER -> {}
    /\ members' = CASE t.kind = "opt_in_app" -> members \cup {t.from}
                    [] t.kind \in {"close_out", "clear_state"} -> members \ {t.from}
                    [] OTHER -> members
    /\ Settle(t, [t EXCEPT !.status = "confirmed", !.confirmed = round + 1])
    /\ UNCHANGED ops

EmptyRound ==
    /\ round < MaxRound
    /\ round' = round + 1
    /\ UNCHANGED <<held, optedIn, asset, app, members, orphans, job, ops>>

\* A transaction leaves the pool: with an error when it has become invalid, or
\* without a trace.
LeavePool(t) ==
    /\ \/ ~Valid(t) /\ Settle(t, [t EXCEPT !.status = "rejected"])
       \/ Settle(t, [t EXCEPT !.status = "gone"])
    /\ UNCHANGED <<chain, ops>>

-----------------------------------------------------------------------------
(***************************************************************************)
(* Submission and wait_for_confirmation                                    *)
(***************************************************************************)

\* Mutant: the operation goes on as soon as the node has taken the transaction.
MutAfterSend(j) == Advance(j)

AfterSend(j) == [j EXCEPT !.phase = "status"]

\* send_raw.  The node takes a transaction that is valid; its answer may be
\* lost, and then the operation fails with its transaction in the pool (a retry
\* of the request sends the same bytes and is refused as a duplicate).
Submit(c) ==
    LET j == job[c]
        t == [kind |-> Step(c), from |-> c, to |-> j.to, amount |-> j.amount,
              note |-> j.note, status |-> "pool", confirmed |-> 0]
        sent == [j EXCEPT !.tx = t, !.doubt = @ \/ j.tx.status = "pool"]
    IN  /\ AtStep(c, TxSteps)
        /\ \/ Valid(t) /\ Set(c, AfterSend(sent)) /\ orphans' = orphans \cup GivenUp(c)
           \/ /\ Valid(t)
              /\ orphans' = orphans \cup GivenUp(c) \cup {t}
              /\ Set(c, [Idle EXCEPT !.result = "error", !.doubt = sent.doubt])
           \/ Fail(c, "error")
        /\ UNCHANGED <<chain, ops>>

AtPhase(c, phases) == Running(c) /\ job[c].phase \in phases

\* The rounds in which the wait looks for the transaction.
ReadStatus(c) ==
    /\ AtPhase(c, {"status"})
    /\ Set(c, [job[c] EXCEPT !.cur = round + 1, !.end = round + 1 + Timeout,
                             !.blind = FALSE, !.phase = "pending"])
    /\ UNCHANGED <<chain, orphans, ops>>

\* Mutant: a transaction without a pool error counts as confirmed.
MutIsConfirmed(t) == t.status \in {"confirmed", "pool"}

IsConfirmed(t) == t.status = "confirmed"

\* pending_transaction answers, or (the node has forgotten the transaction) says
\* it is not found, which is not an error to the wait.
Pending(c) ==
    LET j == job[c]
    IN  /\ AtPhase(c, {"pending"})
        /\ IF ~IsConfirmed(j.tx) /\ j.tx.status = "rejected" THEN Fail(c, "pool_error")
           ELSE /\ Set(c, IF IsConfirmed(j.tx) THEN Advance(j)
                          ELSE [j EXCEPT !.phase = "block"])
                /\ UNCHANGED orphans
        /\ UNCHANGED <<chain, ops>>

\* The request fails in a way the wait ignores, or a node that is behind answers.
PendingLost(c) ==
    /\ AtPhase(c, {"pending"})
    /\ Set(c, [job[c] EXCEPT !.phase = "block", !.blind = TRUE])
    /\ UNCHANGED <<chain, orphans, ops>>

\* Mutant: current_round is not advanced, so the loop does not end.
MutNextRound(j) == j.cur

NextRound(j) == j.cur + 1

\* Mutant: the loop runs once more.
MutMoreRoundsInclusive(j) == j.cur <= j.end

\* Mutant: the loop ends one round early.
MutMoreRounds(j) == j.cur + 1 < j.end

MoreRounds(j) == j.cur < j.end

\* status_after_block answers, when the chain is past current_round or when the node
\* gives up waiting for that.  The wait does not look at the answer and counts a round
\* in either case.
WaitBlock(c) ==
    LET j == [job[c] EXCEPT !.cur = NextRound(job[c])]
    IN  /\ AtPhase(c, {"block"})
        /\ Set(c, IF MoreRounds(j)
                  THEN [j EXCEPT !.phase = "pending", !.blind = round <= job[c].cur]
                  ELSE [j EXCEPT !.at = 0, !.phase = "step", !.result = "timeout"])
        /\ UNCHANGED <<chain, orphans, ops>>

\* Any request of the wait fails in a way it does not ignore: the status, the
\* wait for a block, or a host that cannot be reached.
FailWait(c) ==
    /\ AtPhase(c, {"status", "pending", "block"})
    /\ Fail(c, "error")
    /\ UNCHANGED <<chain, ops>>

-----------------------------------------------------------------------------
ClientStep(c) ==
    \/ ReadResult(c) \/ Check(c) \/ ReadHolding(c) \/ CheckApp(c) \/ CheckMember(c)
    \/ FailRead(c)
    \/ Submit(c) \/ ReadStatus(c) \/ Pending(c) \/ PendingLost(c)
    \/ WaitBlock(c) \/ FailWait(c)

Next ==
    \/ \E c \in Clients : ClientStep(c) \/ \E name \in Operations[c] : Start(c, name)
    \/ \E t \in Pool : Confirm(t) \/ LeavePool(t)
    \/ EmptyRound

Spec == Init /\ [][Next]_vars

\* Every request ends, with an answer or with the timeout of with_timeout.
\* Nothing is assumed of the chain: it may stop making rounds.
FairSpec == Spec /\ \A c \in Clients : WF_vars(ClientStep(c))

-----------------------------------------------------------------------------
(***************************************************************************)
(* Properties                                                              *)
(***************************************************************************)

\* An operation that returns Ok has had every transaction it submitted confirmed.
\* With Ok(None) it has created what it does not know the id of.  Otherwise a
\* deployment has left a created, funded application that is opted in to the asset, a
\* deletion has left none, whoever reconfigures the asset has seen it done, and the
\* account is a member of the application, or is not, as it was told, unless a
\* transaction it had given up before is confirmed after all.
OkMeansDone ==
    \A c \in Clients :
      /\ job[c].result \in {"ok", "ok_none"} =>
           job[c].tx = NoTx \/ job[c].tx.status = "confirmed"
      /\ job[c].result = "ok_none" => {"create", "plain"} \cap job[c].done # {}
      /\ job[c].result = "ok" =>
        /\ job[c].op = "deploy_app" => app = {"created", "funded"} /\ "app" \in optedIn
        /\ job[c].op = "delete_app" => "deleted" \in app
        /\ job[c].op \in MemberOps => job[c].undone \/ (c \in members <=> job[c].op = "opt_in_app")
        /\ job[c].op \in {"deploy_app", "set_asset_clawback_to_app",
                          "change_asset_reserve_address"} => "reconfigure" \in job[c].done

\* However an operation ends, only its latest transaction can be unconfirmed: a
\* failure never leaves two of them in the pool.
NextOnlyAfterConfirmed == \A c \in Clients : ~job[c].doubt

\* When change_asset_reserve_address returns Ok the caller keeps nothing but
\* what has reached it after its holding was read.
HandedOver ==
    \A c \in Clients :
        job[c].result = "ok" /\ job[c].op = "change_asset_reserve_address" =>
            held[c] <= job[c].arrived

\* A wait that gives up has not missed a transaction that was confirmed in the
\* timeout_rounds rounds after the one the wait began in, whatever answers it lost and
\* however early status_after_block answered before: it is enough that its last look
\* was answered and came after a block.
ConfirmedInTimeIsSeen ==
    \A c \in Clients :
        job[c].result = "timeout" /\ ~job[c].blind =>
            job[c].tx.confirmed = 0 \/ job[c].tx.confirmed >= job[c].end

\* Every operation returns: no wait goes on for ever, even when the chain stops
\* or a transaction is never confirmed.
EveryOperationReturns == \A c \in Clients : Running(c) ~> ~Running(c)
=============================================================================
