-------------------------- MODULE SubmissionProofs --------------------------
(***************************************************************************)
(* Proofs about Submission, for any clients, operations, supply, timeout   *)
(* and number of rounds.                                                   *)
(***************************************************************************)
EXTENDS Submission, SequenceTheorems, TLAPS

-----------------------------------------------------------------------------
(***************************************************************************)
(* The inductive invariant.  A job is well when                            *)
(*  - only a running operation waits, and it waits for its transaction;     *)
(*  - it goes on only when the transaction before is settled;               *)
(*  - a look that is not blind, but the first, is at a round that has been   *)
(*    made, and a transaction it has missed is confirmed, if ever, later.    *)
(***************************************************************************)
TxType == [kind : TxSteps \cup {"none"}, from : Accounts, to : Accounts, amount : 0 .. Supply,
           note : Nat, status : Statuses, confirmed : 0 .. MaxRound]

JobType == [op : DOMAIN Script, to : Accounts, amount : 0 .. Supply, at : Nat,
            phase : {"step", "status", "pending", "block"}, note : Nat, tx : TxType,
            cur : Nat, end : Nat,
            result : {"none", "ok", "ok_none", "error", "pool_error", "timeout"},
            done : SUBSET TxSteps, doubt : BOOLEAN, blind : BOOLEAN, arrived : Nat,
            undone : BOOLEAN]

TxWell(t) ==
    /\ t \in TxType
    /\ t.status = "pool" => t.kind \in TxSteps /\ t.from \in Clients /\ t.confirmed = 0
    /\ t.status = "confirmed" <=> t.confirmed # 0

Placed(j) ==
    /\ j.at <= Len(Script[j.op])
    /\ j.phase # "step" => j.at > 0 /\ Script[j.op][j.at] \in TxSteps /\ j.tx.kind # "none"
    /\ j.cur <= j.end /\ j.end <= MaxRound + 1 + Timeout

Settles(j) ==
    /\ ~j.doubt
    /\ j.at > 0 => j.result = "none"
    /\ j.at > 0 /\ j.phase = "step" => j.tx.status # "pool"

Seen(j) == ~j.blind /\ j.cur > j.end - Timeout

InTime(j, r) ==
    /\ j.phase \in {"pending", "block"} => j.cur < j.end /\ (Seen(j) => j.cur <= r)
    /\ j.phase = "block" /\ Seen(j) /\ j.tx.confirmed # 0 => j.cur < j.tx.confirmed
    /\ j.result = "timeout" /\ Timeout > 1 /\ ~j.blind =>
         j.end <= r + 1 /\ (j.tx.confirmed # 0 => j.end <= j.tx.confirmed)

Well(j, r) == j \in JobType /\ TxWell(j.tx) /\ Placed(j) /\ Settles(j) /\ InTime(j, r)

JobsWell == job \in [Clients -> JobType] /\ \A c \in Clients : Well(job[c], round)

OrphansWell == \A t \in orphans : TxWell(t) /\ t.status = "pool"

HeldType ==
    /\ held \in [Accounts -> 0 .. Supply]
    /\ held["creator"] + held["other"] + held["app"] = Supply

ChainType ==
    /\ round \in 0 .. MaxRound
    /\ HeldType
    /\ optedIn \subseteq Accounts
    /\ asset \in [manager : Accounts, reserve : Accounts]
    /\ app \subseteq {"created", "funded", "deleted"} /\ members \subseteq Clients

SubmissionInv == ChainType /\ OrphansWell /\ JobsWell /\ ops \in 0 .. MaxOps

-----------------------------------------------------------------------------
(* Scripts and jobs *)

\* Every operation has at least one step.
LEMMA ScriptType ==
    \A n \in DOMAIN Script : Len(Script[n]) \in Nat /\ Len(Script[n]) > 0
<1> DEFINE Steps(s) == Len(s) \in Nat /\ Len(s) > 0
<1>1. /\ Steps(SendAlgo) /\ Steps(OptInToAsset) /\ Steps(SendAsset) /\ Steps(CreateAsset)
      /\ Steps(CreateApp) /\ Steps(CallApp) /\ Steps(FundApp) /\ Steps(SetAssetClawbackToApp)
      /\ Steps(OptInApp) /\ Steps(CloseOutApp) /\ Steps(ClearStateApp) /\ Steps(UpdateApp)
      /\ Steps(DeleteApp) /\ Steps(Group)
  BY DEF SendAlgo, OptInToAsset, SendAsset, CreateAsset, CreateApp, CallApp, FundApp,
         SetAssetClawbackToApp, OptInApp, CloseOutApp, ClearStateApp, UpdateApp, DeleteApp, Group
<1>2. Steps(OptInAppToAsset)
  BY DEF OptInAppToAsset, CallApp
<1>3. Steps(ChangeAssetReserveAddress)
  BY DEF ChangeAssetReserveAddress, SendAsset
<1>4. Steps(RecoverReserveBalance)
  BY DEF RecoverReserveBalance, SendAsset
<1>5. Steps(DeployApp)
  BY DEF DeployApp, CreateApp, FundApp, OptInAppToAsset, CallApp, SetAssetClawbackToApp
<1> HIDE DEF Steps
<1>6. \A n \in DOMAIN Script : Steps(Script[n])
  BY <1>1, <1>2, <1>3, <1>4, <1>5 DEF Script
<1> QED
  BY <1>6 DEF Steps

\* The placeholder of a client that has sent nothing is no transaction in the pool.
LEMMA NoTxWell == TxWell(NoTx)
  BY BoundAssumption DEF NoTx, TxWell, TxType, Accounts, Statuses

\* Idle is a job, and well.
LEMMA IdleWell ==
    ASSUME NEW r \in Nat
    PROVE  Well(Idle, r)
<1>1. "send_algo" \in DOMAIN Script
  BY DEF Script
<1>2. Idle \in JobType
  BY <1>1, NoTxWell, BoundAssumption DEF Idle, JobType, TxWell, Accounts
<1>3. Placed(Idle)
  BY <1>1, ScriptType, BoundAssumption DEF Idle, Placed
<1> QED
  BY <1>2, <1>3, NoTxWell DEF Well, Settles, InTime, Idle

\* So is what is left of one that failed.
LEMMA FailedWell ==
    ASSUME NEW r \in Nat, NEW x \in {"error", "pool_error"}
    PROVE  Well([Idle EXCEPT !.result = x, !.doubt = FALSE], r)
<1> DEFINE j == [Idle EXCEPT !.result = x, !.doubt = FALSE]
<1>1. Idle \in JobType /\ Well(Idle, r)
  BY IdleWell DEF Well
<1>2. /\ j \in JobType /\ j.at = Idle.at /\ j.op = Idle.op /\ j.phase = Idle.phase
      /\ j.tx = Idle.tx /\ j.cur = Idle.cur /\ j.end = Idle.end /\ j.result = x /\ ~j.doubt
      /\ Idle.at = 0 /\ Idle.phase = "step"
  BY <1>1 DEF JobType, Idle
<1>3. Well(j, r)
  <2> HIDE DEF j
  <2> QED
    BY <1>1, <1>2 DEF Well, Placed, Settles, InTime
<1> QED
  BY <1>3

\* An operation goes on from a step, or returns Ok, when its transaction is settled.
LEMMA SkipWell ==
    ASSUME NEW r \in Nat, NEW j, Well(j, r), NEW k \in Nat \ {0},
           j.at > 0, j.tx.status # "pool"
    PROVE  Well(Skip(j, k), r)
<1> DEFINE rest == [j EXCEPT !.phase = "step", !.cur = 0, !.end = 0, !.blind = FALSE]
<1>1. /\ j \in JobType /\ j.result = "none" /\ Len(Script[j.op]) \in Nat /\ j.at + k \in Nat
      /\ 0 <= MaxRound + 1 + Timeout
  BY ScriptType, BoundAssumption DEF Well, Settles, JobType
<1>2. CASE j.at + k <= Len(Script[j.op])
  <2> DEFINE i == [rest EXCEPT !.at = @ + k]
  <2>1. /\ i \in JobType /\ i.at = j.at + k /\ i.phase = "step" /\ i.op = j.op /\ i.tx = j.tx
        /\ i.cur = 0 /\ i.end = 0 /\ i.result = "none" /\ i.doubt = j.doubt
    BY <1>1 DEF JobType
  <2>2. Skip(j, k) = i
    BY <1>2 DEF Skip
  <2> HIDE DEF i
  <2> QED
    BY <1>1, <1>2, <2>1, <2>2 DEF Well, Placed, Settles, InTime
<1>3. CASE ~(j.at + k <= Len(Script[j.op]))
  <2> DEFINE i == [rest EXCEPT !.at = 0, !.result = "ok"]
  <2>1. /\ i \in JobType /\ i.at = 0 /\ i.phase = "step" /\ i.op = j.op /\ i.tx = j.tx
        /\ i.cur = 0 /\ i.end = 0 /\ i.result = "ok" /\ i.doubt = j.doubt
    BY <1>1 DEF JobType
  <2>2. Skip(j, k) = i
    BY <1>3 DEF Skip
  <2> HIDE DEF i
  <2> QED
    BY <1>1, <2>1, <2>2 DEF Well, Placed, Settles, InTime
<1> QED
  BY <1>2, <1>3

-----------------------------------------------------------------------------
(* Steps that leave the chain alone *)

\* What the invariant says of one client.
LEMMA ClientWell ==
    ASSUME SubmissionInv, NEW c \in Clients
    PROVE  /\ Well(job[c], round) /\ job[c] \in JobType /\ c \in Accounts
           /\ round \in Nat /\ round <= MaxRound
  BY ClientAssumption, BoundAssumption DEF SubmissionInv, ChainType, JobsWell, Well, Accounts

\* A client's job is replaced by one that is well.
LEMMA SetWell ==
    ASSUME SubmissionInv, NEW c \in Clients, NEW j, Well(j, round), Set(c, j), round' = round
    PROVE  JobsWell'
<1>1. job' \in [Clients -> JobType]
  BY DEF SubmissionInv, JobsWell, Set, Well
<1>2. ASSUME NEW d \in Clients
      PROVE  Well(job'[d], round')
  BY <1>2 DEF SubmissionInv, JobsWell, Set
<1> QED
  BY <1>1, <1>2 DEF JobsWell

\* The transaction an operation leaves behind in the pool is well.
LEMMA GivenUpWell ==
    ASSUME SubmissionInv, NEW c \in Clients
    PROVE  \A t \in orphans \cup GivenUp(c) : TxWell(t) /\ t.status = "pool"
  BY ClientWell DEF SubmissionInv, OrphansWell, GivenUp, Well

\* A step of a client that gives nothing up.
LEMMA StepKeeps ==
    ASSUME SubmissionInv, NEW c \in Clients, NEW j, Well(j, round), Set(c, j),
           UNCHANGED <<chain, orphans, ops>>
    PROVE  SubmissionInv'
<1>1. JobsWell'
  BY SetWell DEF chain
<1> QED
  BY <1>1 DEF SubmissionInv, ChainType, HeldType, OrphansWell, chain

\* A step that may leave the client's transaction in the pool.
LEMMA LeaveKeeps ==
    ASSUME SubmissionInv, NEW c \in Clients, NEW j, Well(j, round), Set(c, j),
           orphans' = orphans \cup GivenUp(c), UNCHANGED chain, ops' \in 0 .. MaxOps
    PROVE  SubmissionInv'
<1>1. JobsWell'
  BY SetWell DEF chain
<1>2. OrphansWell'
  BY GivenUpWell DEF OrphansWell
<1> QED
  BY <1>1, <1>2 DEF SubmissionInv, ChainType, HeldType, chain

\* The operation fails.
LEMMA FailKeeps ==
    ASSUME SubmissionInv, NEW c \in Clients, NEW x \in {"error", "pool_error"}, Fail(c, x),
           UNCHANGED <<chain, ops>>
    PROVE  SubmissionInv'
<1> DEFINE j == [Idle EXCEPT !.result = x, !.doubt = job[c].doubt]
<1>1. job[c].doubt = FALSE
  BY ClientWell DEF Well, Settles, JobType
<1>2. Well(j, round)
  BY <1>1, ClientWell, FailedWell
<1>3. Set(c, j) /\ orphans' = orphans \cup GivenUp(c)
  BY DEF Fail
<1>4. ops' \in 0 .. MaxOps
  BY DEF SubmissionInv
<1> HIDE DEF j
<1> QED
  BY <1>2, <1>3, <1>4, LeaveKeeps

\* At a step no transaction of the operation is in the pool.
LEMMA StepSettled ==
    ASSUME SubmissionInv, NEW c \in Clients, Running(c), job[c].phase = "step"
    PROVE  job[c].at > 0 /\ job[c].tx.status # "pool" /\ job[c].doubt = FALSE
                        /\ job[c].result = "none"
  BY ClientWell DEF Well, Settles, JobType, Running

\* So it may go on.
LEMMA SkipStep ==
    ASSUME SubmissionInv, NEW c \in Clients, Running(c), job[c].phase = "step"
    PROVE  /\ Well(Skip(job[c], 1), round)
           /\ \A k \in Nat \ {0} : Well(Skip(job[c], k), round)
<1>1. \A k \in Nat \ {0} : Well(Skip(job[c], k), round)
  BY ClientWell, StepSettled, SkipWell
<1> QED
  BY <1>1

LEMMA StartKeeps ==
    ASSUME SubmissionInv, NEW c \in Clients, NEW n \in Operations[c], Start(c, n)
    PROVE  SubmissionInv'
<1>1. n \in DOMAIN Script /\ Len(Script[n]) \in Nat /\ Len(Script[n]) > 0
  BY OperationAssumption, ScriptType
<1>2. PICK dest \in Destinations(n), a \in Amounts(n) :
        Set(c, [Idle EXCEPT !.op = n, !.to = dest, !.amount = a, !.at = 1, !.note = UniqueNote(c)])
  BY DEF Start
<1> DEFINE j == [Idle EXCEPT !.op = n, !.to = dest, !.amount = a, !.at = 1, !.note = UniqueNote(c)]
<1>3. dest \in Accounts
  BY ClientAssumption DEF Destinations, Accounts
<1>4. a \in 0 .. Supply
  BY BoundAssumption DEF Amounts
<1>5. UniqueNote(c) \in Nat /\ ops' \in 0 .. MaxOps
  BY BoundAssumption DEF SubmissionInv, Start, UniqueNote
<1>6. Idle \in JobType /\ Well(Idle, round)
  BY ClientWell, IdleWell DEF Well
<1>7. /\ j \in JobType /\ j.op = n /\ j.at = 1 /\ j.phase = "step" /\ j.tx = Idle.tx
      /\ j.cur = Idle.cur /\ j.end = Idle.end /\ j.result = "none" /\ j.doubt = FALSE
      /\ Idle.tx = NoTx /\ NoTx.status = "gone"
  BY <1>1, <1>3, <1>4, <1>5, <1>6 DEF JobType, Idle, NoTx
<1>8. Well(j, round)
  <2> HIDE DEF j
  <2> QED
    BY <1>1, <1>6, <1>7 DEF Well, Placed, Settles, InTime
<1>9. Set(c, j) /\ orphans' = orphans \cup GivenUp(c) /\ UNCHANGED chain
  BY <1>2 DEF Start
<1> HIDE DEF j
<1> QED
  BY <1>5, <1>8, <1>9, LeaveKeeps

LEMMA ReadResultKeeps ==
    ASSUME SubmissionInv, NEW c \in Clients, ReadResult(c)
    PROVE  SubmissionInv'
<1> DEFINE j == job[c]
           k == [j EXCEPT !.at = 0, !.result = "ok_none"]
<1>1. Running(c) /\ j.phase = "step" /\ UNCHANGED <<chain, orphans, ops>>
  BY DEF ReadResult, AtStep
<1>2. CASE Set(c, Advance(j))
  <2>1. Well(Skip(j, 1), round)
    BY <1>1, SkipStep
  <2> QED
    BY <1>1, <1>2, <2>1, StepKeeps DEF Advance
<1>3. CASE Set(c, k)
  <2>1. j \in JobType /\ Well(j, round)
    BY ClientWell
  <2>2. /\ k \in JobType /\ k.op = j.op /\ k.at = 0 /\ k.phase = "step" /\ k.tx = j.tx
        /\ k.cur = j.cur /\ k.end = j.end /\ k.result = "ok_none" /\ k.doubt = j.doubt
    BY <1>1, <2>1 DEF JobType
  <2>3. Len(Script[j.op]) \in Nat
    BY <2>1, ScriptType DEF JobType
  <2> HIDE DEF j, k
  <2>4. Well(k, round)
    BY <2>1, <2>2, <2>3 DEF Well, Placed, Settles, InTime
  <2> QED
    BY <1>1, <1>3, <2>4, StepKeeps
<1> QED
  BY <1>2, <1>3 DEF ReadResult

LEMMA CheckKeeps ==
    ASSUME SubmissionInv, NEW c \in Clients, Check(c)
    PROVE  SubmissionInv'
<1>1. Well(Skip(job[c], 1), round)
  BY SkipStep DEF Check, AtStep
<1>2. CASE Permitted(c)
  BY <1>1, <1>2, StepKeeps DEF Check, Advance
<1>3. CASE ~Permitted(c)
  BY <1>3, FailKeeps DEF Check
<1> QED
  BY <1>2, <1>3

LEMMA CheckAppKeeps ==
    ASSUME SubmissionInv, NEW c \in Clients, CheckApp(c)
    PROVE  SubmissionInv'
<1>1. 1 + Len(CallApp) \in Nat \ {0}
  BY DEF CallApp
<1>2. \A k \in Nat \ {0} : Well(Skip(job[c], k), round)
  BY SkipStep DEF CheckApp, AtStep
<1>3. PICK k \in Nat \ {0} : Set(c, Skip(job[c], k))
  BY <1>1 DEF CheckApp, Advance
<1> QED
  BY <1>2, <1>3, StepKeeps DEF CheckApp

LEMMA CheckMemberKeeps ==
    ASSUME SubmissionInv, NEW c \in Clients, CheckMember(c)
    PROVE  SubmissionInv'
<1>1. Len(OptInApp) \in Nat \ {0}
  BY DEF OptInApp
<1>2. \A k \in Nat \ {0} : Well(Skip(job[c], k), round)
  BY SkipStep DEF CheckMember, AtStep
<1>3. PICK k \in Nat \ {0} : Set(c, Skip(job[c], k))
  BY <1>1 DEF CheckMember, Advance
<1> QED
  BY <1>2, <1>3, StepKeeps DEF CheckMember

LEMMA FailReadKeeps ==
    ASSUME SubmissionInv, NEW c \in Clients, FailRead(c)
    PROVE  SubmissionInv'
  BY FailKeeps DEF FailRead

LEMMA FailWaitKeeps ==
    ASSUME SubmissionInv, NEW c \in Clients, FailWait(c)
    PROVE  SubmissionInv'
  BY FailKeeps DEF FailWait

\* The holding that is read is an amount.
LEMMA ReadHoldingKeeps ==
    ASSUME SubmissionInv, NEW c \in Clients, ReadHolding(c)
    PROVE  SubmissionInv'
<1> DEFINE j == [job[c] EXCEPT !.amount = Holding(c), !.arrived = 0]
           k == [j EXCEPT !.at = 0, !.result = "ok"]
<1>1. /\ Running(c) /\ job[c].phase = "step" /\ UNCHANGED <<chain, orphans, ops>>
      /\ Set(c, IF j.amount = 0 THEN k ELSE Advance(j))
  BY DEF ReadHolding, AtStep
<1>2. held[c] \in 0 .. Supply
  BY ClientWell DEF SubmissionInv, ChainType, HeldType
<1>3. job[c] \in JobType /\ Well(job[c], round)
  BY ClientWell
<1>4. /\ j \in JobType /\ j.op = job[c].op /\ j.at = job[c].at /\ j.phase = "step"
      /\ j.tx = job[c].tx /\ j.cur = job[c].cur /\ j.end = job[c].end
      /\ j.result = job[c].result /\ j.doubt = job[c].doubt
  BY <1>1, <1>2, <1>3 DEF JobType, Holding
<1>5. Well(j, round)
  <2> HIDE DEF j
  <2> QED
    BY <1>1, <1>3, <1>4, StepSettled DEF Well, Placed, Settles, InTime
<1>6. j.at > 0 /\ j.tx.status # "pool" /\ round \in Nat
  BY <1>1, <1>4, StepSettled, ClientWell
<1>7. Well(k, round)
  <2>1. /\ k \in JobType /\ k.op = j.op /\ k.at = 0 /\ k.phase = "step" /\ k.tx = j.tx
        /\ k.cur = j.cur /\ k.end = j.end /\ k.result = "ok" /\ k.doubt = j.doubt
    <3> HIDE DEF j
    <3> QED
      BY <1>4 DEF JobType
  <2>2. Len(Script[j.op]) \in Nat
    BY <1>4, ScriptType DEF JobType
  <2> HIDE DEF j, k
  <2> QED
    BY <1>5, <2>1, <2>2 DEF Well, Placed, Settles, InTime
<1>8. Well(Advance(j), round)
  <2> HIDE DEF j
  <2>1. 1 \in Nat \ {0}
    OBVIOUS
  <2> QED
    BY <1>5, <1>6, <2>1, SkipWell DEF Advance
<1> HIDE DEF j, k
<1> QED
  BY <1>1, <1>7, <1>8, StepKeeps

\* The transaction that is sent is well, and the one before it is settled.
LEMMA SubmitKeeps ==
    ASSUME SubmissionInv, NEW c \in Clients, Submit(c)
    PROVE  SubmissionInv'
<1> DEFINE j == job[c]
           t == [kind |-> Step(c), from |-> c, to |-> j.to, amount |-> j.amount,
                 note |-> j.note, status |-> "pool", confirmed |-> 0]
           sent == [j EXCEPT !.tx = t, !.doubt = @ \/ j.tx.status = "pool"]
           k == [sent EXCEPT !.phase = "status"]
<1>1. /\ Running(c) /\ j.phase = "step" /\ Step(c) \in TxSteps /\ UNCHANGED <<chain, ops>>
      /\ \/ Set(c, k) /\ orphans' = orphans \cup GivenUp(c)
         \/ /\ orphans' = orphans \cup GivenUp(c) \cup {t}
            /\ Set(c, [Idle EXCEPT !.result = "error", !.doubt = sent.doubt])
         \/ Fail(c, "error")
  BY DEF Submit, AtStep, AfterSend
<1>2. /\ j \in JobType /\ Well(j, round) /\ c \in Accounts /\ j.at > 0 /\ ~j.doubt
      /\ j.tx.status # "pool" /\ j.result = "none"
  BY <1>1, ClientWell, StepSettled
<1>3. TxWell(t) /\ t.status = "pool" /\ t.kind # "none"
  <2>1. j.to \in Accounts /\ j.amount \in 0 .. Supply /\ j.note \in Nat
    BY <1>2 DEF JobType
  <2>2. t.kind \in TxSteps /\ t.kind # "none"
    BY <1>1 DEF TxSteps
  <2> QED
    BY <1>2, <2>1, <2>2, BoundAssumption DEF TxWell, TxType, Statuses
<1>4. sent \in JobType /\ sent.doubt = FALSE
  <2> HIDE DEF t
  <2> QED
    BY <1>2, <1>3 DEF JobType, TxWell
<1>5. /\ k \in JobType /\ k.op = j.op /\ k.at = j.at /\ k.phase = "status" /\ k.tx = t
      /\ k.cur = j.cur /\ k.end = j.end /\ k.result = "none" /\ k.doubt = FALSE
  <2> HIDE DEF t
  <2> QED
    BY <1>2, <1>3, <1>4 DEF JobType
<1>6. Well(k, round)
  <2>1. Script[j.op][j.at] \in TxSteps
    BY <1>1 DEF Step
  <2> HIDE DEF k, t, sent, j
  <2> QED
    BY <1>2, <1>3, <1>5, <2>1 DEF Well, Placed, Settles, InTime
<1>7. ops' \in 0 .. MaxOps
  BY <1>1 DEF SubmissionInv
<1>8. CASE Set(c, k) /\ orphans' = orphans \cup GivenUp(c)
  <2> HIDE DEF k
  <2> QED
    BY <1>1, <1>6, <1>7, <1>8, LeaveKeeps
<1>9. CASE /\ orphans' = orphans \cup GivenUp(c) \cup {t}
           /\ Set(c, [Idle EXCEPT !.result = "error", !.doubt = sent.doubt])
  <2>1. Well([Idle EXCEPT !.result = "error", !.doubt = FALSE], round)
    BY ClientWell, FailedWell
  <2>2. JobsWell'
    <3>1. Set(c, [Idle EXCEPT !.result = "error", !.doubt = FALSE])
      BY <1>4, <1>9
    <3> QED
      BY <1>1, <2>1, <3>1, SetWell DEF chain
  <2>3. OrphansWell'
    <3> HIDE DEF t, sent
    <3> QED
      BY <1>3, <1>9, GivenUpWell DEF OrphansWell
  <2> QED
    BY <1>1, <2>2, <2>3 DEF SubmissionInv, ChainType, HeldType, chain
<1>10. CASE Fail(c, "error")
  BY <1>1, <1>10, FailKeeps
<1> QED
  BY <1>1, <1>8, <1>9, <1>10

-----------------------------------------------------------------------------
(* wait_for_confirmation *)

\* What holds of a wait.
LEMMA WaitWell ==
    ASSUME SubmissionInv, NEW c \in Clients, Running(c), job[c].phase # "step"
    PROVE  /\ job[c].at > 0 /\ job[c].result = "none" /\ job[c].doubt = FALSE
           /\ job[c].cur \in Nat /\ job[c].end \in Nat /\ job[c].blind \in BOOLEAN
           /\ job[c].tx.confirmed \in Nat
           /\ job[c].tx.status # "confirmed" => job[c].tx.confirmed = 0
           /\ Timeout \in Nat \ {0}
  BY ClientWell, BoundAssumption
     DEF Well, Settles, JobType, Running, TxWell, TxType

LEMMA ReadStatusKeeps ==
    ASSUME SubmissionInv, NEW c \in Clients, ReadStatus(c)
    PROVE  SubmissionInv'
<1> DEFINE j == job[c]
           k == [j EXCEPT !.cur = round + 1, !.end = round + 1 + Timeout, !.blind = FALSE,
                          !.phase = "pending"]
<1>1. /\ Running(c) /\ j.phase = "status" /\ UNCHANGED <<chain, orphans, ops>> /\ Set(c, k)
  BY DEF ReadStatus, AtPhase
<1>2. /\ j \in JobType /\ Well(j, round) /\ round \in Nat /\ round <= MaxRound
      /\ MaxRound \in Nat
  BY ClientWell, BoundAssumption
<1>3. j.at > 0 /\ j.result = "none" /\ ~j.doubt /\ Timeout \in Nat \ {0}
  BY <1>1, WaitWell
<1>4. /\ k \in JobType /\ k.op = j.op /\ k.at = j.at /\ k.phase = "pending" /\ k.tx = j.tx
      /\ k.cur = round + 1 /\ k.end = round + 1 + Timeout /\ k.result = j.result
      /\ k.doubt = j.doubt
  <2>1. round + 1 \in Nat /\ round + 1 + Timeout \in Nat
    BY <1>2, <1>3
  <2> DEFINE h(x, y) == [j EXCEPT !.cur = x, !.end = y, !.blind = FALSE, !.phase = "pending"]
  <2>2. ASSUME NEW x \in Nat, NEW y \in Nat
        PROVE  /\ h(x, y) \in JobType /\ h(x, y).op = j.op /\ h(x, y).at = j.at
               /\ h(x, y).phase = "pending" /\ h(x, y).tx = j.tx /\ h(x, y).cur = x
               /\ h(x, y).end = y /\ h(x, y).result = j.result /\ h(x, y).doubt = j.doubt
    <3> HIDE DEF j
    <3> QED
      BY <1>2 DEF JobType
  <2>3. k = h(round + 1, round + 1 + Timeout)
    OBVIOUS
  <2> HIDE DEF h, k, j
  <2> QED
    BY <2>1, <2>2, <2>3
<1>5. Well(k, round)
  <2> HIDE DEF k, j
  <2> QED
    BY <1>1, <1>2, <1>3, <1>4 DEF Well, Placed, Settles, InTime, Seen
<1> HIDE DEF k
<1> QED
  BY <1>1, <1>5, StepKeeps

\* Once the node has not said "confirmed", the wait may look again in a later round.
LEMMA BlockWell ==
    ASSUME SubmissionInv, NEW c \in Clients, Running(c), job[c].phase = "pending",
           NEW b \in BOOLEAN, b \/ (job[c].tx.confirmed = 0 /\ ~job[c].blind)
    PROVE  Well([job[c] EXCEPT !.phase = "block", !.blind = b], round)
<1> DEFINE j == job[c]
           k == [j EXCEPT !.phase = "block", !.blind = b]
<1>1. j \in JobType /\ Well(j, round)
  BY ClientWell
<1>2. /\ k \in JobType /\ k.op = j.op /\ k.at = j.at /\ k.phase = "block" /\ k.tx = j.tx
      /\ k.cur = j.cur /\ k.end = j.end /\ k.result = j.result /\ k.doubt = j.doubt
      /\ k.blind = b
  BY <1>1 DEF JobType
<1>3. j.result = "none"
  BY WaitWell
<1>4. Well(k, round)
  <2> HIDE DEF k
  <2> QED
    BY <1>1, <1>2, <1>3 DEF Well, Placed, Settles, InTime, Seen
<1> QED
  BY <1>4

LEMMA PendingKeeps ==
    ASSUME SubmissionInv, NEW c \in Clients, Pending(c)
    PROVE  SubmissionInv'
<1> DEFINE j == job[c]
<1>1. Running(c) /\ j.phase = "pending" /\ UNCHANGED <<chain, ops>>
  BY DEF Pending, AtPhase
<1>2. CASE Fail(c, "pool_error")
  BY <1>1, <1>2, FailKeeps
<1>3. CASE j.tx.status = "confirmed" /\ Set(c, Advance(j)) /\ UNCHANGED orphans
  <2>1. Well(j, round) /\ round \in Nat
    BY ClientWell
  <2>2. j.at > 0
    BY <1>1, WaitWell
  <2>3. 1 \in Nat \ {0}
    OBVIOUS
  <2>4. j.tx.status # "pool"
    BY <1>3
  <2>5. Well(Skip(j, 1), round)
    BY <2>1, <2>2, <2>3, <2>4, SkipWell
  <2> QED
    BY <1>1, <1>3, <2>5, StepKeeps DEF Advance
<1>4. CASE /\ j.tx.status # "confirmed" /\ Set(c, [j EXCEPT !.phase = "block"])
           /\ UNCHANGED orphans
  <2>1. j.tx.confirmed = 0 /\ j.blind \in BOOLEAN /\ j \in JobType
    BY <1>1, <1>4, WaitWell, ClientWell
  <2>2. [j EXCEPT !.phase = "block"] = [j EXCEPT !.phase = "block", !.blind = j.blind]
    BY <2>1 DEF JobType
  <2>3. Well([j EXCEPT !.phase = "block"], round)
    BY <1>1, <2>1, <2>2, BlockWell
  <2> QED
    BY <1>1, <1>4, <2>3, StepKeeps
<1> QED
  BY <1>2, <1>3, <1>4 DEF Pending, IsConfirmed

LEMMA PendingLostKeeps ==
    ASSUME SubmissionInv, NEW c \in Clients, PendingLost(c)
    PROVE  SubmissionInv'
<1>1. Running(c) /\ job[c].phase = "pending"
  BY DEF PendingLost, AtPhase
<1>2. Well([job[c] EXCEPT !.phase = "block", !.blind = TRUE], round)
  BY <1>1, BlockWell
<1> QED
  BY <1>2, StepKeeps DEF PendingLost

\* The wait looks again, or gives up, whether the round it has looked in is over or not.
LEMMA WaitBlockKeeps ==
    ASSUME SubmissionInv, NEW c \in Clients, WaitBlock(c)
    PROVE  SubmissionInv'
<1> DEFINE i == job[c]
           j == [i EXCEPT !.cur = NextRound(i)]
           k == [j EXCEPT !.phase = "pending", !.blind = round <= i.cur]
           l == [j EXCEPT !.at = 0, !.phase = "step", !.result = "timeout"]
<1>1. /\ Running(c) /\ i.phase = "block"
      /\ UNCHANGED <<chain, orphans, ops>>
      /\ Set(c, IF MoreRounds(j) THEN k ELSE l)
  BY DEF WaitBlock, AtPhase
<1>2. i \in JobType /\ Well(i, round) /\ round \in Nat /\ round <= MaxRound
  BY ClientWell
<1>3. /\ i.at > 0 /\ i.result = "none" /\ ~i.doubt /\ Timeout \in Nat \ {0}
      /\ i.cur \in Nat /\ i.end \in Nat /\ i.tx.confirmed \in Nat
  BY <1>1, WaitWell
<1>4. /\ j \in JobType /\ j.op = i.op /\ j.at = i.at /\ j.tx = i.tx /\ j.cur = i.cur + 1
      /\ j.end = i.end /\ j.result = i.result /\ j.doubt = i.doubt /\ j.blind = i.blind
  BY <1>2, <1>3 DEF JobType, NextRound
<1>5. CASE MoreRounds(j)
  <2>1. /\ k \in JobType /\ k.op = j.op /\ k.at = j.at /\ k.phase = "pending" /\ k.tx = j.tx
        /\ k.cur = j.cur /\ k.end = j.end /\ k.result = j.result /\ k.doubt = j.doubt
        /\ ~k.blind => ~(round <= i.cur)
    <3> DEFINE b == round <= i.cur
    <3>1. k = [j EXCEPT !.phase = "pending", !.blind = b] /\ b \in BOOLEAN
      OBVIOUS
    <3> HIDE DEF j, k, b
    <3>2. /\ k \in JobType /\ k.op = j.op /\ k.at = j.at /\ k.phase = "pending"
          /\ k.tx = j.tx /\ k.cur = j.cur /\ k.end = j.end /\ k.result = j.result
          /\ k.doubt = j.doubt /\ k.blind = b
      BY <1>4, <3>1 DEF JobType
    <3> QED
      BY <3>2 DEF b
  <2>2. Well(k, round)
    <3> HIDE DEF k, j, i
    <3> QED
      BY <1>1, <1>2, <1>3, <1>4, <1>5, <2>1
         DEF Well, Placed, Settles, InTime, Seen, MoreRounds
  <2> HIDE DEF j, k
  <2> QED
    BY <1>1, <1>5, <2>2, StepKeeps
<1>6. CASE ~MoreRounds(j)
  <2>1. /\ l \in JobType /\ l.op = j.op /\ l.at = 0 /\ l.phase = "step" /\ l.tx = j.tx
        /\ l.cur = j.cur /\ l.end = j.end /\ l.result = "timeout" /\ l.doubt = j.doubt
        /\ l.blind = j.blind
    <3> HIDE DEF j
    <3> QED
      BY <1>4 DEF JobType
  <2>2. Len(Script[l.op]) \in Nat
    BY <2>1, ScriptType DEF JobType
  <2>3. Well(l, round)
    <3> HIDE DEF l, j, i
    <3> QED
      BY <1>1, <1>2, <1>3, <1>4, <1>6, <2>1, <2>2
         DEF Well, Placed, Settles, InTime, Seen, MoreRounds
  <2> HIDE DEF j, l
  <2> QED
    BY <1>1, <1>6, <2>3, StepKeeps
<1> QED
  BY <1>5, <1>6

-----------------------------------------------------------------------------
(* The chain *)

LEMMA PoolWell ==
    ASSUME SubmissionInv, NEW t \in Pool
    PROVE  TxWell(t) /\ t.status = "pool"
  BY ClientWell DEF Pool, SubmissionInv, OrphansWell, Well

\* A transaction leaves the pool, in the next round if it is confirmed: every job
\* that has it, or gave it up, is as well as before.
LEMMA SettleKeeps ==
    ASSUME SubmissionInv, NEW t, TxWell(t), t.status = "pool",
           NEW u, TxWell(u), u.status # "pool", u.kind \in TxSteps,
           round' \in Nat, round <= round', u.confirmed # 0 => u.confirmed > round,
           Settle(t, u)
    PROVE  JobsWell' /\ OrphansWell'
<1> DEFINE undo(c) ==
             \/ job[c].undone
             \/ /\ u.status = "confirmed" /\ t \in orphans /\ t.from = c
                /\ t.kind \in {"opt_in_app", "close_out", "clear_state"}
                /\ job[c].op \in MemberOps
           tx(c) == IF job[c].tx = t THEN u ELSE job[c].tx
           done(c) == IF job[c].tx = t /\ u.status = "confirmed"
                      THEN job[c].done \cup {t.kind} ELSE job[c].done
           arrived(c) == IF u.status = "confirmed" /\ Moves(t) /\ t.to = c
                              /\ job[c].op = "change_asset_reserve_address"
                         THEN job[c].arrived + t.amount ELSE job[c].arrived
           next(c) == [job[c] EXCEPT !.tx = tx(c), !.done = done(c), !.arrived = arrived(c),
                                     !.undone = undo(c)]
<1>1. OrphansWell'
  BY DEF Settle, SubmissionInv, OrphansWell
<1>2. job' = [c \in Clients |-> next(c)]
  BY DEF Settle
<1>3. ASSUME NEW c \in Clients
      PROVE  next(c) \in JobType /\ Well(next(c), round')
  <2> DEFINE j == job[c]
             i == next(c)
  <2>1. j \in JobType /\ Well(j, round) /\ round \in Nat
    BY ClientWell
  <2>2. tx(c) \in TxType /\ TxWell(tx(c))
    BY <2>1 DEF JobType, TxWell, Well
  <2>3. done(c) \in SUBSET TxSteps
    <3>1. t.kind \in TxSteps
      BY DEF TxWell
    <3> QED
      BY <2>1, <3>1 DEF JobType
  <2>4. arrived(c) \in Nat
    <3>1. t.amount \in Nat
      BY BoundAssumption DEF TxWell, TxType
    <3> QED
      BY <2>1, <3>1 DEF JobType
  <2>5. undo(c) \in BOOLEAN
    BY <2>1 DEF JobType
  <2>6. /\ i \in JobType /\ i.op = j.op /\ i.at = j.at /\ i.phase = j.phase /\ i.tx = tx(c)
        /\ i.cur = j.cur /\ i.end = j.end /\ i.result = j.result /\ i.doubt = j.doubt
        /\ i.blind = j.blind
    <3> HIDE DEF tx, done, arrived, undo, j
    <3>1. i = [j EXCEPT !.tx = tx(c), !.done = done(c), !.arrived = arrived(c),
                        !.undone = undo(c)]
      BY DEF j
    <3> HIDE DEF i, next
    <3> QED
      BY <2>1, <2>2, <2>3, <2>4, <2>5, <3>1 DEF JobType
  <2>7. u.kind # "none" /\ u.confirmed \in Nat
    BY BoundAssumption DEF TxSteps, TxWell, TxType
  <2>8. j.tx.confirmed \in Nat
    BY <2>1, BoundAssumption DEF JobType, TxType
  <2>9. j.cur \in Nat /\ j.end \in Nat /\ Timeout \in Nat
    BY <2>1, BoundAssumption DEF JobType
  <2>10. tx(c) = u \/ tx(c) = j.tx
    OBVIOUS
  <2>11. Well(i, round')
    <3> HIDE DEF i, j, tx, next
    <3>1. Placed(i)
      BY <2>1, <2>6, <2>7, <2>10 DEF Well, Placed
    <3>2. Settles(i)
      BY <2>1, <2>6, <2>10 DEF Well, Settles
    <3>3. CASE tx(c) = u
      <4>1. InTime(i, round')
        BY <2>1, <2>6, <2>7, <2>9, <3>3 DEF Well, InTime, Seen
      <4> QED
        BY <2>2, <2>6, <3>1, <3>2, <4>1 DEF Well
    <3>4. CASE tx(c) = j.tx
      <4>1. InTime(i, round')
        BY <2>1, <2>6, <2>8, <2>9, <3>4 DEF Well, InTime, Seen
      <4> QED
        BY <2>2, <2>6, <3>1, <3>2, <4>1 DEF Well
    <3> QED
      BY <2>10, <3>3, <3>4
  <2> QED
    BY <2>6, <2>11
<1> HIDE DEF next
<1>4. job' \in [Clients -> JobType] /\ \A c \in Clients : Well(job'[c], round')
  BY <1>2, <1>3
<1> QED
  BY <1>1, <1>4 DEF JobsWell

\* A transfer moves units from one account to another, and there are none left over.
LEMMA MovedType ==
    ASSUME HeldType, NEW t, TxWell(t), held[t.from] >= t.amount
    PROVE  /\ Moved(t) \in [Accounts -> 0 .. Supply]
           /\ Moved(t)["creator"] + Moved(t)["other"] + Moved(t)["app"] = Supply
<1>1. t.from \in Accounts /\ t.to \in Accounts /\ t.amount \in Nat /\ Supply \in Nat
  BY BoundAssumption DEF TxWell, TxType
<1> DEFINE out(a) == IF a = t.from THEN t.amount ELSE 0
           in(a) == IF a = t.to THEN t.amount ELSE 0
           m(a) == held[a] - out(a) + in(a)
<1>2. Moved(t) = [a \in Accounts |-> m(a)]
  BY DEF Moved
<1>3. \A a \in Accounts : held[a] \in Nat /\ out(a) \in Nat /\ in(a) \in Nat /\ out(a) <= held[a]
  BY <1>1 DEF HeldType
<1>4. /\ out("creator") + out("other") + out("app") = t.amount
      /\ in("creator") + in("other") + in("app") = t.amount
  BY <1>1 DEF Accounts
<1>5. /\ "creator" \in Accounts /\ "other" \in Accounts /\ "app" \in Accounts
      /\ \A a \in Accounts : a = "creator" \/ a = "other" \/ a = "app"
  BY DEF Accounts
<1> HIDE DEF out, in
<1>6. m("creator") + m("other") + m("app") = Supply
  BY <1>1, <1>3, <1>4, <1>5 DEF HeldType
<1>7. \A a \in Accounts : m(a) \in Nat
  BY <1>3
<1>8. \A a \in Accounts : m(a) \in 0 .. Supply
  <2> HIDE DEF m
  <2> QED
    BY <1>1, <1>5, <1>6, <1>7
<1> HIDE DEF m
<1> QED
  BY <1>2, <1>5, <1>6, <1>8

LEMMA ConfirmKeeps ==
    ASSUME SubmissionInv, NEW t \in Pool, Confirm(t)
    PROVE  SubmissionInv'
<1> DEFINE u == [t EXCEPT !.status = "confirmed", !.confirmed = round + 1]
<1>1. /\ TxWell(t) /\ t \in TxType /\ t.status = "pool" /\ t.kind \in TxSteps
      /\ t.from \in Clients /\ t.from \in Accounts /\ t.to \in Accounts
  BY PoolWell DEF TxWell, TxType
<1>2. /\ round \in Nat /\ MaxRound \in Nat /\ round < MaxRound /\ round' = round + 1
      /\ round + 1 \in 0 .. MaxRound
  BY BoundAssumption DEF Confirm, SubmissionInv, ChainType
<1>3. /\ u \in TxType /\ u.status = "confirmed" /\ u.confirmed = round + 1 /\ u.kind = t.kind
      /\ TxWell(u)
  <2>1. /\ u \in TxType /\ u.status = "confirmed" /\ u.confirmed = round + 1
        /\ u.kind = t.kind
    BY <1>1, <1>2 DEF TxType, Statuses
  <2>2. round + 1 # 0
    BY <1>2
  <2> HIDE DEF u
  <2> QED
    BY <2>1, <2>2 DEF TxWell
<1>4. JobsWell' /\ OrphansWell'
  <2>1. Settle(t, u)
    BY DEF Confirm
  <2> HIDE DEF u
  <2> QED
    BY <1>1, <1>2, <1>3, <2>1, SettleKeeps
<1>5. HeldType'
  <2>1. CASE Moves(t)
    <3>1. held[t.from] >= t.amount /\ held' = Moved(t)
      BY <2>1 DEF Confirm, Valid
    <3>2. HeldType
      BY DEF SubmissionInv, ChainType
    <3> QED
      BY <1>1, <3>1, <3>2, MovedType DEF HeldType
  <2>2. CASE ~Moves(t)
    BY <2>2 DEF Confirm, SubmissionInv, ChainType, HeldType
  <2> QED
    BY <2>1, <2>2
<1>6. optedIn' \subseteq Accounts
  BY <1>1 DEF Confirm, SubmissionInv, ChainType, Accounts
<1>7. asset' \in [manager : Accounts, reserve : Accounts]
  BY <1>1 DEF Confirm, SubmissionInv, ChainType
<1>8. app' \subseteq {"created", "funded", "deleted"} /\ members' \subseteq Clients
  BY <1>1 DEF Confirm, SubmissionInv, ChainType
<1> QED
  BY <1>2, <1>4, <1>5, <1>6, <1>7, <1>8 DEF Confirm, SubmissionInv, ChainType

LEMMA LeavePoolKeeps ==
    ASSUME SubmissionInv, NEW t \in Pool, LeavePool(t)
    PROVE  SubmissionInv'
<1>1. PICK x \in {"rejected", "gone"} : Settle(t, [t EXCEPT !.status = x])
  BY DEF LeavePool
<1> DEFINE u == [t EXCEPT !.status = x]
<1>2. TxWell(t) /\ t \in TxType /\ t.status = "pool" /\ t.kind \in TxSteps /\ t.confirmed = 0
  BY PoolWell DEF TxWell
<1>3. u \in TxType /\ u.status = x /\ u.confirmed = 0 /\ u.kind = t.kind /\ TxWell(u)
  BY <1>2 DEF TxType, TxWell, Statuses
<1>4. UNCHANGED <<chain, ops>> /\ round' = round /\ round \in Nat
  BY BoundAssumption DEF LeavePool, chain, SubmissionInv, ChainType
<1>5. JobsWell' /\ OrphansWell'
  <2>1. Settle(t, u) /\ round <= round' /\ round' \in Nat /\ u.status # "pool"
    BY <1>1, <1>3, <1>4
  <2> HIDE DEF u
  <2> QED
    BY <1>2, <1>3, <2>1, SettleKeeps
<1> QED
  BY <1>4, <1>5 DEF SubmissionInv, ChainType, HeldType, chain

\* A round in which nothing is confirmed.
LEMMA EmptyRoundKeeps ==
    ASSUME SubmissionInv, EmptyRound
    PROVE  SubmissionInv'
<1>1. round \in Nat /\ round' = round + 1 /\ round + 1 \in 0 .. MaxRound
  BY BoundAssumption DEF EmptyRound, SubmissionInv, ChainType
<1>2. ASSUME NEW c \in Clients
      PROVE  Well(job[c], round + 1)
  <2>1. /\ Well(job[c], round) /\ job[c].cur \in Nat /\ job[c].end \in Nat
        /\ Timeout \in Nat
    BY ClientWell, BoundAssumption DEF JobType
  <2> QED
    BY <1>1, <2>1 DEF Well, InTime, Seen
<1>3. JobsWell'
  BY <1>1, <1>2 DEF EmptyRound, SubmissionInv, JobsWell
<1> QED
  BY <1>1, <1>3 DEF EmptyRound, SubmissionInv, ChainType, HeldType, OrphansWell

-----------------------------------------------------------------------------
(* The theorems *)

LEMMA InitInv == Init => SubmissionInv
<1> SUFFICES ASSUME Init PROVE SubmissionInv
  OBVIOUS
<1>1. Clients \subseteq {"creator", "other"} /\ Supply \in Nat /\ MaxRound \in Nat /\ MaxOps \in Nat
  BY ClientAssumption, BoundAssumption
<1>2. HeldType
  BY <1>1 DEF Init, HeldType, Accounts
<1>3. ChainType
  BY <1>1, <1>2 DEF Init, ChainType, Accounts
<1>4. Well(Idle, 0) /\ Idle \in JobType
  BY IdleWell DEF Well
<1>5. JobsWell
  BY <1>4 DEF Init, JobsWell
<1> QED
  BY <1>1, <1>3, <1>5 DEF Init, SubmissionInv, OrphansWell

LEMMA NextKeeps == SubmissionInv /\ [Next]_vars => SubmissionInv'
<1> SUFFICES ASSUME SubmissionInv, [Next]_vars PROVE SubmissionInv'
  OBVIOUS
<1>1. ASSUME NEW c \in Clients, ClientStep(c)
      PROVE  SubmissionInv'
  <2>1. CASE ReadResult(c) \/ Check(c)
    BY <2>1, ReadResultKeeps, CheckKeeps
  <2>2. CASE ReadHolding(c)
    BY <2>2, ReadHoldingKeeps
  <2>3. CASE CheckApp(c) \/ CheckMember(c)
    BY <2>3, CheckAppKeeps, CheckMemberKeeps
  <2>4. CASE FailRead(c) \/ FailWait(c)
    BY <2>4, FailReadKeeps, FailWaitKeeps
  <2>5. CASE Submit(c)
    BY <2>5, SubmitKeeps
  <2>6. CASE ReadStatus(c)
    BY <2>6, ReadStatusKeeps
  <2>7. CASE Pending(c) \/ PendingLost(c)
    BY <2>7, PendingKeeps, PendingLostKeeps
  <2>8. CASE WaitBlock(c)
    BY <2>8, WaitBlockKeeps
  <2> QED
    BY <1>1, <2>1, <2>2, <2>3, <2>4, <2>5, <2>6, <2>7, <2>8 DEF ClientStep
<1>2. ASSUME NEW c \in Clients, NEW n \in Operations[c], Start(c, n)
      PROVE  SubmissionInv'
  BY <1>2, StartKeeps
<1>3. ASSUME NEW t \in Pool, Confirm(t) \/ LeavePool(t)
      PROVE  SubmissionInv'
  BY <1>3, ConfirmKeeps, LeavePoolKeeps
<1>4. CASE EmptyRound
  BY <1>4, EmptyRoundKeeps
<1>5. CASE UNCHANGED vars
  BY <1>5 DEF vars, chain, SubmissionInv, ChainType, HeldType, OrphansWell, JobsWell
<1> QED
  BY <1>1, <1>2, <1>3, <1>4, <1>5 DEF Next

\* The inductive invariant holds in every state.
THEOREM SubmissionInvariance == Spec => []SubmissionInv
  BY InitInv, NextKeeps, PTL DEF Spec

\* Type correctness, and with it: the chain never creates or destroys a unit of the
\* asset, only a running operation waits, and only for a transaction it has sent.
THEOREM TypeCorrect == Spec => []TypeOK
<1>1. SubmissionInv => TypeOK
  <2> SUFFICES ASSUME SubmissionInv PROVE TypeOK
    OBVIOUS
  <2>1. ASSUME NEW c \in Clients
        PROVE  /\ DOMAIN job[c] = DOMAIN Idle
               /\ job[c].op \in DOMAIN Script /\ job[c].at \in 0 .. Len(Script[job[c].op])
               /\ job[c].to \in Accounts /\ job[c].amount \in 0 .. Supply
               /\ job[c].phase \in {"step", "status", "pending", "block"}
               /\ job[c].phase # "step" => Step(c) \in TxSteps /\ job[c].tx # NoTx
               /\ job[c].cur <= job[c].end /\ job[c].end <= MaxRound + 1 + Timeout
               /\ job[c].result \in
                      {"none", "ok", "ok_none", "error", "pool_error", "timeout"}
    <3>1. job[c] \in JobType /\ Placed(job[c])
      BY ClientWell DEF Well
    <3>2. DOMAIN job[c] = DOMAIN Idle
      BY <3>1 DEF JobType, Idle
    <3>3. Len(Script[job[c].op]) \in Nat
      BY <3>1, ScriptType DEF JobType
    <3>4. job[c].tx.kind # "none" => job[c].tx # NoTx
      BY DEF NoTx
    <3> QED
      BY <3>1, <3>2, <3>3, <3>4 DEF JobType, Placed, Step
  <2>2. \A t \in orphans : t.kind \in TxSteps /\ t.status = "pool"
    BY DEF SubmissionInv, OrphansWell, TxWell
  <2> QED
    BY <2>1, <2>2 DEF TypeOK, SubmissionInv, ChainType, HeldType
<1> QED
  BY <1>1, SubmissionInvariance, PTL

\* No operation of ops.rs submits a transaction before the one it submitted last is
\* settled, whatever the requests, the node and the other clients do.
THEOREM NextOnlyAfterConfirmedHolds == Spec => []NextOnlyAfterConfirmed
<1>1. SubmissionInv => NextOnlyAfterConfirmed
  BY ClientWell DEF NextOnlyAfterConfirmed, Well, Settles
<1> QED
  BY <1>1, SubmissionInvariance, PTL

\* wait_for_confirmation reports a timeout only for a transaction that was not confirmed
\* in the rounds it waits for, if its last look was answered and came after a block: how
\* early status_after_block answered before that does not matter.  It has to wait for more
\* than one round: its first look is at the round that is being made, so with
\* timeout_rounds = 1 it looks too early.
THEOREM ConfirmedInTimeHolds ==
    ASSUME Timeout > 1
    PROVE  Spec => []ConfirmedInTimeIsSeen
<1>1. SubmissionInv => ConfirmedInTimeIsSeen
  <2> SUFFICES ASSUME SubmissionInv PROVE ConfirmedInTimeIsSeen
    OBVIOUS
  <2> SUFFICES ASSUME NEW c \in Clients, job[c].result = "timeout", ~job[c].blind
               PROVE  job[c].tx.confirmed = 0 \/ job[c].tx.confirmed >= job[c].end
    BY DEF ConfirmedInTimeIsSeen
  <2> QED
    BY ClientWell DEF Well, InTime
<1> QED
  BY <1>1, SubmissionInvariance, PTL

-----------------------------------------------------------------------------
(***************************************************************************)
(* What an operation has done when it returns Ok.  The second invariant    *)
(* follows the script: what the steps behind a job were for is still so,   *)
(* and one that has returned Ok(None) is behind the step that creates.     *)
(***************************************************************************)
\* What a script's step has achieved once the operation is past it: a is the state
\* of the application, o who is opted in to the asset, d what the operation has confirmed.
Achieved(s, d, c, a, o) ==
    /\ s = "create" => "created" \in a
    /\ s = "fund" => "funded" \in a
    /\ s = "delete" => "deleted" \in a
    /\ s = "call" => "app" \in o
    /\ s \in {"create", "plain", "reconfigure"} => s \in d
    /\ s \in {"manager", "creator"} => c = "creator"

Past(j, k) == j.at > k \/ j.result = "ok"

StepsAchieved(j, c, a, o) ==
    \A k \in 1 .. Len(Script[j.op]) :
        Past(j, k) => Achieved(Script[j.op][k], j.done, c, a, o)

\* The transaction of a job is its own, of one of its steps, of the present one
\* while it waits, and confirmed when it does not.
OwnTx(j, c, a, o) ==
    /\ j.tx # NoTx => /\ j.tx.from = c
                      /\ \E k \in 1 .. Len(Script[j.op]) : j.tx.kind = Script[j.op][k]
    /\ j.phase # "step" => /\ j.tx # NoTx /\ j.tx.kind = Script[j.op][j.at]
                           /\ j.tx.to = j.to /\ j.tx.amount = j.amount
    /\ (j.at > 0 /\ j.phase = "step") \/ j.result \in {"ok", "ok_none"}
         => j.tx = NoTx \/ j.tx.status = "confirmed"
    /\ j.tx.status = "confirmed" => Achieved(j.tx.kind, j.done, c, a, o)

\* The membership is what the operation made it, unless an older transaction undid it.
MemberKept(j, c, m) ==
    j.op \in MemberOps /\ (j.tx.status = "confirmed" \/ j.result = "ok")
        => j.undone \/ (c \in m <=> j.op = "opt_in_app")

\* What an account holds beyond the amount it is sending has arrived since it was read.
HandingOver(j, c, h) ==
    j.op = "change_asset_reserve_address" =>
        /\ j.to # "creator"
        /\ j.at > 3 => h[c] <= j.amount + j.arrived
        /\ j.at = 5 /\ j.phase # "step" /\ j.tx.status = "confirmed" => h[c] <= j.arrived
        /\ j.result = "ok" => h[c] <= j.arrived

\* What has no id to return has been created.
NoneMade(j) == j.result = "ok_none" => {"create", "plain"} \cap j.done # {}

JobDone(j, c, a, o, m, h) ==
    /\ StepsAchieved(j, c, a, o) /\ OwnTx(j, c, a, o) /\ MemberKept(j, c, m)
    /\ HandingOver(j, c, h) /\ NoneMade(j)

JobsDone == \A c \in Clients : JobDone(job[c], c, app, optedIn, members, held)

\* Nothing deletes the application while its creator deploys it: what could was
\* submitted when there was an application, so before the deployment began.
Deploying == "creator" \in Clients /\ job["creator"].op = "deploy_app"

DeploymentSafe ==
    /\ \A t \in Pool : t.kind = "delete" =>
            t.from = "creator" /\ "created" \in app /\ ~Deploying
    /\ Deploying => "deleted" \notin app

OutcomeInv == asset.manager = "creator" /\ DeploymentSafe /\ JobsDone

-----------------------------------------------------------------------------
(* Scripts *)

\* The scripts that OkMeansDone and HandedOver speak of.
LEMMA ScriptSteps ==
    /\ Len(Script["deploy_app"]) = 8
    /\ Script["deploy_app"][1] = "create" /\ Script["deploy_app"][3] = "fund"
    /\ Script["deploy_app"][5] = "call" /\ Script["deploy_app"][7] = "manager"
    /\ Script["deploy_app"][8] = "reconfigure"
    /\ \A k \in 1 .. 8 : Script["deploy_app"][k] # "delete"
    /\ Script["set_asset_clawback_to_app"] = <<"manager", "reconfigure">>
    /\ Len(Script["change_asset_reserve_address"]) = 5
    /\ Script["change_asset_reserve_address"][1] = "creator"
    /\ Script["change_asset_reserve_address"][2] = "reconfigure"
    /\ Script["change_asset_reserve_address"][3] = "holding"
    /\ Script["change_asset_reserve_address"][4] = "receiver"
    /\ Script["change_asset_reserve_address"][5] = "transfer"
    /\ Script["delete_app"] = <<"delete">>
    /\ Script["opt_in_app"] = <<"member", "opt_in_app">>
    /\ Script["close_out_app"] = <<"close_out">>
    /\ Script["clear_state_app"] = <<"clear_state">>
<1>1. Script["deploy_app"] = DeployApp
  BY DEF Script
<1>2. /\ Len(DeployApp) = 8
      /\ DeployApp[1] = "create" /\ DeployApp[2] = "id" /\ DeployApp[3] = "fund"
      /\ DeployApp[4] = "app_opted_in" /\ DeployApp[5] = "call" /\ DeployApp[6] = "logs"
      /\ DeployApp[7] = "manager" /\ DeployApp[8] = "reconfigure"
  BY DEF DeployApp, CreateApp, FundApp, OptInAppToAsset, CallApp, SetAssetClawbackToApp
<1>3. Script["change_asset_reserve_address"] = ChangeAssetReserveAddress
  BY DEF Script
<1>4. /\ Len(ChangeAssetReserveAddress) = 5
      /\ ChangeAssetReserveAddress[1] = "creator"
      /\ ChangeAssetReserveAddress[2] = "reconfigure"
      /\ ChangeAssetReserveAddress[3] = "holding"
      /\ ChangeAssetReserveAddress[4] = "receiver"
      /\ ChangeAssetReserveAddress[5] = "transfer"
  BY DEF ChangeAssetReserveAddress, SendAsset
<1>5. /\ Script["set_asset_clawback_to_app"] = SetAssetClawbackToApp
      /\ Script["delete_app"] = DeleteApp /\ Script["opt_in_app"] = OptInApp
      /\ Script["close_out_app"] = CloseOutApp /\ Script["clear_state_app"] = ClearStateApp
  BY DEF Script
<1> QED
  BY <1>1, <1>2, <1>3, <1>4, <1>5
     DEF SetAssetClawbackToApp, DeleteApp, OptInApp, CloseOutApp, ClearStateApp

\* opt_in_app_to_asset and deploy_app skip their call alone.
LEMMA AppOptedInSteps ==
    ASSUME NEW n \in DOMAIN Script, NEW k \in 1 .. Len(Script[n]),
           Script[n][k] = "app_opted_in"
    PROVE  /\ k + 2 <= Len(Script[n])
           /\ Script[n][k + 1] = "call" /\ Script[n][k + 2] = "logs"
           /\ n \notin MemberOps /\ n # "change_asset_reserve_address"
<1> DEFINE Calls(s) == \A i \in 1 .. Len(s) : s[i] = "app_opted_in" =>
                           i + 2 <= Len(s) /\ s[i + 1] = "call" /\ s[i + 2] = "logs"
<1>1. /\ Calls(SendAlgo) /\ Calls(OptInToAsset) /\ Calls(SendAsset) /\ Calls(CreateAsset)
      /\ Calls(CreateApp) /\ Calls(CallApp) /\ Calls(FundApp) /\ Calls(SetAssetClawbackToApp)
      /\ Calls(OptInApp) /\ Calls(CloseOutApp) /\ Calls(ClearStateApp) /\ Calls(UpdateApp)
      /\ Calls(DeleteApp) /\ Calls(Group)
  BY DEF SendAlgo, OptInToAsset, SendAsset, CreateAsset, CreateApp, CallApp, FundApp,
         SetAssetClawbackToApp, OptInApp, CloseOutApp, ClearStateApp, UpdateApp, DeleteApp, Group
<1>2. Calls(OptInAppToAsset)
  BY DEF OptInAppToAsset, CallApp
<1>3. Calls(ChangeAssetReserveAddress)
  BY DEF ChangeAssetReserveAddress, SendAsset
<1>4. Calls(RecoverReserveBalance)
  BY DEF RecoverReserveBalance, SendAsset
<1>5. Calls(DeployApp)
  BY DEF DeployApp, CreateApp, FundApp, OptInAppToAsset, CallApp, SetAssetClawbackToApp
<1>6. Calls(Script[n])
  <2> HIDE DEF Calls
  <2> QED
    BY <1>1, <1>2, <1>3, <1>4, <1>5 DEF Script
<1>7. n \notin MemberOps /\ n # "change_asset_reserve_address"
  <2>1. n # "opt_in_app" /\ n # "close_out_app" /\ n # "clear_state_app"
    BY ScriptSteps
  <2>2. ASSUME n = "change_asset_reserve_address" PROVE FALSE
    <3>1. Len(Script[n]) = 5
      BY <2>2, ScriptSteps
    <3>2. k = 1 \/ k = 2 \/ k = 3 \/ k = 4 \/ k = 5
      BY <3>1
    <3> QED
      BY <2>2, <3>2, ScriptSteps
  <2> QED
    BY <2>1, <2>2 DEF MemberOps
<1> QED
  BY <1>6, <1>7

\* Only opt_in_app asks for the membership, and it does so first.
LEMMA MemberSteps ==
    ASSUME NEW n \in DOMAIN Script, NEW k \in 1 .. Len(Script[n]), Script[n][k] = "member"
    PROVE  n = "opt_in_app" /\ k = 1
<1> DEFINE None(s) == \A i \in 1 .. Len(s) : s[i] # "member"
<1>1. /\ None(SendAlgo) /\ None(OptInToAsset) /\ None(SendAsset) /\ None(CreateAsset)
      /\ None(CreateApp) /\ None(CallApp) /\ None(FundApp) /\ None(SetAssetClawbackToApp)
      /\ None(CloseOutApp) /\ None(ClearStateApp) /\ None(UpdateApp)
      /\ None(DeleteApp) /\ None(Group)
  BY DEF SendAlgo, OptInToAsset, SendAsset, CreateAsset, CreateApp, CallApp, FundApp,
         SetAssetClawbackToApp, CloseOutApp, ClearStateApp, UpdateApp, DeleteApp, Group
<1>2. None(OptInAppToAsset)
  BY DEF OptInAppToAsset, CallApp
<1>3. None(ChangeAssetReserveAddress)
  BY DEF ChangeAssetReserveAddress, SendAsset
<1>4. None(RecoverReserveBalance)
  BY DEF RecoverReserveBalance, SendAsset
<1>5. None(DeployApp)
  BY DEF DeployApp, CreateApp, FundApp, OptInAppToAsset, CallApp, SetAssetClawbackToApp
<1>6. n = "opt_in_app" \/ None(Script[n])
  <2> HIDE DEF None
  <2> QED
    BY <1>1, <1>2, <1>3, <1>4, <1>5 DEF Script
<1> QED
  BY <1>6, ScriptSteps

\* What an id is read of has been created by the step before.
LEMMA IdSteps ==
    ASSUME NEW n \in DOMAIN Script, NEW k \in 1 .. Len(Script[n]), Script[n][k] = "id"
    PROVE  k > 1 /\ Script[n][k - 1] \in {"create", "plain"}
<1> DEFINE Made(s) == \A i \in 1 .. Len(s) : s[i] = "id" =>
                           i > 1 /\ s[i - 1] \in {"create", "plain"}
<1>1. /\ Made(SendAlgo) /\ Made(OptInToAsset) /\ Made(SendAsset) /\ Made(CreateAsset)
      /\ Made(CreateApp) /\ Made(CallApp) /\ Made(FundApp) /\ Made(SetAssetClawbackToApp)
      /\ Made(OptInApp) /\ Made(CloseOutApp) /\ Made(ClearStateApp) /\ Made(UpdateApp)
      /\ Made(DeleteApp) /\ Made(Group)
  BY DEF SendAlgo, OptInToAsset, SendAsset, CreateAsset, CreateApp, CallApp, FundApp, OptInApp,
         SetAssetClawbackToApp, CloseOutApp, ClearStateApp, UpdateApp, DeleteApp, Group
<1>2. Made(OptInAppToAsset)
  BY DEF OptInAppToAsset, CallApp
<1>3. Made(ChangeAssetReserveAddress)
  BY DEF ChangeAssetReserveAddress, SendAsset
<1>4. Made(RecoverReserveBalance)
  BY DEF RecoverReserveBalance, SendAsset
<1>5. Made(DeployApp)
  BY DEF DeployApp, CreateApp, FundApp, OptInAppToAsset, CallApp, SetAssetClawbackToApp
<1>6. Made(Script[n])
  <2> HIDE DEF Made
  <2> QED
    BY <1>1, <1>2, <1>3, <1>4, <1>5 DEF Script
<1> QED
  BY <1>6

-----------------------------------------------------------------------------
(* Jobs *)

\* What has been achieved stays so while the chain and the operation go on.
LEMMA AchievedStays ==
    ASSUME NEW s, NEW c, NEW d, NEW a, NEW o, Achieved(s, d, c, a, o),
           NEW d2, NEW a2, NEW o2, d \subseteq d2, a \subseteq a2, o \subseteq o2
    PROVE  Achieved(s, d2, c, a2, o2)
  BY DEF Achieved

\* A job that has just begun, or failed, has done nothing yet.
LEMMA FreshDone ==
    ASSUME NEW j, j.tx = NoTx, j.at <= 1, j.at \in Nat, j.phase = "step",
           j.result \notin {"ok", "ok_none"},
           j.op = "change_asset_reserve_address" => j.to # "creator",
           NEW c, NEW a, NEW o, NEW m, NEW h
    PROVE  JobDone(j, c, a, o, m, h)
<1>1. StepsAchieved(j, c, a, o)
  BY DEF StepsAchieved, Past
<1>2. OwnTx(j, c, a, o)
  BY DEF OwnTx, NoTx
<1>3. MemberKept(j, c, m)
  BY DEF MemberKept, NoTx
<1>4. HandingOver(j, c, h) /\ NoneMade(j)
  BY DEF HandingOver, NoneMade
<1> QED
  BY <1>1, <1>2, <1>3, <1>4 DEF JobDone

\* An operation goes on past steps that have achieved what they are for.
LEMMA SkipDone ==
    ASSUME NEW j \in JobType, NEW k \in Nat \ {0}, j.at > 0, j.result = "none",
           NEW c, NEW a, NEW o, NEW m, NEW h, JobDone(j, c, a, o, m, h),
           j.tx = NoTx \/ j.tx.status = "confirmed",
           j.at <= Len(Script[j.op]),
           \A i \in 1 .. Len(Script[j.op]) : j.at <= i /\ i < j.at + k
               => Achieved(Script[j.op][i], j.done, c, a, o),
           j.op \in MemberOps /\ j.at + k > Len(Script[j.op])
               => j.undone \/ (c \in m <=> j.op = "opt_in_app"),
           j.op = "change_asset_reserve_address" =>
               /\ k = 1
               /\ j.at = 3 => h[c] <= j.amount + j.arrived
               /\ j.at = 5 => h[c] <= j.arrived
    PROVE  JobDone(Skip(j, k), c, a, o, m, h)
<1> DEFINE n == Len(Script[j.op])
           i == Skip(j, k)
<1>1. n \in Nat /\ j.at \in Nat
  BY ScriptType DEF JobType
<1>2. /\ i.op = j.op /\ i.to = j.to /\ i.amount = j.amount /\ i.phase = "step" /\ i.tx = j.tx
      /\ i.done = j.done /\ i.arrived = j.arrived /\ i.undone = j.undone
      /\ i.at = (IF j.at + k <= n THEN j.at + k ELSE 0)
      /\ i.result = (IF j.at + k <= n THEN "none" ELSE "ok")
  BY DEF Skip, JobType
<1> HIDE DEF i
<1>3. StepsAchieved(i, c, a, o)
  <2> SUFFICES ASSUME NEW s \in 1 .. n, Past(i, s)
               PROVE  Achieved(Script[j.op][s], j.done, c, a, o)
    BY <1>2 DEF StepsAchieved
  <2>1. s < j.at + k
    BY <1>1, <1>2 DEF Past
  <2>2. CASE s < j.at
    BY <1>1, <2>2 DEF JobDone, StepsAchieved, Past
  <2>3. CASE j.at <= s
    BY <2>1, <2>3
  <2> QED
    BY <1>1, <2>2, <2>3
<1>4. OwnTx(i, c, a, o)
  BY <1>2 DEF JobDone, OwnTx
<1>5. MemberKept(i, c, m)
  <2>1. MemberKept(j, c, m)
    BY DEF JobDone
  <2>2. CASE j.at + k <= n
    BY <1>2, <2>1, <2>2 DEF MemberKept
  <2>3. CASE j.at + k > n
    BY <1>2, <2>3 DEF MemberKept
  <2> QED
    BY <1>1, <2>2, <2>3
<1>6. HandingOver(i, c, h)
  <2> SUFFICES ASSUME j.op = "change_asset_reserve_address" PROVE HandingOver(i, c, h)
    BY <1>2 DEF HandingOver
  <2>1. k = 1 /\ n = 5
    BY ScriptSteps
  <2>2. /\ j.to # "creator"
        /\ j.at > 3 => h[c] <= j.amount + j.arrived
    BY DEF JobDone, HandingOver
  <2>3. j.at \in 1 .. 4 => i.at = j.at + 1 /\ i.result = "none"
    BY <1>1, <1>2, <2>1
  <2>4. j.at >= 5 => i.at = 0 /\ i.result = "ok"
    BY <1>1, <1>2, <2>1
  <2>5. CASE j.at < 3
    BY <1>1, <1>2, <2>2, <2>3, <2>5 DEF HandingOver
  <2>6. CASE j.at \in {3, 4}
    BY <1>1, <1>2, <2>2, <2>3, <2>6 DEF HandingOver
  <2>7. CASE j.at >= 5
    <3>1. j.at = 5
      BY <1>1, <2>1, <2>7 
    <3> QED
      BY <1>1, <1>2, <2>2, <2>4, <3>1 DEF HandingOver
  <2> QED
    BY <1>1, <2>5, <2>6, <2>7
<1>7. NoneMade(i)
  BY <1>2 DEF NoneMade
<1> QED
  BY <1>3, <1>4, <1>5, <1>6, <1>7 DEF JobDone, i

-----------------------------------------------------------------------------
(* Steps that leave the chain alone *)

LEMMA ClientDone ==
    ASSUME OutcomeInv, NEW c \in Clients
    PROVE  JobDone(job[c], c, app, optedIn, members, held)
  BY DEF OutcomeInv, JobsDone

\* Nothing comes into the pool when a client gives its transaction up, or keeps it.
LEMMA PoolShrinks ==
    ASSUME NEW c \in Clients, NEW j, Set(c, j), job \in [Clients -> JobType],
           orphans' \subseteq orphans \cup GivenUp(c),
           j.tx.status # "pool" \/ j.tx = job[c].tx
    PROVE  Pool' \subseteq Pool
<1>1. \A d \in Clients : job'[d] = IF d = c THEN j ELSE job[d]
  BY DEF Set
<1> QED
  BY <1>1 DEF Pool, GivenUp

\* A client's job is replaced by one that has done what it says.  A new transaction
\* in the pool is the client's own and valid, and a deployment begins on no application.
LEMMA JobStep ==
    ASSUME SubmissionInv, OutcomeInv, NEW c \in Clients, NEW j, Set(c, j), UNCHANGED chain,
           JobDone(j, c, app, optedIn, members, held),
           \A t \in Pool' : t \in Pool \/ t.kind # "delete"
                           \/ (t.from = c /\ Valid(t) /\ j.op # "deploy_app"),
           j.op = "deploy_app" => job[c].op = "deploy_app" \/ app = {}
    PROVE  OutcomeInv'
<1>1. \A d \in Clients : job'[d] = IF d = c THEN j ELSE job[d]
  BY DEF Set, SubmissionInv, JobsWell
<1>2. UNCHANGED <<asset, app, optedIn, members, held>>
  BY DEF chain
<1>3. JobsDone'
  <2> SUFFICES ASSUME NEW d \in Clients
               PROVE  JobDone(job'[d], d, app', optedIn', members', held')
    BY DEF JobsDone
  <2>1. JobDone(job[d], d, app, optedIn, members, held)
    BY ClientDone
  <2> QED
    BY <1>1, <1>2, <2>1
<1>4. Deploying' => Deploying \/ (c = "creator" /\ j.op = "deploy_app" /\ app = {})
  BY <1>1 DEF Deploying
<1>5. ASSUME NEW t \in Pool', t.kind = "delete"
      PROVE  t.from = "creator" /\ "created" \in app' /\ ~Deploying'
  <2>1. CASE t \in Pool
    BY <1>2, <1>4, <1>5, <2>1 DEF OutcomeInv, DeploymentSafe
  <2>2. CASE t.from = c /\ Valid(t) /\ j.op # "deploy_app"
    <3>1. t.from = "creator" /\ "created" \in app
      BY <1>5, <2>2 DEF Valid, Deployed, Moves
    <3> QED
      BY <1>1, <1>2, <2>2, <3>1 DEF Deploying
  <2> QED
    BY <1>5, <2>1, <2>2
<1>6. Deploying' => "deleted" \notin app'
  BY <1>2, <1>4 DEF OutcomeInv, DeploymentSafe
<1> QED
  BY <1>2, <1>3, <1>5, <1>6 DEF OutcomeInv, DeploymentSafe

\* The same when nothing comes into the pool.
LEMMA ShrinkStep ==
    ASSUME SubmissionInv, OutcomeInv, NEW c \in Clients, NEW j, Set(c, j), UNCHANGED chain,
           JobDone(j, c, app, optedIn, members, held), Pool' \subseteq Pool,
           j.op = "deploy_app" => job[c].op = "deploy_app" \/ app = {}
    PROVE  OutcomeInv'
<1>1. \A t \in Pool' : t \in Pool \/ t.kind # "delete"
                      \/ (t.from = c /\ Valid(t) /\ j.op # "deploy_app")
  OBVIOUS
<1> QED
  BY <1>1, JobStep

\* The operation fails.
LEMMA FailDone ==
    ASSUME SubmissionInv, OutcomeInv, NEW c \in Clients, NEW x \in {"error", "pool_error"},
           Fail(c, x), UNCHANGED chain
    PROVE  OutcomeInv'
<1> DEFINE j == [Idle EXCEPT !.result = x, !.doubt = job[c].doubt]
<1>1. /\ j.tx = NoTx /\ j.at = 0 /\ j.phase = "step" /\ j.result = x /\ j.op = "send_algo"
      /\ NoTx.status # "pool"
  BY DEF Idle, NoTx
<1>2. Set(c, j) /\ orphans' = orphans \cup GivenUp(c)
  BY DEF Fail
<1> HIDE DEF j
<1>3. JobDone(j, c, app, optedIn, members, held)
  BY <1>1, FreshDone
<1>4. Pool' \subseteq Pool
  BY <1>1, <1>2, PoolShrinks DEF SubmissionInv, JobsWell
<1>5. j.op # "deploy_app"
  BY <1>1
<1> QED
  BY <1>2, <1>3, <1>4, <1>5, ShrinkStep

\* A step of a client that neither sends anything nor gives it up.
LEMMA QuietStep ==
    ASSUME SubmissionInv, OutcomeInv, NEW c \in Clients, NEW j, Set(c, j),
           UNCHANGED <<chain, orphans>>, j.tx = job[c].tx, j.op = job[c].op,
           JobDone(j, c, app, optedIn, members, held)
    PROVE  OutcomeInv'
<1>1. Pool' \subseteq Pool
  BY PoolShrinks DEF SubmissionInv, JobsWell
<1> QED
  BY <1>1, ShrinkStep

\* At a step, the job may go on past what it has achieved.
LEMMA StepDone ==
    ASSUME SubmissionInv, OutcomeInv, NEW c \in Clients, Running(c), job[c].phase = "step"
    PROVE  /\ job[c] \in JobType /\ job[c].at > 0 /\ job[c].at <= Len(Script[job[c].op])
           /\ job[c].at \in Nat /\ job[c].result = "none" /\ job[c].op \in DOMAIN Script
           /\ job[c].tx = NoTx \/ job[c].tx.status = "confirmed"
<1>1. OwnTx(job[c], c, app, optedIn)
  BY ClientDone DEF JobDone
<1>2. job[c].at > 0
  BY DEF Running
<1>3. job[c].tx = NoTx \/ job[c].tx.status = "confirmed"
  BY <1>1, <1>2 DEF OwnTx
<1>4. job[c] \in JobType /\ job[c].at <= Len(Script[job[c].op])
  BY ClientWell DEF Well, Placed
<1> QED
  BY <1>2, <1>3, <1>4, StepSettled DEF JobType

LEMMA StartDone ==
    ASSUME SubmissionInv, OutcomeInv, NEW c \in Clients, NEW n \in Operations[c], Start(c, n)
    PROVE  OutcomeInv'
<1>1. PICK dest \in Destinations(n), a \in Amounts(n) :
        Set(c, [Idle EXCEPT !.op = n, !.to = dest, !.amount = a, !.at = 1, !.note = UniqueNote(c)])
  BY DEF Start
<1> DEFINE j == [Idle EXCEPT !.op = n, !.to = dest, !.amount = a, !.at = 1, !.note = UniqueNote(c)]
<1>2. /\ j.op = n /\ j.to = dest /\ j.tx = NoTx /\ j.at = 1 /\ j.phase = "step"
      /\ j.result = "none" /\ NoTx.status # "pool"
  BY DEF Idle, NoTx
<1>3. n = "change_asset_reserve_address" => dest # "creator"
  BY DEF Destinations
<1>4. n = "deploy_app" => app = {}
  BY DEF Start, MayStart
<1>5. Set(c, j) /\ orphans' = orphans \cup GivenUp(c) /\ UNCHANGED chain
  BY <1>1 DEF Start
<1> HIDE DEF j
<1>6. JobDone(j, c, app, optedIn, members, held)
  BY <1>2, <1>3, FreshDone
<1>7. Pool' \subseteq Pool
  BY <1>2, <1>5, PoolShrinks DEF SubmissionInv, JobsWell
<1> QED
  BY <1>2, <1>4, <1>5, <1>6, <1>7, ShrinkStep

\* A step that has achieved what it is for, and is not the last of a membership
\* operation, a transfer or a read of the holding.
LEMMA AdvanceStep ==
    ASSUME SubmissionInv, OutcomeInv, NEW c \in Clients, Running(c), job[c].phase = "step",
           Set(c, Advance(job[c])), UNCHANGED <<chain, orphans>>,
           Achieved(Step(c), job[c].done, c, app, optedIn),
           Step(c) \in {"logs", "id", "manager", "creator", "reserve", "receiver", "app_opted_in",
                        "member"}
    PROVE  OutcomeInv'
<1> DEFINE j == job[c]
           n == Len(Script[j.op])
<1>1. /\ j \in JobType /\ j.at \in Nat /\ j.at > 0 /\ j.at <= n /\ j.result = "none"
      /\ j.tx = NoTx \/ j.tx.status = "confirmed"
  BY StepDone
<1>2. n \in Nat /\ Step(c) = Script[j.op][j.at]
  BY <1>1, ScriptType DEF JobType, Step
<1>3. \A i \in 1 .. n : j.at <= i /\ i < j.at + 1
          => Achieved(Script[j.op][i], j.done, c, app, optedIn)
  BY <1>1, <1>2
<1>4. ASSUME j.op \in MemberOps PROVE j.at + 1 <= n
  <2>1. j.op = "opt_in_app" \/ j.op = "close_out_app" \/ j.op = "clear_state_app"
    BY <1>4 DEF MemberOps
  <2>2. Step(c) \notin {"opt_in_app", "close_out", "clear_state"}
    OBVIOUS
  <2> HIDE DEF j, n
  <2>3. CASE j.op = "opt_in_app"
    <3>1. n = 2 /\ j.at # 2
      BY <1>2, <2>2, <2>3, ScriptSteps DEF n
    <3> QED
      BY <1>1, <3>1
  <2>4. CASE j.op = "close_out_app"
    <3>1. n = 1 /\ j.at # 1
      BY <1>2, <2>2, <2>4, ScriptSteps DEF n
    <3> QED
      BY <1>1, <3>1
  <2>5. CASE j.op = "clear_state_app"
    <3>1. n = 1 /\ j.at # 1
      BY <1>2, <2>2, <2>5, ScriptSteps DEF n
    <3> QED
      BY <1>1, <3>1
  <2> QED
    BY <2>1, <2>3, <2>4, <2>5
<1>5. ASSUME j.op = "change_asset_reserve_address" PROVE j.at # 3 /\ j.at # 5
  BY <1>2, <1>5, ScriptSteps
<1>6. JobDone(j, c, app, optedIn, members, held)
  BY ClientDone
<1>7. 1 \in Nat \ {0}
  OBVIOUS
<1> HIDE DEF j
<1>8. JobDone(Skip(j, 1), c, app, optedIn, members, held)
  BY <1>1, <1>2, <1>3, <1>4, <1>5, <1>6, <1>7, SkipDone
<1>9. Skip(j, 1).tx = j.tx /\ Skip(j, 1).op = j.op
  BY <1>1 DEF Skip, JobType
<1>10. Set(c, Skip(j, 1))
  BY DEF Advance, j
<1> QED
  BY <1>8, <1>9, <1>10, QuietStep DEF j

\* The operation goes on with what it has read, or returns Ok(None) without it.
LEMMA ReadResultDone ==
    ASSUME SubmissionInv, OutcomeInv, NEW c \in Clients, ReadResult(c)
    PROVE  OutcomeInv'
<1> DEFINE j == job[c]
           k == [j EXCEPT !.at = 0, !.result = "ok_none"]
<1>1. /\ Running(c) /\ j.phase = "step" /\ Step(c) \in {"logs", "id"}
      /\ UNCHANGED <<chain, orphans>>
  BY DEF ReadResult, AtStep
<1>2. CASE Set(c, Advance(j))
  <2>1. Achieved(Step(c), j.done, c, app, optedIn)
    BY <1>1 DEF Achieved
  <2> QED
    BY <1>1, <1>2, <2>1, AdvanceStep
<1>3. CASE Step(c) = "id" /\ Set(c, k)
  <2>1. /\ j \in JobType /\ j.at \in Nat /\ j.at > 0 /\ j.at <= Len(Script[j.op])
        /\ j.op \in DOMAIN Script
        /\ j.tx = NoTx \/ j.tx.status = "confirmed"
    BY <1>1, StepDone
  <2>2. Len(Script[j.op]) \in Nat /\ Script[j.op][j.at] = "id"
    BY <1>3, <2>1, ScriptType DEF Step
  <2>3. JobDone(j, c, app, optedIn, members, held)
    BY ClientDone
  <2>4. /\ k.op = j.op /\ k.at = 0 /\ k.phase = "step" /\ k.tx = j.tx /\ k.to = j.to
        /\ k.result = "ok_none" /\ k.done = j.done /\ k.undone = j.undone
    BY <1>1, <2>1 DEF JobType
  <2> HIDE DEF j, k
  <2>5. NoneMade(k)
    <3>1. j.at - 1 \in 1 .. Len(Script[j.op]) /\ Script[j.op][j.at - 1] \in {"create", "plain"}
      <4>1. j.at \in 1 .. Len(Script[j.op])
        BY <2>1, <2>2
      <4>2. j.at > 1 /\ Script[j.op][j.at - 1] \in {"create", "plain"}
        BY <2>1, <2>2, <4>1, IdSteps
      <4> QED
        BY <2>1, <2>2, <4>2
    <3>2. Achieved(Script[j.op][j.at - 1], j.done, c, app, optedIn)
      BY <2>1, <2>3, <3>1 DEF JobDone, StepsAchieved, Past
    <3>3. Script[j.op][j.at - 1] \in j.done
      BY <3>1, <3>2 DEF Achieved
    <3> QED
      BY <2>4, <3>1, <3>3 DEF NoneMade
  <2>6. StepsAchieved(k, c, app, optedIn)
    BY <2>4 DEF StepsAchieved, Past
  <2>7. OwnTx(k, c, app, optedIn)
    BY <2>1, <2>3, <2>4 DEF JobDone, OwnTx
  <2>8. MemberKept(k, c, members) /\ HandingOver(k, c, held)
    BY <2>3, <2>4 DEF JobDone, MemberKept, HandingOver
  <2>9. JobDone(k, c, app, optedIn, members, held)
    BY <2>5, <2>6, <2>7, <2>8 DEF JobDone
  <2> QED
    BY <1>1, <1>3, <2>4, <2>9, QuietStep DEF j
<1> QED
  BY <1>2, <1>3 DEF ReadResult

\* Only the creator is the manager, or the creator.
LEMMA CheckDone ==
    ASSUME SubmissionInv, OutcomeInv, NEW c \in Clients, Check(c)
    PROVE  OutcomeInv'
<1>1. /\ Running(c) /\ job[c].phase = "step"
      /\ Step(c) \in {"manager", "creator", "reserve", "receiver"}
      /\ UNCHANGED chain
  BY DEF Check, AtStep
<1>2. CASE Permitted(c) /\ Set(c, Advance(job[c])) /\ UNCHANGED orphans
  <2>1. Step(c) \in {"manager", "creator"} => c = "creator"
    BY <1>2 DEF Permitted, OutcomeInv
  <2>2. Achieved(Step(c), job[c].done, c, app, optedIn)
    BY <1>1, <2>1 DEF Achieved
  <2> QED
    BY <1>1, <1>2, <2>2, AdvanceStep
<1>3. CASE Fail(c, "error")
  BY <1>1, <1>3, FailDone
<1> QED
  BY <1>2, <1>3 DEF Check

\* The call is made, or has been made by someone before.
LEMMA CheckAppDone ==
    ASSUME SubmissionInv, OutcomeInv, NEW c \in Clients, CheckApp(c)
    PROVE  OutcomeInv'
<1> DEFINE j == job[c]
           n == Len(Script[j.op])
<1>1. /\ Running(c) /\ j.phase = "step" /\ Step(c) = "app_opted_in"
      /\ UNCHANGED <<chain, orphans>>
  BY DEF CheckApp, AtStep
<1>2. /\ j \in JobType /\ j.at \in Nat /\ j.at > 0 /\ j.at <= n /\ j.result = "none"
      /\ j.tx = NoTx \/ j.tx.status = "confirmed"
  BY <1>1, StepDone
<1>3. CASE Set(c, Advance(j))
  <2>1. Achieved("app_opted_in", j.done, c, app, optedIn)
    BY DEF Achieved
  <2> QED
    BY <1>1, <1>3, <2>1, AdvanceStep
<1>4. CASE "app" \in optedIn /\ Set(c, Skip(j, 1 + Len(CallApp)))
  <2>1. 1 + Len(CallApp) = 3 /\ 3 \in Nat \ {0}
    BY DEF CallApp
  <2>2. n \in Nat /\ j.op \in DOMAIN Script /\ Script[j.op][j.at] = "app_opted_in"
    BY <1>1, <1>2, ScriptType DEF JobType, Step
  <2>3. /\ Script[j.op][j.at + 1] = "call" /\ Script[j.op][j.at + 2] = "logs"
        /\ j.op \notin MemberOps /\ j.op # "change_asset_reserve_address"
    <3> HIDE DEF j
    <3> QED
      BY <1>2, <2>2, AppOptedInSteps
  <2>4. \A i \in 1 .. n : j.at <= i /\ i < j.at + 3
            => Achieved(Script[j.op][i], j.done, c, app, optedIn)
    <3> SUFFICES ASSUME NEW i \in 1 .. n, j.at <= i, i < j.at + 3
                 PROVE  Achieved(Script[j.op][i], j.done, c, app, optedIn)
      OBVIOUS
    <3>1. i = j.at \/ i = j.at + 1 \/ i = j.at + 2
      <4>1. j.at \in Nat /\ n \in Nat
        BY <1>2, <2>2
      <4> HIDE DEF j, n
      <4> QED
        BY <4>1
    <3>2. Script[j.op][i] \in {"app_opted_in", "call", "logs"}
      BY <2>2, <2>3, <3>1
    <3> QED
      BY <1>4, <3>2 DEF Achieved
  <2>5. JobDone(j, c, app, optedIn, members, held)
    BY ClientDone
  <2> HIDE DEF j
  <2>6. JobDone(Skip(j, 3), c, app, optedIn, members, held)
    BY <1>2, <2>1, <2>2, <2>3, <2>4, <2>5, SkipDone
  <2>7. Skip(j, 3).tx = j.tx /\ Skip(j, 3).op = j.op
    BY <1>2 DEF Skip, JobType
  <2> QED
    BY <1>1, <1>4, <2>1, <2>6, <2>7, QuietStep DEF j
<1> QED
  BY <1>3, <1>4 DEF CheckApp

\* A member needs no transaction to be one.
LEMMA CheckMemberDone ==
    ASSUME SubmissionInv, OutcomeInv, NEW c \in Clients, CheckMember(c)
    PROVE  OutcomeInv'
<1> DEFINE j == job[c]
           n == Len(Script[j.op])
<1>1. /\ Running(c) /\ j.phase = "step" /\ Step(c) = "member"
      /\ UNCHANGED <<chain, orphans>>
  BY DEF CheckMember, AtStep
<1>2. /\ j \in JobType /\ j.at \in Nat /\ j.at > 0 /\ j.at <= n /\ j.result = "none"
      /\ j.tx = NoTx \/ j.tx.status = "confirmed"
  BY <1>1, StepDone
<1>3. CASE Set(c, Advance(j))
  <2>1. Achieved("member", j.done, c, app, optedIn)
    BY DEF Achieved
  <2> QED
    BY <1>1, <1>3, <2>1, AdvanceStep
<1>4. CASE c \in members /\ Set(c, Skip(j, Len(OptInApp)))
  <2>1. Len(OptInApp) = 2 /\ 2 \in Nat \ {0}
    BY DEF OptInApp
  <2>2. n \in Nat /\ j.op \in DOMAIN Script /\ Script[j.op][j.at] = "member"
    BY <1>1, <1>2, ScriptType DEF JobType, Step
  <2>3. j.op = "opt_in_app" /\ j.at = 1
    <3> HIDE DEF j
    <3> QED
      BY <1>2, <2>2, MemberSteps
  <2>4. \A i \in 1 .. n : j.at <= i /\ i < j.at + 2
            => Achieved(Script[j.op][i], j.done, c, app, optedIn)
    <3>1. Script["opt_in_app"][1] = "member" /\ Script["opt_in_app"][2] = "opt_in_app"
      BY ScriptSteps
    <3>2. \A i \in 1 .. n : i < 3 => Script[j.op][i] \in {"member", "opt_in_app"}
      BY <2>2, <2>3, <3>1
    <3> QED
      BY <2>2, <2>3, <3>2 DEF Achieved
  <2>5. JobDone(j, c, app, optedIn, members, held)
    BY ClientDone
  <2> HIDE DEF j
  <2>6. JobDone(Skip(j, 2), c, app, optedIn, members, held)
    BY <1>2, <1>4, <2>1, <2>2, <2>3, <2>4, <2>5, SkipDone
  <2>7. Skip(j, 2).tx = j.tx /\ Skip(j, 2).op = j.op
    BY <1>2 DEF Skip, JobType
  <2> QED
    BY <1>1, <1>4, <2>1, <2>6, <2>7, QuietStep DEF j
<1> QED
  BY <1>3, <1>4 DEF CheckMember

LEMMA FailReadDone ==
    ASSUME SubmissionInv, OutcomeInv, NEW c \in Clients, FailRead(c) \/ FailWait(c)
    PROVE  OutcomeInv'
  BY FailDone DEF FailRead, FailWait

\* Past the holding an operation only sends it.
LEMMA HoldingSteps ==
    ASSUME NEW n \in DOMAIN Script, NEW k \in 1 .. Len(Script[n]), Script[n][k] = "holding"
    PROVE  /\ \A i \in k .. Len(Script[n]) : Script[n][i] \in {"holding", "receiver", "transfer"}
           /\ n \notin MemberOps /\ n # "deploy_app"
<1> DEFINE Sends(s) == \A l \in 1 .. Len(s) : s[l] = "holding" =>
               \A i \in l .. Len(s) : s[i] \in {"holding", "receiver", "transfer"}
           None(s) == \A l \in 1 .. Len(s) : s[l] # "holding"
<1>1. /\ None(SendAlgo) /\ None(OptInToAsset) /\ None(SendAsset) /\ None(CreateAsset)
      /\ None(CreateApp) /\ None(CallApp) /\ None(FundApp) /\ None(SetAssetClawbackToApp)
      /\ None(OptInApp) /\ None(CloseOutApp) /\ None(ClearStateApp) /\ None(UpdateApp)
      /\ None(DeleteApp) /\ None(Group)
  BY DEF SendAlgo, OptInToAsset, SendAsset, CreateAsset, CreateApp, CallApp, FundApp, OptInApp,
         SetAssetClawbackToApp, CloseOutApp, ClearStateApp, UpdateApp, DeleteApp, Group
<1>2. None(OptInAppToAsset)
  BY DEF OptInAppToAsset, CallApp
<1>3. None(DeployApp)
  BY DEF DeployApp, CreateApp, FundApp, OptInAppToAsset, CallApp, SetAssetClawbackToApp
<1>4. Sends(ChangeAssetReserveAddress)
  BY DEF ChangeAssetReserveAddress, SendAsset
<1>5. Sends(RecoverReserveBalance)
  BY DEF RecoverReserveBalance, SendAsset
<1>6. None(Script[n]) \/ Sends(Script[n])
  <2> HIDE DEF None, Sends
  <2> QED
    BY <1>1, <1>2, <1>3, <1>4, <1>5 DEF Script
<1>7. \A i \in k .. Len(Script[n]) : Script[n][i] \in {"holding", "receiver", "transfer"}
  BY <1>6
<1>8. n # "opt_in_app" /\ n # "close_out_app" /\ n # "clear_state_app" /\ n # "deploy_app"
  <2>1. /\ Script["deploy_app"] = DeployApp /\ Script["opt_in_app"] = OptInApp
        /\ Script["close_out_app"] = CloseOutApp /\ Script["clear_state_app"] = ClearStateApp
    BY DEF Script
  <2> QED
    BY <1>1, <1>3, <2>1
<1> QED
  BY <1>7, <1>8 DEF MemberOps

\* What is read is all that has to go; with nothing to send the operation is done.
LEMMA ReadHoldingDone ==
    ASSUME SubmissionInv, OutcomeInv, NEW c \in Clients, ReadHolding(c)
    PROVE  OutcomeInv'
<1> DEFINE j0 == job[c]
           n == Len(Script[j0.op])
           j == [j0 EXCEPT !.amount = Holding(c), !.arrived = 0]
           k == [j EXCEPT !.at = 0, !.result = "ok"]
<1>1. /\ Running(c) /\ j0.phase = "step" /\ Step(c) = "holding" /\ UNCHANGED <<chain, orphans>>
      /\ Set(c, IF j.amount = 0 THEN k ELSE Advance(j))
  BY DEF ReadHolding, AtStep
<1>2. /\ j0 \in JobType /\ j0.at \in Nat /\ j0.at > 0 /\ j0.at <= n /\ j0.result = "none"
      /\ j0.tx = NoTx \/ j0.tx.status = "confirmed"
  BY <1>1, StepDone
<1>3. held[c] \in 0 .. Supply
  BY ClientWell DEF SubmissionInv, ChainType, HeldType
<1>4. /\ j \in JobType /\ j.op = j0.op /\ j.at = j0.at /\ j.phase = "step" /\ j.tx = j0.tx
      /\ j.to = j0.to /\ j.result = "none" /\ j.done = j0.done /\ j.undone = j0.undone
      /\ j.amount = held[c] /\ j.arrived = 0
  <2> HIDE DEF j0
  <2> QED
    BY <1>1, <1>2, <1>3 DEF JobType, Holding
<1>5. JobDone(j0, c, app, optedIn, members, held)
  BY ClientDone
<1>6. /\ n \in Nat /\ j0.op \in DOMAIN Script /\ Script[j0.op][j0.at] = "holding"
  BY <1>1, <1>2, ScriptType DEF JobType, Step
<1>7. /\ \A i \in j0.at .. n : Script[j0.op][i] \in {"holding", "receiver", "transfer"}
      /\ j0.op \notin MemberOps
  <2> HIDE DEF j0
  <2> QED
    BY <1>2, <1>6, HoldingSteps
<1>8. j0.op = "change_asset_reserve_address" => j0.at = 3
  <2> HIDE DEF j0, n
  <2> SUFFICES ASSUME j0.op = "change_asset_reserve_address" PROVE j0.at = 3
    OBVIOUS
  <2>1. n = 5
    BY ScriptSteps DEF n
  <2>2. j0.at = 1 \/ j0.at = 2 \/ j0.at = 3 \/ j0.at = 4 \/ j0.at = 5
    BY <1>2, <2>1
  <2> QED
    BY <1>6, <2>2, ScriptSteps
<1> HIDE DEF j
<1>9. JobDone(j, c, app, optedIn, members, held)
  <2> HIDE DEF j0
  <2>1. StepsAchieved(j, c, app, optedIn) /\ OwnTx(j, c, app, optedIn) /\ MemberKept(j, c, members)
    BY <1>1, <1>2, <1>4, <1>5 DEF JobDone, StepsAchieved, Past, OwnTx, MemberKept
  <2>2. HandingOver(j, c, held) /\ NoneMade(j)
    BY <1>2, <1>4, <1>5, <1>8 DEF JobDone, HandingOver, NoneMade
  <2> QED
    BY <2>1, <2>2 DEF JobDone
<1>10. \A i \in 1 .. n : j0.at <= i => Achieved(Script[j0.op][i], j0.done, c, app, optedIn)
  BY <1>2, <1>6, <1>7 DEF Achieved
<1> HIDE DEF j0
<1>11. CASE j.amount = 0 /\ Set(c, k)
  <2>1. /\ k.op = j.op /\ k.at = 0 /\ k.phase = "step" /\ k.tx = j.tx /\ k.to = j.to
        /\ k.result = "ok" /\ k.done = j.done /\ k.undone = j.undone /\ k.arrived = 0
    BY <1>4 DEF JobType
  <2> HIDE DEF k
  <2>2. StepsAchieved(k, c, app, optedIn)
    <3> SUFFICES ASSUME NEW i \in 1 .. n PROVE Achieved(Script[j0.op][i], j0.done, c, app, optedIn)
      BY <1>4, <2>1 DEF StepsAchieved
    <3>1. CASE i < j0.at
      BY <1>2, <1>5, <3>1 DEF JobDone, StepsAchieved, Past
    <3> QED
      BY <1>2, <1>6, <1>10, <3>1
  <2>3. OwnTx(k, c, app, optedIn) /\ MemberKept(k, c, members)
    BY <1>2, <1>4, <1>7, <1>9, <2>1 DEF JobDone, OwnTx, MemberKept
  <2>4. HandingOver(k, c, held) /\ NoneMade(k)
    BY <1>4, <1>9, <1>11, <2>1 DEF JobDone, HandingOver, NoneMade
  <2>5. JobDone(k, c, app, optedIn, members, held)
    BY <2>2, <2>3, <2>4 DEF JobDone
  <2> QED
    BY <1>1, <1>4, <1>11, <2>1, <2>5, QuietStep DEF j0
<1>12. CASE Set(c, Advance(j))
  <2>1. 1 \in Nat \ {0}
    OBVIOUS
  <2>2. \A i \in 1 .. Len(Script[j.op]) : j.at <= i /\ i < j.at + 1
            => Achieved(Script[j.op][i], j.done, c, app, optedIn)
    BY <1>4, <1>10
  <2>3. j.amount + j.arrived = held[c]
    BY <1>3, <1>4
  <2>4. held[c] <= j.amount + j.arrived
    BY <1>3, <2>3
  <2>5. JobDone(Skip(j, 1), c, app, optedIn, members, held)
    BY <1>2, <1>4, <1>7, <1>8, <1>9, <2>1, <2>2, <2>4, SkipDone
  <2>6. Skip(j, 1).tx = j.tx /\ Skip(j, 1).op = j.op
    BY <1>4 DEF Skip, JobType
  <2> QED
    BY <1>1, <1>4, <1>12, <2>5, <2>6, QuietStep DEF Advance, j0
<1> QED
  BY <1>1, <1>11, <1>12

\* A deletion that is sent is its creator's, and its creator deploys nothing meanwhile.
LEMMA SubmitDone ==
    ASSUME SubmissionInv, OutcomeInv, NEW c \in Clients, Submit(c)
    PROVE  OutcomeInv'
<1> DEFINE j == job[c]
           n == Len(Script[j.op])
           t == [kind |-> Step(c), from |-> c, to |-> j.to, amount |-> j.amount,
                 note |-> j.note, status |-> "pool", confirmed |-> 0]
           sent == [j EXCEPT !.tx = t, !.doubt = @ \/ j.tx.status = "pool"]
           k == [sent EXCEPT !.phase = "status"]
           idle == [Idle EXCEPT !.result = "error", !.doubt = sent.doubt]
<1>1. /\ Running(c) /\ j.phase = "step" /\ Step(c) \in TxSteps /\ UNCHANGED chain
      /\ \/ Valid(t) /\ Set(c, k) /\ orphans' = orphans \cup GivenUp(c)
         \/ Valid(t) /\ Set(c, idle) /\ orphans' = orphans \cup GivenUp(c) \cup {t}
         \/ Fail(c, "error")
  BY DEF Submit, AtStep, AfterSend
<1>2. /\ j \in JobType /\ j.at \in Nat /\ j.at > 0 /\ j.at <= n /\ j.result = "none"
      /\ j.tx = NoTx \/ j.tx.status = "confirmed"
  BY <1>1, StepDone
<1>3. /\ t.kind = Script[j.op][j.at] /\ t.from = c /\ t.to = j.to /\ t.amount = j.amount
      /\ t.status = "pool" /\ t # NoTx /\ n \in Nat
  BY <1>2, ScriptType DEF Step, NoTx, JobType
<1>4. \A x : x \in GivenUp(c) => x \in Pool
  BY DEF GivenUp, Pool
<1>5. job \in [Clients -> JobType]
  BY DEF SubmissionInv, JobsWell
<1>6. CASE Valid(t) /\ Set(c, k) /\ orphans' = orphans \cup GivenUp(c)
  <2>1. /\ k.op = j.op /\ k.at = j.at /\ k.phase = "status" /\ k.tx = t /\ k.to = j.to
        /\ k.amount = j.amount /\ k.arrived = j.arrived /\ k.done = j.done
        /\ k.undone = j.undone /\ k.result = "none"
    <3> HIDE DEF t, j
    <3> QED
      BY <1>2 DEF JobType
  <2>2. \A d \in Clients : job'[d] = IF d = c THEN k ELSE job[d]
    BY <1>5, <1>6 DEF Set
  <2>3. JobDone(j, c, app, optedIn, members, held)
    BY ClientDone
  <2> HIDE DEF k, t, j, sent
  <2>4. \A x \in Pool' : x \in Pool \/ x = t
    BY <1>4, <1>6, <2>1, <2>2 DEF Pool
  <2>5. t.kind = "delete" => j.op # "deploy_app"
    <3> SUFFICES ASSUME t.kind = "delete", j.op = "deploy_app" PROVE FALSE
      OBVIOUS
    <3>1. j.at \in 1 .. 8 /\ Script["deploy_app"][j.at] = "delete"
      BY <1>2, <1>3, ScriptSteps
    <3> QED
      BY <3>1, ScriptSteps
  <2>6. \A x \in Pool' : x \in Pool \/ x.kind # "delete"
                        \/ (x.from = c /\ Valid(x) /\ k.op # "deploy_app")
    BY <1>3, <1>6, <2>1, <2>4, <2>5
  <2>7. StepsAchieved(k, c, app, optedIn)
    BY <1>2, <2>1, <2>3 DEF JobDone, StepsAchieved, Past
  <2>8. OwnTx(k, c, app, optedIn)
    BY <1>2, <1>3, <2>1 DEF OwnTx
  <2>9. MemberKept(k, c, members) /\ HandingOver(k, c, held) /\ NoneMade(k)
    BY <1>2, <1>3, <2>1, <2>3 DEF JobDone, MemberKept, HandingOver, NoneMade
  <2>10. JobDone(k, c, app, optedIn, members, held)
    BY <2>7, <2>8, <2>9 DEF JobDone
  <2>11. k.op = "deploy_app" => job[c].op = "deploy_app"
    BY <2>1 DEF j
  <2> QED
    BY <1>1, <1>6, <2>6, <2>10, <2>11, JobStep
<1>7. CASE Valid(t) /\ Set(c, idle) /\ orphans' = orphans \cup GivenUp(c) \cup {t}
  <2>1. /\ idle.tx = NoTx /\ idle.at = 0 /\ idle.phase = "step" /\ idle.result = "error"
        /\ idle.op = "send_algo" /\ NoTx.status # "pool"
    BY DEF Idle, NoTx
  <2>2. \A d \in Clients : job'[d] = IF d = c THEN idle ELSE job[d]
    BY <1>5, <1>7 DEF Set
  <2> HIDE DEF idle, t
  <2>3. \A x \in Pool' : x \in Pool \/ x = t
    BY <1>4, <1>7, <2>1, <2>2 DEF Pool
  <2>4. \A x \in Pool' : x \in Pool \/ x.kind # "delete"
                        \/ (x.from = c /\ Valid(x) /\ idle.op # "deploy_app")
    BY <1>3, <1>7, <2>1, <2>3
  <2>5. JobDone(idle, c, app, optedIn, members, held)
    BY <2>1, FreshDone
  <2>6. idle.op # "deploy_app"
    BY <2>1
  <2> QED
    BY <1>1, <1>7, <2>4, <2>5, <2>6, JobStep
<1>8. CASE Fail(c, "error")
  BY <1>1, <1>8, FailDone
<1> QED
  BY <1>1, <1>6, <1>7, <1>8

\* The wait goes on, or gives up.
LEMMA WaitStep ==
    ASSUME SubmissionInv, OutcomeInv, NEW c \in Clients, job[c].phase # "step",
           NEW j, Set(c, j), UNCHANGED <<chain, orphans>>,
           j.op = job[c].op, j.tx = job[c].tx, j.to = job[c].to, j.amount = job[c].amount,
           j.arrived = job[c].arrived, j.done = job[c].done, j.undone = job[c].undone,
           \/ j.at = job[c].at /\ j.phase # "step" /\ j.result = job[c].result
           \/ j.at = 0 /\ j.phase = "step" /\ j.result = "timeout"
    PROVE  OutcomeInv'
<1>1. JobDone(job[c], c, app, optedIn, members, held) /\ Len(Script[job[c].op]) \in Nat
  BY ClientDone, ClientWell, ScriptType DEF JobType
<1>2. StepsAchieved(j, c, app, optedIn)
  BY <1>1 DEF JobDone, StepsAchieved, Past
<1>3. OwnTx(j, c, app, optedIn)
  BY <1>1 DEF JobDone, OwnTx
<1>4. MemberKept(j, c, members)
  BY <1>1 DEF JobDone, MemberKept
<1>5. HandingOver(j, c, held) /\ NoneMade(j)
  BY <1>1 DEF JobDone, HandingOver, NoneMade
<1>6. JobDone(j, c, app, optedIn, members, held)
  BY <1>2, <1>3, <1>4, <1>5 DEF JobDone
<1> QED
  BY <1>6, QuietStep

LEMMA ReadStatusDone ==
    ASSUME SubmissionInv, OutcomeInv, NEW c \in Clients, ReadStatus(c) \/ PendingLost(c)
    PROVE  OutcomeInv'
<1>1. job[c] \in JobType
  BY ClientWell
<1>2. CASE ReadStatus(c)
  <2> DEFINE j == [job[c] EXCEPT !.cur = round + 1, !.end = round + 1 + Timeout,
                                 !.blind = FALSE, !.phase = "pending"]
  <2>1. /\ job[c].phase # "step" /\ Set(c, j) /\ UNCHANGED <<chain, orphans>>
    BY <1>2 DEF ReadStatus, AtPhase
  <2>2. /\ j.op = job[c].op /\ j.tx = job[c].tx /\ j.to = job[c].to /\ j.amount = job[c].amount
        /\ j.arrived = job[c].arrived /\ j.done = job[c].done /\ j.undone = job[c].undone
        /\ j.at = job[c].at /\ j.phase # "step" /\ j.result = job[c].result
    BY <1>1 DEF JobType
  <2> HIDE DEF j
  <2> QED
    BY <2>1, <2>2, WaitStep
<1>3. CASE PendingLost(c)
  <2> DEFINE j == [job[c] EXCEPT !.phase = "block", !.blind = TRUE]
  <2>1. /\ job[c].phase # "step" /\ Set(c, j) /\ UNCHANGED <<chain, orphans>>
    BY <1>3 DEF PendingLost, AtPhase
  <2>2. /\ j.op = job[c].op /\ j.tx = job[c].tx /\ j.to = job[c].to /\ j.amount = job[c].amount
        /\ j.arrived = job[c].arrived /\ j.done = job[c].done /\ j.undone = job[c].undone
        /\ j.at = job[c].at /\ j.phase # "step" /\ j.result = job[c].result
    BY <1>1 DEF JobType
  <2> HIDE DEF j
  <2> QED
    BY <2>1, <2>2, WaitStep
<1> QED
  BY <1>2, <1>3

LEMMA WaitBlockDone ==
    ASSUME SubmissionInv, OutcomeInv, NEW c \in Clients, WaitBlock(c)
    PROVE  OutcomeInv'
<1> DEFINE i == [job[c] EXCEPT !.cur = NextRound(job[c])]
           j == IF MoreRounds(i)
                THEN [i EXCEPT !.phase = "pending", !.blind = round <= job[c].cur]
                ELSE [i EXCEPT !.at = 0, !.phase = "step", !.result = "timeout"]
<1>1. job[c].phase # "step" /\ Set(c, j) /\ UNCHANGED <<chain, orphans>>
  BY DEF WaitBlock, AtPhase
<1>2. job[c] \in JobType
  BY ClientWell
<1>3. /\ j.op = job[c].op /\ j.tx = job[c].tx /\ j.to = job[c].to /\ j.amount = job[c].amount
      /\ j.arrived = job[c].arrived /\ j.done = job[c].done /\ j.undone = job[c].undone
      /\ \/ j.at = job[c].at /\ j.phase # "step" /\ j.result = job[c].result
         \/ j.at = 0 /\ j.phase = "step" /\ j.result = "timeout"
  BY <1>2 DEF JobType
<1> HIDE DEF j
<1> QED
  BY <1>1, <1>3, WaitStep

\* The transaction of the present step is confirmed, and the operation goes on.
LEMMA PendingDone ==
    ASSUME SubmissionInv, OutcomeInv, NEW c \in Clients, Pending(c)
    PROVE  OutcomeInv'
<1> DEFINE j == job[c]
           n == Len(Script[j.op])
<1>1. Running(c) /\ j.phase = "pending" /\ UNCHANGED chain /\ j \in JobType
  BY ClientWell DEF Pending, AtPhase
<1>2. CASE Fail(c, "pool_error")
  BY <1>1, <1>2, FailDone
<1>3. CASE Set(c, [j EXCEPT !.phase = "block"]) /\ UNCHANGED orphans
  <2> DEFINE k == [j EXCEPT !.phase = "block"]
  <2>1. /\ k.op = j.op /\ k.tx = j.tx /\ k.to = j.to /\ k.amount = j.amount
        /\ k.arrived = j.arrived /\ k.done = j.done /\ k.undone = j.undone
        /\ k.at = j.at /\ k.phase # "step" /\ k.result = j.result
    BY <1>1 DEF JobType
  <2>2. Set(c, k)
    BY <1>3
  <2> HIDE DEF k
  <2> QED
    BY <1>1, <1>3, <2>1, <2>2, WaitStep
<1>4. CASE j.tx.status = "confirmed" /\ Set(c, Advance(j)) /\ UNCHANGED orphans
  <2>1. JobDone(j, c, app, optedIn, members, held)
    BY ClientDone
  <2>2. /\ j.at > 0 /\ j.at \in Nat /\ j.result = "none" /\ j.at <= n /\ n \in Nat
        /\ Script[j.op][j.at] \in TxSteps
    BY <1>1, WaitWell, ClientWell, ScriptType DEF Well, Placed, JobType
  <2>3. Achieved(Script[j.op][j.at], j.done, c, app, optedIn)
    BY <1>1, <1>4, <2>1 DEF JobDone, OwnTx
  <2>4. \A i \in 1 .. n : j.at <= i /\ i < j.at + 1
            => Achieved(Script[j.op][i], j.done, c, app, optedIn)
    BY <2>2, <2>3
  <2>5. j.op \in MemberOps => j.undone \/ (c \in members <=> j.op = "opt_in_app")
    BY <1>4, <2>1 DEF JobDone, MemberKept
  <2>6. j.op = "change_asset_reserve_address" =>
            /\ j.at # 3
            /\ j.at = 5 => held[c] <= j.arrived
    <3>1. "holding" \notin TxSteps
      BY DEF TxSteps
    <3> QED
      BY <1>1, <1>4, <2>1, <2>2, <3>1, ScriptSteps DEF JobDone, HandingOver
  <2>7. 1 \in Nat \ {0}
    OBVIOUS
  <2> HIDE DEF j
  <2>8. JobDone(Skip(j, 1), c, app, optedIn, members, held)
    BY <1>1, <1>4, <2>1, <2>2, <2>4, <2>5, <2>6, <2>7, SkipDone
  <2>9. Skip(j, 1).tx = j.tx /\ Skip(j, 1).op = j.op
    BY <1>1 DEF Skip, JobType
  <2> QED
    BY <1>1, <1>4, <2>8, <2>9, QuietStep DEF Advance, j
<1> QED
  BY <1>2, <1>3, <1>4 DEF Pending, IsConfirmed

-----------------------------------------------------------------------------
(* The chain *)

\* The fields of a job that a transaction leaving the pool may change, and the others.
LEMMA SettledArrived ==
    ASSUME SubmissionInv, NEW t, NEW u, Settle(t, u), NEW c \in Clients
    PROVE  /\ u.status # "confirmed" \/ ~Moves(t) \/ t.to # c => job'[c].arrived = job[c].arrived
           /\ u.status = "confirmed" /\ Moves(t) /\ t.to = c
                /\ job[c].op = "change_asset_reserve_address"
                => job'[c].arrived = job[c].arrived + t.amount
<1>1. job[c] \in JobType
  BY ClientWell
<1> QED
  BY <1>1 DEF Settle, JobType

LEMMA SettledJob ==
    ASSUME SubmissionInv, NEW t, NEW u, Settle(t, u), NEW c \in Clients
    PROVE  /\ job'[c].op = job[c].op /\ job'[c].at = job[c].at
           /\ job'[c].phase = job[c].phase /\ job'[c].result = job[c].result
           /\ job'[c].to = job[c].to /\ job'[c].amount = job[c].amount
           /\ job[c].tx = t => job'[c].tx = u
           /\ job[c].tx # t => job'[c].tx = job[c].tx
           /\ job[c].done \subseteq job'[c].done
           /\ u.status # "confirmed" => job'[c].done = job[c].done
           /\ job[c].tx = t /\ u.status = "confirmed" => t.kind \in job'[c].done
           /\ job[c].undone => job'[c].undone
           /\ u.status # "confirmed" => job'[c].undone = job[c].undone
           /\ u.status = "confirmed" /\ t \in orphans /\ t.from = c /\ job[c].op \in MemberOps
                /\ t.kind \in {"opt_in_app", "close_out", "clear_state"} => job'[c].undone
<1>1. job[c] \in JobType
  BY ClientWell
<1>2. DOMAIN job[c] = {"op", "to", "amount", "at", "phase", "note", "tx", "cur", "end", "result",
                       "done", "doubt", "blind", "arrived", "undone"}
  BY <1>1 DEF JobType
<1> QED
  BY <1>1, <1>2 DEF Settle, JobType

\* Nothing comes into the pool when a transaction leaves it.
LEMMA SettlePool ==
    ASSUME SubmissionInv, NEW t, NEW u, u.status # "pool", Settle(t, u)
    PROVE  Pool' \subseteq Pool /\ (Deploying' <=> Deploying)
<1>1. \A c \in Clients : /\ job'[c].op = job[c].op
                         /\ job'[c].tx = u \/ job'[c].tx = job[c].tx
  <2> SUFFICES ASSUME NEW c \in Clients
               PROVE  /\ job'[c].op = job[c].op
                      /\ job'[c].tx = u \/ job'[c].tx = job[c].tx
    OBVIOUS
  <2> QED
    BY SettledJob
<1>2. orphans' = orphans \ {t}
  BY DEF Settle
<1>3. Pool' \subseteq Pool
  BY <1>1, <1>2 DEF Pool
<1>4. Deploying' <=> Deploying
  BY <1>1 DEF Deploying
<1> QED
  BY <1>3, <1>4

\* What leaves the pool unconfirmed changes no job but its own.
LEMMA LeavePoolDone ==
    ASSUME SubmissionInv, OutcomeInv, NEW t \in Pool, LeavePool(t)
    PROVE  OutcomeInv'
<1>1. PICK x \in {"rejected", "gone"} : Settle(t, [t EXCEPT !.status = x])
  BY DEF LeavePool
<1> DEFINE u == [t EXCEPT !.status = x]
<1>2. TxWell(t) /\ t \in TxType /\ t.status = "pool" /\ t.kind \in TxSteps
  BY PoolWell DEF TxWell
<1>3. /\ u.status = x /\ x # "pool" /\ x # "confirmed" /\ u.kind = t.kind /\ u.from = t.from
      /\ u.to = t.to /\ u.amount = t.amount /\ u # NoTx
  BY <1>2 DEF TxType, NoTx, TxSteps
<1>4. UNCHANGED <<asset, app, optedIn, members, held>> /\ Settle(t, u)
  BY <1>1 DEF LeavePool, chain
<1> HIDE DEF u
<1>5. ASSUME NEW c \in Clients
      PROVE  JobDone(job'[c], c, app', optedIn', members', held')
  <2> DEFINE j == job[c]
             i == job'[c]
  <2>1. JobDone(j, c, app, optedIn, members, held)
    BY ClientDone
  <2>2. /\ i.op = j.op /\ i.at = j.at /\ i.phase = j.phase /\ i.result = j.result
        /\ i.to = j.to /\ i.amount = j.amount /\ i.done = j.done /\ i.arrived = j.arrived
        /\ i.undone = j.undone
        /\ j.tx = t => i.tx = u
        /\ j.tx # t => i.tx = j.tx
    BY <1>3, <1>4, SettledJob, SettledArrived
  <2> HIDE DEF i, j
  <2>3. StepsAchieved(i, c, app, optedIn)
    BY <2>1, <2>2 DEF JobDone, StepsAchieved, Past
  <2>4. OwnTx(i, c, app, optedIn)
    <3>1. t # NoTx
      BY <1>2 DEF NoTx
    <3>2. OwnTx(j, c, app, optedIn)
      BY <2>1 DEF JobDone
    <3>3. CASE j.tx = t
      BY <1>2, <1>3, <2>2, <3>1, <3>2, <3>3 DEF OwnTx
    <3>4. CASE j.tx # t
      BY <2>2, <3>2, <3>4 DEF OwnTx
    <3> QED
      BY <3>3, <3>4
  <2>5. MemberKept(i, c, members) /\ HandingOver(i, c, held) /\ NoneMade(i)
    BY <1>2, <1>3, <2>1, <2>2 DEF JobDone, MemberKept, HandingOver, NoneMade
  <2> QED
    BY <1>4, <2>3, <2>4, <2>5 DEF JobDone, i
<1>6. JobsDone'
  BY <1>5 DEF JobsDone
<1>7. Pool' \subseteq Pool /\ (Deploying' <=> Deploying)
  BY <1>3, <1>4, SettlePool
<1> QED
  BY <1>4, <1>6, <1>7 DEF OutcomeInv, DeploymentSafe

\* What the transaction of a membership operation is for.
LEMMA MemberTx ==
    ASSUME NEW n \in MemberOps, NEW k \in TxSteps,
           NEW i \in 1 .. Len(Script[n]), k = Script[n][i]
    PROVE  /\ k \in {"opt_in_app", "close_out", "clear_state"}
           /\ k = "opt_in_app" <=> n = "opt_in_app"
<1>1. n = "opt_in_app" \/ n = "close_out_app" \/ n = "clear_state_app"
  BY DEF MemberOps
<1>2. "member" \notin TxSteps
  BY DEF TxSteps
<1>3. CASE n = "opt_in_app"
  <2>1. i = 1 \/ i = 2
    BY <1>3, ScriptSteps
  <2> QED
    BY <1>2, <1>3, <2>1, ScriptSteps
<1>4. CASE n = "close_out_app"
  <2>1. i = 1
    BY <1>4, ScriptSteps
  <2> QED
    BY <1>4, <2>1, ScriptSteps
<1>5. CASE n = "clear_state_app"
  <2>1. i = 1
    BY <1>5, ScriptSteps
  <2> QED
    BY <1>5, <2>1, ScriptSteps
<1> QED
  BY <1>1, <1>3, <1>4, <1>5

\* What a confirmed transaction does to the chain.
LEMMA ConfirmEffect ==
    ASSUME SubmissionInv, OutcomeInv, NEW t \in Pool, Confirm(t)
    PROVE  /\ app \subseteq app' /\ optedIn \subseteq optedIn'
           /\ asset'.manager = "creator"
           /\ \A d : t.kind \in d => Achieved(t.kind, d, t.from, app', optedIn')
           /\ "deleted" \in app' => "deleted" \in app \/ t.kind = "delete"
<1>1. t.kind \in TxSteps /\ t.from \in Clients
  BY PoolWell DEF TxWell
<1>2. app \subseteq app' /\ optedIn \subseteq optedIn'
  BY DEF Confirm
<1>3. asset'.manager = "creator"
  <2>1. CASE t.kind = "reconfigure"
    <3>1. asset.manager = t.from
      BY <2>1 DEF Confirm, Valid
    <3> QED
      BY <2>1, <3>1 DEF Confirm, OutcomeInv
  <2>2. CASE t.kind # "reconfigure"
    BY <2>2 DEF Confirm, OutcomeInv
  <2> QED
    BY <2>1, <2>2
<1>4. /\ t.kind = "create" => "created" \in app'
      /\ t.kind = "fund" => "funded" \in app'
      /\ t.kind = "delete" => "deleted" \in app'
      /\ t.kind = "call" => "app" \in optedIn'
  BY DEF Confirm
<1>5. t.kind # "manager" /\ t.kind # "creator"
  BY <1>1 DEF TxSteps
<1>6. "deleted" \in app' => "deleted" \in app \/ t.kind = "delete"
  BY DEF Confirm
<1>7. ASSUME NEW d, t.kind \in d
      PROVE  Achieved(t.kind, d, t.from, app', optedIn')
  BY <1>4, <1>5, <1>7 DEF Achieved
<1> QED
  BY <1>2, <1>3, <1>6, <1>7

\* A membership changes by a transaction of the member alone.
LEMMA ConfirmMembers ==
    ASSUME SubmissionInv, NEW t \in Pool, Confirm(t), NEW c \in Clients
    PROVE  \/ (c \in members' <=> c \in members)
           \/ /\ t.from = c /\ t.kind \in {"opt_in_app", "close_out", "clear_state"}
              /\ c \in members' <=> t.kind = "opt_in_app"
<1>1. CASE t.kind = "opt_in_app"
  BY <1>1 DEF Confirm
<1>2. CASE t.kind \in {"close_out", "clear_state"}
  <2>1. members' = members \ {t.from} /\ t.kind # "opt_in_app"
    BY <1>2 DEF Confirm
  <2> QED
    BY <1>2, <2>1
<1>3. CASE t.kind \notin {"opt_in_app", "close_out", "clear_state"}
  BY <1>3 DEF Confirm
<1> QED
  BY <1>1, <1>2, <1>3

\* An account gains no more than what arrives, and loses what it sends.
LEMMA ConfirmHeld ==
    ASSUME SubmissionInv, NEW t \in Pool, Confirm(t), NEW c \in Clients
    PROVE  /\ held[c] \in Nat /\ held'[c] \in Nat /\ t.amount \in Nat
           /\ ~Moves(t) \/ t.to # c => held'[c] <= held[c]
           /\ Moves(t) /\ t.to = c => held'[c] <= held[c] + t.amount
           /\ Moves(t) /\ t.to # c /\ t.from = c => held'[c] = held[c] - t.amount
<1>1. t.amount \in Nat /\ c \in Accounts /\ held[c] \in Nat /\ TxWell(t)
  BY PoolWell, ClientWell, BoundAssumption
     DEF TxWell, TxType, SubmissionInv, ChainType, HeldType
<1>2. CASE Moves(t)
  <2>1. held[t.from] >= t.amount /\ held' = Moved(t)
    BY <1>2 DEF Confirm, Valid
  <2>2. Moved(t) \in [Accounts -> 0 .. Supply]
    BY <1>1, <2>1, MovedType DEF SubmissionInv, ChainType
  <2>3. held'[c] = held[c] - (IF c = t.from THEN t.amount ELSE 0)
                           + (IF c = t.to THEN t.amount ELSE 0)
    BY <1>1, <2>1 DEF Moved
  <2> QED
    BY <1>1, <1>2, <2>1, <2>2, <2>3, BoundAssumption
<1>3. CASE ~Moves(t)
  BY <1>1, <1>3 DEF Confirm
<1> QED
  BY <1>2, <1>3

\* A confirmed transaction achieves what its step is for, and undoes nothing.
LEMMA ConfirmJobDone ==
    ASSUME SubmissionInv, OutcomeInv, NEW t \in Pool, Confirm(t), NEW c \in Clients
    PROVE  JobDone(job'[c], c, app', optedIn', members', held')
<1> DEFINE j == job[c]
           i == job'[c]
           u == [t EXCEPT !.status = "confirmed", !.confirmed = round + 1]
<1>1. /\ TxWell(t) /\ t \in TxType /\ t.status = "pool" /\ t.kind \in TxSteps /\ t # NoTx
      /\ "none" \notin TxSteps
  BY PoolWell DEF TxWell, NoTx, TxSteps
<1>2. /\ u.status = "confirmed" /\ u.kind = t.kind /\ u.from = t.from /\ u.to = t.to
      /\ u.amount = t.amount /\ u # NoTx
  BY <1>1 DEF TxType, NoTx
<1>3. Settle(t, u)
  BY DEF Confirm
<1> HIDE DEF u
<1>4. JobDone(j, c, app, optedIn, members, held) /\ j \in JobType /\ Len(Script[j.op]) \in Nat
  BY ClientDone, ClientWell, ScriptType DEF JobType
<1>5. /\ i.op = j.op /\ i.at = j.at /\ i.phase = j.phase /\ i.result = j.result
      /\ i.to = j.to /\ i.amount = j.amount
      /\ j.tx = t => i.tx = u
      /\ j.tx # t => i.tx = j.tx
      /\ j.done \subseteq i.done
      /\ j.tx = t => t.kind \in i.done
  BY <1>2, <1>3, SettledJob
<1>6. /\ j.undone => i.undone
      /\ t \in orphans /\ t.from = c /\ j.op \in MemberOps
           /\ t.kind \in {"opt_in_app", "close_out", "clear_state"} => i.undone
  BY <1>2, <1>3, SettledJob
<1>7. /\ ~Moves(t) \/ t.to # c => i.arrived = j.arrived
      /\ Moves(t) /\ t.to = c /\ j.op = "change_asset_reserve_address"
           => i.arrived = j.arrived + t.amount
  BY <1>2, <1>3, SettledArrived
<1>8. /\ app \subseteq app' /\ optedIn \subseteq optedIn'
      /\ \A d : t.kind \in d => Achieved(t.kind, d, t.from, app', optedIn')
  BY ConfirmEffect
<1>9. OwnTx(j, c, app, optedIn)
  BY <1>4 DEF JobDone
<1>10. j.tx = t => t.from = c /\ \E k \in 1 .. Len(Script[j.op]) : t.kind = Script[j.op][k]
  BY <1>1, <1>9 DEF OwnTx
<1> HIDE DEF i
<1>11. StepsAchieved(i, c, app', optedIn')
  <2> SUFFICES ASSUME NEW k \in 1 .. Len(Script[j.op]), Past(i, k)
               PROVE  Achieved(Script[j.op][k], i.done, c, app', optedIn')
    BY <1>5 DEF StepsAchieved
  <2>1. Achieved(Script[j.op][k], j.done, c, app, optedIn)
    BY <1>4, <1>5 DEF JobDone, StepsAchieved, Past
  <2> QED
    BY <1>5, <1>8, <2>1, AchievedStays
<1>12. OwnTx(i, c, app', optedIn')
  <2>1. CASE j.tx = t
    <3>1. Achieved(i.tx.kind, i.done, c, app', optedIn')
      BY <1>2, <1>5, <1>8, <1>10, <2>1
    <3> QED
      BY <1>1, <1>2, <1>5, <1>9, <2>1, <3>1 DEF OwnTx
  <2>2. CASE j.tx # t
    <3>1. i.tx.status = "confirmed" => Achieved(i.tx.kind, i.done, c, app', optedIn')
      <4> SUFFICES ASSUME i.tx.status = "confirmed"
                   PROVE  Achieved(i.tx.kind, i.done, c, app', optedIn')
        OBVIOUS
      <4>1. Achieved(i.tx.kind, j.done, c, app, optedIn)
        BY <1>5, <1>9, <2>2 DEF OwnTx
      <4> QED
        BY <1>5, <1>8, <4>1, AchievedStays
    <3> QED
      BY <1>5, <1>9, <2>2, <3>1 DEF OwnTx
  <2> QED
    BY <2>1, <2>2
<1>13. MemberKept(i, c, members')
  <2> SUFFICES ASSUME j.op \in MemberOps, i.tx.status = "confirmed" \/ i.result = "ok"
               PROVE  i.undone \/ (c \in members' <=> j.op = "opt_in_app")
    BY <1>5 DEF MemberKept
  <2>1. j.tx = t => /\ t.kind \in {"opt_in_app", "close_out", "clear_state"}
                    /\ t.kind = "opt_in_app" <=> j.op = "opt_in_app"
    BY <1>1, <1>10, MemberTx
  <2>2. CASE c \in members' <=> c \in members
    <3>1. CASE j.tx = t
      <4>1. (c \in members' <=> t.kind = "opt_in_app")
        BY <1>10, <2>1, <3>1 DEF Confirm
      <4> QED
        BY <2>1, <3>1, <4>1
    <3>2. CASE j.tx # t
      <4>1. j.undone \/ (c \in members <=> j.op = "opt_in_app")
        BY <1>4, <1>5, <3>2 DEF JobDone, MemberKept
      <4> QED
        BY <1>6, <2>2, <4>1
    <3> QED
      BY <3>1, <3>2
  <2>3. CASE /\ t.from = c /\ t.kind \in {"opt_in_app", "close_out", "clear_state"}
             /\ c \in members' <=> t.kind = "opt_in_app"
    <3>1. CASE t \in orphans
      BY <1>6, <2>3, <3>1
    <3>2. CASE j.tx = t
      BY <2>1, <2>3, <3>2
    <3>3. t \in orphans \/ j.tx = t
      <4>1. \A d \in Clients : job[d].tx = t => t.from = d
        BY <1>1, ClientDone DEF JobDone, OwnTx
      <4> QED
        BY <2>3, <4>1 DEF Pool, j
    <3> QED
      BY <3>1, <3>2, <3>3
  <2> QED
    BY <2>2, <2>3, ConfirmMembers
<1>14. HandingOver(i, c, held')
  <2> SUFFICES ASSUME j.op = "change_asset_reserve_address" PROVE HandingOver(i, c, held')
    BY <1>5 DEF HandingOver
  <2>1. /\ held[c] \in Nat /\ held'[c] \in Nat /\ t.amount \in Nat
        /\ ~Moves(t) \/ t.to # c => held'[c] <= held[c]
        /\ Moves(t) /\ t.to = c => held'[c] <= held[c] + t.amount
        /\ Moves(t) /\ t.to # c /\ t.from = c => held'[c] = held[c] - t.amount
    BY ConfirmHeld
  <2>2. j.amount \in Nat /\ j.arrived \in Nat /\ j.at \in Nat
    BY <1>4, BoundAssumption DEF JobType
  <2>3. HandingOver(j, c, held)
    BY <1>4 DEF JobDone
  <2> HIDE DEF j
  <2>4. i.arrived \in Nat /\ \A b \in Nat : held[c] <= b + j.arrived => held'[c] <= b + i.arrived
    <3>1. CASE Moves(t) /\ t.to = c
      <4>1. i.arrived = j.arrived + t.amount
        BY <1>7, <3>1
      <4> QED
        BY <2>1, <2>2, <3>1, <4>1
    <3>2. CASE ~Moves(t) \/ t.to # c
      BY <1>7, <2>1, <2>2, <3>2
    <3> QED
      BY <3>1, <3>2
  <2>5. held[c] <= j.arrived => held'[c] <= i.arrived
    <3>1. 0 \in Nat /\ 0 + j.arrived = j.arrived /\ 0 + i.arrived = i.arrived
      BY <2>2, <2>4
    <3> QED
      BY <2>4, <3>1
  <2>6. i.at > 3 => held'[c] <= i.amount + i.arrived
    BY <1>5, <2>2, <2>3, <2>4 DEF HandingOver
  <2>7. i.result = "ok" => held'[c] <= i.arrived
    BY <1>5, <2>3, <2>5 DEF HandingOver
  <2>8. ASSUME i.at = 5, i.phase # "step", i.tx.status = "confirmed"
        PROVE  held'[c] <= i.arrived
    <3>1. CASE j.tx = t
      <4>1. /\ t.kind = "transfer" /\ t.to = j.to /\ t.amount = j.amount /\ t.from = c
        BY <1>5, <1>9, <1>10, <2>8, <3>1, ScriptSteps DEF OwnTx
      <4>2. c = "creator"
        <5>1. Achieved(Script[j.op][1], j.done, c, app, optedIn)
          BY <1>4, <1>5, <2>8, ScriptSteps DEF JobDone, StepsAchieved, Past
        <5> QED
          BY <5>1, ScriptSteps DEF Achieved
      <4>3. Moves(t) /\ t.to # c
        BY <2>3, <4>1, <4>2 DEF Moves, HandingOver
      <4>4. held'[c] = held[c] - j.amount /\ i.arrived = j.arrived
        BY <1>7, <2>1, <4>1, <4>3
      <4>5. held[c] <= j.amount + j.arrived
        BY <1>5, <2>3, <2>8 DEF HandingOver
      <4> QED
        BY <2>1, <2>2, <4>4, <4>5
    <3>2. CASE j.tx # t
      BY <1>5, <2>3, <2>5, <2>8, <3>2 DEF HandingOver
    <3> QED
      BY <3>1, <3>2
  <2> QED
    BY <1>5, <2>3, <2>6, <2>7, <2>8 DEF HandingOver
<1>15. NoneMade(i)
  BY <1>4, <1>5 DEF JobDone, NoneMade
<1> QED
  BY <1>11, <1>12, <1>13, <1>14, <1>15 DEF JobDone, i

LEMMA ConfirmDone ==
    ASSUME SubmissionInv, OutcomeInv, NEW t \in Pool, Confirm(t)
    PROVE  OutcomeInv'
<1>1. JobsDone'
  BY ConfirmJobDone DEF JobsDone
<1>2. Pool' \subseteq Pool /\ (Deploying' <=> Deploying)
  <2> DEFINE u == [t EXCEPT !.status = "confirmed", !.confirmed = round + 1]
  <2>1. Settle(t, u) /\ u.status # "pool"
    BY PoolWell DEF Confirm, TxWell, TxType
  <2> HIDE DEF u
  <2> QED
    BY <2>1, SettlePool
<1>3. app \subseteq app' /\ asset'.manager = "creator"
      /\ ("deleted" \in app' => "deleted" \in app \/ t.kind = "delete")
  BY ConfirmEffect
<1> QED
  BY <1>1, <1>2, <1>3 DEF OutcomeInv, DeploymentSafe

-----------------------------------------------------------------------------
LEMMA OutcomeInit == Init => OutcomeInv
<1> SUFFICES ASSUME Init PROVE OutcomeInv
  OBVIOUS
<1>1. \A c \in Clients : job[c] = Idle
  BY DEF Init
<1>2. /\ Idle.tx = NoTx /\ Idle.at = 0 /\ Idle.phase = "step" /\ Idle.result = "none"
      /\ Idle.op = "send_algo" /\ NoTx.status # "pool"
  BY DEF Idle, NoTx
<1>3. JobsDone
  <2> SUFFICES ASSUME NEW c \in Clients
               PROVE  JobDone(Idle, c, app, optedIn, members, held)
    BY <1>1 DEF JobsDone
  <2> QED
    BY <1>2, FreshDone
<1>4. Pool = {} /\ ~Deploying
  BY <1>1, <1>2 DEF Init, Pool, Deploying
<1>5. asset.manager = "creator"
  BY DEF Init
<1> QED
  BY <1>3, <1>4, <1>5 DEF OutcomeInv, DeploymentSafe

LEMMA OutcomeNext == SubmissionInv /\ OutcomeInv /\ [Next]_vars => OutcomeInv'
<1> SUFFICES ASSUME SubmissionInv, OutcomeInv, [Next]_vars PROVE OutcomeInv'
  OBVIOUS
<1>1. ASSUME NEW c \in Clients, ClientStep(c)
      PROVE  OutcomeInv'
  <2>1. CASE ReadResult(c) \/ Check(c)
    BY <2>1, ReadResultDone, CheckDone
  <2>2. CASE ReadHolding(c)
    BY <2>2, ReadHoldingDone
  <2>3. CASE CheckApp(c) \/ CheckMember(c)
    BY <2>3, CheckAppDone, CheckMemberDone
  <2>4. CASE FailRead(c) \/ FailWait(c)
    BY <2>4, FailReadDone
  <2>5. CASE Submit(c)
    BY <2>5, SubmitDone
  <2>6. CASE ReadStatus(c) \/ PendingLost(c)
    BY <2>6, ReadStatusDone
  <2>7. CASE Pending(c)
    BY <2>7, PendingDone
  <2>8. CASE WaitBlock(c)
    BY <2>8, WaitBlockDone
  <2> QED
    BY <1>1, <2>1, <2>2, <2>3, <2>4, <2>5, <2>6, <2>7, <2>8 DEF ClientStep
<1>2. ASSUME NEW c \in Clients, NEW n \in Operations[c], Start(c, n)
      PROVE  OutcomeInv'
  BY <1>2, StartDone
<1>3. ASSUME NEW t \in Pool, Confirm(t) \/ LeavePool(t)
      PROVE  OutcomeInv'
  BY <1>3, ConfirmDone, LeavePoolDone
<1>4. CASE UNCHANGED <<asset, app, optedIn, members, held, orphans, job>>
  BY <1>4 DEF OutcomeInv, DeploymentSafe, Deploying, JobsDone, Pool
<1> QED
  BY <1>1, <1>2, <1>3, <1>4 DEF Next, EmptyRound, vars, chain

\* Every job has achieved what the steps behind it are for, in every state, also one
\* that ends with Ok(None) before its script does.
THEOREM OutcomeInvariance == Spec => []OutcomeInv
  BY OutcomeInit, OutcomeNext, SubmissionInvariance, PTL DEF Spec

\* What an operation of ops.rs reports with Ok is so: its transactions are confirmed,
\* what it deployed or deleted is there or gone, what it reconfigured was seen to be,
\* and its membership is what it was told to make it.  With Ok(None) it has created what
\* it knows no id of, and no more is said.
THEOREM OkMeansDoneHolds == Spec => []OkMeansDone
<1>1. SubmissionInv /\ OutcomeInv => OkMeansDone
  <2> SUFFICES ASSUME SubmissionInv, OutcomeInv, NEW c \in Clients
               PROVE  /\ job[c].result \in {"ok", "ok_none"} =>
                             job[c].tx = NoTx \/ job[c].tx.status = "confirmed"
                      /\ job[c].result = "ok_none" => {"create", "plain"} \cap job[c].done # {}
                      /\ job[c].result = "ok" =>
                         /\ job[c].op = "deploy_app" =>
                                app = {"created", "funded"} /\ "app" \in optedIn
                         /\ job[c].op = "delete_app" => "deleted" \in app
                         /\ job[c].op \in MemberOps =>
                                job[c].undone \/ (c \in members <=> job[c].op = "opt_in_app")
                         /\ job[c].op \in {"deploy_app", "set_asset_clawback_to_app",
                                           "change_asset_reserve_address"}
                                => "reconfigure" \in job[c].done
    BY DEF OkMeansDone
  <2> DEFINE j == job[c]
  <2>1. JobDone(j, c, app, optedIn, members, held)
    BY ClientDone
  <2>2. /\ j.result \in {"ok", "ok_none"} => j.tx = NoTx \/ j.tx.status = "confirmed"
        /\ j.result = "ok_none" => {"create", "plain"} \cap j.done # {}
    BY <2>1 DEF JobDone, OwnTx, NoneMade
  <2> SUFFICES ASSUME j.result = "ok"
               PROVE  /\ j.op = "deploy_app" => app = {"created", "funded"} /\ "app" \in optedIn
                      /\ j.op = "delete_app" => "deleted" \in app
                      /\ j.op \in MemberOps =>
                             j.undone \/ (c \in members <=> j.op = "opt_in_app")
                      /\ j.op \in {"deploy_app", "set_asset_clawback_to_app",
                                   "change_asset_reserve_address"} => "reconfigure" \in j.done
    BY <2>2
  <2>3. \A k \in 1 .. Len(Script[j.op]) : Achieved(Script[j.op][k], j.done, c, app, optedIn)
    BY <2>1 DEF JobDone, StepsAchieved, Past
  <2>4. ASSUME j.op = "deploy_app"
        PROVE  app = {"created", "funded"} /\ "app" \in optedIn /\ "reconfigure" \in j.done
    <3>1. \A k \in 1 .. 8 : Achieved(Script["deploy_app"][k], j.done, c, app, optedIn)
      BY <2>3, <2>4, ScriptSteps
    <3>2. /\ "created" \in app /\ "funded" \in app /\ "app" \in optedIn /\ c = "creator"
          /\ "reconfigure" \in j.done
      BY <3>1, ScriptSteps DEF Achieved
    <3>3. "deleted" \notin app
      BY <2>4, <3>2 DEF OutcomeInv, DeploymentSafe, Deploying
    <3> QED
      BY <3>2, <3>3 DEF SubmissionInv, ChainType
  <2>5. j.op = "delete_app" => "deleted" \in app
    BY <2>3, ScriptSteps DEF Achieved
  <2>6. j.op \in MemberOps => j.undone \/ (c \in members <=> j.op = "opt_in_app")
    BY <2>1 DEF JobDone, MemberKept
  <2>7. ASSUME j.op = "set_asset_clawback_to_app" PROVE "reconfigure" \in j.done
    <3>1. 2 \in 1 .. Len(Script[j.op]) /\ Script[j.op][2] = "reconfigure"
      BY <2>7, ScriptSteps
    <3> HIDE DEF j
    <3> QED
      BY <2>3, <3>1 DEF Achieved
  <2>8. j.op = "change_asset_reserve_address" => "reconfigure" \in j.done
    BY <2>3, ScriptSteps DEF Achieved
  <2> QED
    BY <2>4, <2>5, <2>6, <2>7, <2>8
<1> QED
  BY <1>1, SubmissionInvariance, OutcomeInvariance, PTL

\* change_asset_reserve_address reports Ok only when all the caller held at the time it
\* was read has gone to the new reserve.
THEOREM HandedOverHolds == Spec => []HandedOver
<1>1. OutcomeInv => HandedOver
  BY ClientDone DEF HandedOver, JobDone, HandingOver
<1> QED
  BY <1>1, OutcomeInvariance, PTL
=============================================================================
