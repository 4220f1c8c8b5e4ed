---------------------------- MODULE SessionProofs ---------------------------
(***************************************************************************)
(* Proofs about Session, for any nodes, addresses, callers and requests.   *)
(***************************************************************************)
EXTENDS Session, TLAPS

-----------------------------------------------------------------------------
(* The parts of a call *)

\* Idle is a call's type and has no connection (the state of a caller that is not
\* in the client).
LEMMA IdleType == Idle \in CallType /\ Connected(Idle)
<1>1. 0 \in 0 .. MaxRetries
  BY RetryAssumption
<1> QED
  BY <1>1 DEF Idle, CallType, Connected, Phases, Results, Statuses, Clients, NoClient, Modes

\* What is left of a call that has returned has the type of a call, and no connection.
LEMMA DoneType ==
    ASSUME NEW j \in CallType, NEW x \in Results
    PROVE  /\ Done(j, x) \in CallType /\ Connected(Done(j, x))
           /\ Done(j, x).phase = "done" /\ Done(j, x).result = x /\ Done(j, x).heard = j.heard
           /\ Done(j, x).body = IF j.op = "submit" /\ x = "ok" THEN j.body ELSE NoTxn
<1> DEFINE b == IF j.op = "submit" /\ x = "ok" THEN j.body ELSE NoTxn
<1>1. b \in Txns \cup {NoTxn} /\ j.heard \in {"nothing", "answer", "alert"}
  BY DEF CallType
<1>2. Done(j, x) = [Idle EXCEPT !.heard = j.heard, !.result = x, !.body = b]
  BY DEF Done
<1> HIDE DEF b
<1>3. Done(j, x) \in CallType
  BY <1>1, <1>2, IdleType DEF CallType
<1>4. /\ Done(j, x).phase = Idle.phase /\ Done(j, x).node = Idle.node
      /\ Done(j, x).status = Idle.status /\ Done(j, x).result = x
      /\ Done(j, x).heard = j.heard /\ Done(j, x).body = b
  BY <1>2, IdleType DEF CallType
<1>5. Idle.phase = "done"
  BY DEF Idle
<1> QED
  BY <1>3, <1>4, <1>5, IdleType DEF Connected, b

\* A failed attempt leaves nothing of its connection.
LEMMA CutType ==
    ASSUME NEW j \in CallType
    PROVE  LET k == [Cut(j) EXCEPT !.phase = "backoff"]
           IN  /\ k \in CallType /\ Connected(k) /\ k.phase = "backoff"
               /\ k.op = j.op /\ k.body = j.body /\ k.heard = j.heard
               /\ k.result = j.result /\ k.client = j.client /\ k.node = Nobody
               /\ k.attempt = j.attempt
<1>1. Cut(j) \in CallType /\ Cut(j).node = Nobody /\ Cut(j).status = 0
  <2>1. j.node \in Nodes \cup {Nobody} /\ 0 \in Statuses
    BY DEF CallType, Statuses
  <2>2. Cut(j) \in CallType
    BY <2>1 DEF Cut, CallType
  <2> QED
    BY <2>2 DEF Cut, CallType
<1>2. /\ Cut(j).op = j.op /\ Cut(j).body = j.body /\ Cut(j).heard = j.heard
      /\ Cut(j).result = j.result /\ Cut(j).client = j.client /\ Cut(j).attempt = j.attempt
  BY DEF Cut, CallType
<1>3. [Cut(j) EXCEPT !.phase = "backoff"] \in CallType
  BY <1>1 DEF CallType, Phases
<1> QED
  BY <1>1, <1>2, <1>3 DEF CallType, Connected

-----------------------------------------------------------------------------
(***************************************************************************)
(* The inductive invariant.  A call is well when                            *)
(*  - it has heard nothing as long as it runs, and tells what it heard;     *)
(*  - its connection, over mutual TLS, is to the pinned node;               *)
(*  - its submission is the one building of its request, in the cluster     *)
(*    once the node has said so.                                            *)
(***************************************************************************)
Quiet(j) ==
    /\ j.phase # "done" => j.heard = "nothing" /\ j.result = "none"
    /\ j.result = "identity refused" <=> j.heard = "alert"
    /\ j.result \in {"unreachable", "transport", "local", "invalid"} => j.heard = "nothing"

Aimed(j) ==
    /\ j.phase # "done" => j.client.url \in Addresses
    /\ j.phase = "backoff" => j.attempt < MaxRetries

Pinned(j) == j.client.mode = "mtls" /\ j.node # Nobody => j.node = j.client.pin

FirstBuilds == Requests \X {0}

Posted(j, e) ==
    /\ j.phase # "done" /\ j.op = "submit" => j.body \in FirstBuilds
    /\ j.phase = "answered" /\ j.op = "submit" /\ j.status = 200 => j.body \in e
    /\ j.phase = "done" /\ j.body # NoTxn => j.body \in e

Well(j, e) == j \in CallType /\ Connected(j) /\ Quiet(j) /\ Aimed(j) /\ Pinned(j) /\ Posted(j, e)

CallsWell == call \in [Callers -> CallType] /\ \A c \in Callers : Well(call[c], entered)

LateWell ==
    /\ late \subseteq [client : Clients, node : Nodes, body : Txns]
    /\ \A m \in late : /\ m.body \in FirstBuilds
                       /\ m.client.mode = "mtls" => m.node = m.client.pin

WorldType ==
    /\ at \in [Addresses -> Nodes \cup {Nobody}]
    /\ published \in [Nodes -> Addresses \cup {Nobody}]
    /\ nodeBits \subseteq Nodes /\ clientBit \in BOOLEAN /\ admits \subseteq Nodes

ClientWell ==
    /\ resolved \subseteq Nodes \X Addresses
    /\ client \in Clients /\ authenticated \in Nodes \cup {Nobody}
    /\ client # NoClient => client.url \in Addresses
    /\ authenticated # Nobody => client.mode = "mtls" /\ authenticated = client.pin

CountsType == calls \in 0 .. MaxCalls /\ changes \in 0 .. MaxChanges

SessionInv ==
    WorldType /\ ClientWell /\ CallsWell /\ LateWell /\ entered \subseteq FirstBuilds /\ CountsType

\* A first building is a transaction, and not the placeholder.
LEMMA BuildIsTxn == FirstBuilds \subseteq Txns /\ NoTxn \notin FirstBuilds
<1>1. 0 \in 0 .. MaxRetries
  BY RetryAssumption
<1> QED
  BY <1>1, NobodyAssumption DEF FirstBuilds, Txns, NoTxn

\* A call that returns having heard what its result says is well.
LEMMA DoneWell ==
    ASSUME NEW j \in CallType, NEW e, NEW x \in Results,
           x = "identity refused" <=> j.heard = "alert",
           x \in {"unreachable", "transport", "local", "invalid"} => j.heard = "nothing",
           j.op = "submit" /\ x = "ok" => j.body \in e
    PROVE  Well(Done(j, x), e)
<1> DEFINE k == Done(j, x)
<1>1. /\ k \in CallType /\ Connected(k) /\ k.phase = "done" /\ k.result = x /\ k.heard = j.heard
      /\ k.body = IF j.op = "submit" /\ x = "ok" THEN j.body ELSE NoTxn
  BY DoneType
<1> HIDE DEF k
<1>2. k.node = Nobody
  BY <1>1 DEF Connected
<1>3. Quiet(k)
  BY <1>1 DEF Quiet
<1>4. Pinned(k)
  BY <1>2 DEF Pinned
<1>5. Posted(k, e) /\ Aimed(k)
  BY <1>1 DEF Posted, Aimed
<1> QED
  BY <1>1, <1>3, <1>4, <1>5 DEF Well, k

\* What one caller's step makes of its own call does not disturb the others'.
LEMMA SetWell ==
    ASSUME CallsWell, entered \subseteq entered', NEW c \in Callers, NEW k,
           Well(k, entered'), Set(c, k)
    PROVE  CallsWell'
<1>1. k \in CallType
  BY DEF Well
<1>2. call' = [call EXCEPT ![c] = k] /\ call \in [Callers -> CallType]
  BY DEF Set, CallsWell
<1>3. call' \in [Callers -> CallType]
  BY <1>1, <1>2
<1>4. ASSUME NEW d \in Callers PROVE Well(call'[d], entered')
  <2>1. CASE d = c
    BY <1>2, <2>1
  <2>2. CASE d # c
    <3>1. call'[d] = call[d] /\ Well(call[d], entered)
      BY <1>2, <2>2 DEF CallsWell
    <3> QED
      BY <3>1 DEF Well, Posted
  <2> QED
    BY <2>1, <2>2
<1> QED
  BY <1>3, <1>4 DEF CallsWell

\* A transport failure of a running call leaves it well.
LEMMA FailWell ==
    ASSUME CallsWell, UNCHANGED entered, NEW c \in Callers, Running(c), NEW b \in BOOLEAN, Fail(c, b)
    PROVE  CallsWell'
<1> DEFINE j == call[c]
           x == IF b THEN "unreachable" ELSE "transport"
           k == [Cut(j) EXCEPT !.phase = "backoff"]
<1>1. j \in CallType /\ Quiet(j) /\ Aimed(j) /\ Posted(j, entered) /\ j.phase # "done" /\ j.heard = "nothing"
  BY DEF CallsWell, Well, Quiet, Running
<1>2. CASE b /\ call[c].attempt < MaxRetries
  <2>1. Set(c, k)
    BY <1>2 DEF Fail
  <2>2. /\ k \in CallType /\ Connected(k) /\ k.phase = "backoff"
        /\ k.op = j.op /\ k.body = j.body /\ k.heard = j.heard
        /\ k.result = j.result /\ k.client = j.client /\ k.node = Nobody
        /\ k.attempt = j.attempt /\ j.attempt < MaxRetries
    BY <1>1, <1>2, CutType
  <2> HIDE DEF k, j
  <2>3. Well(k, entered')
    BY <1>1, <2>2 DEF Well, Quiet, Aimed, Pinned, Posted
  <2> QED
    BY <2>1, <2>3, SetWell
<1>3. CASE ~(b /\ call[c].attempt < MaxRetries)
  <2>1. Set(c, Done(j, x))
    BY <1>3 DEF Fail, Return
  <2>2. x \in Results /\ x # "identity refused" /\ x # "ok"
    BY DEF Results
  <2> HIDE DEF x
  <2>3. Well(Done(j, x), entered')
    BY <1>1, <2>2, DoneWell
  <2> QED
    BY <2>1, <2>3, SetWell
<1> QED
  BY <1>2, <1>3

\* The steps of nodes, chain and client change no call.
LEMMA OthersWell ==
    ASSUME CallsWell, UNCHANGED call, entered \subseteq entered'
    PROVE  CallsWell'
BY DEF CallsWell, Well, Posted

\* The invariant holds of the cluster as deployed.
LEMMA InitInv == Init => SessionInv
<1> SUFFICES ASSUME Init PROVE SessionInv
  OBVIOUS
<1>1. published \in [Nodes -> Addresses]
  <2>1. published \in Placements
    BY AddressAssumption DEF Init
  <2> QED
    BY <2>1 DEF Placements
<1>2. at \in [Addresses -> Nodes \cup {Nobody}]
  <2>1. ASSUME NEW a \in Addresses, \E n \in Nodes : published[n] = a
        PROVE  (CHOOSE n \in Nodes : published[n] = a) \in Nodes
    BY <2>1
  <2> QED
    BY <2>1 DEF Init
<1>3. WorldType
  BY <1>1, <1>2 DEF Init, WorldType
<1>4. ClientWell
  BY DEF Init, ClientWell, NoClient, Clients, Modes
<1>5. CallsWell
  <2>1. Well(Idle, entered)
    <3>1. /\ Idle.phase = "done" /\ Idle.heard = "nothing" /\ Idle.result = "none"
          /\ Idle.node = Nobody /\ Idle.body = NoTxn
      BY DEF Idle
    <3> QED
      BY <3>1, IdleType DEF Well, Quiet, Aimed, Pinned, Posted
  <2>2. call = [c \in Callers |-> Idle]
    BY DEF Init
  <2> QED
    BY <2>1, <2>2, IdleType DEF CallsWell
<1>6. LateWell /\ entered \subseteq FirstBuilds /\ CountsType
  BY BoundAssumption DEF Init, LateWell, CountsType
<1> QED
  BY <1>3, <1>4, <1>5, <1>6 DEF SessionInv

\* No step of the nodes breaks the invariant: the network may deliver a submission
\* late, but only the first building of its request.
LEMMA NodeStepInv == SessionInv /\ NodeStep => SessionInv'
<1> SUFFICES ASSUME SessionInv, NodeStep PROVE SessionInv'
  OBVIOUS
<1> USE DEF SessionInv, CountsType
<1>1. ASSUME Change PROVE changes' \in 0 .. MaxChanges
  BY <1>1, BoundAssumption DEF Change
<1>2. ASSUME NEW n \in Nodes, NEW a \in Addresses, Deploy(n, a) \/ Publish(n, a)
      PROVE  SessionInv'
  BY <1>1, <1>2, OthersWell DEF Deploy, Publish, WorldType, ClientWell, LateWell
<1>3. ASSUME NEW a \in Addresses, Stop(a) PROVE SessionInv'
  BY <1>1, <1>3, OthersWell DEF Stop, WorldType, ClientWell, LateWell
<1>4. ASSUME NEW n \in Nodes, Permit(n) PROVE SessionInv'
  BY <1>1, <1>4, OthersWell DEF Permit, WorldType, ClientWell, LateWell
<1>5. ASSUME NEW n \in Nodes, Poll(n) PROVE SessionInv'
  BY <1>5, OthersWell DEF Poll, WorldType, ClientWell, LateWell
<1>6. ASSUME NEW m \in late, Arrive(m) PROVE SessionInv'
  <2>1. entered \subseteq entered' /\ entered' \subseteq FirstBuilds
    BY <1>6 DEF Arrive, Enter, LateWell
  <2>2. CallsWell'
    BY <1>6, <2>1, OthersWell DEF Arrive
  <2>3. LateWell'
    BY <1>6 DEF Arrive, LateWell
  <2>4. WorldType' /\ ClientWell' /\ CountsType'
    BY <1>6 DEF Arrive, world, WorldType, ClientWell
  <2> QED
    BY <2>1, <2>2, <2>3, <2>4
<1> QED
  BY <1>2, <1>3, <1>4, <1>5, <1>6 DEF NodeStep

\* Nor does building a client: its verifier has authenticated nobody yet.
LEMMA ClientStepInv == SessionInv /\ ClientStep => SessionInv'
<1> SUFFICES ASSUME SessionInv, ClientStep PROVE SessionInv'
  OBVIOUS
<1> USE DEF SessionInv, CountsType
<1>1. ASSUME Change PROVE changes' \in 0 .. MaxChanges
  BY <1>1, BoundAssumption DEF Change
<1>2. CASE Resolve
  <2>1. resolved' \subseteq Nodes \X Addresses
    BY <1>2 DEF Resolve, Resolvable, WorldType
  <2> QED
    BY <1>1, <1>2, <2>1, OthersWell DEF Resolve, world, WorldType, ClientWell, LateWell
<1>3. ASSUME NEW cl \in Clients, cl.url \in Addresses, Use(cl)
      PROVE  client' \in Clients /\ client'.url \in Addresses /\ authenticated' = Nobody
  BY <1>3 DEF Use
<1>4. CASE Connect
  <2>1. PICK node \in resolved : Use([mode |-> "mtls", url |-> node[2], pin |-> node[1]])
    BY <1>4 DEF Connect
  <2>2. [mode |-> "mtls", url |-> node[2], pin |-> node[1]] \in Clients
    BY <2>1 DEF ClientWell, Clients, Modes
  <2> QED
    BY <1>3, <1>4, <2>1, <2>2, OthersWell DEF Connect, world, WorldType, ClientWell, LateWell
<1>5. ASSUME NEW n \in Nodes, NEW a \in Addresses, ConnectPinned(n, a) PROVE SessionInv'
  <2>1. [mode |-> "mtls", url |-> a, pin |-> n] \in Clients
    BY DEF Clients, Modes
  <2> QED
    BY <1>1, <1>3, <1>5, <2>1, OthersWell
    DEF ConnectPinned, world, WorldType, ClientWell, LateWell
<1>6. ASSUME NEW a \in Addresses, NEW mode \in {"bearer", "bad token"}, FromAlgoOps(a, mode)
      PROVE  SessionInv'
  <2>1. [mode |-> mode, url |-> a, pin |-> Nobody] \in Clients
    BY DEF Clients, Modes
  <2> QED
    BY <1>1, <1>3, <1>6, <2>1, OthersWell
    DEF FromAlgoOps, world, WorldType, ClientWell, LateWell
<1> QED
  BY <1>2, <1>4, <1>5, <1>6 DEF ClientStep

\* What an answer comes to is a result, and never one that says nobody answered.
LEMMA OutcomeResult ==
    ASSUME NEW op, NEW status, NEW good \in BOOLEAN
    PROVE  /\ Outcome(op, status, good) \in Results
           /\ Outcome(op, status, good) \notin
                {"identity refused", "unreachable", "transport", "local", "invalid"}
           /\ op = "submit" /\ Outcome(op, status, good) = "ok" => status = 200
BY DEF Outcome, Results

\* No step of a call breaks the invariant.
LEMMA CallStepInv ==
    ASSUME SessionInv, NEW c \in Callers, CallStep(c)
    PROVE  SessionInv'
<1> DEFINE j == call[c]
<1> USE DEF SessionInv
<1>j. /\ j \in CallType /\ Connected(j) /\ Quiet(j) /\ Aimed(j) /\ Pinned(j) /\ Posted(j, entered)
  BY DEF CallsWell, Well
<1>k. /\ j.client \in Clients /\ j.body \in Txns \cup {NoTxn} /\ j.node \in Nodes \cup {Nobody}
      /\ j.attempt \in 0 .. MaxRetries /\ j.phase \in Phases /\ j.op \in Ops \cup {"get"}
  BY <1>j DEF CallType
<1>rest. ASSUME CallsWell', LateWell', entered' \subseteq FirstBuilds, ClientWell', CountsType',
                UNCHANGED world
         PROVE  SessionInv'
  BY <1>rest DEF world, WorldType
<1>client. ASSUME UNCHANGED <<resolved, client, authenticated>> PROVE ClientWell'
  BY <1>client DEF ClientWell
<1>late. ASSUME UNCHANGED late PROVE LateWell'
  BY <1>late DEF LateWell
<1>counts. ASSUME UNCHANGED <<calls, changes>> PROVE CountsType'
  BY <1>counts DEF CountsType
<1> HIDE DEF j, SessionInv
<1>inv. CallsWell /\ ClientWell /\ LateWell /\ CountsType /\ entered \subseteq FirstBuilds
  BY DEF SessionInv
<1>1. ASSUME NEW op \in Ops, NEW r \in Requests \cup {Nobody}, NEW builds \in BOOLEAN,
             Start(c, op, <<r, 0>>, builds)
      PROVE  SessionInv'
  <2> DEFINE k == [Idle EXCEPT !.op = op, !.body = <<r, 0>>, !.client = client, !.phase = "connect"]
  <2>0. op = "submit" => <<r, 0>> \in FirstBuilds
    BY <1>1 DEF Start, NoTxn, FirstBuilds
  <2>1. Well(k, entered')
    <3>1. client \in Clients /\ <<r, 0>> \in Txns \cup {NoTxn} /\ "connect" \in Phases
      BY <1>inv, RetryAssumption DEF ClientWell, Txns, NoTxn, Phases
    <3>2. k \in CallType
      BY <3>1, IdleType DEF CallType
    <3>3. /\ k.node = Idle.node /\ k.status = Idle.status /\ k.heard = Idle.heard
          /\ k.result = Idle.result /\ k.phase = "connect" /\ k.op = op /\ k.body = <<r, 0>>
          /\ k.client = client
      BY IdleType DEF CallType
    <3>4. Idle.node = Nobody /\ Idle.status = 0 /\ Idle.heard = "nothing" /\ Idle.result = "none"
      BY DEF Idle
    <3> HIDE DEF k
    <3> QED
      BY <1>1, <1>inv, <2>0, <3>2, <3>3, <3>4
      DEF Start, ClientWell, Well, Connected, Quiet, Aimed, Pinned, Posted
  <2>2. Well(Done(Idle, "invalid"), entered')
    <3>1. Idle.heard = "nothing" /\ "invalid" \in Results
      BY DEF Idle, Results
    <3> QED
      BY <3>1, IdleType, DoneWell
  <2> HIDE DEF k
  <2>3. Set(c, k) \/ Set(c, Done(Idle, "invalid"))
    BY <1>1 DEF Start, k
  <2>4. CallsWell'
    BY <1>1, <1>inv, <2>1, <2>2, <2>3, SetWell DEF Start
  <2>5. CountsType'
    BY <1>1, <1>inv, BoundAssumption DEF Start, CountsType
  <2> QED
    BY <1>1, <1>inv, <1>rest, <1>client, <1>late, <2>4, <2>5 DEF Start
<1>2. CASE Handshake(c)
  <2> DEFINE n == at[j.client.url]
             mutual == j.client.mode = "mtls"
             k == [j EXCEPT !.phase = "sent", !.node = n]
  <2>0. j.phase = "connect" /\ Running(c)
    BY <1>2 DEF Handshake, Running, j
  <2>1. CASE n # Nobody /\ (mutual => RoleOf(j.client, n))
    <3>1. /\ Set(c, k)
          /\ authenticated' = IF mutual /\ j.client = client THEN n ELSE authenticated
      BY <1>2, <2>1 DEF Handshake, j
    <3>2. n \in Nodes
      <4>1. at \in [Addresses -> Nodes \cup {Nobody}] /\ j.client.url \in Addresses
        BY <1>j, <2>0 DEF SessionInv, WorldType, Aimed
      <4> QED
        BY <2>1, <4>1
    <3>3. mutual => n = j.client.pin
      BY <2>1 DEF RoleOf
    <3>4. Well(k, entered')
      <4>1. n \in Nodes /\ n # Nobody
        BY <2>1, <3>2
      <4> HIDE DEF n
      <4>2. /\ k \in CallType /\ k.phase = "sent" /\ k.node = n /\ k.status = j.status
            /\ k.op = j.op /\ k.body = j.body /\ k.heard = j.heard /\ k.result = j.result
            /\ k.client = j.client
        BY <1>j, <3>2 DEF CallType, Phases
      <4> HIDE DEF k
      <4>3. entered' = entered
        BY <1>2 DEF Handshake
      <4> QED
        BY <1>j, <2>0, <3>3, <4>1, <4>2, <4>3 DEF Well, Connected, Quiet, Aimed, Pinned, Posted
    <3>5. CallsWell'
      BY <1>2, <1>inv, <3>1, <3>4, SetWell DEF Handshake
    <3>6. ClientWell'
      BY <1>2, <1>inv, <3>1, <3>2, <3>3 DEF Handshake, ClientWell
    <3> QED
      BY <1>2, <1>inv, <1>rest, <1>late, <1>counts, <3>5, <3>6 DEF Handshake
  <2>2. CASE ~(n # Nobody /\ (mutual => RoleOf(j.client, n)))
    <3>1. Fail(c, TRUE) /\ UNCHANGED authenticated
      BY <1>2, <2>2 DEF Handshake, j
    <3>2. CallsWell'
      BY <1>2, <1>inv, <2>0, <3>1, FailWell DEF Handshake
    <3> QED
      BY <1>2, <1>inv, <1>rest, <1>client, <1>late, <1>counts, <3>1, <3>2 DEF Handshake
  <2> QED
    BY <2>1, <2>2
<1>3. CASE CannotConnect(c)
  <2>0. Running(c) /\ j.phase # "done"
    BY <1>3 DEF CannotConnect, Running, j
  <2>1. ASSUME Fail(c, TRUE) PROVE CallsWell'
    BY <1>3, <1>inv, <2>0, <2>1, FailWell DEF CannotConnect
  <2>2. ASSUME Return(c, "local") PROVE CallsWell'
    <3>1. Well(Done(j, "local"), entered')
      BY <1>j, <2>0, DoneWell DEF Quiet, Results
    <3> QED
      BY <1>3, <1>inv, <2>2, <3>1, SetWell DEF CannotConnect, Return, j
  <2> QED
    BY <1>3, <1>inv, <1>rest, <1>client, <1>late, <1>counts, <2>1, <2>2 DEF CannotConnect
<1>4. ASSUME NEW status \in Statuses, Handle(c, status) PROVE SessionInv'
  <2> DEFINE k == [j EXCEPT !.phase = "answered", !.status = status]
  <2>0. j.phase = "sent" /\ status \in Served(j) /\ Set(c, k)
    BY <1>4 DEF Handle, j
  <2>1. status # 0
    <3> DEFINE own == CASE j.op = "submit" -> {200, 400}
                        [] j.op \in {"status", "watch"} -> IF j.body \in entered THEN {200} ELSE {404}
                        [] j.op = "operations" -> {200, 404}
                        [] OTHER -> {200}
    <3>1. 0 \notin own
      <4>1. CASE j.op = "submit"
        BY <4>1
      <4>2. CASE j.op \in {"status", "watch"}
        BY <4>2
      <4>3. CASE j.op = "operations"
        BY <4>3
      <4>4. CASE j.op \notin {"submit", "status", "watch", "operations"}
        BY <4>4
      <4> QED
        BY <4>1, <4>2, <4>3, <4>4
    <3>2. status \in {401} \/ status \in {503} \cup own
      BY <2>0 DEF Served
    <3> HIDE DEF own
    <3> QED
      BY <3>1, <3>2
  <2>2. ASSUME j.op = "submit", status = 200
        PROVE  entered' = entered \cup {j.body} /\ j.body \in FirstBuilds
    BY <1>4, <1>j, <2>0, <2>2 DEF Handle, Enter, Clone, Posted, j
  <2>3. ASSUME ~(j.op = "submit" /\ status = 200) PROVE entered' = entered
    BY <1>4, <2>3 DEF Handle, j
  <2>4. entered \subseteq entered' /\ entered' \subseteq FirstBuilds
    BY <1>inv, <2>2, <2>3
  <2>5. j.op = "submit" /\ status = 200 => j.body \in entered'
    BY <2>2
  <2>6. Well(k, entered')
    <3>1. /\ k \in CallType /\ k.phase = "answered" /\ k.node = j.node /\ k.status = status
          /\ k.op = j.op /\ k.body = j.body /\ k.heard = j.heard /\ k.result = j.result
          /\ k.client = j.client
      BY <1>j DEF CallType, Phases
    <3> HIDE DEF k
    <3> QED
      BY <1>j, <2>0, <2>1, <2>4, <2>5, <3>1 DEF Well, Connected, Quiet, Aimed, Pinned, Posted
  <2>7. CallsWell'
    BY <1>inv, <2>0, <2>4, <2>6, SetWell
  <2> QED
    BY <1>4, <1>inv, <1>rest, <1>client, <1>late, <1>counts, <2>4, <2>7 DEF Handle
<1>5. CASE Deny(c)
  <2> DEFINE k == [j EXCEPT !.phase = "refused"]
  <2>1. j.phase = "sent" /\ Set(c, k)
    BY <1>5 DEF Deny, j
  <2>2. /\ k \in CallType /\ k.phase = "refused" /\ k.node = j.node /\ k.status = j.status
        /\ k.op = j.op /\ k.body = j.body /\ k.heard = j.heard /\ k.result = j.result
        /\ k.client = j.client
    BY <1>j DEF CallType, Phases
  <2> HIDE DEF k
  <2>3. Well(k, entered')
    BY <1>5, <1>j, <2>1, <2>2 DEF Deny, Well, Connected, Quiet, Aimed, Pinned, Posted
  <2>4. CallsWell'
    BY <1>5, <1>inv, <2>1, <2>3, SetWell DEF Deny
  <2> QED
    BY <1>5, <1>inv, <1>rest, <1>client, <1>late, <1>counts, <2>4 DEF Deny
<1>6. ASSUME NEW good \in BOOLEAN, Receive(c, good) PROVE SessionInv'
  <2> DEFINE i == [j EXCEPT !.heard = "answer"]
             x == Outcome(j.op, j.status, good)
  <2>1. j.phase = "answered" /\ Set(c, Done(i, x))
    BY <1>6 DEF Receive, j
  <2>2. i \in CallType /\ i.heard = "answer" /\ i.op = j.op /\ i.body = j.body
    BY <1>j DEF CallType
  <2>3. /\ x \in Results
        /\ x \notin {"identity refused", "unreachable", "transport", "local", "invalid"}
        /\ j.op = "submit" /\ x = "ok" => j.status = 200
    BY OutcomeResult
  <2> HIDE DEF i, x
  <2>4. Well(Done(i, x), entered')
    <3>1. i.op = "submit" /\ x = "ok" => i.body \in entered
      BY <1>j, <2>1, <2>2, <2>3 DEF Posted
    <3> QED
      BY <1>6, <2>2, <2>3, <3>1, DoneWell DEF Receive
  <2>5. CallsWell'
    BY <1>6, <1>inv, <2>1, <2>4, SetWell DEF Receive
  <2> QED
    BY <1>6, <1>inv, <1>rest, <1>client, <1>late, <1>counts, <2>5 DEF Receive
<1>7. CASE HearRefusal(c)
  <2> DEFINE i == [j EXCEPT !.heard = "alert"]
  <2>1. Set(c, Done(i, "identity refused"))
    BY <1>7 DEF HearRefusal, Refusal, j
  <2>2. i \in CallType /\ i.heard = "alert"
    BY <1>j DEF CallType
  <2> HIDE DEF i
  <2>3. Well(Done(i, "identity refused"), entered')
    BY <2>2, DoneWell DEF Results
  <2>4. CallsWell'
    BY <1>7, <1>inv, <2>1, <2>3, SetWell DEF HearRefusal
  <2> QED
    BY <1>7, <1>inv, <1>rest, <1>client, <1>late, <1>counts, <2>4 DEF HearRefusal
<1>8. ASSUME NEW unreachable \in BOOLEAN, Break(c, unreachable) PROVE SessionInv'
  <2> DEFINE m == [client |-> j.client, node |-> j.node, body |-> j.body]
  <2>1. j.phase \in {"sent", "answered", "refused"} /\ Running(c)
    BY <1>8 DEF Break, Lost, Running, j
  <2>2. CallsWell'
    BY <1>8, <1>inv, <2>1, FailWell DEF Break
  <2>3. CASE late' = late
    BY <1>8, <1>inv, <1>rest, <1>client, <1>late, <1>counts, <2>2, <2>3 DEF Break
  <2>4. CASE late' = late \cup {m} /\ j.phase = "sent" /\ j.op = "submit"
    <3>1. j.body \in FirstBuilds /\ j.body \in Txns
      BY <1>j, <2>4, BuildIsTxn DEF Posted
    <3>2. j.node \in Nodes /\ j.node # Nobody
      BY <1>j, <1>k, <2>1 DEF Connected
    <3>3. m.client.mode = "mtls" => m.node = m.client.pin
      BY <1>j, <3>2 DEF Pinned
    <3>4. m \in [client : Clients, node : Nodes, body : Txns]
      BY <1>k, <3>1, <3>2
    <3>5. LateWell'
      BY <1>inv, <2>4, <3>1, <3>3, <3>4 DEF LateWell
    <3> QED
      BY <1>8, <1>inv, <1>rest, <1>client, <1>counts, <2>2, <3>5 DEF Break
  <2> QED
    BY <1>8, <2>1, <2>3, <2>4 DEF Break, Lost, Clone, j
<1>9. CASE Timeout(c)
  <2>1. Running(c) /\ Fail(c, TRUE)
    BY <1>9 DEF Timeout
  <2>2. CallsWell'
    BY <1>9, <1>inv, <2>1, FailWell DEF Timeout
  <2> QED
    BY <1>9, <1>inv, <1>rest, <1>client, <1>late, <1>counts, <2>2 DEF Timeout
<1>10. CASE Retry(c)
  <2> DEFINE k == [j EXCEPT !.phase = "connect", !.attempt = j.attempt + 1]
  <2>1. j.phase = "backoff" /\ Set(c, k)
    BY <1>10 DEF Retry, j
  <2>2. j.attempt + 1 \in 0 .. MaxRetries
    BY <1>j, <1>k, <2>1, RetryAssumption DEF Aimed
  <2>3. /\ k \in CallType /\ k.phase = "connect" /\ k.node = j.node /\ k.status = j.status
        /\ k.op = j.op /\ k.body = j.body /\ k.heard = j.heard /\ k.result = j.result
        /\ k.client = j.client
    BY <1>j, <2>2 DEF CallType, Phases
  <2> HIDE DEF k
  <2>4. Well(k, entered')
    BY <1>10, <1>j, <2>1, <2>3 DEF Retry, Well, Connected, Quiet, Aimed, Pinned, Posted
  <2>5. CallsWell'
    BY <1>10, <1>inv, <2>1, <2>4, SetWell DEF Retry
  <2> QED
    BY <1>10, <1>inv, <1>rest, <1>client, <1>late, <1>counts, <2>5 DEF Retry
<1> QED
  BY <1>1, <1>2, <1>3, <1>4, <1>5, <1>6, <1>7, <1>8, <1>9, <1>10 DEF CallStep

\* The invariant is inductive.
LEMMA StepInv == SessionInv /\ [Next]_vars => SessionInv'
<1> SUFFICES ASSUME SessionInv, [Next]_vars PROVE SessionInv'
  OBVIOUS
<1>1. CASE NodeStep
  BY <1>1, NodeStepInv
<1>2. CASE ClientStep
  BY <1>2, ClientStepInv
<1>3. ASSUME NEW c \in Callers, CallStep(c) PROVE SessionInv'
  BY <1>3, CallStepInv
<1>4. CASE UNCHANGED vars
  <2>1. CallsWell'
    BY <1>4, OthersWell DEF SessionInv, vars
  <2> QED
    BY <1>4, <2>1 DEF SessionInv, vars, WorldType, ClientWell, LateWell, CountsType
<1> QED
  BY <1>1, <1>2, <1>3, <1>4 DEF Next

\* Every reachable state satisfies it.
THEOREM SessionInvariance == Spec => []SessionInv
<1>1. Init => SessionInv
  BY InitInv
<1>2. SessionInv /\ [Next]_vars => SessionInv'
  BY StepInv
<1> QED
  BY <1>1, <1>2, PTL DEF Spec

\* Type correctness, and that no call goes on with a connection or an answer of an
\* attempt that failed (send makes a new connection for each attempt).
THEOREM TypeCorrect == Spec => []TypeOK
<1>1. SessionInv => TypeOK
  <2> SUFFICES ASSUME SessionInv PROVE TypeOK
    OBVIOUS
  <2>1. entered \subseteq Txns
    BY BuildIsTxn DEF SessionInv
  <2>2. \A c \in Callers : Connected(call[c])
    BY DEF SessionInv, CallsWell, Well
  <2> QED
    BY <2>1, <2>2 DEF SessionInv, TypeOK, WorldType, ClientWell, CallsWell, LateWell, CountsType
<1> QED
  BY <1>1, SessionInvariance, PTL

\* One request is one transaction, however often it is sent (the retry loop of send
\* posts clones of the same bytes), and an identifier submit returned is that of a
\* transaction the cluster has taken.
THEOREM AppliedOnceHolds == Spec => []AppliedOnce
<1>1. SessionInv => AppliedOnce
  <2> SUFFICES ASSUME SessionInv PROVE AppliedOnce
    OBVIOUS
  <2>1. \A t, u \in FirstBuilds : t[1] = u[1] => t = u
    BY DEF FirstBuilds
  <2>2. \A t, u \in entered : t[1] = u[1] => t = u
    BY <2>1 DEF SessionInv
  <2>3. \A c \in Callers : ~Running(c) /\ call[c].body # NoTxn => call[c].body \in entered
    BY DEF SessionInv, CallsWell, Well, Posted, Running
  <2> QED
    BY <2>2, <2>3 DEF AppliedOnce
<1> QED
  BY <1>1, SessionInvariance, PTL

\* Over mutual TLS a client talks to the node it pinned and to no other, wherever
\* nodes move (IdentityServerVerifier with a single-entry StaticMembership).
THEOREM PinnedOnlyHolds == Spec => []PinnedOnly
<1>1. SessionInv => PinnedOnly
  <2> SUFFICES ASSUME SessionInv PROVE PinnedOnly
    OBVIOUS
  <2>1. \A c \in Callers : Pinned(call[c])
    BY DEF SessionInv, CallsWell, Well
  <2> QED
    BY <2>1 DEF SessionInv, PinnedOnly, Pinned, LateWell, ClientWell
<1> QED
  BY <1>1, SessionInvariance, PTL

\* What a node said ends the call (send returns an answer or a refused identity at
\* once), and the result says what was heard.
THEOREM HeardIsFinalHolds == Spec => []HeardIsFinal
<1>1. SessionInv => HeardIsFinal
  BY DEF SessionInv, CallsWell, Well, Quiet, HeardIsFinal, Running
<1> QED
  BY <1>1, SessionInvariance, PTL
=============================================================================
