------------------------------ MODULE Session -------------------------------
(***************************************************************************)
(* The Sidewinder client: nodes that listen at addresses, publish them on  *)
(* the parent chain and poll it for the accounts they admit; a client that *)
(* is built from what the chain said and pins a node's identity; and the   *)
(* threads that call through it, each call with its own connections and a  *)
(* retry loop.  Connections break at any point, nodes move, stop and take  *)
(* over one another's addresses, and a request whose connection broke may  *)
(* still reach its node later.                                             *)
(***************************************************************************)
EXTENDS Integers, FiniteSets

CONSTANTS
    Nodes, Addresses,
    Callers,      \* threads that use the client
    Requests,     \* transactions an application may ask for
    Ops,          \* operations it calls
    Nobody,       \* not a node, not an address, not a request
    MaxRetries,   \* MAX_RETRIES
    MaxCalls,     \* bound: calls started
    MaxChanges    \* bound: changes of nodes, chain and client

\* Every node at an address of its own.
Placements ==
    {f \in [Nodes -> Addresses] : \A m, n \in Nodes : f[m] = f[n] => m = n}

ASSUME NobodyAssumption == Nobody \notin Nodes \cup Addresses \cup Requests
ASSUME AddressAssumption == Placements # {}
ASSUME RetryAssumption == MaxRetries \in Nat
ASSUME BoundAssumption == MaxCalls \in Nat /\ MaxChanges \in Nat

\* A signed transaction: what was asked for, and which building of it this is.
\* Its content address is itself, so two buildings are two transactions.
Txns == Requests \X (0 .. MaxRetries)
NoTxn == <<Nobody, 0>>

VARIABLES
    at,          \* the node that listens at each address
    published,   \* the address in each node's endpoint record on the chain
    nodeBits,    \* nodes whose permission bit is set on the chain
    clientBit,   \* whether this account's client bit is set on the chain
    admits,      \* nodes that saw that bit at their last poll
    resolved,    \* the nodes and addresses the last scan found
    client,      \* the client in use
    authenticated, \* the peer its verifier authenticated last
    call,        \* what each caller is doing
    late,        \* submissions whose connection broke on the way to a node
    entered,     \* transactions the cluster has taken
    calls,       \* calls started so far
    changes      \* changes so far

vars == <<at, published, nodeBits, clientBit, admits, resolved, client, authenticated,
          call, late, entered, calls, changes>>

world == <<at, published, nodeBits, clientBit, admits>>

\* A client over mutual TLS pins a node; one over plaintext has a bearer token.
Modes == {"none", "mtls", "bearer", "bad token"}
Clients == [mode : Modes, url : Addresses \cup {Nobody}, pin : Nodes \cup {Nobody}]
NoClient == [mode |-> "none", url |-> Nobody, pin |-> Nobody]

\* node_status is called and read like params.
ASSUME OpAssumption ==
    Ops \subseteq {"submit", "status", "watch", "params", "operations", "health", "get"}

Phases == {"done", "connect", "sent", "answered", "refused", "backoff"}
Results == {"none", "ok", "bad request", "unauthorized", "not found", "unexpected status",
            "malformed", "identity refused", "unreachable", "transport", "local", "invalid"}
Statuses == {0, 200, 400, 401, 404, 503}

Idle == [
    op      |-> "get",      \* the operation
    phase   |-> "done",     \* where it is
    client  |-> NoClient,   \* the client it was called on
    body    |-> NoTxn,      \* what it posts, asks about, or has returned
    attempt |-> 0,          \* retries so far
    node    |-> Nobody,     \* the node at the other end of the connection
    status  |-> 0,          \* the answer on its way
    heard   |-> "nothing",  \* history: what has come back from a node
    result  |-> "none"]     \* what the call returned

Set(c, j) == call' = [call EXCEPT ![c] = j]

-----------------------------------------------------------------------------
(***************************************************************************)
(* Nodes and the parent chain                                              *)
(***************************************************************************)
Change == changes < MaxChanges /\ changes' = changes + 1

\* A node starts to listen at an address nobody has, and leaves any other.
Deploy(n, a) ==
    /\ Change /\ at[a] = Nobody
    /\ at' = [b \in Addresses |-> IF b = a THEN n ELSE IF at[b] = n THEN Nobody ELSE at[b]]
    /\ UNCHANGED <<published, nodeBits, clientBit, admits, resolved, client, authenticated,
                   call, late, entered, calls>>

Stop(a) ==
    /\ Change /\ at[a] # Nobody
    /\ at' = [at EXCEPT ![a] = Nobody]
    /\ UNCHANGED <<published, nodeBits, clientBit, admits, resolved, client, authenticated,
                   call, late, entered, calls>>

\* A node rewrites its endpoint record, some time after it has moved.
Publish(n, a) ==
    /\ Change /\ at[a] = n
    /\ published' = [published EXCEPT ![n] = a]
    /\ UNCHANGED <<at, nodeBits, clientBit, admits, resolved, client, authenticated,
                   call, late, entered, calls>>

\* Permission bits are set and cleared on the chain.
Permit(n) ==
    /\ Change
    /\ \/ nodeBits' = nodeBits \cup {n} /\ UNCHANGED clientBit
       \/ nodeBits' = nodeBits \ {n} /\ UNCHANGED clientBit
       \/ clientBit' = ~clientBit /\ UNCHANGED nodeBits
    /\ UNCHANGED <<at, published, admits, resolved, client, authenticated,
                   call, late, entered, calls>>

\* A node reads the membership application; until then it admits whom it did.
Poll(n) ==
    /\ admits' = IF clientBit THEN admits \cup {n} ELSE admits \ {n}
    /\ UNCHANGED <<at, published, nodeBits, clientBit, resolved, client, authenticated,
                   call, late, entered, calls, changes>>

-----------------------------------------------------------------------------
(***************************************************************************)
(* Building a client                                                       *)
(***************************************************************************)

\* decode_node_endpoint: a permitted node that has published an address.
Resolvable == {n \in nodeBits : published[n] # Nobody}

\* resolve_nodes: the scan is fresh, and what it found may be stale when used.
Resolve ==
    /\ Change
    /\ resolved' = {<<n, published[n]>> : n \in Resolvable}
    /\ UNCHANGED <<world, client, authenticated, call, late, entered, calls>>

Use(cl) == client' = cl /\ authenticated' = Nobody

\* connect, to a node the scan found; the first one, or the one asked for.
Connect ==
    /\ \E node \in resolved : Use([mode |-> "mtls", url |-> node[2], pin |-> node[1]])
    /\ resolved' = {}
    /\ UNCHANGED <<world, call, late, entered, calls, changes>>

\* connect_pinned: the caller says where the node is and who it is.
ConnectPinned(n, a) ==
    /\ Change /\ Use([mode |-> "mtls", url |-> a, pin |-> n])
    /\ UNCHANGED <<world, resolved, call, late, entered, calls>>

\* from_algo_ops: the plaintext client.
FromAlgoOps(a, mode) ==
    /\ Change /\ Use([mode |-> mode, url |-> a, pin |-> Nobody])
    /\ UNCHANGED <<world, resolved, call, late, entered, calls>>

-----------------------------------------------------------------------------
(***************************************************************************)
(* A call                                                                  *)
(***************************************************************************)
Running(c) == call[c].phase # "done"

\* What the operation makes of a served response; good says the body decodes.
Outcome(op, status, good) ==
    CASE op = "get" -> "ok"
      [] op = "health" /\ status \in {200, 503} -> "ok"
      [] op = "operations" /\ status = 404 -> "ok"
      [] status = 200 -> IF good THEN "ok" ELSE "malformed"
      [] status = 400 /\ op = "submit" -> "bad request"
      [] status = 401 /\ op # "health" -> "unauthorized"
      [] status = 404 /\ op \in {"status", "watch"} -> "not found"
      [] OTHER -> "unexpected status"

\* Mutant: a retry goes on with the connection and the answer it had.
MutCut(j) == j

\* The connection of this attempt is gone, and what the call knows of it.
Cut(j) == [j EXCEPT !.node = Nobody, !.status = 0]

\* The call returns; of a submit that went well the identifier is left.
Done(j, result) ==
    [Idle EXCEPT !.heard = j.heard, !.result = result,
                 !.body = IF j.op = "submit" /\ result = "ok" THEN j.body ELSE NoTxn]

Return(c, result) == Set(c, Done(call[c], result))

\* Nothing is sent if the transaction cannot be built: its validity window is
\* inverted, a field has not 32 bytes, or there is no key to sign with.
Start(c, op, t, builds) ==
    /\ ~Running(c) /\ client # NoClient
    /\ calls < MaxCalls /\ calls' = calls + 1
    /\ (t # NoTxn) <=> (op \in {"submit", "status", "watch"})
    /\ builds \/ op = "submit"
    /\ Set(c, IF builds THEN [Idle EXCEPT !.op = op, !.body = t, !.client = client,
                                          !.phase = "connect"]
              ELSE Done(Idle, "invalid"))
    /\ UNCHANGED <<world, resolved, client, authenticated, late, entered, changes>>

\* A transport failure: tried again if its text looks like an unreachable host.
Fail(c, unreachable) ==
    IF unreachable /\ call[c].attempt < MaxRetries
    THEN Set(c, [Cut(call[c]) EXCEPT !.phase = "backoff"])
    ELSE Return(c, IF unreachable THEN "unreachable" ELSE "transport")

\* Mutant: the transaction is built anew for every attempt.
MutClone(j) == <<j.body[1], j.attempt>>

\* body.clone(): every attempt posts the same bytes.
Clone(j) == j.body

\* Mutant: any permitted cluster node will do.
MutRoleOf(cl, n) == n \in nodeBits

\* The pinned verifier's membership: one identity.
RoleOf(cl, n) == n = cl.pin

\* The node's certificate is checked against the pin, and the request is written.
\* "error sending request" is the text of a failed handshake too, so an address
\* another node has taken over looks unreachable.
Handshake(c) ==
    LET j == call[c]
        n == at[j.client.url]
        mutual == j.client.mode = "mtls"
    IN  /\ j.phase = "connect"
        /\ IF n # Nobody /\ (mutual => RoleOf(j.client, n))
           THEN /\ Set(c, [j EXCEPT !.phase = "sent", !.node = n])
                /\ authenticated' = IF mutual /\ j.client = client THEN n ELSE authenticated
           ELSE Fail(c, TRUE) /\ UNCHANGED authenticated
        /\ UNCHANGED <<world, resolved, client, late, entered, calls, changes>>

\* The network, or the HTTP client that could not be built.
CannotConnect(c) ==
    /\ call[c].phase = "connect"
    /\ Fail(c, TRUE) \/ Return(c, "local")
    /\ UNCHANGED <<world, resolved, client, authenticated, late, entered, calls, changes>>

\* Whether the node at the other end takes requests of this client.
Admitted(cl, n) == cl.mode = "mtls" => n \in admits

\* A transaction the cluster has already is not entered again.
Enter(t) == entered' = entered \cup {t}

\* What the node answers, by what it has and by its own state.
Served(j) ==
    IF j.client.mode = "bad token" /\ j.op # "health" THEN {401}
    ELSE {503} \cup
         CASE j.op = "submit" -> {200, 400}
           [] j.op \in {"status", "watch"} -> IF j.body \in entered THEN {200} ELSE {404}
           [] j.op = "operations" -> {200, 404}
           [] OTHER -> {200}

Handle(c, status) ==
    LET j == call[c]
    IN  /\ j.phase = "sent" /\ Admitted(j.client, j.node) /\ status \in Served(j)
        /\ IF j.op = "submit" /\ status = 200 THEN Enter(Clone(j)) ELSE UNCHANGED entered
        /\ Set(c, [j EXCEPT !.phase = "answered", !.status = status])
        /\ UNCHANGED <<world, resolved, client, authenticated, late, calls, changes>>

\* The node proved itself and does not admit this identity: access_denied.
Deny(c) ==
    /\ call[c].phase = "sent" /\ ~Admitted(call[c].client, call[c].node)
    /\ Set(c, [call[c] EXCEPT !.phase = "refused"])
    /\ UNCHANGED <<world, resolved, client, authenticated, late, entered, calls, changes>>

Receive(c, good) ==
    LET j == call[c]
    IN  /\ j.phase = "answered"
        /\ Set(c, Done([j EXCEPT !.heard = "answer"], Outcome(j.op, j.status, good)))
        /\ UNCHANGED <<world, resolved, client, authenticated, late, entered, calls, changes>>

\* Mutant: the alert is taken by its text, "error sending request".
MutRefusal(j) == IF j.attempt < MaxRetries THEN [Cut(j) EXCEPT !.phase = "backoff"]
                 ELSE Done(j, "unreachable")

\* The alert is recognised by its type, before the text is looked at.
Refusal(j) == Done(j, "identity refused")

HearRefusal(c) ==
    /\ call[c].phase = "refused"
    /\ Set(c, Refusal([call[c] EXCEPT !.heard = "alert"]))
    /\ UNCHANGED <<world, resolved, client, authenticated, late, entered, calls, changes>>

\* The connection breaks; a submission on its way may arrive all the same.
Lost(c) ==
    LET j == call[c]
    IN  /\ j.phase \in {"sent", "answered", "refused"}
        /\ late' \in {late} \cup
             IF j.phase = "sent" /\ j.op = "submit"
             THEN {late \cup {[client |-> j.client, node |-> j.node, body |-> Clone(j)]}} ELSE {}

Break(c, unreachable) ==
    /\ Lost(c) /\ Fail(c, unreachable)
    /\ UNCHANGED <<world, resolved, client, authenticated, entered, calls, changes>>

\* Mutant: no time limit on any call.
MutTimeLimit(j) == FALSE

\* Only watch gives up by itself; "timed out" looks unreachable.
TimeLimit(j) == j.op = "watch"

Timeout(c) ==
    /\ Running(c) /\ call[c].phase # "backoff" /\ TimeLimit(call[c])
    /\ Fail(c, TRUE)
    /\ UNCHANGED <<world, resolved, client, authenticated, late, entered, calls, changes>>

Retry(c) ==
    /\ call[c].phase = "backoff"
    /\ Set(c, [call[c] EXCEPT !.phase = "connect", !.attempt = @ + 1])
    /\ UNCHANGED <<world, resolved, client, authenticated, late, entered, calls, changes>>

\* A submission nobody waits for any more is taken, or not.
Arrive(m) ==
    /\ late' = late \ {m}
    /\ \/ Admitted(m.client, m.node) /\ m.client.mode # "bad token" /\ Enter(m.body)
       \/ UNCHANGED entered
    /\ UNCHANGED <<world, resolved, client, authenticated, call, calls, changes>>

-----------------------------------------------------------------------------
CallStep(c) ==
    \/ \E op \in Ops, r \in Requests \cup {Nobody}, builds \in BOOLEAN :
         Start(c, op, <<r, 0>>, builds)
    \/ Handshake(c) \/ CannotConnect(c) \/ Deny(c) \/ HearRefusal(c) \/ Timeout(c) \/ Retry(c)
    \/ \E status \in Statuses : Handle(c, status)
    \/ \E b \in BOOLEAN : Receive(c, b) \/ Break(c, b)

NodeStep ==
    \/ \E n \in Nodes, a \in Addresses : Deploy(n, a) \/ Publish(n, a)
    \/ \E a \in Addresses : Stop(a)
    \/ \E n \in Nodes : Permit(n) \/ Poll(n)
    \/ \E m \in late : Arrive(m)

ClientStep ==
    \/ Resolve \/ Connect
    \/ \E n \in Nodes, a \in Addresses : ConnectPinned(n, a)
    \/ \E a \in Addresses, mode \in {"bearer", "bad token"} : FromAlgoOps(a, mode)

Next == NodeStep \/ ClientStep \/ \E c \in Callers : CallStep(c)

\* The cluster as deployed: every node is permitted, listens where it says, and
\* has seen the client's bit.  Which address is whose makes no difference.
Init ==
    /\ published = CHOOSE f \in Placements : TRUE
    /\ at = [a \in Addresses |-> IF \E n \in Nodes : published[n] = a
                                 THEN CHOOSE n \in Nodes : published[n] = a ELSE Nobody]
    /\ nodeBits = Nodes
    /\ clientBit = TRUE /\ admits = Nodes
    /\ resolved = {} /\ client = NoClient /\ authenticated = Nobody
    /\ call = [c \in Callers |-> Idle]
    /\ late = {}
    /\ entered = {}
    /\ calls = 0 /\ changes = 0

Spec == Init /\ [][Next]_vars

\* A caller's own steps are taken: its timer and its sleep run out.
Fairness == \A c \in Callers : WF_vars(Timeout(c)) /\ WF_vars(Retry(c))

FairSpec == Spec /\ Fairness

-----------------------------------------------------------------------------
(***************************************************************************)
(* Properties                                                              *)
(***************************************************************************)

CallType == [op : Ops \cup {"get"}, phase : Phases, client : Clients, body : Txns \cup {NoTxn},
             attempt : 0 .. MaxRetries, node : Nodes \cup {Nobody}, status : Statuses,
             heard : {"nothing", "answer", "alert"}, result : Results]

\* A call that has a connection knows the node, and an answer is on its way only
\* once the node has answered.
Connected(j) ==
    /\ j.phase \in {"sent", "answered", "refused"} <=> j.node # Nobody
    /\ j.phase = "answered" <=> j.status # 0

\* Every variable has its type, and no call goes on with a connection or an answer
\* of an attempt that failed.
TypeOK ==
    /\ at \in [Addresses -> Nodes \cup {Nobody}]
    /\ published \in [Nodes -> Addresses \cup {Nobody}]
    /\ nodeBits \subseteq Nodes /\ clientBit \in BOOLEAN /\ admits \subseteq Nodes
    /\ resolved \subseteq Nodes \X Addresses
    /\ client \in Clients /\ authenticated \in Nodes \cup {Nobody}
    /\ call \in [Callers -> CallType]
    /\ late \subseteq [client : Clients, node : Nodes, body : Txns]
    /\ entered \subseteq Txns
    /\ calls \in 0 .. MaxCalls /\ changes \in 0 .. MaxChanges
    /\ \A c \in Callers : Connected(call[c])

\* One request is one transaction, however often it is sent: retries after a lost
\* answer, a submission that arrives when nobody waits for it any more, and two
\* callers with the same request enter the same one; and the one a submit returned
\* is in.
AppliedOnce ==
    /\ \A t, u \in entered : t[1] = u[1] => t = u
    /\ \A c \in Callers :
         ~Running(c) /\ call[c].body # NoTxn => call[c].body \in entered

\* Over mutual TLS nothing is said to, and nothing heard from, any node but the
\* pinned one, whoever listens at its address by now; and the verifier all calls of
\* a client share has authenticated nobody else.
PinnedOnly ==
    /\ \A c \in Callers :
         call[c].client.mode = "mtls" /\ call[c].node # Nobody =>
             call[c].node = call[c].client.pin
    /\ \A m \in late : m.client.mode = "mtls" => m.node = m.client.pin
    /\ authenticated # Nobody => client.mode = "mtls" /\ authenticated = client.pin

\* What a node said is the end of the call: nothing is sent after an answer or an
\* access_denied, and a call says it was answered, refused or not reached exactly
\* as it was.
HeardIsFinal ==
    \A c \in Callers :
        LET j == call[c]
        IN  /\ Running(c) => j.heard = "nothing"
            /\ j.result = "identity refused" <=> j.heard = "alert"
            /\ j.result \in {"unreachable", "transport", "local", "invalid"} => j.heard = "nothing"

\* A watch returns though no node ever answers and no connection is ever closed.
WatchReturns ==
    \A c \in Callers : (Running(c) /\ call[c].op = "watch") ~> ~Running(c)
=============================================================================
