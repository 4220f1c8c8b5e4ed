---------------------------- MODULE BucketWaiters ----------------------------
(***************************************************************************)
(* Threads contending for the token bucket in Block mode: the loop of      *)
(* apply_rate_limit (step 2) on its own, with time that never ends.  The   *)
(* bucket hands its tokens to whoever polls first after the refill; a      *)
(* thread that was told to wait keeps no place in any queue.               *)
(***************************************************************************)
EXTENDS RateLimiter

CONSTANTS
    Threads,  \* threads calling through clones of the client
    Horizon   \* bound: how many clock units of grants are remembered

ASSUME HorizonAssumption == Horizon \in Nat \ {0}

VARIABLES
    bucket,   \* RateLimiter
    pc,       \* "out" of the loop, about to "poll", or in "sleep"
    nap,      \* what is left of thread::sleep(wait)
    \* History variables: read by no action, only by the properties.
    granted,  \* grants in the last d clock units, the current one included, for each d
    first     \* the sleepers nobody has overtaken since they were refused

history == <<granted, first>>
vars == <<bucket, pc, nap, history>>

TypeOK ==
    /\ bucket \in [tokens : 0 .. Full, age : 0 .. Per]
    /\ pc \in [Threads -> {"out", "poll", "sleep"}]
    /\ nap \in [Threads -> 0 .. Per]
    /\ granted \in [1 .. Horizon -> Nat]
    /\ first \subseteq Threads

Init ==
    /\ bucket = NewBucket
    /\ pc = [t \in Threads |-> "out"]
    /\ nap = [t \in Threads |-> 0]
    /\ granted = [d \in 1 .. Horizon |-> 0]
    /\ first = {}

\* A call reaches the bucket.
Arrive(t) ==
    /\ pc[t] = "out"
    /\ pc' = [pc EXCEPT ![t] = "poll"]
    /\ UNCHANGED <<bucket, nap, history>>

\* One turn of the loop: leave it with a token, or sleep for the wait.
PollOrSleep(t) ==
    /\ pc[t] = "poll"
    /\ bucket' = Poll(bucket)
    /\ IF Granted(bucket)
       THEN /\ pc' = [pc EXCEPT ![t] = "out"]
            /\ granted' = [d \in 1 .. Horizon |-> granted[d] + 1]
            /\ first' = {}
            /\ UNCHANGED nap
       ELSE /\ pc' = [pc EXCEPT ![t] = "sleep"]
            /\ nap' = [nap EXCEPT ![t] = PollWait(bucket)]
            /\ first' = first \cup {t}
            /\ UNCHANGED granted

Wake(t) ==
    /\ pc[t] = "sleep" /\ nap[t] = 0
    /\ pc' = [pc EXCEPT ![t] = "poll"]
    /\ UNCHANGED <<bucket, nap, history>>

Tick ==
    /\ bucket' = Aged(bucket)
    /\ nap' = [t \in Threads |-> IF nap[t] > 0 THEN nap[t] - 1 ELSE 0]
    /\ granted' = [d \in 1 .. Horizon |-> IF d = 1 THEN 0 ELSE granted[d - 1]]
    /\ UNCHANGED <<pc, first>>

Next ==
    \/ \E t \in Threads : Arrive(t) \/ PollOrSleep(t) \/ Wake(t)
    \/ Tick

\* Time passes and every thread in the loop is scheduled.  Nothing orders the
\* threads: the mutex and the sleeps give no one precedence.
Fairness == WF_vars(Tick) /\ \A t \in Threads : WF_vars(PollOrSleep(t) \/ Wake(t))

Spec == Init /\ [][Next]_vars /\ Fairness

-----------------------------------------------------------------------------
\* The rate the config promises, over every interval: no d consecutive clock
\* units grant more than the burst capacity plus the refill of d - 1 units
\* (with_rate_limit: "up to max requests may burst before the rate settles").
EveryIntervalBounded ==
    \A d \in 1 .. Horizon : granted[d] * Per <= Full + (d - 1) * Capacity

\* The wait handed out is exact: before the sleep ends a poll would not have
\* granted a token, whatever the other threads do; when it ends a poll grants
\* one, unless another thread has taken a token meanwhile.
WaitIsExact ==
    \A t \in Threads :
        pc[t] = "sleep" =>
            /\ nap[t] > 0 => ~Granted([bucket EXCEPT !.age = @ + nap[t] - 1])
            /\ t \in first => Granted([bucket EXCEPT !.age = @ + nap[t]])

\* The bucket never starves everybody: either the waiters drain again and
\* again, or tokens keep being granted.
SomeoneProceeds ==
    \/ []<>(\A t \in Threads : pc[t] = "out")
    \/ []<>(granted[1] > 0)

\* RateLimitMode::Block, "The request always eventually goes out", as far as
\* the code keeps it: a thread gets its token if from some point on no other
\* thread asks for one.  With others that keep asking it may be refused for
\* ever, because a sleeper keeps no place in line.
AloneGoesOut ==
    \A t \in Threads :
        <>[](\A u \in Threads \ {t} : pc[u] = "out")
            => (pc[t] # "out" ~> pc[t] = "out")
=============================================================================
