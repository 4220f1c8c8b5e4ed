---------------------------- MODULE TxnScanProofs ----------------------------
(***************************************************************************)
(* The transaction scan, for any number of callers, any page size and any  *)
(* growth of the chain: the watermark covers what it claims, an unbroken   *)
(* history of scans has every transaction exactly once, and the watermark  *)
(* only advances.                                                          *)
(***************************************************************************)
EXTENDS TxnScan, TLAPS

USE ModeAssumption, DataAssumption, SizeAssumption DEF Rounds

-----------------------------------------------------------------------------
(***************************************************************************)
(* The inductive invariant.  While a page loop runs, its cursor takes the  *)
(* place of the watermark: the entries are good up to the cursor, which    *)
(* started at the watermark and is on its way to the next one.             *)
(***************************************************************************)
CoveredTo(n, entries) == \A i \in Txns : i <= n /\ i \in Ingested => entries[i] >= 1

ExactTo(n, entries) ==
    \A i \in Txns : entries[i] = IF i <= n /\ i \in Ingested THEN 1 ELSE 0

\* Rounds are only appended, and nothing is known of rounds to come.
ChainInv ==
    /\ upTo[0] = 0
    /\ \A r, s \in Rounds : r <= s => upTo[r] <= upTo[s]
    /\ lastRound <= round /\ watermark <= round /\ saved.lastRound <= round
    /\ pos <= upTo[round]

\* One page loop at a time, each under a clock that has started, so that a
\* cache without a stamp has no watermark either.
LockInv ==
    /\ \A a, b \in Callers : pc[a] = "scan" /\ pc[b] = "scan" => a = b
    /\ \A c \in Callers : pc[c] # "idle" => now[c] >= 1
    /\ lastUpdated = 0 => lastRound = 0
    /\ saved.lastUpdated = 0 => saved.lastRound = 0

Reached == IF LockFree THEN upTo[lastRound] ELSE pos

EntriesInv ==
    /\ CoveredTo(upTo[lastRound], copies)
    /\ CoveredTo(Reached, copies)
    /\ clean => ExactTo(Reached, copies)
    /\ CoveredTo(upTo[saved.lastRound], saved.copies)
    /\ saved.clean => ExactTo(upTo[saved.lastRound], saved.copies)

ScanInv == TypeOK /\ ChainInv /\ LockInv /\ EntriesInv

-----------------------------------------------------------------------------
(***************************************************************************)
(* A page and the operators it is built from                               *)
(***************************************************************************)

\* A page ends where the indexer's answer ends, never behind the cursor, and
\* the watermark after it is the round it was answered at.
LEMMA PageBounds ==
    ASSUME TypeOK, ChainInv
    PROVE  /\ PageEnd \in Nat /\ pos <= PageEnd /\ PageEnd <= upTo[round]
           /\ Raised = round
BY DEF TypeOK, ChainInv, PageEnd, Raised, Smaller, Larger

\* Pushing a page moves what the entries cover, and what they hold exactly,
\* from the cursor to the end of the page.
LEMMA PushMoves ==
    ASSUME TypeOK, NEW to \in Nat, pos <= to
    PROVE  /\ Push(to) \in [Txns -> Nat]
           /\ \A i \in Txns : Push(to)[i] >= copies[i]
           /\ CoveredTo(pos, copies) => CoveredTo(to, Push(to))
           /\ ExactTo(pos, copies) => ExactTo(to, Push(to))
<1>1. pos \in Nat /\ copies \in [Txns -> Nat] /\ Txns \subseteq Int
  BY DEF TypeOK, Txns
<1>2. Push(to) \in [Txns -> Nat] /\ \A i \in Txns : Push(to)[i] >= copies[i]
  BY <1>1 DEF Push
<1>3. ASSUME CoveredTo(pos, copies) PROVE CoveredTo(to, Push(to))
  BY <1>1, <1>3 DEF CoveredTo, Push
<1>4. ASSUME ExactTo(pos, copies) PROVE ExactTo(to, Push(to))
  BY <1>1, <1>4 DEF ExactTo, Push
<1>5. QED
  BY <1>2, <1>3, <1>4

LEMMA PageTypes ==
    ASSUME TypeOK, ChainInv
    PROVE  PageEnd \in Nat /\ Push(PageEnd) \in [Txns -> Nat] /\ Raised \in Rounds
<1>1. PageEnd \in Nat /\ pos <= PageEnd /\ Raised = round
  BY PageBounds
<1>2. Push(PageEnd) \in [Txns -> Nat]
  BY <1>1, PushMoves
<1>3. QED
  BY <1>1, <1>2 DEF TypeOK

\* The cursor starts where the entries end.
LEMMA StartBounds ==
    ASSUME TypeOK, ChainInv, LockInv, NEW c \in Callers
    PROVE  /\ StartPos(mode[c]) \in Nat
           /\ StartPos(mode[c]) = IF mode[c] = "ForceFull" THEN 0 ELSE upTo[lastRound]
           /\ StartPos(mode[c]) <= upTo[round]
BY DEF TypeOK, ChainInv, LockInv, StartPos

-----------------------------------------------------------------------------
LEMMA TypeStep == TypeOK /\ ChainInv /\ [Next]_vars => TypeOK'
<1> SUFFICES ASSUME TypeOK, ChainInv, [Next]_vars PROVE TypeOK'
  OBVIOUS
<1> USE DEF indexer, cache, call, scan, store
<1>1. ASSUME NEW n \in 0 .. MaxPerRound, IndexRound(n) PROVE TypeOK'
  BY <1>1 DEF IndexRound, TypeOK
<1>2. ASSUME Tick PROVE TypeOK'
  BY <1>2 DEF Tick, TypeOK
<1>3. ASSUME NEW c \in Callers, NEW m \in QueryModes, NEW l \in Lifetimes, Call(c, m, l)
      PROVE  TypeOK'
  <2>1. /\ pc' \in [Callers -> {"idle", "lock", "scan"}] /\ lifetime' \in [Callers -> Nat]
        /\ mode' \in [Callers -> {"Refresh", "CacheOnly", "ForceFull"}]
        /\ now' \in [Callers -> 0 .. MaxClock]
    BY <1>3 DEF Call, TypeOK
  <2>2. QED
    BY <1>3, <2>1 DEF Call, TypeOK
<1>4. ASSUME NEW c \in Callers, ServeCached(c) PROVE TypeOK'
  <2>1. /\ pc' \in [Callers -> {"idle", "lock", "scan"}] /\ ok' \in [Callers -> BOOLEAN]
        /\ lifetime' \in [Callers -> Nat] /\ now' \in [Callers -> 0 .. MaxClock]
    BY <1>4 DEF ServeCached, Return, TypeOK
  <2>2. QED
    BY <1>4, <2>1 DEF ServeCached, Return, TypeOK
<1>5. ASSUME NEW c \in Callers, BeginScan(c) PROVE TypeOK'
  <2>1. StartPos(mode[c]) \in Nat
    BY DEF StartPos, TypeOK
  <2>2. NoCopies \in [Txns -> Nat]
    BY DEF NoCopies
  <2>3. pos' \in Nat /\ copies' \in [Txns -> Nat] /\ clean' \in BOOLEAN
    BY <1>5, <2>1, <2>2 DEF BeginScan, TypeOK
  <2>4. lastRound' \in Rounds /\ watermark' \in Rounds
    BY <1>5 DEF BeginScan, TypeOK
  <2>5. pc' \in [Callers -> {"idle", "lock", "scan"}]
    BY <1>5 DEF BeginScan, TypeOK
  <2>6. QED
    BY <1>5, <2>3, <2>4, <2>5 DEF BeginScan, TypeOK
<1>6. ASSUME NEW c \in Callers, NextPage(c) PROVE TypeOK'
  <2>1. PageEnd \in Nat /\ Push(PageEnd) \in [Txns -> Nat] /\ Raised \in Rounds
    BY PageTypes
  <2>2. QED
    BY <1>6, <2>1 DEF NextPage, TypeOK
<1>7. ASSUME NEW c \in Callers, LastPage(c) PROVE TypeOK'
  <2>1. Push(PageEnd) \in [Txns -> Nat] /\ Raised \in Rounds
    BY PageTypes
  <2>2. QED
    BY <1>7, <2>1 DEF LastPage, Return, TypeOK
<1>8. ASSUME NEW c \in Callers, FailPage(c) PROVE TypeOK'
  BY <1>8 DEF FailPage, Return, TypeOK
<1>9. ASSUME Persist PROVE TypeOK'
  BY <1>9 DEF Persist, TypeOK
<1>10. ASSUME Crash PROVE TypeOK'
  BY <1>10 DEF Crash, TypeOK
<1>11. ASSUME UNCHANGED vars PROVE TypeOK'
  BY <1>11 DEF vars, TypeOK
<1>12. QED
  BY <1>1, <1>2, <1>3, <1>4, <1>5, <1>6, <1>7, <1>8, <1>9, <1>10, <1>11 DEF Next

LEMMA ChainStep == TypeOK /\ ChainInv /\ LockInv /\ [Next]_vars => ChainInv'
<1> SUFFICES ASSUME TypeOK, ChainInv, LockInv, [Next]_vars PROVE ChainInv'
  OBVIOUS
<1> USE DEF indexer, cache, call, scan, store
<1>1. ASSUME NEW n \in 0 .. MaxPerRound, IndexRound(n) PROVE ChainInv'
  <2>1. \A r \in Rounds : upTo[r] \in Nat
    BY DEF TypeOK
  <2>2. \A r \in Rounds : upTo'[r] = IF r > round THEN upTo[round] + n ELSE upTo[r]
    BY <1>1 DEF IndexRound
  <2>3. upTo'[0] = 0 /\ \A r, s \in Rounds : r <= s => upTo'[r] <= upTo'[s]
    <3>1. upTo'[0] = 0
      BY <2>2 DEF ChainInv, TypeOK
    <3>2. ASSUME NEW r \in Rounds, NEW s \in Rounds, r <= s PROVE upTo'[r] <= upTo'[s]
      <4>1. upTo[r] <= upTo[s] /\ (r <= round => upTo[r] <= upTo[round])
        BY <3>2 DEF ChainInv, TypeOK
      <4>2. upTo[r] \in Nat /\ upTo[s] \in Nat /\ upTo[round] \in Nat /\ round \in Rounds
        BY <2>1 DEF TypeOK
      <4>3. QED
        BY <2>2, <3>2, <4>1, <4>2
    <3>3. QED
      BY <3>1, <3>2
  <2>4. upTo'[round + 1] = upTo[round] + n /\ round' = round + 1
    BY <1>1, <2>2 DEF IndexRound, TypeOK
  <2>5. QED
    BY <1>1, <2>1, <2>3, <2>4 DEF IndexRound, ChainInv, TypeOK
<1>2. ASSUME UNCHANGED <<indexer, lastRound, saved>>,
             watermark' \in Rounds, watermark' <= round, pos' <= upTo[round]
      PROVE  ChainInv'
  BY <1>2 DEF ChainInv
<1>3. ASSUME NEW c \in Callers, BeginScan(c) PROVE ChainInv'
  <2>1. StartPos(mode[c]) <= upTo[round]
    BY StartBounds
  <2>2. lastRound' <= round
    BY <1>3 DEF BeginScan, ChainInv, TypeOK
  <2>3. pos' <= upTo[round] /\ watermark' <= round
    BY <1>3, <2>1, <2>2 DEF BeginScan
  <2>4. QED
    BY <1>3, <2>2, <2>3 DEF BeginScan, ChainInv
<1>4. ASSUME NEW c \in Callers, NextPage(c) PROVE ChainInv'
  <2>1. pos' <= upTo[round] /\ watermark' = round
    BY <1>4, PageBounds DEF NextPage
  <2>2. round \in Rounds /\ round <= round
    BY DEF TypeOK
  <2>3. QED
    BY <1>2, <1>4, <2>1, <2>2 DEF NextPage
<1>5. ASSUME NEW c \in Callers, LastPage(c) PROVE ChainInv'
  <2>1. lastRound' = round /\ watermark' = 0 /\ pos' = 0
    BY <1>5, PageBounds DEF LastPage
  <2>2. round \in Nat /\ upTo[round] \in Nat
    BY DEF TypeOK
  <2>3. QED
    BY <1>5, <2>1, <2>2 DEF LastPage, ChainInv
<1>6. ASSUME NEW c \in Callers, FailPage(c) PROVE ChainInv'
  BY <1>6 DEF FailPage, Return, ChainInv, TypeOK
<1>7. ASSUME Persist PROVE ChainInv'
  BY <1>7 DEF Persist, ChainInv
<1>8. ASSUME Crash PROVE ChainInv'
  BY <1>8 DEF Crash, ChainInv, TypeOK
<1>9. ASSUME NEW c \in Callers, NEW m, NEW l, Call(c, m, l) \/ ServeCached(c) PROVE ChainInv'
  BY <1>9 DEF Call, ServeCached, Return, ChainInv
<1>10. ASSUME Tick \/ UNCHANGED vars PROVE ChainInv'
  BY <1>10 DEF Tick, vars, ChainInv
<1>11. QED
  BY <1>1, <1>3, <1>4, <1>5, <1>6, <1>7, <1>8, <1>9, <1>10 DEF Next

LEMMA LockStep == TypeOK /\ ChainInv /\ LockInv /\ [Next]_vars => LockInv'
<1> SUFFICES ASSUME TypeOK, ChainInv, LockInv, [Next]_vars PROVE LockInv'
  OBVIOUS
<1> USE DEF indexer, cache, call, scan, store, LockInv, TypeOK
<1>o. \A a, b \in Callers : pc[a] = "scan" /\ pc[b] = "scan" => a = b
  OBVIOUS
<1>n. \A d \in Callers : pc[d] # "idle" => now[d] >= 1
  OBVIOUS
<1>1. ASSUME UNCHANGED <<cache, pc, now, saved>> PROVE LockInv'
  BY <1>1
<1>2. ASSUME NEW c \in Callers, NEW m \in QueryModes, NEW l \in Lifetimes, Call(c, m, l)
      PROVE  LockInv'
  <2>1. UNCHANGED <<cache, saved>> /\ clock >= 1
    BY <1>2 DEF Call
  <2>2. \A d \in Callers : /\ pc'[d] = IF d = c THEN "lock" ELSE pc[d]
                           /\ now'[d] = IF d = c THEN clock ELSE now[d]
    BY <1>2 DEF Call
  <2>3. \A d \in Callers : pc'[d] # "idle" => now'[d] >= 1
    BY ONLY <2>1, <2>2, <1>n
  <2>4. \A a, b \in Callers : pc'[a] = "scan" /\ pc'[b] = "scan" => a = b
    BY ONLY <2>2, <1>o
  <2>5. QED
    BY <2>1, <2>3, <2>4
<1>3. ASSUME NEW c \in Callers, ServeCached(c) PROVE LockInv'
  BY <1>3 DEF ServeCached, Return
<1>4. ASSUME NEW c \in Callers, BeginScan(c) PROVE LockInv'
  <2>1. now[c] >= 1 /\ now' = now /\ saved' = saved /\ lastUpdated' = lastUpdated
    BY <1>4 DEF BeginScan
  <2>2. \A d \in Callers : pc'[d] = IF d = c THEN "scan" ELSE pc[d]
    BY <1>4 DEF BeginScan
  <2>3. \A d \in Callers : pc[d] # "scan"
    BY <1>4 DEF BeginScan, LockFree
  <2>4. lastRound' = 0 \/ lastRound' = lastRound
    BY <1>4 DEF BeginScan
  <2>5. QED
    BY <2>1, <2>2, <2>3, <2>4
<1>5. ASSUME NEW c \in Callers, NextPage(c) PROVE LockInv'
  BY <1>5 DEF NextPage
<1>6. ASSUME NEW c \in Callers, LastPage(c) PROVE LockInv'
  <2>1. now[c] \in Nat /\ now[c] >= 1 /\ lastUpdated' = now[c] /\ saved' = saved
    BY <1>6 DEF LastPage
  <2>2. \A d \in Callers : pc'[d] = (IF d = c THEN "idle" ELSE pc[d])
                           /\ now'[d] = (IF d = c THEN 0 ELSE now[d])
    BY <1>6 DEF LastPage, Return
  <2>3. \A a, b \in Callers : pc'[a] = "scan" /\ pc'[b] = "scan" => a = b
    BY ONLY <2>2, <1>o
  <2>4. \A d \in Callers : pc'[d] # "idle" => now'[d] >= 1
    BY ONLY <2>2, <1>n
  <2>5. lastUpdated' # 0
    BY <2>1
  <2>6. QED
    BY <2>1, <2>3, <2>4, <2>5
<1>7. ASSUME NEW c \in Callers, FailPage(c) PROVE LockInv'
  BY <1>7 DEF FailPage, Return
<1>8. ASSUME Persist PROVE LockInv'
  BY <1>8 DEF Persist
<1>9. ASSUME Crash PROVE LockInv'
  BY <1>9 DEF Crash
<1>10. QED
  BY <1>1, <1>2, <1>3, <1>4, <1>5, <1>6, <1>7, <1>8, <1>9
     DEF Next, IndexRound, Tick, vars

-----------------------------------------------------------------------------
(***************************************************************************)
(* The entries, step by step                                               *)
(***************************************************************************)

\* The whole of EntriesInv after a step that leaves the persisted cache alone
\* follows from what the step leaves in the cache.
LEMMA EntriesFrame ==
    ASSUME EntriesInv,
           saved' = saved, upTo'[saved.lastRound] = upTo[saved.lastRound],
           CoveredTo(upTo'[lastRound'], copies'),
           CoveredTo(Reached', copies'),
           clean' => ExactTo(Reached', copies')
    PROVE  EntriesInv'
BY DEF EntriesInv

LEMMA EntriesStep == ScanInv /\ [Next]_vars => EntriesInv'
<1> SUFFICES ASSUME ScanInv, [Next]_vars PROVE EntriesInv'
  OBVIOUS
<1> USE DEF indexer, cache, call, scan, store, ScanInv
<1>1. ASSUME saved' = saved, cache' = cache, clean' = clean, Reached' = Reached,
             upTo'[saved.lastRound] = upTo[saved.lastRound],
             upTo'[lastRound] = upTo[lastRound]
      PROVE  EntriesInv'
  BY <1>1 DEF EntriesInv
<1>2. ASSUME NEW n \in 0 .. MaxPerRound, IndexRound(n) PROVE EntriesInv'
  <2>1. upTo'[lastRound] = upTo[lastRound] /\ upTo'[saved.lastRound] = upTo[saved.lastRound]
    BY <1>2 DEF IndexRound, ChainInv, TypeOK
  <2>2. LockFree' <=> LockFree
    BY <1>2 DEF IndexRound, LockFree
  <2>3. Reached' = Reached
    BY <1>2, <2>1, <2>2 DEF IndexRound, Reached
  <2>4. QED
    BY <1>1, <1>2, <2>1, <2>3 DEF IndexRound
<1>3. ASSUME Tick \/ UNCHANGED vars PROVE EntriesInv'
  <2>1. Reached' = Reached
    BY <1>3 DEF Tick, vars, Reached, LockFree
  <2>2. QED
    BY <1>1, <1>3, <2>1 DEF Tick, vars
<1>4. ASSUME NEW c \in Callers, NEW m, NEW l, Call(c, m, l) PROVE EntriesInv'
  <2>1. LockFree' <=> LockFree
    BY <1>4 DEF Call, LockFree, TypeOK
  <2>2. Reached' = Reached
    BY <1>4, <2>1 DEF Call, Reached
  <2>3. QED
    BY <1>1, <1>4, <2>2 DEF Call
<1>5. ASSUME NEW c \in Callers, ServeCached(c) PROVE EntriesInv'
  <2>1. LockFree' /\ LockFree
    BY <1>5 DEF ServeCached, Return, LockFree, TypeOK
  <2>2. Reached' = Reached
    BY <1>5, <2>1 DEF ServeCached, Reached
  <2>3. QED
    BY <1>1, <1>5, <2>2 DEF ServeCached
<1>6. ASSUME NEW c \in Callers, BeginScan(c) PROVE EntriesInv'
  <2>1. LockFree /\ ~LockFree' /\ upTo' = upTo /\ saved' = saved /\ Reached' = StartPos(mode[c])
    BY <1>6 DEF BeginScan, LockFree, Reached, TypeOK
  <2>2. CASE mode[c] = "ForceFull"
    <3>1. copies' = NoCopies /\ lastRound' = 0 /\ upTo'[lastRound'] = 0 /\ Reached' = 0
      BY <1>6, <2>1, <2>2, StartBounds DEF BeginScan, ChainInv
    <3>2. CoveredTo(0, NoCopies) /\ ExactTo(0, NoCopies)
      BY DEF CoveredTo, ExactTo, NoCopies, Txns
    <3>3. QED
      BY <2>1, <3>1, <3>2, EntriesFrame
  <2>3. CASE mode[c] # "ForceFull"
    <3>1. cache' = cache /\ clean' = clean
      BY <1>6, <2>3 DEF BeginScan
    <3>2. Reached' = Reached
      BY <2>1, <2>3, StartBounds DEF Reached
    <3>3. QED
      BY <1>1, <2>1, <3>1, <3>2
  <2>4. QED
    BY <2>2, <2>3
<1>7. ASSUME NEW c \in Callers, pc[c] = "scan" PROVE Reached = pos
  BY <1>7 DEF Reached, LockFree
<1>8. PageEnd \in Nat /\ pos <= PageEnd /\ Raised = round
  BY PageBounds
<1>9. /\ \A i \in Txns : Push(PageEnd)[i] >= copies[i]
      /\ CoveredTo(pos, copies) => CoveredTo(PageEnd, Push(PageEnd))
      /\ ExactTo(pos, copies) => ExactTo(PageEnd, Push(PageEnd))
      /\ Push(PageEnd) \in [Txns -> Nat]
  BY <1>8, PushMoves
<1>10. ASSUME NEW c \in Callers, NextPage(c) PROVE EntriesInv'
  <2>1. UNCHANGED <<upTo, saved, lastRound, clean>> /\ copies' = Push(PageEnd) /\ Reached' = PageEnd
    BY <1>10 DEF NextPage, Reached, LockFree
  <2>2. CoveredTo(upTo[lastRound], copies) => CoveredTo(upTo[lastRound], Push(PageEnd))
    <3>1. \A i \in Txns : copies[i] \in Nat /\ Push(PageEnd)[i] \in Nat
      BY <1>9 DEF TypeOK
    <3>2. \A i \in Txns : copies[i] >= 1 => Push(PageEnd)[i] >= 1
      BY <1>9, <3>1
    <3>3. QED
      BY <3>2 DEF CoveredTo
  <2>3. CoveredTo(pos, copies) /\ (clean => ExactTo(pos, copies))
    BY <1>7, <1>10 DEF NextPage, EntriesInv
  <2>4. QED
    BY <1>9, <2>1, <2>2, <2>3, EntriesFrame DEF EntriesInv
<1>11. ASSUME NEW c \in Callers, LastPage(c) PROVE EntriesInv'
  <2>1. /\ UNCHANGED <<upTo, saved, clean>> /\ copies' = Push(PageEnd)
        /\ lastRound' = round /\ upTo[round] = PageEnd
    BY <1>8, <1>11 DEF LastPage
  <2>2. LockFree'
    BY <1>11 DEF LastPage, Return, LockFree, LockInv, TypeOK
  <2>3. Reached' = PageEnd /\ upTo'[lastRound'] = PageEnd
    BY <2>1, <2>2 DEF Reached
  <2>4. CoveredTo(pos, copies) /\ (clean => ExactTo(pos, copies))
    BY <1>7, <1>11 DEF LastPage, EntriesInv
  <2>5. QED
    BY <1>9, <2>1, <2>3, <2>4, EntriesFrame
<1>12. ASSUME NEW c \in Callers, FailPage(c) PROVE EntriesInv'
  <2>1. /\ UNCHANGED <<upTo, saved, copies, lastRound>>
        /\ clean' => clean /\ pos = upTo[lastRound]
    BY <1>12 DEF FailPage
  <2>2. LockFree'
    BY <1>12 DEF FailPage, Return, LockFree, LockInv, TypeOK
  <2>3. Reached' = upTo[lastRound]
    BY <2>1, <2>2 DEF Reached
  <2>4. clean => ExactTo(pos, copies)
    BY <1>7, <1>12 DEF FailPage, EntriesInv
  <2>5. QED
    BY <2>1, <2>3, <2>4, EntriesFrame DEF EntriesInv
<1>13. ASSUME Persist PROVE EntriesInv'
  <2>1. LockFree /\ (LockFree' <=> LockFree)
    BY <1>13 DEF Persist, LockFree
  <2>2. Reached = upTo[lastRound] /\ Reached' = Reached
    BY <1>13, <2>1 DEF Persist, Reached
  <2>3. saved'.lastRound = lastRound /\ saved'.copies = copies /\ saved'.clean = clean
    BY <1>13 DEF Persist
  <2>4. UNCHANGED <<upTo, lastRound, copies, clean>>
    BY <1>13 DEF Persist
  <2>5. QED
    BY <2>2, <2>3, <2>4 DEF EntriesInv
<1>14. ASSUME Crash PROVE EntriesInv'
  <2>1. LockFree'
    BY <1>14 DEF Crash, LockFree
  <2>2. UNCHANGED <<upTo, saved>> /\ lastRound' = saved.lastRound /\ copies' = saved.copies /\ clean' = saved.clean
    BY <1>14 DEF Crash
  <2>3. Reached' = upTo[saved.lastRound]
    BY <2>1, <2>2 DEF Reached
  <2>4. QED
    BY <2>2, <2>3, EntriesFrame DEF EntriesInv
<1>15. QED
  BY <1>2, <1>3, <1>4, <1>5, <1>6, <1>10, <1>11, <1>12, <1>13, <1>14 DEF Next

-----------------------------------------------------------------------------
LEMMA InvInit == Init => ScanInv
<1> SUFFICES ASSUME Init PROVE ScanInv
  OBVIOUS
<1>1. TypeOK
  BY DEF Init, TypeOK, NoCopies
<1>2. ChainInv
  BY DEF Init, ChainInv
<1>3. LockInv
  BY DEF Init, LockInv
<1>4. EntriesInv
  <2>1. CoveredTo(0, NoCopies) /\ ExactTo(0, NoCopies)
    BY DEF CoveredTo, ExactTo, NoCopies, Txns
  <2>2. upTo[0] = 0 /\ lastRound = 0 /\ copies = NoCopies /\ LockFree
    BY DEF Init, LockFree
  <2>3. saved.lastRound = 0 /\ saved.copies = NoCopies
    BY DEF Init
  <2>4. QED
    BY <2>1, <2>2, <2>3 DEF EntriesInv, Reached
<1>5. QED
  BY <1>1, <1>2, <1>3, <1>4 DEF ScanInv

\* The invariant the other theorems are read off: the chain only grows, one
\* page loop runs at a time, and the entries are good up to its cursor.
THEOREM ScanInvariant == Spec => []ScanInv
<1>1. ScanInv /\ [Next]_vars => ScanInv'
  BY TypeStep, ChainStep, LockStep, EntriesStep DEF ScanInv
<1>2. QED
  BY InvInit, <1>1, PTL DEF Spec

\* Every variable keeps its type, the persisted copy of the cache included.
THEOREM TypeCorrect == Spec => []TypeOK
<1>1. ScanInv => TypeOK
  BY DEF ScanInv
<1>2. QED
  BY ScanInvariant, <1>1, PTL

\* fetch_scan_page and the watermark it raises: every ingested transaction at
\* or below last_round is in the entries, whatever failed and whenever the
\* process crashed.
THEOREM WatermarkCoversAlways == Spec => []WatermarkCovers
<1>1. ScanInv => WatermarkCovers
  BY DEF ScanInv, EntriesInv, WatermarkCovers, CoveredTo
<1>2. QED
  BY ScanInvariant, <1>1, PTL

\* fetch_transactions_cached_with, as long as no page loop failed half way: the
\* entries are the ingested transactions up to last_round, each exactly once.
THEOREM ExactlyOnce == Spec => []ExactlyOnceWhenClean
<1>1. ScanInv => ExactlyOnceWhenClean
  BY DEF ScanInv, EntriesInv, Reached, ExactlyOnceWhenClean, ExactTo
<1>2. QED
  BY ScanInvariant, <1>1, PTL

\* TxnScanCache::last_round and entries: only a ForceFull and a crash take
\* anything back.
THEOREM WatermarkAdvances == Spec => WatermarkOnlyAdvances
<1> DEFINE Advances ==
        \/ lastRound' >= lastRound /\ \A i \in Txns : copies'[i] >= copies[i]
        \/ crashes' > crashes
        \/ \E c \in Callers : pc[c] = "lock" /\ pc'[c] = "scan" /\ mode[c] = "ForceFull"
<1>1. ASSUME ScanInv, [Next]_vars PROVE [Advances]_vars
  <2> USE DEF indexer, cache, call, scan, store
  <2>1. lastRound \in Nat /\ copies \in [Txns -> Nat]
    BY <1>1 DEF ScanInv, TypeOK
  <2>2. ASSUME UNCHANGED <<lastRound, copies>> PROVE Advances
    BY <2>1, <2>2
  <2>3. ASSUME NEW c \in Callers, BeginScan(c) PROVE Advances
    <3>1. CASE mode[c] = "ForceFull"
      <4>1. pc[c] = "lock" /\ pc'[c] = "scan"
        BY <1>1, <2>3 DEF BeginScan, ScanInv, TypeOK
      <4>2. QED
        BY <3>1, <4>1
    <3>2. CASE mode[c] # "ForceFull"
      BY <2>2, <2>3, <3>2 DEF BeginScan
    <3>3. QED
      BY <3>1, <3>2
  <2>4. PageEnd \in Nat /\ pos <= PageEnd /\ Raised = round
    BY <1>1, PageBounds DEF ScanInv
  <2>5. \A i \in Txns : Push(PageEnd)[i] >= copies[i]
    BY <1>1, <2>4, PushMoves DEF ScanInv
  <2>6. ASSUME NEW c \in Callers, NextPage(c) PROVE Advances
    BY <2>1, <2>5, <2>6 DEF NextPage
  <2>7. ASSUME NEW c \in Callers, LastPage(c) PROVE Advances
    <3>1. lastRound' >= lastRound
      BY <1>1, <2>4, <2>7 DEF LastPage, ScanInv, ChainInv
    <3>2. copies' = Push(PageEnd)
      BY <2>7 DEF LastPage
    <3>3. QED
      BY <2>5, <3>1, <3>2
  <2>8. ASSUME Crash PROVE Advances
    BY <1>1, <2>8 DEF Crash, ScanInv, TypeOK
  <2>9. QED
    BY <1>1, <2>2, <2>3, <2>6, <2>7, <2>8
       DEF Next, IndexRound, Tick, Call, ServeCached, FailPage, Persist, vars
<1>2. QED
  BY ScanInvariant, <1>1, PTL DEF Spec, WatermarkOnlyAdvances
=============================================================================
