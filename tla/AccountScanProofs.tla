-------------------------- MODULE AccountScanProofs --------------------------
(***************************************************************************)
(* WatermarkHonest for any number of accounts, rounds, pages, failures and *)
(* crashes.  ScanInv is the inductive invariant; UnchangedSince is all     *)
(* that has to be known about the history of an account.                   *)
(***************************************************************************)
EXTENDS AccountScan, TLAPS

USE StateAssumption, SizeAssumption

LEMMA IngestType ==
    ASSUME NEW s \in LocalStates \cup {OptedOut}
    PROVE  Ingest(s) \in LocalStates \cup {NoEntry}
BY DEF Ingest

\* A transaction that names a makes a changed since every earlier round, and
\* leaves the history of the other accounts as it was.
LEMMA AppTxnHistory ==
    ASSUME TypeOK, NEW a \in Accounts, NEW s \in LocalStates \cup {OptedOut}, AppTxn(a, s),
           NEW b \in Accounts, NEW r \in 0 .. round, UnchangedSince(b, r)'
    PROVE  b # a /\ UnchangedSince(b, r) /\ local'[b] = local[b]
<1>1. round' = round + 1 /\ round \in Nat /\ round + 1 \in 1 .. MaxRound
  BY DEF TypeOK, AppTxn
<1>2. touched'[round + 1] = a
  BY <1>1 DEF TypeOK, AppTxn
<1>3. round + 1 \in (r + 1) .. round'
  BY <1>1
<1>4. b # a
  BY <1>2, <1>3 DEF UnchangedSince
<1>5. ASSUME NEW q \in (r + 1) .. round
      PROVE  touched[q] # b
  <2>1. q \in (r + 1) .. round' /\ q # round + 1
    BY <1>1
  <2>2. touched'[q] = touched[q]
    BY <1>1, <2>1 DEF TypeOK, AppTxn
  <2>3. QED
    BY <2>1, <2>2 DEF UnchangedSince
<1>6. UnchangedSince(b, r)
  BY <1>5 DEF UnchangedSince
<1>7. local'[b] = local[b]
  BY <1>4 DEF TypeOK, AppTxn
<1>8. QED
  BY <1>4, <1>6, <1>7

LEMMA InitScanInv == Init => ScanInv
<1> SUFFICES ASSUME Init PROVE ScanInv
  OBVIOUS
<1>1. TypeOK
  BY DEF Init, TypeOK, NoEntries, Accounts
<1>2. QED
  BY <1>1 DEF Init, ScanInv, StampedTogether, WatermarkHonest, FullScanSound,
     DiscoverySound, LookupSound, SavedHonest

\* The types, one action at a time.
LEMMA TypeStep == ScanInv /\ [Next]_vars => TypeOK'
<1> SUFFICES ASSUME ScanInv, [Next]_vars PROVE TypeOK'
  OBVIOUS
<1> USE DEF ScanInv, TypeOK, indexer, cache, refresh, store
<1>1. ASSUME NEW a \in Accounts, NEW s \in LocalStates \cup {OptedOut}, AppTxn(a, s)
      PROVE  TypeOK'
  BY <1>1 DEF AppTxn
<1>2. CASE Tick
  BY <1>2 DEF Tick
<1>3. CASE ForceFull
  BY <1>3 DEF ForceFull, BeginFull, NoEntries
<1>4. CASE Bootstrap
  BY <1>4 DEF Bootstrap, BeginFull, NoEntries
<1>5. ASSUME NEW l \in Lifetimes, BeginIncremental(l)
      PROVE  TypeOK'
  BY <1>5 DEF BeginIncremental
<1>6. ASSUME NEW to \in Accounts, FullPage(to)
      PROVE  TypeOK'
  <2>1. entries' \in [Accounts -> LocalStates \cup {NoEntry}]
    BY <1>6, IngestType DEF FullPage
  <2>2. FullWatermark \in 0 .. round /\ to \in Nat
    BY <1>6 DEF FullWatermark, Accounts
  <2>3. /\ lastRound' \in 0 .. round /\ lastUpdated' \in 0 .. MaxClock
        /\ phase' \in {"idle", "full", "discover", "lookup"}
        /\ now' \in 0 .. MaxClock /\ pos' \in Nat /\ watermark' \in 0 .. round
        /\ changed' \subseteq Accounts
    <3>1. CASE to < NumAccounts
      <4>1. to # NumAccounts
        BY <3>1, <2>2
      <4>2. /\ watermark' = FullWatermark /\ pos' = to
            /\ UNCHANGED <<lastRound, lastUpdated, phase, now, changed>>
        BY <1>6, <4>1 DEF FullPage
      <4>3. QED
        BY <2>2, <4>2
    <3>2. CASE to = NumAccounts
      BY <1>6, <2>2, <3>2 DEF FullPage, Finish
    <3>3. QED
      BY <1>6, <3>1, <3>2 DEF FullPage
  <2>4. UNCHANGED <<indexer, clock, store>>
    BY <1>6 DEF FullPage
  <2>5. QED
    BY <2>1, <2>3, <2>4
<1>7. ASSUME NEW to \in Rounds, DiscoverPage(to)
      PROVE  TypeOK'
  <2>1. changed' \subseteq Accounts
    <3>1. ASSUME NEW r \in pos + 1 .. to, touched[r] # Nobody
          PROVE  touched[r] \in Accounts
      <4>1. r \in Int /\ pos + 1 <= r /\ r <= to /\ pos \in Nat /\ to \in 0 .. MaxRound
        BY <3>1 DEF Rounds
      <4>2. r \in 1 .. MaxRound
        BY <4>1
      <4>3. QED
        <5>1. touched[r] \in Accounts \cup {Nobody}
          BY <4>2
        <5>2. QED
          BY ONLY <3>1, <5>1
    <3>2. changed' = changed \cup ({touched[r] : r \in pos + 1 .. to} \ {Nobody})
      BY <1>7 DEF DiscoverPage
    <3>3. {touched[r] : r \in pos + 1 .. to} \ {Nobody} \subseteq Accounts
      BY ONLY <3>1
    <3>4. changed \subseteq Accounts
      OBVIOUS
    <3>5. QED
      BY ONLY <3>2, <3>3, <3>4
  <2>2. watermark' \in 0 .. round /\ pos' \in Nat
    <3>1. watermark \in Nat /\ watermark <= round /\ round \in Nat /\ to \in Nat
      BY DEF Rounds
    <3>2. watermark' = Larger(watermark, round) /\ pos' = to
      BY <1>7 DEF DiscoverPage
    <3>3. QED
      BY ONLY <3>1, <3>2 DEF Larger
  <2>3. phase' \in {"idle", "full", "discover", "lookup"}
    BY <1>7 DEF DiscoverPage
  <2>4. UNCHANGED <<indexer, clock, cache, now, store>>
    BY <1>7 DEF DiscoverPage
  <2>5. QED
    BY <2>1, <2>2, <2>3, <2>4
<1>8. ASSUME NEW a \in Accounts, LookupAccount(a)
      PROVE  TypeOK'
  BY <1>8, IngestType DEF LookupAccount
<1>9. CASE FinishIncremental
  BY <1>9 DEF FinishIncremental, Finish
<1>10. CASE FailRequest
  BY <1>10 DEF FailRequest
<1>11. CASE Clear
  BY <1>11 DEF Clear, NoEntries
<1>12. CASE Persist
  BY <1>12 DEF Persist
<1>13. CASE Crash
  BY <1>13 DEF Crash
<1>14. CASE UNCHANGED vars
  BY <1>14 DEF vars
<1>15. QED
  BY <1>1, <1>2, <1>3, <1>4, <1>5, <1>6, <1>7, <1>8, <1>9, <1>10, <1>11, <1>12, <1>13,
     <1>14 DEF Next, Refreshing

\* Everything ScanInv says beside the types, after a transaction.
LEMMA AppTxnStep ==
    ASSUME ScanInv, NEW a \in Accounts, NEW s \in LocalStates \cup {OptedOut}, AppTxn(a, s)
    PROVE  ScanInv'
<1> USE DEF ScanInv
<1>1. TypeOK'
  <2>1. [Next]_vars
    BY DEF Next
  <2>2. QED
    BY <2>1, TypeStep
<1>2. UNCHANGED <<lastRound, lastUpdated, entries, phase, now, pos, watermark, changed,
                  saved, crashes, clock>>
  BY DEF AppTxn, cache, refresh, store
<1>3. /\ lastRound \in 0 .. round /\ watermark \in 0 .. round
      /\ saved.lastRound \in 0 .. round /\ round \in Nat /\ pos \in Nat
  BY DEF TypeOK
<1>4. ASSUME NEW b \in Accounts, NEW r \in 0 .. round, UnchangedSince(b, r)'
      PROVE  UnchangedSince(b, r) /\ local'[b] = local[b] /\ Ingest(local[b])' = Ingest(local[b])
  BY <1>4, AppTxnHistory DEF Ingest
<1>5. StampedTogether'
  BY <1>2 DEF StampedTogether
<1>6. WatermarkHonest'
  BY <1>2, <1>3, <1>4 DEF WatermarkHonest, Current
<1>7. FullScanSound'
  <2> SUFFICES ASSUME phase' = "full" PROVE FullScanSound!2'
    BY DEF FullScanSound
  <2>1. pos <= NumAccounts /\ lastRound = 0
    BY <1>2 DEF FullScanSound
  <2>2. ASSUME pos > 0 PROVE watermark > 0
    BY <1>2, <2>2 DEF FullScanSound
  <2>3. ASSUME pos > 0, NEW b \in 1 .. pos, UnchangedSince(b, watermark)'
        PROVE  Current(b)'
    <3>1. b \in Accounts
      BY <1>3, <2>1 DEF Accounts
    <3>2. UnchangedSince(b, watermark) /\ Ingest(local[b])' = Ingest(local[b])
      BY <1>2, <1>3, <1>4, <2>3, <3>1
    <3>3. Current(b)
      BY <1>2, <2>3, <3>2 DEF FullScanSound
    <3>4. QED
      BY <1>2, <3>2, <3>3 DEF Current
  <2>4. QED
    BY <1>2, <2>1, <2>2, <2>3
<1>8. DiscoverySound'
  <2> SUFFICES ASSUME phase' = "discover" PROVE DiscoverySound!2'
    BY DEF DiscoverySound
  <2>1. /\ lastRound > 0 /\ lastRound <= pos /\ pos <= round
        /\ \A q \in lastRound + 1 .. pos : touched[q] \in changed \cup {Nobody}
    BY <1>2 DEF DiscoverySound
  <2>2. round' = round + 1
    BY DEF AppTxn
  <2>3. ASSUME NEW q \in lastRound + 1 .. pos PROVE touched'[q] = touched[q]
    BY <1>3, <2>1 DEF AppTxn, TypeOK
  <2>4. QED
    BY <1>2, <1>3, <2>1, <2>2, <2>3
<1>9. LookupSound'
  BY <1>2, <1>3, <1>4 DEF LookupSound, Current
<1>10. SavedHonest'
  BY <1>2, <1>3, <1>4 DEF SavedHonest
<1>11. QED
  BY <1>1, <1>5, <1>6, <1>7, <1>8, <1>9, <1>10

\* The steps that end a refresh, or take the cache from elsewhere, leave the
\* phase idle: then only the cache and the saved copy matter.
LEMMA IdleAfter ==
    ASSUME TypeOK', phase' = "idle",
           lastUpdated' = 0 => lastRound' = 0,
           saved'.lastUpdated = 0 => saved'.lastRound = 0,
           WatermarkHonest', SavedHonest'
    PROVE  ScanInv'
BY DEF ScanInv, StampedTogether, FullScanSound, DiscoverySound, LookupSound

\* One page of a full scan: it is right about its own accounts, and what the
\* earlier pages got right stays right because the indexer did not move.
LEMMA FullPageStep ==
    ASSUME ScanInv, NEW to \in Accounts, FullPage(to), TypeOK'
    PROVE  ScanInv'
<1> USE DEF ScanInv
<1>1. /\ phase = "full" /\ to \in pos + 1 .. NumAccounts /\ pos \in Nat /\ to \in Nat
      /\ UNCHANGED <<round, local, touched, saved>>
      /\ entries' = [a \in Accounts |-> IF pos < a /\ a <= to THEN Ingest(local[a])
                                         ELSE entries[a]]
  BY DEF FullPage, indexer, store, TypeOK, Accounts
<1>2. round \in Nat \ {0} /\ watermark \in Nat /\ now > 0
  BY <1>1 DEF TypeOK, StampedTogether
<1>3. FullWatermark > 0 /\ FullWatermark <= round /\ FullWatermark \in Nat
      /\ (pos > 0 => FullWatermark <= watermark)
  BY <1>1, <1>2 DEF FullWatermark, FullScanSound
<1>4. ASSUME NEW a \in 1 .. to, UnchangedSince(a, FullWatermark)
      PROVE  entries'[a] = Ingest(local[a])
  <2>1. a \in Accounts /\ a \in Nat
    BY <1>1 DEF Accounts
  <2>2. CASE pos < a
    BY <1>1, <2>1, <2>2
  <2>3. CASE ~(pos < a)
    <3>1. pos > 0 /\ a \in 1 .. pos
      BY <1>1, <2>1, <2>3
    <3>2. UnchangedSince(a, watermark)
      BY <1>2, <1>3, <1>4, <3>1 DEF UnchangedSince
    <3>3. Current(a)
      BY <1>1, <3>1, <3>2 DEF FullScanSound
    <3>4. QED
      BY <1>1, <2>1, <2>3, <3>3 DEF Current
  <2>4. QED
    BY <2>2, <2>3
<1>5. ASSUME NEW a \in 1 .. to, UnchangedSince(a, FullWatermark)
      PROVE  Current(a)'
  BY <1>1, <1>4, <1>5 DEF Current, Ingest
<1>6. SavedHonest'
  BY <1>1 DEF SavedHonest, UnchangedSince, Ingest
<1>7. CASE to < NumAccounts
  <2>1. /\ watermark' = FullWatermark /\ pos' = to
        /\ UNCHANGED <<lastRound, lastUpdated, phase, now, changed>>
    BY <1>1, <1>7 DEF FullPage
  <2>2. WatermarkHonest' /\ StampedTogether'
    BY <1>1, <2>1 DEF WatermarkHonest, StampedTogether, FullScanSound
  <2>3. FullScanSound'
    BY <1>1, <1>3, <1>5, <1>7, <2>1 DEF FullScanSound, UnchangedSince
  <2>4. DiscoverySound' /\ LookupSound'
    BY <1>1, <2>1 DEF DiscoverySound, LookupSound
  <2>5. QED
    BY <1>6, <2>2, <2>3, <2>4
<1>8. CASE to = NumAccounts
  <2>1. lastRound' = FullWatermark /\ lastUpdated' = now /\ phase' = "idle"
    BY <1>1, <1>8 DEF FullPage, Finish
  <2>2. WatermarkHonest'
    BY <1>1, <1>5, <1>8, <2>1 DEF WatermarkHonest, UnchangedSince, Accounts
  <2>3. QED
    BY <1>1, <1>2, <1>6, <2>1, <2>2, IdleAfter DEF StampedTogether
<1>9. QED
  BY <1>1, <1>7, <1>8

\* One page of change discovery; after the last one, an account that is not
\* going to be re-read was not touched since last_round.
LEMMA DiscoverPageStep ==
    ASSUME ScanInv, NEW to \in Rounds, DiscoverPage(to), TypeOK'
    PROVE  ScanInv'
<1> USE DEF ScanInv
<1>1. /\ phase = "discover" /\ to <= round /\ pos <= to /\ pos' = to
      /\ changed' = changed \cup ({touched[r] : r \in pos + 1 .. to} \ {Nobody})
      /\ watermark' = Larger(watermark, round)
      /\ (phase' = phase \/ (to = round /\ phase' = "lookup"))
      /\ UNCHANGED <<round, local, touched, lastRound, lastUpdated, entries, now, saved>>
  BY DEF DiscoverPage, indexer, cache, store
<1>2. /\ round \in Nat \ {0} /\ watermark \in 0 .. round /\ pos \in Nat /\ to \in Nat
      /\ lastRound \in Nat
  BY DEF TypeOK, Rounds
<1>3. /\ lastRound > 0 /\ lastRound <= pos
      /\ \A q \in lastRound + 1 .. pos : touched[q] \in changed \cup {Nobody}
  BY <1>1 DEF DiscoverySound
<1>4. \A q \in lastRound + 1 .. to : touched[q] \in changed' \cup {Nobody}
  <2> SUFFICES ASSUME NEW q \in lastRound + 1 .. to
               PROVE  touched[q] \in changed' \cup {Nobody}
    OBVIOUS
  <2>1. CASE q \in lastRound + 1 .. pos
    BY <1>1, <1>3, <2>1
  <2>2. CASE q \in pos + 1 .. to
    BY <1>1, <2>2
  <2>3. QED
    BY <1>2, <2>1, <2>2
<1>5. watermark' = round
  BY <1>1, <1>2 DEF Larger
<1>6. StampedTogether' /\ WatermarkHonest' /\ SavedHonest' /\ FullScanSound'
  BY <1>1 DEF StampedTogether, WatermarkHonest, SavedHonest, FullScanSound, UnchangedSince,
     Current, Ingest
<1>7. DiscoverySound'
  BY <1>1, <1>2, <1>3, <1>4 DEF DiscoverySound
<1>8. LookupSound'
  <2> SUFFICES ASSUME phase' = "lookup", NEW a \in Accounts \ changed'
               PROVE  Current(a)'
    BY <1>2, <1>5 DEF LookupSound
  <2>1. to = round
    BY <1>1
  <2>2. UnchangedSince(a, lastRound)
    <3> SUFFICES ASSUME NEW q \in lastRound + 1 .. round, touched[q] = a PROVE FALSE
      BY DEF UnchangedSince
    <3>1. a \in changed' \cup {Nobody}
      BY <1>4, <2>1
    <3>2. QED
      BY <3>1 DEF Nobody, Accounts
  <2>3. Current(a)
    BY <1>3, <2>2 DEF WatermarkHonest
  <2>4. QED
    BY <1>1, <2>3 DEF Current, Ingest
<1>9. QED
  BY <1>6, <1>7, <1>8

LEMMA LookupStep ==
    ASSUME ScanInv, NEW a \in Accounts, LookupAccount(a), TypeOK'
    PROVE  ScanInv'
<1> USE DEF ScanInv
<1>1. /\ phase = "lookup" /\ a \in changed
      /\ entries' = [entries EXCEPT ![a] = Ingest(local[a])]
      /\ changed' = changed \ {a}
      /\ UNCHANGED <<round, local, touched, lastRound, lastUpdated, phase, now, watermark, saved>>
  BY DEF LookupAccount, indexer, store
<1>2. ASSUME NEW b \in Accounts, Current(b) \/ b = a
      PROVE  Current(b)'
  BY <1>1, <1>2 DEF Current, Ingest, TypeOK
<1>3. StampedTogether' /\ SavedHonest' /\ FullScanSound' /\ DiscoverySound'
  BY <1>1 DEF StampedTogether, SavedHonest, FullScanSound, DiscoverySound, UnchangedSince, Ingest
<1>4. WatermarkHonest'
  BY <1>1, <1>2 DEF WatermarkHonest, UnchangedSince
<1>5. LookupSound'
  BY <1>1, <1>2 DEF LookupSound, UnchangedSince
<1>6. QED
  BY <1>3, <1>4, <1>5

LEMMA ScanInvStep == ScanInv /\ [Next]_vars => ScanInv'
<1> SUFFICES ASSUME ScanInv, [Next]_vars PROVE ScanInv'
  OBVIOUS
<1>0. TypeOK'
  BY TypeStep
<1>1. ASSUME NEW a \in Accounts, NEW s \in LocalStates \cup {OptedOut}, AppTxn(a, s)
      PROVE  ScanInv'
  BY <1>1, AppTxnStep
<1> USE DEF ScanInv, indexer, cache, refresh, store
<1>2. CASE Tick
  BY <1>0, <1>2 DEF Tick, StampedTogether, WatermarkHonest, FullScanSound, DiscoverySound,
     LookupSound, SavedHonest, UnchangedSince, Current, Ingest
<1>3. CASE ForceFull \/ Bootstrap
  <2>1. /\ lastRound' = 0 /\ phase' = "full" /\ pos' = 0 /\ now' = clock
        /\ UNCHANGED <<round, local, touched, lastUpdated, saved>>
    BY <1>3 DEF ForceFull, Bootstrap, BeginFull, NeverScanned, StampedTogether
  <2>2. clock > 0 /\ NumAccounts \in Nat
    BY DEF TypeOK
  <2>3. SavedHonest'
    BY <2>1 DEF SavedHonest, UnchangedSince, Ingest
  <2>4. StampedTogether' /\ WatermarkHonest' /\ FullScanSound' /\ DiscoverySound' /\ LookupSound'
    BY <2>1, <2>2 DEF StampedTogether, WatermarkHonest, FullScanSound, DiscoverySound, LookupSound
  <2>5. QED
    BY <1>0, <2>3, <2>4
<1>4. ASSUME NEW l \in Lifetimes, BeginIncremental(l)
      PROVE  ScanInv'
  <2>1. /\ phase' = "discover" /\ pos' = lastRound /\ now' = clock /\ lastRound # 0
        /\ UNCHANGED <<round, local, touched, lastRound, lastUpdated, entries, saved>>
    BY <1>4 DEF BeginIncremental, NeverScanned
  <2>2. clock > 0 /\ lastRound \in 0 .. round /\ round \in Nat
    BY DEF TypeOK
  <2>3. SavedHonest' /\ WatermarkHonest'
    BY <2>1 DEF SavedHonest, WatermarkHonest, Current, UnchangedSince, Ingest
  <2>4. StampedTogether' /\ FullScanSound' /\ DiscoverySound' /\ LookupSound'
    BY <2>1, <2>2 DEF StampedTogether, FullScanSound, DiscoverySound, LookupSound
  <2>5. QED
    BY <1>0, <2>3, <2>4
<1>5. ASSUME NEW to \in Accounts, FullPage(to) PROVE ScanInv'
  BY <1>0, <1>5, FullPageStep
<1>6. ASSUME NEW to \in Rounds, DiscoverPage(to) PROVE ScanInv'
  BY <1>0, <1>6, DiscoverPageStep
<1>7. ASSUME NEW a \in Accounts, LookupAccount(a) PROVE ScanInv'
  BY <1>0, <1>7, LookupStep
<1>8. CASE FinishIncremental
  <2>1. /\ phase = "lookup" /\ changed = {} /\ lastRound' = watermark /\ lastUpdated' = now
        /\ phase' = "idle" /\ UNCHANGED <<round, local, touched, entries, saved>>
    BY <1>8 DEF FinishIncremental, Finish
  <2>2. WatermarkHonest' /\ SavedHonest'
    BY <2>1 DEF WatermarkHonest, SavedHonest, LookupSound, Current, UnchangedSince, Ingest
  <2>3. now # 0
    BY <2>1 DEF StampedTogether, TypeOK
  <2>4. QED
    BY <1>0, <2>1, <2>2, <2>3, IdleAfter DEF StampedTogether
<1>9. CASE FailRequest
  <2>1. /\ phase' = "idle" 
        /\ UNCHANGED <<round, local, touched, lastRound, lastUpdated, entries, saved>>
    BY <1>9 DEF FailRequest
  <2>2. WatermarkHonest' /\ SavedHonest'
    BY <2>1 DEF WatermarkHonest, SavedHonest, Current, UnchangedSince, Ingest
  <2>3. QED
    BY <1>0, <2>1, <2>2, IdleAfter DEF StampedTogether
<1>10. CASE Clear
  <2>1. /\ phase' = "idle" /\ lastRound' = 0
        /\ UNCHANGED <<round, local, touched, saved>>
    BY <1>10 DEF Clear
  <2>2. WatermarkHonest' /\ SavedHonest'
    BY <2>1 DEF WatermarkHonest, SavedHonest, Current, UnchangedSince, Ingest
  <2>3. QED
    BY <1>0, <2>1, <2>2, IdleAfter DEF StampedTogether
<1>11. CASE Persist
  <2>1. /\ phase' = "idle" /\ saved'.lastRound = lastRound /\ saved'.entries = entries
        /\ saved'.lastUpdated = lastUpdated
        /\ UNCHANGED <<round, local, touched, lastRound, lastUpdated, entries>>
    BY <1>11 DEF Persist
  <2>2. WatermarkHonest' /\ SavedHonest'
    BY <2>1 DEF WatermarkHonest, SavedHonest, Current, UnchangedSince, Ingest
  <2>3. QED
    BY <1>0, <2>1, <2>2, IdleAfter DEF StampedTogether
<1>12. CASE Crash
  <2>1. /\ phase' = "idle" /\ lastRound' = saved.lastRound /\ entries' = saved.entries
        /\ lastUpdated' = saved.lastUpdated
        /\ UNCHANGED <<round, local, touched, saved>>
    BY <1>12 DEF Crash
  <2>2. WatermarkHonest' /\ SavedHonest'
    BY <2>1 DEF WatermarkHonest, SavedHonest, Current, UnchangedSince, Ingest
  <2>3. QED
    BY <1>0, <2>1, <2>2, IdleAfter DEF StampedTogether
<1>13. CASE UNCHANGED vars
  BY <1>0, <1>13 DEF vars, StampedTogether, WatermarkHonest, FullScanSound, DiscoverySound,
     LookupSound, SavedHonest, UnchangedSince, Current, Ingest
<1>14. QED
  BY <1>1, <1>2, <1>3, <1>4, <1>5, <1>6, <1>7, <1>8, <1>9, <1>10, <1>11, <1>12, <1>13
     DEF Next, Refreshing

\* The inductive invariant holds of every reachable state of the account scan.
THEOREM ScanInvariant == Spec => []ScanInv
BY InitScanInv, ScanInvStep, PTL DEF Spec

\* fetch_opted_in_accounts_cached never loses a change behind its watermark:
\* an account not touched after last_round has the entry its state calls for.
THEOREM WatermarkIsHonest == Spec => []WatermarkHonest
<1>1. ScanInv => WatermarkHonest
  BY DEF ScanInv
<1>2. QED
  BY <1>1, ScanInvariant, PTL

\* The type invariant of the account scan.
THEOREM TypeCorrect == Spec => []TypeOK
<1>1. ScanInv => TypeOK
  BY DEF ScanInv
<1>2. QED
  BY <1>1, ScanInvariant, PTL

-----------------------------------------------------------------------------
(***************************************************************************)
(* The watermark only advances: what a refresh is about to store is no     *)
(* less than what the cache holds.                                         *)
(***************************************************************************)
WatermarkAhead == phase = "lookup" => lastRound <= watermark

LEMMA AheadStep == ScanInv /\ WatermarkAhead /\ [Next]_vars => WatermarkAhead'
<1> SUFFICES ASSUME ScanInv, WatermarkAhead, [Next]_vars PROVE WatermarkAhead'
  OBVIOUS
<1> USE DEF WatermarkAhead, indexer, cache, refresh, store
<1>1. lastRound \in Nat /\ round \in Nat /\ watermark \in Nat /\ lastRound <= round
  BY DEF ScanInv, TypeOK
<1>2. ASSUME NEW to \in Rounds, DiscoverPage(to) PROVE WatermarkAhead'
  <2>1. watermark' = (IF watermark > round THEN watermark ELSE round) /\ lastRound' = lastRound
    BY <1>2 DEF DiscoverPage, Larger
  <2>2. QED
    BY <1>1, <2>1
<1>3. ASSUME Refreshing PROVE WatermarkAhead'
  <2>1. ASSUME NEW to \in Accounts, FullPage(to) PROVE WatermarkAhead'
    BY <2>1 DEF FullPage, Finish
  <2>2. ASSUME NEW a \in Accounts, LookupAccount(a) PROVE WatermarkAhead'
    BY <2>2 DEF LookupAccount
  <2>3. ASSUME FinishIncremental PROVE WatermarkAhead'
    BY <2>3 DEF FinishIncremental, Finish
  <2>4. QED
    BY <1>2, <1>3, <2>1, <2>2, <2>3 DEF Refreshing
<1>4. ASSUME \/ ForceFull \/ Bootstrap \/ FailRequest \/ Clear \/ Persist \/ Crash
             \/ \E l \in Lifetimes : BeginIncremental(l)
      PROVE  WatermarkAhead'
  BY <1>4 DEF ForceFull, Bootstrap, BeginFull, FailRequest, Clear, Persist, Crash,
              BeginIncremental
<1>5. ASSUME \/ Tick \/ UNCHANGED vars
             \/ \E a \in Accounts, s \in LocalStates \cup {OptedOut} : AppTxn(a, s)
      PROVE  WatermarkAhead'
  BY <1>5 DEF Tick, vars, AppTxn
<1>6. QED
  BY <1>3, <1>4, <1>5 DEF Next

\* AccountScanCache::last_round: a refresh never takes it back, only emptying the cache
\* or reloading it does.
THEOREM WatermarkAdvances == Spec => WatermarkOnlyAdvances
<1> DEFINE Advances == lastRound' < lastRound => entries' = NoEntries \/ crashes' > crashes
<1>1. Init => WatermarkAhead
  BY DEF Init, WatermarkAhead
<1>2. ASSUME ScanInv, WatermarkAhead, [Next]_vars PROVE [Advances]_vars
  <2> USE DEF indexer, cache, refresh, store
  <2>1. /\ lastRound \in Nat /\ round \in Nat /\ watermark \in Nat /\ crashes \in Nat
        /\ phase = "full" => lastRound = 0
    BY <1>2 DEF ScanInv, TypeOK, FullScanSound
  <2>2. ASSUME lastRound' = lastRound PROVE Advances
    BY <2>1, <2>2
  <2>3. ASSUME NEW to \in Accounts, FullPage(to) PROVE Advances
    <3>1. lastRound = 0 /\ (lastRound' = lastRound \/ lastRound' = FullWatermark)
      BY <2>1, <2>3 DEF FullPage, Finish
    <3>2. FullWatermark \in Nat
      BY <2>1 DEF FullWatermark
    <3>3. QED
      BY <3>1, <3>2
  <2>4. ASSUME FinishIncremental PROVE Advances
    BY <1>2, <2>1, <2>4 DEF FinishIncremental, Finish, WatermarkAhead
  <2>5. ASSUME ForceFull \/ Clear PROVE Advances
    BY <2>5 DEF ForceFull, BeginFull, Clear
  <2>6. ASSUME Crash PROVE Advances
    BY <2>1, <2>6 DEF Crash
  <2>7. QED
    BY <1>2, <2>2, <2>3, <2>4, <2>5, <2>6
       DEF Next, Refreshing, AppTxn, Tick, Bootstrap, BeginIncremental, DiscoverPage,
           LookupAccount, FailRequest, Persist, vars
<1>3. QED
  BY <1>1, AheadStep, <1>2, ScanInvariant, PTL DEF Spec, WatermarkOnlyAdvances
=============================================================================
