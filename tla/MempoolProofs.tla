--------------------------- MODULE MempoolProofs ---------------------------
(***************************************************************************)
(* Theorems about Mempool, for any set of transactions, any thresholds and *)
(* any callers.                                                            *)
(***************************************************************************)
EXTENDS Mempool, FiniteSetTheorems, TLAPS

\* The size of a set of transactions is a number, and a set no larger than one
\* that it contains is that one.
LEMMA SizeIsNat == \A S \in SUBSET Txs : Cardinality(S) \in Nat
BY TxsFinite, FS_Subset, FS_CardinalityType

LEMMA SameSizeSameSet ==
    ASSUME NEW S \in SUBSET Txs, NEW T \in SUBSET Txs,
           S \subseteq T, Cardinality(S) = Cardinality(T)
    PROVE  S = T
<1>1. IsFiniteSet(T)
  BY TxsFinite, FS_Subset
<1>2. QED
  BY <1>1, FS_Subset

LEMMA DistanceIsNat == \A m, n \in Nat : Distance(m, n) \in Nat
BY DEF Distance

\* mempool.ts:119-246 keeps every variable in its type.
LEMMA MempoolTypeStep == MempoolTypeOK /\ [MempoolNext]_mempoolVars => MempoolTypeOK'
<1>. SUFFICES ASSUME MempoolTypeOK, [MempoolNext]_mempoolVars
              PROVE  MempoolTypeOK'
  OBVIOUS
<1>. USE DEF MempoolTypeOK
<1>1. ASSUME NEW transactions \in SUBSET Txs, BeginUpdate(transactions)
      PROVE  MempoolTypeOK'
  BY <1>1, SizeIsNat, DistanceIsNat DEF BeginUpdate
<1>2. ASSUME NEW t \in Txs, SkipTx(t) PROVE MempoolTypeOK'
  BY <1>2 DEF SkipTx
<1>3. ASSUME NEW t \in Txs, FetchOk(t) PROVE MempoolTypeOK'
  BY <1>3 DEF FetchOk
<1>4. ASSUME NEW t \in Txs, FetchFailed(t) PROVE MempoolTypeOK'
  BY <1>4 DEF FetchFailed
<1>5. CASE FinishUpdate
  <2>1. Evicted \subseteq cache
    BY DEF Evicted
  <2>2. delta' \in Nat
    BY <1>5, <2>1, SizeIsNat, DistanceIsNat DEF FinishUpdate
  <2>3. /\ phase' \in {"none", "fetch", "change"}
        /\ raw' \subseteq Txs /\ todo' \subseteq raw' /\ startSize' \in Nat
        /\ newTxs' \subseteq Txs /\ deleted' \subseteq Txs
    BY <1>5, <2>1 DEF FinishUpdate, ReturnUpdate
  <2>4. /\ cache' \subseteq Txs /\ inSync' \in BOOLEAN
        /\ protection' \in 0..2 /\ timer' \in BOOLEAN
    BY <1>5 DEF FinishUpdate
  <2>. QED
    BY <2>2, <2>3, <2>4
<1>6. CASE ChangeHandled
  BY <1>6 DEF ChangeHandled, ReturnUpdate
<1>7. CASE ProtectionTimeout
  <2>1. timer' \in BOOLEAN /\ inSync' \in BOOLEAN
    BY <1>7, Zenon DEF ProtectionTimeout
  <2>2. protection' \in 0..2 /\ delta' \in Nat \cup {-1}
    BY <1>7 DEF ProtectionTimeout
  <2>. QED
    BY <1>7, <2>1, <2>2, Zenon DEF ProtectionTimeout, updateVars
<1>8. ASSUME NEW txs \in SUBSET Txs, RemoveMined(txs) PROVE MempoolTypeOK'
  BY <1>8 DEF RemoveMined, updateVars
<1>9. ASSUME NEW tooOften \in BOOLEAN, IterationFailed(tooOften)
      PROVE  MempoolTypeOK'
  BY <1>9 DEF IterationFailed, ReturnUpdate, updateVars
<1>10. CASE UNCHANGED mempoolVars
  BY <1>10 DEF mempoolVars, updateVars
<1>. QED
  BY <1>1, <1>2, <1>3, <1>4, <1>5, <1>6, <1>7, <1>8, <1>9, <1>10 DEF MempoolNext

\* The type invariant.
THEOREM MempoolTypeCorrect == MempoolSpec => []MempoolTypeOK
<1>1. (\E restored \in SUBSET Txs : MempoolInit(restored)) => MempoolTypeOK
  <2>. SUFFICES ASSUME NEW restored \in SUBSET Txs, MempoolInit(restored)
                PROVE  MempoolTypeOK
    OBVIOUS
  <2>1. inSync \in BOOLEAN /\ timer \in BOOLEAN
    BY Zenon DEF MempoolInit
  <2>. QED
    BY <2>1 DEF MempoolInit, MempoolTypeOK
<1>. QED
  BY <1>1, MempoolTypeStep, PTL DEF MempoolSpec

\* An active protection always has its timer, and only it has one.
THEOREM ProtectionTimerCorrect == MempoolSpec => []ProtectionHasTimer
<1>1. (\E restored \in SUBSET Txs : MempoolInit(restored)) => ProtectionHasTimer
  BY DEF MempoolInit, ProtectionHasTimer
<1>2. ProtectionHasTimer /\ [MempoolNext]_mempoolVars => ProtectionHasTimer'
  <2>. SUFFICES ASSUME ProtectionHasTimer, [MempoolNext]_mempoolVars
                PROVE  ProtectionHasTimer'
    OBVIOUS
  <2>. USE DEF ProtectionHasTimer
  <2>1. CASE FinishUpdate
    <3>1. timer' <=> (timer \/ ProtectionStarts)
      BY <2>1, Zenon DEF FinishUpdate
    <3>2. protection' = 1 <=> (ProtectionStarts \/ protection = 1)
      BY <2>1 DEF FinishUpdate, DeletionsHeld
    <3>. QED
      BY <3>1, <3>2
  <2>2. CASE ProtectionTimeout
    <3>1. protection' # 1
      BY <2>2 DEF ProtectionTimeout
    <3>. QED
      BY <2>2, <3>1, Zenon DEF ProtectionTimeout
  <2>3. CASE UNCHANGED <<timer, protection>>
    BY <2>3, Zenon
  <2>. QED
    BY <2>1, <2>2, <2>3 DEF MempoolNext, mempoolVars, BeginUpdate, SkipTx, FetchOk,
       FetchFailed, ChangeHandled, RemoveMined, IterationFailed, ReturnUpdate
<1>. QED
  BY <1>1, <1>2, PTL DEF MempoolSpec

\* What one step may do to the cache when the protection holds or starts.
LEMMA DeletionNeedsRelease ==
    ASSUME MempoolTypeOK, MempoolNext
    PROVE  /\ (phase = "fetch" /\ phase' # "fetch" /\ protection # 2 /\ LooksCleared)
                 => cache \subseteq cache'
           /\ (protection = 1 /\ protection' = 1 /\ ~(cache \subseteq cache'))
                 => UNCHANGED updateVars
<1>1. CASE FinishUpdate
  BY <1>1 DEF MempoolTypeOK, FinishUpdate, DeletionsHeld, ProtectionStarts, Evicted
<1>2. ASSUME ~FinishUpdate PROVE phase = "fetch" => phase' = "fetch"
  BY <1>2 DEF MempoolNext, BeginUpdate, SkipTx, FetchOk, FetchFailed, ChangeHandled,
         ProtectionTimeout, RemoveMined, IterationFailed, ReturnUpdate, updateVars
<1>3. ASSUME ~FinishUpdate, ~(cache \subseteq cache') PROVE UNCHANGED updateVars
  BY <1>3 DEF MempoolNext, BeginUpdate, SkipTx, FetchOk, FetchFailed, ChangeHandled,
         ProtectionTimeout, RemoveMined, IterationFailed, ReturnUpdate, updateVars
<1>. QED
  BY <1>1, <1>2, <1>3

\* A node that comes back with most of its mempool gone does not empty the
\* cache before the protection's timer has run out.
THEOREM ClearDelayed == MempoolSpec => ClearIsDelayed
<1>1. MempoolTypeOK /\ [MempoolNext]_mempoolVars
        => [ /\ (phase = "fetch" /\ phase' # "fetch" /\ protection # 2 /\ LooksCleared)
                   => cache \subseteq cache'
             /\ (protection = 1 /\ protection' = 1 /\ ~(cache \subseteq cache'))
                   => UNCHANGED updateVars ]_mempoolVars
  BY DeletionNeedsRelease
<1>. QED
  BY <1>1, MempoolTypeCorrect, PTL DEF MempoolSpec, ClearIsDelayed

\* Outside the protection "in sync" means that the cache is the node's list.
THEOREM InSyncExact == MempoolSpec => InSyncIsExact
<1>1. ASSUME MempoolTypeOK, MempoolNext, phase = "fetch", phase' # "fetch",
             ~inSync, inSync', protection' = 0
      PROVE  cache' = raw
  <2>1. FinishUpdate
    BY <1>1 DEF MempoolNext, BeginUpdate, SkipTx, FetchOk, FetchFailed, ChangeHandled,
         ProtectionTimeout, RemoveMined, IterationFailed, ReturnUpdate, updateVars
  <2>2. Evicted = cache \ raw
    BY <1>1, <2>1 DEF FinishUpdate, Evicted
  <2>3. cache \ Evicted \in SUBSET Txs /\ raw \in SUBSET Txs /\ cache \ Evicted \subseteq raw
    BY <1>1, <2>2 DEF MempoolTypeOK
  <2>4. Cardinality(raw) = Cardinality(cache \ Evicted)
    BY <1>1, <2>1 DEF FinishUpdate
  <2>5. cache \ Evicted = raw
    BY <2>3, <2>4, SameSizeSameSet
  <2>. QED
    BY <2>1, <2>5 DEF FinishUpdate
<1>2. MempoolTypeOK /\ [MempoolNext]_mempoolVars
        => [ (phase = "fetch" /\ phase' # "fetch" /\ ~inSync /\ inSync' /\ protection' = 0)
               => cache' = raw ]_mempoolVars
  BY <1>1
<1>. QED
  BY <1>2, MempoolTypeCorrect, PTL DEF MempoolSpec, InSyncIsExact
=============================================================================
