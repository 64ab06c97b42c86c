------------------------------ MODULE Mempool ------------------------------
(***************************************************************************)
(* The in-memory mempool of the backend: src/backend/src/api/mempool.ts.   *)
(*                                                                         *)
(* The state is the map mempoolCache (here the set of its keys), the       *)
(* inSync flag, the clear protection with its one-shot timer, and the      *)
(* local variables of the $updateMempool call in flight, which gives up    *)
(* the event loop at every transaction it fetches and again while the      *)
(* mempool-change callback runs.                                           *)
(*                                                                         *)
(* Abstracted: what a transaction holds, the six latestTransactions, the   *)
(* per-second statistics, progress indicators and logging.                 *)
(***************************************************************************)
EXTENDS Integers, FiniteSets

CONSTANTS
    Txs,                \* transaction ids
    ProtectionMinSize,  \* cache size above which the protection may start (20000)
    ProtectionPercent,  \* and the share of it the node must still report (80)
    PriorityDelta       \* distance from the node that gives tx caching priority (25)

ASSUME TxsFinite == IsFiniteSet(Txs)
ASSUME ProtectionAssumption ==
    /\ ProtectionMinSize \in Nat
    /\ ProtectionPercent \in 0..100
    /\ PriorityDelta \in Nat

VARIABLES
    cache,      \* keys of mempoolCache
    inSync,
    delta,      \* mempoolCacheDelta
    protection, \* mempoolProtection: 0 off, 1 active, 2 timer elapsed
    timer,      \* the CLEAR_PROTECTION_MINUTES timeout is pending
    phase,      \* the $updateMempool call: "none", "fetch" or "change"
    raw,        \* its argument, the ids the node reported
    todo,       \* ids its loop has not reached yet
    startSize,  \* currentMempoolSize, read before the first await
    newTxs,     \* newTransactions
    deleted     \* deletedTransactions

updateVars == <<phase, raw, todo, startSize, newTxs, deleted>>
mempoolVars == <<cache, inSync, delta, protection, timer, updateVars>>

MempoolTypeOK ==
    /\ cache \subseteq Txs
    /\ inSync \in BOOLEAN
    /\ delta \in Nat \cup {-1}
    /\ protection \in 0..2
    /\ timer \in BOOLEAN
    /\ phase \in {"none", "fetch", "change"}
    /\ raw \subseteq Txs
    /\ todo \subseteq raw
    /\ startSize \in Nat
    /\ newTxs \subseteq Txs
    /\ deleted \subseteq Txs

Distance_Signed(m, n) == m - n
Distance(m, n) == IF m >= n THEN m - n ELSE n - m

\* "leave resources available for mempool tx caching"
hasPriority == ~inSync /\ (delta = -1 \/ delta > PriorityDelta)

-----------------------------------------------------------------------------
\* A process starts with an empty cache or with the one $setMempool restores
\* from disk.
MempoolInit(restored) ==
    /\ cache = restored
    /\ inSync = FALSE
    /\ delta = -1
    /\ protection = 0
    /\ timer = FALSE
    /\ phase = "none"
    /\ raw = {} /\ todo = {} /\ newTxs = {} /\ deleted = {}
    /\ startSize = 0

\* $updateMempool(transactions), up to its first await.
BeginUpdate(transactions) ==
    /\ phase = "none"
    /\ phase' = "fetch"
    /\ raw' = transactions
    /\ todo' = transactions
    /\ startSize' = Cardinality(cache)
    /\ delta' = Distance(Cardinality(transactions), Cardinality(cache))
    /\ newTxs' = {}
    /\ deleted' = {}
    /\ UNCHANGED <<cache, inSync, protection, timer>>

\* The loop reaches an id that is cached already.
SkipTx(t) ==
    /\ phase = "fetch" /\ t \in todo \cap cache
    /\ todo' = todo \ {t}
    /\ UNCHANGED <<cache, inSync, delta, protection, timer, phase, raw,
                   startSize, newTxs, deleted>>

\* $getTransactionExtended(t) answers.
FetchOk(t) ==
    /\ phase = "fetch" /\ t \in todo \ cache
    /\ todo' = todo \ {t}
    /\ cache' = cache \cup {t}
    /\ newTxs' = newTxs \cup {t}
    /\ UNCHANGED <<inSync, delta, protection, timer, phase, raw, startSize, deleted>>

\* $getTransactionExtended(t) throws: logged, and t is left out of this round.
FetchFailed(t) ==
    /\ phase = "fetch" /\ t \in todo \ cache
    /\ todo' = todo \ {t}
    /\ UNCHANGED <<cache, inSync, delta, protection, timer, phase, raw,
                   startSize, newTxs, deleted>>

\* The node reports so much less than the cache held that it looks restarted.
LooksCleared ==
    /\ startSize > ProtectionMinSize
    /\ Cardinality(raw) * 100 <= ProtectionPercent * startSize

ProtectionStarts == protection = 0 /\ LooksCleared

DeletionsHeld_EndsAtNextUpdate == ProtectionStarts
\* The protection, on from this update or from an earlier one, keeps every
\* cached transaction.
DeletionsHeld == ProtectionStarts \/ protection = 1

Evicted_IgnoresProtection == cache \ raw
Evicted_LeavesSome ==
    IF DeletionsHeld \/ Cardinality(cache) <= Cardinality(raw) THEN {} ELSE cache \ raw
\* deletedTransactions of the update that is finishing.
Evicted == IF DeletionsHeld THEN {} ELSE cache \ raw

\* $updateMempool returns: its locals are gone.
ReturnUpdate ==
    /\ phase' = "none"
    /\ startSize' = 0
    /\ raw' = {} /\ todo' = {} /\ newTxs' = {} /\ deleted' = {}

\* Everything after the loop, up to the await of the change callback.  An
\* update that changed nothing ends here.
FinishUpdate ==
    /\ phase = "fetch" /\ todo = {}
    /\ protection' = IF DeletionsHeld THEN 1 ELSE 0
    /\ timer' = (timer \/ ProtectionStarts)
    /\ cache' = cache \ Evicted
    /\ inSync' = \/ Cardinality(raw) = Cardinality(cache \ Evicted)
                 \/ inSync /\ ~ProtectionStarts
    /\ delta' = Distance(Cardinality(raw), Cardinality(cache \ Evicted))
    /\ IF newTxs \cup Evicted # {}
       THEN /\ phase' = "change"
            /\ deleted' = Evicted
            /\ UNCHANGED <<raw, todo, startSize, newTxs>>
       ELSE ReturnUpdate

\* $asyncMempoolChangedCallback settles and $updateMempool returns.
ChangeHandled ==
    /\ phase = "change"
    /\ ReturnUpdate
    /\ UNCHANGED <<cache, inSync, delta, protection, timer>>

ProtectionTimeout_ChecksFlagOnly ==
    /\ timer
    /\ timer' = FALSE
    /\ UNCHANGED <<protection, cache, inSync, delta, updateVars>>
\* setTimeout(..., CLEAR_PROTECTION_MINUTES): deletions may resume.
ProtectionTimeout ==
    /\ timer
    /\ timer' = FALSE
    /\ protection' = 2
    /\ UNCHANGED <<cache, inSync, delta, updateVars>>

\* handleNewBlock (websocket-handler.ts) deletes the block's transactions.
RemoveMined(txs) ==
    /\ cache' = cache \ txs
    /\ UNCHANGED <<inSync, delta, protection, timer, updateVars>>

\* The main loop's iteration threw: between two updates, or out of the change
\* callback, whose update ends there.  After several such failures in a row
\* the loop calls setOutOfSync.
IterationFailed(tooOften) ==
    /\ phase \in {"none", "change"}
    /\ inSync' = (inSync /\ ~tooOften)
    /\ IF phase = "none" THEN UNCHANGED updateVars ELSE ReturnUpdate
    /\ UNCHANGED <<cache, delta, protection, timer>>

-----------------------------------------------------------------------------
\* The component alone, under callers that may do anything the interface
\* allows: any report from the node, any block, at any await.
MempoolNext ==
    \/ \E transactions \in SUBSET Txs : BeginUpdate(transactions)
    \/ \E t \in Txs : SkipTx(t) \/ FetchOk(t) \/ FetchFailed(t)
    \/ FinishUpdate
    \/ ChangeHandled
    \/ ProtectionTimeout
    \/ \E txs \in SUBSET Txs : RemoveMined(txs)
    \/ \E tooOften \in BOOLEAN : IterationFailed(tooOften)

MempoolSpec ==
    /\ \E restored \in SUBSET Txs : MempoolInit(restored)
    /\ [][MempoolNext]_mempoolVars

-----------------------------------------------------------------------------
\* The protection is active exactly while its timer is pending: no second
\* timer is ever armed, and an active protection always has one to end it, so
\* deletions can neither be released early by an old timer nor stay blocked
\* forever (mempool.ts:189-203).
ProtectionHasTimer == timer <=> protection = 1

\* "Prevent mempool from clear on bitcoind restart by delaying the deletion"
\* (mempool.ts:189): an update whose report lacks too much of the cache deletes
\* nothing, unless the timer of an earlier one has run out.  And while the
\* protection is active, transactions leave the cache only into a block.
ClearIsDelayed ==
    [][ /\ (phase = "fetch" /\ phase' # "fetch" /\ protection # 2 /\ LooksCleared)
              => cache \subseteq cache'
        /\ (protection = 1 /\ protection' = 1 /\ ~(cache \subseteq cache'))
              => UNCHANGED updateVars ]_mempoolVars

\* Outside the protection, an update that declares the mempool in sync has
\* exactly the node's report in the cache, whatever was fetched, failed or
\* mined meanwhile: equal sizes are enough there (mempool.ts:204-228).
InSyncIsExact ==
    [][ (phase = "fetch" /\ phase' # "fetch" /\ ~inSync /\ inSync' /\ protection' = 0)
           => cache' = raw ]_mempoolVars

\* The notice of mempool.ts:226, "The mempool is now in sync!", taken at its
\* word in every update that logs it.
InSyncNotice ==
    [][ (~inSync /\ inSync') => cache' = raw ]_mempoolVars
=============================================================================
