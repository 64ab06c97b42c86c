------------------------------ MODULE MainLoop ------------------------------
(***************************************************************************)
(* The main update loop of the backend (src/backend/src/index.ts) with the *)
(* block tracking it drives (api/blocks.ts, $updateBlocks), the new-block  *)
(* handler (api/websocket-handler.ts, handleNewBlock) and the mempool      *)
(* (Mempool), against a Bitcoin node that moves on between any two awaits. *)
(*                                                                         *)
(* One iteration asks the node for its mempool, then for its tip, handles  *)
(* the blocks up to that tip, and updates the mempool from the first       *)
(* answer only when there was no block to handle.  An exception anywhere   *)
(* abandons the iteration; a handleNewBlock it had started keeps running.  *)
(*                                                                         *)
(* Block k+1 of the variable chain is the block at height k+1; the genesis *)
(* block, at height 0, has no transaction of interest.  Abstracted: what   *)
(* $updateBlocks writes to the database, difficulty data, projected blocks *)
(* and the messages to clients.                                            *)
(***************************************************************************)
EXTENDS Mempool, Sequences

CONSTANTS
    InitialBlocks,      \* INITIAL_BLOCKS_AMOUNT (8)
    SeparateAudit,      \* AUDIT with ADVANCED_GBT_AUDIT, mempool without: the audit
                        \* awaits templates of its own
    OutOfSyncRetries,   \* failures in a row before setOutOfSync (5)
    StartHeight,        \* bound: greatest tip the process starts at
    MaxHeight,          \* bound: greatest tip of the node
    MaxReorgs,          \* bound: blocks the node disconnects
    MaxEvents,          \* bound: transactions the node accepts or evicts
    MaxFaults           \* bound: exceptions in the loop

ASSUME MainLoopAssumption ==
    /\ InitialBlocks \in Nat \ {0}
    /\ SeparateAudit \in BOOLEAN
    /\ OutOfSyncRetries \in Nat
    /\ {StartHeight, MaxHeight, MaxReorgs, MaxEvents, MaxFaults} \subseteq Nat

VARIABLES
    chain,          \* the node's blocks above genesis, each a set of transactions
    nodeMempool,    \* the node's mempool
    reorgs, events, \* counters for the bounds
    pc,             \* where the iteration is
    rawMempool,     \* newMempool of index.ts: the node's first answer
    tip,            \* blockHeightTip
    current,        \* currentBlockHeight
    handled,        \* handledBlocks of $updateBlocks
    blocks,         \* the recent blocks kept in memory: heights and contents
    callback,       \* the handleNewBlock that $updateBlocks will wait for
    abandoned,      \* handleNewBlock calls of iterations that threw
    retries,        \* backendRetryCount
    faults,         \* counter for the bound; tells abandoned calls apart
    followedFrom,   \* history: all blocks from here to the last one were handled
    rawHeight,      \* history: the node's tip when it gave rawMempool
    replaced,       \* history: heights of blocks the node disconnected after
                    \* the loop had fetched them
    spared          \* history: transactions of blocks whose handleNewBlock threw
                    \* before it deleted them, while the cache has them

nodeVars == <<chain, nodeMempool, reorgs, events, replaced>>
blockVars == <<blocks, current, followedFrom>>
loopVars == <<pc, rawMempool, rawHeight, tip, handled, retries, faults>>
handlerVars == <<callback, abandoned, spared>>
vars == <<nodeVars, blockVars, loopVars, handlerVars, mempoolVars>>

-----------------------------------------------------------------------------
Blocks == [height : Nat, txs : SUBSET Txs]

\* Stages of handleNewBlock: awaiting the separate audit's templates; past the
\* deletion of the block's transactions, awaiting the new templates if the
\* worker makes them; returned.
Stages == {"audit", "template", "done"}

Content(h) == IF h = 0 THEN {} ELSE chain[h]
Mined(from, to) == UNION {Content(h) : h \in (from..to) \cap (0..Len(chain))}
LastHeight == blocks[Len(blocks)].height

\* Transactions of the blocks this process has handled without a gap.
Followed == IF blocks = <<>> THEN {} ELSE Mined(followedFrom, LastHeight)

TypeOK ==
    /\ MempoolTypeOK
    /\ chain \in Seq(SUBSET Txs)
    /\ nodeMempool \subseteq Txs
    /\ reorgs \in Nat /\ events \in Nat /\ retries \in Nat /\ faults \in Nat
    /\ followedFrom \in Nat /\ rawHeight \in Nat /\ tip \in Nat /\ handled \in Nat
    /\ pc \in {"idle", "tip", "blocks", "store", "callbacks", "mempool"}
    /\ rawMempool \subseteq Txs
    /\ current \in (IF pc = "store" THEN Nat ELSE Nat \cup {-1})
    /\ blocks \in Seq(Blocks)
    /\ callback \in [stage : Stages, txs : SUBSET Txs]
    /\ abandoned \subseteq [no : Nat, stage : Stages, txs : SUBSET Txs]
    /\ replaced \subseteq Nat
    /\ spared \subseteq Txs

NoCallback == [stage |-> "done", txs |-> {}]

\* A process starts at any height of the chain, with nothing or with the cache
\* and the last block that an earlier process left on disk.
Init ==
    \E height \in 0..StartHeight, restored \in SUBSET Txs, fromDisk \in BOOLEAN :
        /\ chain = [h \in 1..height |-> {}]
        /\ nodeMempool = {}
        /\ reorgs = 0 /\ events = 0 /\ replaced = {}
        /\ MempoolInit(IF fromDisk THEN restored ELSE {})
        /\ blocks = IF fromDisk THEN <<[height |-> height, txs |-> {}]>> ELSE <<>>
        /\ current = 0
        /\ followedFrom = height + 1
        /\ pc = "idle"
        /\ rawMempool = {} /\ rawHeight = 0
        /\ tip = 0
        /\ handled = 0
        /\ callback = NoCallback /\ abandoned = {} /\ spared = {}
        /\ retries = 0 /\ faults = 0

-----------------------------------------------------------------------------
\* The node (external): what its RPC interface shows of it.

ChainTxs == Mined(0, Len(chain))

NodeAccept(t) ==
    /\ events < MaxEvents
    /\ t \notin nodeMempool \cup ChainTxs
    /\ nodeMempool' = nodeMempool \cup {t}
    /\ events' = events + 1
    /\ UNCHANGED <<chain, reorgs, replaced, blockVars, loopVars, handlerVars, mempoolVars>>

NodeEvict(t) ==
    /\ events < MaxEvents
    /\ t \in nodeMempool
    /\ nodeMempool' = nodeMempool \ {t}
    /\ events' = events + 1
    /\ UNCHANGED <<chain, reorgs, replaced, blockVars, loopVars, handlerVars, mempoolVars>>

NodeMine(txs) ==
    /\ Len(chain) < MaxHeight
    /\ txs \cap ChainTxs = {}
    /\ chain' = Append(chain, txs)
    /\ nodeMempool' = nodeMempool \ txs
    /\ UNCHANGED <<reorgs, events, replaced, blockVars, loopVars, handlerVars, mempoolVars>>

\* The last height whose block the loop has fetched.
Reached ==
    IF pc \in {"store", "callbacks"} THEN current
    ELSE IF blocks = <<>> THEN -1 ELSE LastHeight

\* The tip is disconnected and its transactions return to the node's mempool.
NodeReorg ==
    /\ reorgs < MaxReorgs
    /\ chain # <<>>
    /\ chain' = SubSeq(chain, 1, Len(chain) - 1)
    /\ nodeMempool' = nodeMempool \cup chain[Len(chain)]
    /\ reorgs' = reorgs + 1
    /\ replaced' = IF Len(chain) <= Reached THEN replaced \cup {Len(chain)} ELSE replaced
    /\ UNCHANGED <<events, blockVars, loopVars, handlerVars, mempoolVars>>

-----------------------------------------------------------------------------
\* runMainUpdateLoop and $updateBlocks.

GetRawMempool ==
    /\ pc = "idle"
    /\ pc' = "tip"
    /\ rawMempool' = nodeMempool
    /\ rawHeight' = Len(chain)
    /\ handled' = 0
    /\ spared' = spared \cap cache
    /\ UNCHANGED <<nodeVars, blockVars, callback, abandoned, mempoolVars, tip, retries,
                   faults>>

MaxOf(m, n) == IF m >= n THEN m ELSE n

ResumeAfter_LastTried(height) ==
    IF blocks = <<>> THEN MaxOf(height - InitialBlocks, -1) ELSE current
\* Where $updateBlocks resumes: after the last block in memory, or shortly
\* before the tip when there is none, and again when it is too far behind.
ResumeAfter(height) ==
    IF blocks = <<>> THEN MaxOf(height - InitialBlocks, -1) ELSE LastHeight
FastForwards(height) == height - ResumeAfter(height) > 2 * InitialBlocks
StartOf(height) ==
    IF FastForwards(height) THEN height - InitialBlocks ELSE ResumeAfter(height)

GetTip ==
    /\ pc = "tip"
    /\ pc' = "blocks"
    /\ tip' = Len(chain)
    /\ current' = StartOf(Len(chain))
    /\ followedFrom' = IF blocks = <<>> \/ FastForwards(Len(chain))
                       THEN StartOf(Len(chain)) + 1 ELSE followedFrom
    /\ UNCHANGED <<nodeVars, blocks, handlerVars, mempoolVars, rawMempool,
                   rawHeight, handled, retries, faults>>

\* The height the loop handles next: from genesis it goes straight to the tip.
NextHeight == IF current = 0 THEN tip ELSE current + 1

\* handleNewBlock runs up to its first await inside the call.
FirstStage == IF SeparateAudit THEN "audit" ELSE "template"

\* One turn of the while loop up to the first database await: the block is
\* fetched and handleNewBlock is started, not awaited.
StartBlock ==
    /\ pc = "blocks" /\ current < tip
    /\ NextHeight <= Len(chain)
    /\ pc' = "store"
    /\ current' = NextHeight
    /\ followedFrom' = IF current = 0 /\ followedFrom < NextHeight
                       THEN NextHeight ELSE followedFrom
    /\ callback' = [stage |-> FirstStage, txs |-> Content(NextHeight)]
    /\ IF FirstStage = "audit"
       THEN UNCHANGED mempoolVars
       ELSE RemoveMined(Content(NextHeight))
    /\ UNCHANGED <<nodeVars, blocks, abandoned, spared, rawMempool, rawHeight, tip,
                   handled, retries, faults>>

KeepRecent(s) ==
    IF Len(s) > 4 * InitialBlocks
    THEN SubSeq(s, Len(s) - 4 * InitialBlocks + 1, Len(s)) ELSE s

\* The database work is done; the block joins the ones kept in memory.
BlockStored ==
    /\ pc = "store"
    /\ pc' = "callbacks"
    /\ blocks' = KeepRecent(Append(blocks, [height |-> current, txs |-> callback.txs]))
    /\ UNCHANGED <<nodeVars, current, followedFrom, handlerVars, mempoolVars,
                   rawMempool, rawHeight, tip, handled, retries, faults>>

\* await Promise.all(callbackPromises)
CallbacksDone ==
    /\ pc = "callbacks" /\ callback.stage = "done"
    /\ pc' = "blocks"
    /\ handled' = handled + 1
    /\ callback' = NoCallback
    /\ UNCHANGED <<nodeVars, blockVars, abandoned, spared, mempoolVars, rawMempool,
                   rawHeight, tip, retries, faults>>

\* A handleNewBlock call at an await moves on: after the separate audit it
\* deletes the block's transactions, after the templates it returns.
HandlerStep(call) ==
    \/ /\ call.stage = "audit"
       /\ RemoveMined(call.txs)
    \/ /\ call.stage = "template"
       /\ UNCHANGED mempoolVars

NextStage(stage) == IF stage = "audit" THEN "template" ELSE "done"

AwaitedHandlerStep ==
    /\ HandlerStep(callback)
    /\ callback' = [callback EXCEPT !.stage = NextStage(@)]
    /\ UNCHANGED <<nodeVars, blockVars, loopVars, abandoned, spared>>

AbandonedHandlerStep(call) ==
    /\ HandlerStep(call)
    /\ abandoned' =
        IF call.stage = "template" THEN abandoned \ {call}
        ELSE (abandoned \ {call}) \cup {[call EXCEPT !.stage = NextStage(@)]}
    /\ UNCHANGED <<nodeVars, blockVars, loopVars, callback, spared>>

\* The iteration is over: its locals are gone.
EndIteration ==
    /\ pc' = "idle"
    /\ rawMempool' = {} /\ rawHeight' = 0
    /\ tip' = 0 /\ handled' = 0

BlocksUpToDate_AlwaysUpdates ==
    /\ pc = "blocks" /\ current >= tip
    /\ pc' = "mempool"
    /\ BeginUpdate(rawMempool)
    /\ rawMempool' = {}
    /\ UNCHANGED <<retries, rawHeight, tip, handled>>
    /\ UNCHANGED <<nodeVars, blockVars, handlerVars, faults>>
BlocksUpToDate_AsksAgain ==
    /\ pc = "blocks" /\ current >= tip
    /\ IF handled > 0
       THEN EndIteration /\ retries' = 0 /\ UNCHANGED mempoolVars
       ELSE /\ pc' = "mempool"
            /\ BeginUpdate(nodeMempool)
            /\ rawMempool' = {} /\ rawHeight' = Len(chain)
            /\ UNCHANGED <<retries, tip, handled>>
    /\ UNCHANGED <<nodeVars, blockVars, handlerVars, faults>>
\* $updateBlocks returns: the mempool is updated only if it handled nothing.
BlocksUpToDate ==
    /\ pc = "blocks" /\ current >= tip
    /\ IF handled > 0
       THEN EndIteration /\ retries' = 0 /\ UNCHANGED mempoolVars
       ELSE /\ pc' = "mempool"
            /\ BeginUpdate(rawMempool)
            /\ rawMempool' = {}
            /\ UNCHANGED <<retries, rawHeight, tip, handled>>
    /\ UNCHANGED <<nodeVars, blockVars, handlerVars, faults>>

\* The steps of $updateMempool.  A fetch succeeds only for a transaction the
\* node knows, and may fail for any.
MempoolStep ==
    /\ pc = "mempool"
    /\ \/ \E t \in Txs : SkipTx(t)
       \/ \E t \in nodeMempool \cup ChainTxs : FetchOk(t)
       \/ \E t \in Txs : FetchFailed(t)
       \/ FinishUpdate
       \/ ChangeHandled
    /\ IF phase' = "none"
       THEN EndIteration /\ retries' = 0
       ELSE UNCHANGED <<pc, rawMempool, rawHeight, tip, handled, retries>>
    /\ UNCHANGED <<nodeVars, blockVars, handlerVars, faults>>

\* A reorganisation took the block the loop is about to ask for.
BlockGone == pc = "blocks" /\ current < tip /\ NextHeight > Len(chain)

\* An iteration throws.  The loop starts over after a second.
IterationThrows ==
    /\ EndIteration
    /\ faults' = faults + 1
    /\ retries' = retries + 1
    /\ callback' = NoCallback
    /\ IterationFailed(retries + 1 >= OutOfSyncRetries)
    /\ UNCHANGED <<nodeVars, blockVars>>

\* An exception from a node request, from the database, or in the mempool's
\* change callback.  A handleNewBlock in progress runs on unawaited.
Fault ==
    /\ \/ pc \in {"idle", "tip", "blocks", "store"} /\ faults < MaxFaults
       \/ pc = "mempool" /\ phase = "change" /\ faults < MaxFaults
       \/ BlockGone
    /\ IterationThrows
    /\ abandoned' = IF callback.stage = "done" THEN abandoned
                    ELSE abandoned \cup
                         {[no |-> faults, stage |-> callback.stage, txs |-> callback.txs]}
    /\ UNCHANGED spared

\* The handleNewBlock that the loop awaits throws, out of the audit, whose
\* templates may be of another mempool (audit.ts:41), or after the templates.
\* The block is in memory by then and is not handled again.  (A rejection that
\* nobody awaits yet, or any more, ends the process.)
HandlerThrows ==
    /\ pc = "callbacks" /\ callback.stage # "done" /\ faults < MaxFaults
    /\ IterationThrows
    /\ spared' = IF callback.stage = "audit" THEN spared \cup callback.txs ELSE spared
    /\ UNCHANGED abandoned

MempoolTimer == ProtectionTimeout /\ UNCHANGED <<nodeVars, blockVars, loopVars, handlerVars>>

Next ==
    \/ \E t \in Txs : NodeAccept(t) \/ NodeEvict(t)
    \/ \E txs \in SUBSET Txs : NodeMine(txs)
    \/ NodeReorg
    \/ GetRawMempool \/ GetTip \/ StartBlock \/ BlockStored \/ CallbacksDone
    \/ AwaitedHandlerStep
    \/ \E call \in abandoned : AbandonedHandlerStep(call)
    \/ BlocksUpToDate \/ MempoolStep \/ Fault \/ HandlerThrows
    \/ MempoolTimer

Spec == Init /\ [][Next]_vars

\* Fairness: the process keeps running the loop and its timers, every request
\* is answered or fails, and no transaction the node knows fails for ever.
FetchSucceeds == \E t \in Txs : MempoolStep /\ FetchOk(t)
FairSpec ==
    /\ Spec
    /\ WF_vars(GetRawMempool \/ GetTip \/ StartBlock \/ BlockStored \/ CallbacksDone
               \/ BlocksUpToDate \/ MempoolStep)
    /\ WF_vars(Fault /\ BlockGone)
    /\ WF_vars(AwaitedHandlerStep)
    /\ WF_vars(MempoolTimer)
    /\ SF_vars(FetchSucceeds)

-----------------------------------------------------------------------------
\* While the chain only grows, a transaction mined in a block this process has
\* followed is never taken for one that left the mempool unmined: what
\* $updateMempool deletes, and the replacement cache will date as evicted, was
\* not yet in the chain when the node gave its list.  This is why the list is
\* asked for before the blocks (index.ts:213-217).  The exception is a block
\* whose handleNewBlock threw in the audit: its transactions are not deleted as
\* mined, and the next update does report them as evicted.
MinedNeverEvicted ==
    phase = "change" => deleted \cap Mined(followedFrom, rawHeight) \subseteq spared

\* While the chain only grows, a mined transaction never comes back: once
\* handleNewBlock has deleted a followed block's transactions, no update adds
\* one again, though lists of transactions are asked for before blocks and
\* handleNewBlock calls of failed iterations run on (index.ts:213-217,
\* websocket-handler.ts:595-599).  Only a handleNewBlock that threw in the audit
\* leaves a block's transactions behind.
MinedStaysOut ==
    cache \cap Followed \subseteq
        spared \cup (IF pc = "callbacks" /\ callback.stage = "audit" THEN callback.txs ELSE {})

\* No block is skipped or handled into memory twice: from followedFrom on the
\* blocks kept in memory have consecutive heights, whatever iterations threw
\* (blocks.ts:549-561, 588-694), and there are never more than four times
\* InitialBlocks of them.
BlocksAreConsecutive ==
    /\ Len(blocks) <= 4 * InitialBlocks
    /\ \A i \in 1..Len(blocks) - 1 :
        blocks[i + 1].height >= followedFrom + 1 =>
            blocks[i + 1].height = blocks[i].height + 1

\* The block of this height, as the node has it, is one of those in memory.
IsHandled(h) == \E i \in 1..Len(blocks) : blocks[i] = [height |-> h, txs |-> Content(h)]

\* When the node stays quiet, the cache ends up equal to its mempool, in sync,
\* and the recent blocks in memory are the node's own, from the first one this
\* process followed to the tip: neither exceptions, nor a clear protection, nor
\* a reorganisation leaves the loop behind for good (index.ts:201-246).  Except
\* that the loop compares heights only (blocks.ts:549-561, 588): a block that
\* takes the place of one the loop had fetched is never handled by it.
CatchesUp ==
    <>[](/\ cache = nodeMempool /\ inSync
         /\ LastHeight >= Len(chain)
         /\ \A h \in MaxOf(followedFrom, LastHeight - 4 * InitialBlocks + 1)..Len(chain) :
              h \in replaced \/ IsHandled(h))

-----------------------------------------------------------------------------
(***************************************************************************)
(* The inductive invariant behind MinedStaysOut and MinedNeverEvicted, for *)
(* a chain that only grows.  Mined transactions can only come back through *)
(* the node's list, so the list must be free of followed blocks whenever   *)
(* it is still going to be used, and the position of the loop must tell    *)
(* which blocks those are.                                                 *)
(***************************************************************************)

\* A list the node gave has no transaction of the chain it had then.
ListIsFresh ==
    /\ nodeMempool \cap ChainTxs = {}
    /\ (rawMempool \cup raw) \cap Mined(0, rawHeight) = {}

\* Heights the iteration has seen, in the order it saw them.
HeightsAreOrdered ==
    /\ blocks # <<>> => LastHeight <= Len(chain)
    /\ rawHeight <= Len(chain)
    /\ pc \in {"blocks", "store", "callbacks", "mempool"} =>
         rawHeight <= tip /\ tip <= Len(chain)
    /\ (pc \in {"tip", "blocks", "mempool"} /\ handled = 0 /\ blocks # <<>>) =>
         LastHeight <= rawHeight

\* The block at hand continues the followed ones or starts a new row of them.
PositionIsKnown ==
    /\ pc = "blocks" =>
         /\ followedFrom > current \/ (blocks # <<>> /\ LastHeight = current)
         /\ (handled = 0 /\ current >= tip) => (blocks # <<>> /\ LastHeight = current)
    /\ pc = "store" =>
         /\ current <= Len(chain)
         /\ followedFrom >= current \/ (blocks # <<>> /\ LastHeight = current - 1)
    /\ pc = "callbacks" => blocks # <<>> /\ LastHeight = current
    /\ pc = "mempool" => handled = 0 /\ blocks # <<>> /\ LastHeight >= tip

\* The update runs only in its place, and handleNewBlock works on the block
\* that is being handled.
CallsAreInPlace ==
    /\ pc = "mempool" <=> phase # "none"
    /\ phase = "none" => raw = {}
    /\ pc \in {"store", "callbacks"} =>
         /\ callback.txs = Content(current)
         /\ callback.stage # "audit" => cache \cap callback.txs = {}
    /\ pc \notin {"store", "callbacks"} => callback = NoCallback

LoopInv ==
    /\ ListIsFresh
    /\ HeightsAreOrdered
    /\ PositionIsKnown
    /\ CallsAreInPlace
    /\ MinedStaysOut
    /\ MinedNeverEvicted
=============================================================================
