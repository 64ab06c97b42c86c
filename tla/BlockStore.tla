----------------------------- MODULE BlockStore -----------------------------
(***************************************************************************)
(* The stored blocks: the database part of $updateBlocks (api/blocks.ts),  *)
(* the mining indexer (indexer.ts, $generateBlockDatabase, $validateChain) *)
(* and requests that index a block on the way ($indexBlock), all writing   *)
(* one table while the node may switch to another branch.                  *)
(*                                                                         *)
(* A block is the sequence of branch labels that leads to it from genesis, *)
(* so it tells its height, its length, and its parent.  The table blocks   *)
(* has one row per height, and an insertion at a taken height is ignored.  *)
(* Reading the table for a missing block and asking the node for it are    *)
(* one step: a later insertion at that height makes the save a no-op.      *)
(*                                                                         *)
(* Abstracted: everything stored about a block but its identity, pools,    *)
(* hashrates, prices, summaries and CPFP data, the pauses of the indexer   *)
(* while the mempool has priority.  $indexDifficultyAdjustments is one     *)
(* step; the difficulty changes in every period, and                       *)
(* INDEXING_BLOCKS_AMOUNT is -1 (all blocks).                              *)
(***************************************************************************)
EXTENDS Integers, Sequences, FiniteSets

CONSTANTS
    Branches,       \* labels of blocks, to tell those of one height apart
    InitialBlocks,  \* INITIAL_BLOCKS_AMOUNT (8)
    RollbackDepth,  \* blocks re-indexed below a divergence (10)
    RetargetPeriod, \* blocks between difficulty adjustments (2016)
    Disturbances,   \* which of "failed deletion" and "request" happen besides
                    \* reorganisations, exceptions and restarts
    Runs,           \* calls of indexer.$run that may be under way together
    StartHeights,   \* tips the process may start at
    MaxHeight,      \* bound: greatest tip of the node
    MaxReorgs,      \* bound: switches of branch
    MaxFaults       \* bound: exceptions, restarts and disturbances

ASSUME BlockStoreAssumption ==
    /\ Branches # {}
    /\ {InitialBlocks, RollbackDepth, RetargetPeriod} \subseteq Nat \ {0}
    /\ Disturbances \subseteq {"failed deletion", "request"}
    /\ IsFiniteSet(Runs)
    /\ StartHeights \subseteq 0 .. MaxHeight
    /\ {MaxHeight, MaxReorgs, MaxFaults} \subseteq Nat

VARIABLES
    tip,            \* the node's best block
    blocks,         \* table blocks: height -> block
    adjustments,    \* table difficulty_adjustments: height -> block
    memory,         \* height of the last recent block in memory, -1 for none
    cached,         \* the same, as of the last save to the disk cache
    loop,           \* $updateBlocks
    runIndexer,     \* indexer.runIndexer
    indexerRunning, \* indexer.indexerRunning
    timers,         \* pending timers that call indexer.reindex
    runs,           \* calls of indexer.$run
    requested,      \* blocks fetched for requests and not saved yet
    reorgs, faults, \* counters for the bounds
    switches        \* history: switches of branch the loop has not rolled back: "none",
                    \* "one", or "more", also when one came while it re-indexed

nodeVars == <<tip, reorgs, switches>>
tables == <<blocks, adjustments>>
memoryVars == <<memory, cached>>
loopVars == <<memoryVars, loop>>
indexerVars == <<indexerRunning, timers, runs>>
vars == <<nodeVars, tables, loopVars, runIndexer, indexerVars, requested, faults>>

-----------------------------------------------------------------------------
Height(b) == Len(b)
Ancestor(b, h) == SubSeq(b, 1, h)
Parent(b) == Ancestor(b, Height(b) - 1)
BlockSet == UNION {[1 .. h -> Branches] : h \in 0 .. MaxHeight}

MainBranch == CHOOSE l \in Branches : TRUE

Rows(table, S) == [h \in S |-> table[h]]
DeleteFrom(table, h) == Rows(table, {g \in DOMAIN table : g < h})

\* $saveBlockInDatabase and $saveAdjustments: a duplicate is ignored.
Insert(table, b) ==
    [h \in DOMAIN table \cup {Height(b)} |-> IF h \in DOMAIN table THEN table[h] ELSE b]

Lowest(S) == CHOOSE h \in S : \A g \in S : h <= g
Highest(S) == CHOOSE h \in S : \A g \in S : g <= h

\* $getOldestConsecutiveBlock
OldestConsecutive ==
    Lowest({h \in DOMAIN blocks : \A g \in h .. Highest(DOMAIN blocks) : g \in DOMAIN blocks})

\* $indexDifficultyAdjustments: genesis, and each row whose difficulty differs
\* from the one carried along, which stays that of the first period up to the
\* oldest consecutive block.
AdjustmentHeights ==
    {h \in DOMAIN blocks : /\ h >= RetargetPeriod
                           /\ h <= OldestConsecutive \/ h % RetargetPeriod = 0}
IndexedAdjustments ==
    [h \in DOMAIN adjustments \cup {0} \cup AdjustmentHeights |->
        IF h \in DOMAIN adjustments THEN adjustments[h]
        ELSE IF h = 0 THEN <<>> ELSE blocks[h]]

\* Heights whose block is not the parent of the next one ($validateChain).
Divergences ==
    {h \in DOMAIN blocks : h + 1 \in DOMAIN blocks /\ blocks[h] # Parent(blocks[h + 1])}

IdleLoop == [pc |-> "idle", target |-> -1, fast |-> FALSE, current |-> -1,
             block |-> <<>>, last |-> -1, at |-> -1, copy |-> <<>>]
IdleRun == [pc |-> "idle", todo |-> {}, block |-> <<>>]

\* The process starts on an empty database, or on one that has followed the
\* node up to some height.
Init ==
    /\ \E h \in StartHeights : tip = [g \in 1 .. h |-> MainBranch]
    /\ \E k \in -1 .. Height(tip) :
        /\ blocks = [h \in 0 .. k |-> Ancestor(tip, h)]
        /\ adjustments = [h \in {g \in 0 .. k : g % RetargetPeriod = 0} |-> Ancestor(tip, h)]
    /\ memory = -1 /\ cached = -1 /\ loop = IdleLoop
    /\ runIndexer = TRUE /\ indexerRunning = FALSE /\ timers = 0
    /\ runs = [r \in Runs |-> IdleRun]
    /\ requested = {}
    /\ reorgs = 0 /\ faults = 0 /\ switches = "none"

-----------------------------------------------------------------------------
\* The node: a block on top, or a switch to a longer branch.  A label changes
\* where branches part.
NodeMine ==
    /\ Height(tip) < MaxHeight
    /\ tip' = Append(tip, IF tip = <<>> THEN MainBranch ELSE tip[Height(tip)])
    /\ UNCHANGED <<reorgs, switches, tables, loopVars, runIndexer, indexerVars, requested, faults>>

\* "We assume there won't be a reorg with more than 10 block depth"
NodeReorg ==
    /\ reorgs < MaxReorgs
    /\ reorgs' = reorgs + 1
    /\ \E b \in BlockSet, h \in 0 .. Height(tip) - 1 :
        /\ Height(b) > Height(tip) /\ Height(tip) - h <= RollbackDepth
        /\ Ancestor(b, h) = Ancestor(tip, h) /\ b[h + 1] # tip[h + 1]
        /\ \A g \in h + 1 .. Height(b) : b[g] = b[h + 1]
        /\ tip' = b
    /\ switches' = IF switches = "none" /\ loop.pc \notin {"reindex", "reindexSave"}
                   THEN "one" ELSE "more"
    /\ UNCHANGED <<tables, loopVars, runIndexer, indexerVars, requested, faults>>

-----------------------------------------------------------------------------
\* $updateBlocks: the tip, and where to go on from.
LastHandled ==
    IF memory # -1 THEN memory
    ELSE Highest({Height(tip) - InitialBlocks, -1})
FastForwards == Height(tip) - LastHandled > 2 * InitialBlocks
CheckTip ==
    /\ loop.pc = "idle" /\ LastHandled < Height(tip)
    /\ loop' = [IdleLoop EXCEPT
                 !.pc = "fetch", !.target = Height(tip), !.fast = FastForwards,
                 !.current = IF FastForwards THEN Height(tip) - InitialBlocks ELSE LastHandled]
    /\ runIndexer' = (runIndexer \/ FastForwards)
    /\ UNCHANGED <<nodeVars, tables, memoryVars, indexerVars, requested, faults>>

\* A block that was fast-forwarded to is neither compared nor saved.
FetchBlock ==
    /\ loop.pc = "fetch"
    /\ LET next == IF loop.current = 0 THEN loop.target ELSE loop.current + 1 IN
       loop' = [loop EXCEPT !.pc = IF loop.fast THEN "finish" ELSE "compare",
                            !.current = next, !.block = Ancestor(tip, next)]
    /\ UNCHANGED <<nodeVars, tables, memoryVars, runIndexer, indexerVars, requested, faults>>

Diverges(b) ==
    Height(b) - 1 \in DOMAIN blocks /\ blocks[Height(b) - 1] # Parent(b)
Compare ==
    /\ loop.pc = "compare"
    /\ loop' = IF Diverges(loop.block)
               THEN [loop EXCEPT !.pc = "rollback", !.last = Height(loop.block) - 1]
               ELSE [loop EXCEPT !.pc = "save"]
    /\ UNCHANGED <<nodeVars, tables, memoryVars, runIndexer, indexerVars, requested, faults>>

\* $deleteBlocksFrom, which only logs an error.
DeleteBlocksFrom(h) ==
    \/ blocks' = DeleteFrom(blocks, h) /\ faults' = faults
    \/ /\ "failed deletion" \in Disturbances
       /\ faults < MaxFaults /\ faults' = faults + 1 /\ blocks' = blocks

\* Mutant: only the block found diverged is deleted.
Rollback_DivergedOnly ==
    /\ loop.pc = "rollback"
    /\ DeleteBlocksFrom(loop.last)
    /\ loop' = [loop EXCEPT !.pc = "reindex", !.at = loop.last - RollbackDepth]
    /\ switches' = IF switches = "one" /\ faults' = faults THEN "none" ELSE switches
    /\ UNCHANGED <<tip, reorgs, adjustments, memoryVars, runIndexer, indexerVars, requested>>

Rollback ==
    /\ loop.pc = "rollback"
    /\ DeleteBlocksFrom(loop.last - RollbackDepth)
    /\ loop' = [loop EXCEPT !.pc = "reindex", !.at = loop.last - RollbackDepth]
    /\ switches' = IF switches = "one" /\ faults' = faults THEN "none" ELSE switches
    /\ UNCHANGED <<tip, reorgs, adjustments, memoryVars, runIndexer, indexerVars, requested>>

ReindexNext ==
    IF loop.at = loop.last THEN [loop EXCEPT !.pc = "adjust", !.copy = <<>>]
    ELSE [loop EXCEPT !.pc = "reindex", !.at = @ + 1, !.copy = <<>>]

\* $indexBlock from the lowest deleted height on.  The node has no block below
\* genesis: the exception ends the iteration.
ReindexFetch ==
    /\ loop.pc = "reindex"
    /\ loop' = IF loop.at < 0 THEN IdleLoop
               ELSE IF loop.at \in DOMAIN blocks THEN ReindexNext
               ELSE [loop EXCEPT !.pc = "reindexSave", !.copy = Ancestor(tip, loop.at)]
    /\ UNCHANGED <<nodeVars, tables, memoryVars, runIndexer, indexerVars, requested, faults>>

ReindexSave ==
    /\ loop.pc = "reindexSave"
    /\ blocks' = Insert(blocks, loop.copy)
    /\ loop' = ReindexNext
    /\ UNCHANGED <<nodeVars, adjustments, memoryVars, runIndexer, indexerVars, requested, faults>>

ReindexAdjustments ==
    /\ loop.pc = "adjust"
    /\ adjustments' = IndexedAdjustments
    /\ loop' = [loop EXCEPT !.pc = "deleteLast"]
    /\ UNCHANGED <<nodeVars, blocks, memoryVars, runIndexer, indexerVars, requested, faults>>

\* $deleteLastAdjustment deletes the row of the least time.
DeleteLastAdjustment ==
    /\ loop.pc = "deleteLast"
    /\ adjustments' = Rows(adjustments,
            {h \in DOMAIN adjustments : \E g \in DOMAIN adjustments : g < h})
    /\ runIndexer' = TRUE
    /\ loop' = [loop EXCEPT !.pc = "save"]
    /\ UNCHANGED <<nodeVars, blocks, memoryVars, indexerVars, requested, faults>>

SaveBlock ==
    /\ loop.pc = "save"
    /\ blocks' = Insert(blocks, loop.block)
    /\ loop' = [loop EXCEPT !.pc = "finish"]
    /\ UNCHANGED <<nodeVars, adjustments, memoryVars, runIndexer, indexerVars, requested, faults>>

\* The difficulty adjustment of a retarget block is saved; the database is
\* awaited before the block joins the recent ones.
SaveAdjustment ==
    /\ loop.pc = "finish"
    /\ adjustments' = IF loop.current % RetargetPeriod = 0
                      THEN Insert(adjustments, loop.block) ELSE adjustments
    /\ loop' = [loop EXCEPT !.pc = "push"]
    /\ UNCHANGED <<nodeVars, blocks, memoryVars, runIndexer, indexerVars, requested, faults>>

\* Mutant: the height to go on from is counted up before it is remembered.
FinishBlock_CountsFirst ==
    /\ loop.pc = "push"
    /\ memory' = loop.current + 1 /\ cached' = cached
    /\ loop' = IdleLoop
    /\ UNCHANGED <<nodeVars, tables, runIndexer, indexerVars, requested, faults>>

\* The recent blocks in memory, perhaps a save to the disk cache, and the next
\* block.
FinishBlock ==
    /\ loop.pc = "push"
    /\ memory' = loop.current /\ cached' \in {cached, loop.current}
    /\ loop' = IF loop.current < loop.target
               THEN [IdleLoop EXCEPT !.pc = "fetch", !.target = loop.target,
                                     !.fast = loop.fast, !.current = loop.current]
               ELSE IdleLoop
    /\ UNCHANGED <<nodeVars, tables, runIndexer, indexerVars, requested, faults>>

\* An exception at any await: the iteration is abandoned.
LoopFails ==
    /\ loop.pc # "idle" /\ faults < MaxFaults
    /\ faults' = faults + 1
    /\ loop' = IdleLoop
    /\ UNCHANGED <<nodeVars, tables, memoryVars, runIndexer, indexerVars, requested>>

LoopStep ==
    \/ CheckTip \/ FetchBlock \/ Compare \/ Rollback \/ ReindexFetch \/ ReindexSave
    \/ ReindexAdjustments \/ DeleteLastAdjustment \/ SaveBlock
    \/ SaveAdjustment \/ FinishBlock

-----------------------------------------------------------------------------
\* A request for a block that is not stored.
RequestBlock ==
    /\ "request" \in Disturbances
    /\ faults < MaxFaults /\ faults' = faults + 1
    /\ \E h \in 0 .. Height(tip) \ DOMAIN blocks :
        requested' = requested \cup {Ancestor(tip, h)}
    /\ UNCHANGED <<nodeVars, tables, loopVars, runIndexer, indexerVars>>

SaveRequested ==
    /\ \E b \in requested :
        /\ blocks' = Insert(blocks, b)
        /\ requested' = requested \ {b}
    /\ UNCHANGED <<nodeVars, adjustments, loopVars, runIndexer, indexerVars, faults>>

-----------------------------------------------------------------------------
\* indexer.$run, called at the end of an iteration: the guard, then the node's
\* chain information, then the flags.
StartRun(r) ==
    /\ loop.pc = "idle" /\ runs[r].pc = "idle"
    /\ runIndexer /\ ~indexerRunning
    /\ runs' = [runs EXCEPT ![r].pc = "checking"]
    /\ UNCHANGED <<nodeVars, tables, loopVars, runIndexer, indexerRunning, timers, requested, faults>>

BeginRun(r) ==
    /\ runs[r].pc = "checking"
    /\ runs' = [runs EXCEPT ![r].pc = "list"]
    /\ runIndexer' = FALSE /\ indexerRunning' = TRUE
    /\ UNCHANGED <<nodeVars, tables, loopVars, timers, requested, faults>>

\* The node is behind its own headers: the run returns and is due still.
NotSynced(r) ==
    /\ runs[r].pc = "checking" /\ faults < MaxFaults
    /\ faults' = faults + 1
    /\ runs' = [runs EXCEPT ![r] = IdleRun]
    /\ UNCHANGED <<nodeVars, tables, loopVars, runIndexer, indexerRunning, timers, requested>>

\* $getMissingBlocksBetweenHeights
ListMissing(r) ==
    /\ runs[r].pc = "list"
    /\ runs' = [runs EXCEPT ![r].pc = "index", ![r].todo = 0 .. Height(tip) \ DOMAIN blocks]
    /\ UNCHANGED <<nodeVars, tables, loopVars, runIndexer, indexerRunning, timers, requested, faults>>

IndexFetch(r) ==
    /\ runs[r].pc = "index" /\ runs[r].todo # {}
    /\ runs' = [runs EXCEPT ![r].pc = "indexSave", ![r].block = Ancestor(tip, Highest(runs[r].todo))]
    /\ UNCHANGED <<nodeVars, tables, loopVars, runIndexer, indexerRunning, timers, requested, faults>>

IndexSave(r) ==
    /\ runs[r].pc = "indexSave"
    /\ blocks' = Insert(blocks, runs[r].block)
    /\ runs' = [runs EXCEPT ![r].pc = "index", ![r].block = <<>>,
                            ![r].todo = @ \ {Height(runs[r].block)}]
    /\ UNCHANGED <<nodeVars, adjustments, loopVars, runIndexer, indexerRunning, timers, requested, faults>>

\* $validateChain: the lowest divergence, if any; an error passes for none.
Validate(r) ==
    /\ runs[r].pc = "index" /\ runs[r].todo = {}
    /\ \/ /\ runs' = IF Divergences = {} THEN [runs EXCEPT ![r].pc = "adjust"]
                     ELSE [runs EXCEPT ![r].pc = "delete", ![r].todo = {Lowest(Divergences)}]
          /\ faults' = faults
       \/ /\ faults < MaxFaults /\ faults' = faults + 1
          /\ runs' = [runs EXCEPT ![r].pc = "adjust"]
    /\ UNCHANGED <<nodeVars, tables, loopVars, runIndexer, indexerRunning, timers, requested>>

\* A run ends with a timer for the next one: of an hour, or of ten seconds
\* after a divergence or an exception.
EndRun(r) ==
    /\ runs' = [runs EXCEPT ![r] = IdleRun]
    /\ indexerRunning' = FALSE
    /\ timers' = timers + 1

\* Mutant: the block below the broken link is kept.
DeleteDiverged_KeepsIt(r) ==
    /\ runs[r].pc = "delete"
    /\ \E h \in runs[r].todo :
        DeleteBlocksFrom(h + 1) /\ adjustments' = DeleteFrom(adjustments, h + 1)
    /\ EndRun(r)
    /\ UNCHANGED <<nodeVars, loopVars, runIndexer, requested>>

DeleteDiverged(r) ==
    /\ runs[r].pc = "delete"
    /\ \E h \in runs[r].todo : DeleteBlocksFrom(h) /\ adjustments' = DeleteFrom(adjustments, h)
    /\ EndRun(r)
    /\ UNCHANGED <<nodeVars, loopVars, runIndexer, requested>>

\* The hashrates cannot be deleted: the adjustments stay, and the error passes
\* for a valid chain.
DeletionInterrupted(r) ==
    /\ runs[r].pc = "delete" /\ faults < MaxFaults
    /\ faults' = faults + 1
    /\ \E h \in runs[r].todo : blocks' = DeleteFrom(blocks, h)
    /\ runs' = [runs EXCEPT ![r].pc = "adjust"]
    /\ UNCHANGED <<nodeVars, adjustments, loopVars, runIndexer, indexerRunning, timers, requested>>

RunAdjustments(r) ==
    /\ runs[r].pc = "adjust"
    /\ adjustments' = IndexedAdjustments
    /\ EndRun(r)
    /\ UNCHANGED <<nodeVars, blocks, loopVars, runIndexer, requested, faults>>

\* Mutant: an exception ends the run without a timer.
RunFails_NoRetry(r) ==
    /\ runs[r].pc \notin {"idle", "checking"} /\ faults < MaxFaults
    /\ faults' = faults + 1
    /\ runs' = [runs EXCEPT ![r] = IdleRun]
    /\ indexerRunning' = FALSE
    /\ UNCHANGED <<nodeVars, tables, loopVars, runIndexer, timers, requested>>

RunFails(r) ==
    /\ runs[r].pc \notin {"idle", "checking"} /\ faults < MaxFaults
    /\ faults' = faults + 1
    /\ EndRun(r)
    /\ UNCHANGED <<nodeVars, tables, loopVars, runIndexer, requested>>

\* The timer calls indexer.reindex.
Reindex ==
    /\ timers > 0 /\ timers' = timers - 1
    /\ runIndexer' = TRUE
    /\ UNCHANGED <<nodeVars, tables, loopVars, indexerRunning, runs, requested, faults>>

RunStep(r) ==
    \/ BeginRun(r) \/ ListMissing(r) \/ IndexFetch(r) \/ IndexSave(r)
    \/ Validate(r) \/ DeleteDiverged(r) \/ RunAdjustments(r)

\* The process ends anywhere, an unhandled rejection of $run included, and
\* starts again with the recent blocks of the disk cache, or with none.
Restart ==
    /\ faults < MaxFaults /\ faults' = faults + 1
    /\ memory' \in {-1, cached}
    /\ loop' = IdleLoop
    /\ runIndexer' = TRUE /\ indexerRunning' = FALSE /\ timers' = 0
    /\ runs' = [r \in Runs |-> IdleRun]
    /\ requested' = {}
    /\ UNCHANGED <<nodeVars, tables, cached>>

Next ==
    \/ NodeMine \/ NodeReorg
    \/ LoopStep \/ LoopFails
    \/ RequestBlock \/ SaveRequested
    \/ \E r \in Runs : StartRun(r) \/ RunStep(r) \/ NotSynced(r) \/ RunFails(r) \/ DeletionInterrupted(r)
    \/ Reindex
    \/ Restart

Spec == Init /\ [][Next]_vars

\* Fairness: promises settle, timers fire, and the loop calls the indexer.
FairSpec ==
    /\ Spec
    /\ WF_vars(LoopStep) /\ WF_vars(SaveRequested) /\ WF_vars(Reindex)
    /\ \A r \in Runs : WF_vars(StartRun(r)) /\ WF_vars(RunStep(r))

-----------------------------------------------------------------------------
Table(table) ==
    /\ DOMAIN table \subseteq 0 .. Height(tip)
    /\ \A h \in DOMAIN table : table[h] \in BlockSet /\ Height(table[h]) = h

\* Every variable has its type; a table never holds a block at another height
\* than its own (BlocksRepository.ts:104-187), no height is beyond the node's
\* tip, and the loop never goes beyond the height it started for.
TypeOK ==
    /\ tip \in BlockSet
    /\ Table(blocks) /\ Table(adjustments)
    /\ {memory, cached} \subseteq -1 .. Height(tip)
    /\ loop.block \in BlockSet /\ loop.copy \in BlockSet
    /\ loop.current \in -1 .. Height(tip) /\ loop.target \in -1 .. Height(tip)
    /\ loop.pc # "idle" => loop.current <= loop.target
    /\ runIndexer \in BOOLEAN /\ indexerRunning \in BOOLEAN /\ timers \in Nat
    /\ \A r \in Runs : runs[r].block \in BlockSet
    /\ requested \subseteq BlockSet
    /\ switches \in {"none", "one", "more"}

\* Whatever fails, and whatever calls of $run pass the guard together, the
\* indexer comes back: it is due, or past the point where it cleared the flag,
\* or a timer will make it due (indexer.ts:90-141).
IndexerReturns ==
    runIndexer \/ timers > 0 \/ \E r \in Runs : runs[r].pc \notin {"idle", "checking"}

\* While nobody else writes: after a switch of branch that met a table of the
\* node's chain, no stored block of the new branch is on a block that was left,
\* and the rollback leaves no such block at all, whatever exceptions and
\* restarts interrupt it (blocks.ts:613-641).
OnChain(b) == b = Ancestor(tip, Height(b))
SwitchesSettle ==
    /\ switches = "none" => \A h \in DOMAIN blocks : OnChain(blocks[h])
    /\ switches = "one" =>
        \A h \in DOMAIN blocks : h + 1 \in DOMAIN blocks /\ OnChain(blocks[h + 1]) => OnChain(blocks[h])

\* "Also re-indexed the last difficulty adjustments" (blocks.ts:638): what is
\* left after a rollback belongs to the stored blocks.
AdjustmentsReindexed ==
    [][loop.pc = "deleteLast" /\ loop'.pc = "save" =>
        \A h \in DOMAIN adjustments' \cap DOMAIN blocks : adjustments'[h] = blocks[h]]_vars

\* In the end the table holds exactly the node's chain.
Converges ==
    <>[](blocks = [h \in 0 .. Height(tip) |-> Ancestor(tip, h)])
=============================================================================
