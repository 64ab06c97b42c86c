# Verification of B1tpool

B1tpool is a fork of the mempool.space explorer. Its backend (`src/backend/src`, TypeScript on one Node.js
event loop) follows a Bitcoin node by polling, keeps the mempool and the recent blocks in memory, indexes the
chain in a MySQL database, and pushes changes to browsers. Around it are a worker thread that selects transactions for
the projected blocks, a web frontend that reconnects by itself, and a preview renderer with a pool of browser pages. This directory holds TLA+ models of the parts whose
correctness depends on the order of events, TLC instances that check them, and TLAPS proofs.

Everything runs between two `await`s without interruption. Between them the node moves on, timers fire, HTTP
requests are served, and calls left over from an iteration that threw keep running. That is where the models
put their step boundaries.

## 1. Inventory

| Component | State | Operations | Hard behaviours | What makes it correct |
|---|---|---|---|---|
| Main loop (`index.ts`) | `backendRetryCount`, timers | `runMainUpdateLoop`: list of the mempool, blocks, mempool update, indexer | an exception at any await; the list is older than the blocks | ends up with the node's state; a stale list never undoes a block |
| Block tracking (`api/blocks.ts`) | recent blocks, `currentBlockHeight`, difficulty data | `$updateBlocks`: resume, fast-forward, handle each height | abandoned iterations; reorganisations between requests | no height skipped or kept twice |
| New-block and mempool-change handlers (`api/websocket-handler.ts`) | clients, last messages | `handleNewBlock`, `$handleMempoolChange` | started before the database work and awaited after it; survive the iteration that threw | a block's transactions leave the cache and stay out |
| Mempool (`api/mempool.ts`) | `mempoolCache`, `inSync`, `mempoolCacheDelta`, `mempoolProtection` and its timer | `$updateMempool`, `$setMempool`, `setOutOfSync`, `hasPriority` | one await per fetched transaction, blocks in between; fetches that fail; protection timer | in sync means equal to the node's list; a node that restarts does not clear the cache |
| Replacement cache (`api/rbf-cache.ts`) | two maps of replacements, trees, tree ids, expiries, dirty trees | `add`, `mined`, `evict`, `cleanup`, `remove`, `getRbfChanges`, `dump`, `load` | merges of trees; versions mined or expired in any order; changes between two messages | maps and trees agree; a waiting version keeps its history; nothing is kept for ever; all changes are sent |
| Block store and indexer (`indexer.ts`, `repositories/*`, `api/mining/mining.ts`) | tables `blocks`, `difficulty_adjustments`, `hashrates`, `cpfp_*`, flags `runIndexer`, `indexerRunning`, timers | roll back and re-index, `$indexBlock`, `$generateBlockDatabase`, `$validateChain`, `$indexDifficultyAdjustments` | three kinds of writers of one table against a node that switches branch; failed deletions; double starts | the table converges to the node's chain; the indexer always comes back |
| Disk cache (`api/disk-cache.ts`) | files in chunks, temporary files, a counting lock with waiters | `$saveCacheToDisk` (sync and async), `$loadMempoolCache`, `wipeCache`, `lock`, `unlock` | a kill between two renames; SIGINT during a save; a pause that must end | a load gives one save's data; a waiting save resumes |
| Projected blocks (`api/mempool-blocks.ts`) | projected blocks, deltas, uids shared with a worker thread | `$makeBlockTemplates`, `$updateBlockTemplates`, `processBlockTemplates` | answers matched to whoever listens; uids that diverge after a failure; late events of a dead thread | the worker has the mempool the main thread has; a client's picture follows |
| Selection worker (`api/tx-selection-worker.ts`) | mempool of the thread, scores of packages, overflow list | `makeBlockTemplates`, `setRelatives`, `updateDescendants` | scores that change while the heap holds them; packages that do not fit and come back | each transaction once, after its parents; blocks fit; best package first |
| Pairing heap (`utils/pairing-heap.ts`) | linked nodes | `add`, `pop`, `deleteNode`, `increasePriority`, `decreasePriority`, `meld`, `mergePairs` | links of three kinds, changed in place | a priority queue |
| Unfurler page pool (`src/unfurler/src/concurrency`) | pages, free flags | take, release, replace | slow and failing closes, replacement by two parties | a page serves one job; pages never run out |
| Page's websocket (`websocket.service.ts`) | what was asked, offline flag, timers | `want`, `startTrack...`, reconnection, ping | errors, silence, late pongs, a change of the network | one subscription; what was asked is asked again |
| Lightning explorer (`tasks/lightning`, `api/explorer/channels.api.ts`) | table `channels` | synchronise, scan for closings, forensics, import | three loops over one table, updates in two statements | a closed channel stays closed and is explained |
| Node clients, prices, statistics, pools, REST, user interface, deployment | | | mostly SQL, I/O or sequential | see `PROJECT.json` for the reason each is left out |

Interactions: the loop calls block tracking, then the mempool, then the indexer. Block tracking starts
`handleNewBlock`, which deletes from the mempool's map and marks replacements as mined. The mempool's update
awaits `$handleMempoolChange`, which adds replacements and evicts. The loop, the indexer and `$indexBlock` of
HTTP requests write the same table. Both handlers wait for templates of the worker thread, which they share; block
tracking locks the disk cache and starts its saves. All of them read the node, whose answers age at every await.

The hazards of the code, each at its line, are in `PROJECT.json` with the properties that watch them.

## 2. Plan

Done, in the order of importance:

1. `Mempool` (the mempool under any caller) and `MainLoop` (its caller, with blocks, handlers and faults), checked
   together. Theorems in `MempoolProofs`, `MainLoopProofs`.
2. `RbfCache`, an exit and the load of the next process included. Theorems in `RbfCacheProofs`.
3. `BlockStore` (table, rollback, indexer). Theorems in `BlockStoreProofs`.
4. `DiskCache`: saves, pauses, kills, load. Theorems in `DiskCacheProofs`.
5. `PairingHeap` and `HeapQueue`, which implements the abstract `PriorityQueue`; `TxSelection` on top of the heap;
   `Templates`, the protocol around the selection. Theorems in `HeapQueueProofs` and `TemplatesProofs`.
6. `SocketClient`, `PagePool`, `Lightning`, with theorems in `ServicesProofs`.
7. `MCServices`, the instance that checks 4 to 6 (but for `SocketClient`) and `RbfCache` for one process in one run;
   `MCClients`, the one for `RbfCache` over returns and restarts and for `SocketClient`.

Left for later, in this order:

1. `DiskCache` and `RbfCache` composed: a file of replacements older or newer than the mempool file.
2. `runSingleTask` of the indexer with the prices of blocks; statements that take effect after their timeout.

## 3. Modules and code

**`Mempool.tla`** models `$updateMempool` from its first statement to its return. `BeginUpdate` is the code up
to the first await; `SkipTx`, `FetchOk`, `FetchFailed` are the three outcomes of a turn of its loop;
`FinishUpdate` is everything after the loop (protection, deletion, in-sync test, distance, callback);
`ChangeHandled` is the return of the callback. `ProtectionTimeout` is the `setTimeout`, `RemoveMined` the
deletion by `handleNewBlock`, `IterationFailed` the loop's error path with `setOutOfSync`. `mempoolCache` is
the set of its keys. `MempoolSpec` lets callers do anything the interface permits; the proofs use it, the runs check
the mempool in the loop.

**`MainLoop.tla`** composes it with `runMainUpdateLoop`, `$updateBlocks` and `handleNewBlock`, and with a node
(external) that accepts, evicts, mines and disconnects. `pc` is the position in the iteration.
`handleNewBlock` is a call record with a stage: it waits for the templates of a separate audit (if the
configuration asks for one, `SeparateAudit`), deletes the block's transactions, waits for the mempool
templates, returns. `Fault` is an exception of the loop's own calls: it moves a call in flight to `abandoned`, where it
goes on beside the next iterations. `HandlerThrows` is an exception of `handleNewBlock` itself, which comes out where
the loop awaits the call, that is after the block is stored and remembered: the block is not handled again, and if the
call threw in the audit its transactions stay in the cache until the next updates delete them. From height 0
the loop jumps to the tip (`blocks.ts:589`), and far from the tip it fast-forwards; both are in the model. The history
variables `followedFrom`, `rawHeight`, `replaced` (heights of blocks the node disconnected after the loop had fetched
them) and `spared` (transactions of blocks whose handler threw in the audit) only serve the properties. A call of
`handleNewBlock` that throws when nobody awaits it any more (or not yet) is an unhandled rejection, which ends a
process of Node.js from version 15 on; that end is not modelled.

**`RbfCache.tla`** has the fields of the class as one record and its methods as operators on it: `Add`,
`Mined`, `Evict`, `RemoveVersions`, `RbfChanges`. Its actions are the callers: a mempool update
(`UpdateMempool`), the uninterrupted part of the change handler (`HandleRbf`, `SendChanges`), a mined
transaction, and the cleanup timer. A transaction is a number that stands for its fee; `Conflicts` says
which pairs spend a common input. A tree is a function from paths to nodes, and the versions that `remove` collects
are the least set closed under `replaces`: nothing is recursive, so that the module can be proved about.
`Restart` is a SIGINT (`Export` is the dump) with the start of the next process, blocks found in between included.
`load` then waits for the node's answer to one transaction at a time. The calls of `importTree` are a stack. `LoadStep`
(`ImportTree`, `ImportChild`, `ImportReturns`, `LoadEnds`) are the parts of `load` and `importTree` that nothing
interrupts, so while one is possible (`LoadRuns`) no other action is; `ImportTx` is an answer of the node. Mempool
updates and blocks run between two requests. A load is over before the first cleanup, which comes ten minutes after the start, and the two files are those
of the exit. `TxMined` handles the blocks mined while no process ran.

**`BlockStore.tla`** has the tables as functions from heights to blocks, a block being the sequence of branch
labels that leads to it. `CheckTip` to `FinishBlock` are the database part of `$updateBlocks`: comparison with
the stored parent, rollback, re-indexing block by block, difficulty adjustments, save. `SaveAdjustment` is the insert
of the retarget, which is awaited before the block joins those in memory (`FinishBlock`). `StartRun` to `EndRun`
are `indexer.$run` with the flags on both sides of its first await. `RequestBlock`/`SaveRequested` are
`$indexBlock` called by a request. `Insert` ignores a taken height as `ER_DUP_ENTRY` does; the schema is not
in the repository, so one row per height is read off the handling of that error. Failures are actions: an
exception in the loop, an exception in a run, a deletion that is only logged, a hashrate deletion that makes
`$validateChain` report a valid chain, a node that is not synchronised, and the end of the process. The last
one includes a rejection at `indexer.ts:98`, which nothing handles.

`MainLoop` leaves the database out and `BlockStore` the mempool: the store's results are read by neither
`handleNewBlock` nor `$updateMempool`, and an exception of the database work is `Fault` in `MainLoop`.

**`DiskCache.tla`** has one save at a time as a record with its stage (`wait` in `$yield`, `write`, `written`,
`rename`), the index of the file it is at, and what it took from memory. `StartSave` is the code before the first
await: it takes the mempool. `WriteFile` and `FileWritten` are the two ends of a `writeFile`, so that a kill can fall
between them; `RenameFile` is one rename. The file of the replacements has the index after the chunks. `Proceed` is the
end of either `try` block, which a failure reaches too (`SaveFails`). `Sigint` saves synchronously unless a save is in
progress, in which case the process ends with that save half done. `BeginBlocks`, `HandleBlock`, `EndBlocks` and
`EndIteration` are the parts of the main loop that lock, start saves and unlock, once more than they lock. Kills are
at any step. `kept` and `interrupted` are histories for `RestoredIsSaved`.

**`PairingHeap.tla`** has the methods of the class as operators on a record of the links, the comparator as a
parameter. The two loops of `mergePairs` are turns (`MergeTurn`) of one state: the siblings left, the pairs, which the
code chains by `prev`, as a sequence, and the melded heap. **`HeapQueue.tla`** uses them as the selection does and is
shown to implement **`PriorityQueue.tla`** under the mapping of the queue to the nodes in the heap, which `LinksAgree`
says are those that the root leads to.

**`TxSelection.tla`** is `makeBlockTemplates` with one action per turn of its loop. A mempool is chosen at
`BeginSelection`, with the relatives and scores that `setRelatives` gives it. `NextTx` chooses between the sorted
array and the heap, `Include` adds a package and applies `updateDescendants` (`DropRoot`), `EndTurn` closes a block and
puts the overflow back. Packages are assumed to fit an empty block, as the node's relay policy makes them.

**`Templates.tla`** has the main thread with its uids, the worker threads with their inbox and the events they sent,
and the calls that wait. One message resumes every call that listens, as `once` handlers do. A block handler may be
left behind by an exception (`LeaveBehind`) and then overlaps with later calls. `WorkerThrows` sends 'error' and
'exit', which arrive separately. One client tracks a block, at any time, and applies the deltas it is sent (`Tell`). A
handler may throw after the templates were updated and before the sends (`CallsReturn`): `add` of the replacement cache
is called between the two. The deltas are then lost to the client, as they are when one message ends two calls and the
second overwrites them; `untold` is the history of that, until the client asks for its block again. The selection itself is
replaced by a fixed rule: the greatest transactions first. With a separate audit only one of the two threads of use
exists, so `saveResults = false` is left out.

**`SocketClient.tla`** is the page's websocket service with the fields that the server keeps for its connection.
Subscriptions and retry timers are counted. External are the websocket of rxjs (a queue before the connection opens,
an error to each subscription, nothing after `complete`) and the network, which breaks with an error or goes silent.
An address, an asset or the replacements that a component follows (`Follow`, `Unfollow`) are sent and no record is kept.
After the first message on a new connection (`ReceiveAnswer`) the service asks again for what it has a record of
(`Resubscription`), and the components of addresses and assets fetch what they show and ask again (`AskAgain`) unless
that fails (`AskAgainFails`); an asset's component is deaf after a failure, since the error ends its subscription.
`dropped` is the history of what nobody asks again, the replacements first of all.

**`PagePool.tla`** has the pool's array, the free pages and a stage for each worker. The cluster library is external:
a close that fails or takes too long is followed by a repair of the worker with the page of its last job; the late
close goes on (`overdue`). `init` gives the pages their numbers.

**`Lightning.tla`** follows the rows of `channels`: `SyncStarts` to `SyncEnds` are one run of the synchronisation with
its scan and the forensics of new channels, `Reexamine` the forensics of unresolved ones, `ImportSaves` the historical
import. The forensics need the esplora backend, which the module assumes. The outputs of a closing transaction are spent
one by one (`NewBlock`), and the forensics judge from those that are spent when they look (`Verdict`): a first ordinary
lightning script stores a force close as resolved (`Resolves`), and nobody looks again. `Examined` is a look: the
transaction of an output may not be had, which leaves its script out, and the second of the two updates may fail.
`ScanIsCut` is such a failure in the scan.

**`MCServices.tla`** is the instance for disk cache, heap, selection, templates, page pool, Lightning (`MCLightning`)
and the replacement cache of one process. They share no state, so a behaviour is one of one component: `part` says
which, the others stay in their initial states (`In<Part>`). The state space is the sum of theirs, not the product, and
each property is checked exactly as in a run of its component. **`MCClients.tla`** does the same for the replacement
cache with returns and restarts and for the websocket: what pages are told, from both ends.

## 4. Runs

| Run | Checks | Bounds |
|---|---|---|
| `main_loop` | `TypeOK`, `ProtectionHasTimer`, `ClearIsDelayed`, `InSyncIsExact`, `MinedNeverEvicted`, `MinedStaysOut`, `BlocksAreConsecutive` | 2 transactions, symmetric; protection above 1 of them at 80%, so both sides of both thresholds occur; tip up to 4 with 1 initial block (fast-forward needs 3 behind), 2 mempool events, 1 exception, audit separate |
| `main_loop_live` | `CatchesUp` | 1 transaction, which a clear protection protects; tip up to 2, a reorganisation of one block, 2 mempool events, an exception; no separate audit |
| `in_sync_notice` | `InSyncNotice`, violated | 3 transactions, no blocks |
| `clients` | replacements: `ChangesAreTold`, `AddFindsTrees`, `TreesAgree`; websocket: `SubscribedOnce`, `SessionFollows` | 3 versions of one payment, which compete with one another, one return after eviction, one exit and load; 2 topics, a transaction, a block, an asset (which covers what an address may do) and the replacements, 2 requests, 2 failures of a connection, one change of the network |
| `rbf_newer_version` | `NewerVersionKept`, violated | 3 transactions, one replaced by two others at once, no return and no exit |
| `rbf_tree_left` | `TreesGoWithTheirIds`, violated | the same with one exit and load |
| `block_store` | `TypeOK`, `SwitchesSettle` | heights 3 to 6, rollback depth 3, three reorganisations, an exception or restart, no other writer |
| `block_store_live` | `IndexerReturns`, `Converges` | heights 0 to 3, rollback depth 1, one reorganisation, one failure of any kind, indexer and request |
| `services` | the 13 invariants and 8 temporal properties of the seven components, see below | see below |
| `greedy_choice` | `BestFirst`, violated | one mempool of 6 transactions in two families, blocks of 9 units |
| `adjustments_reindexed` | `AdjustmentsReindexed`, violated | tip 4 to 5, retarget every 2 blocks, one reorganisation |
| `penalties_missed` | `PenaltiesAreFound`, violated | one channel closed by a revoked commitment with two outputs, no failure |

What `services` checks, and its bounds:

| Component | Properties | Bounds |
|---|---|---|
| Disk cache | `DiskTypeOK`, `FilesAreWhole`, `PausedOnlyByBlocks`, `RestoredIsSaved`, `SaveEnds` | 3 transactions in 2 chunks (a remainder of 1), one block, 2 saves, one end of the process, 2 networks |
| Pairing heap | `LinksAgree`, refinement `ImplementsQueue` | 4 elements, 3 priorities, no bound on the operations |
| Selection | `EachOnce`, `ParentsNotLater`, `BlocksFit`, `ScoresAreCurrent` | 4 transactions in 5 shapes of dependencies, 3 fees, 2 weights, 3 blocks of which the last is unbounded |
| Templates | `WorkerInStep`, `BlocksAreOfMempool`, `ViewFollows`, `TemplatesCome` | 2 transactions, 3 calls, one death of the worker, one handler that throws before it tells, one left behind |
| Page pool | `PagesNeverRunOut`, `PageIsOfOneJob` | 2 workers, 5 pages, 2 failures or time-outs |
| Lightning | `ClosedStaysClosed`, `ClosingsAreExplained` | 2 channels (a penalty with two outputs and a forced closing with one; no mutual closing), one import, one failure, dropped output or restart |
| Replacement cache | `NewerVersionKept`, `Forgotten` | 4 transactions: two payments, one that replaces both, one that competes with all; one process, no returns |

Two chunks are the least that a kill can separate; three calls the least that leave one behind, overlap with it and
make another alone; four transactions the least in which a descendant is re-scored while another one waits.

Why the bounds are enough: every action and every disjunct fires; every property has a mutant of the code
(operators named `X_Something` beside `X`) that its run refutes; one exception suffices to leave a handler
behind, one more block to show what it does. Scaled constants (80 % of 2, a period of 2 or 4, a depth of 1 or
2) keep the comparisons of the code. Symmetry is used in `main_loop`, over interchangeable transaction
ids, and in no liveness run. `BlockStore` distinguishes one label (`MainBranch`), so no symmetry is used there.
Deadlock is checked in the main-loop runs, whose system never stops. The others say
`CHECK_DEADLOCK FALSE`: with all bounds used up and nothing pending, they rightly stop.

`block_store_live` has one call of `$run` at a time. With two, each double start leaves one more timer, the
timers accumulate without bound, and TLC has no finite graph to explore; that the indexer comes back in that
case too is what `IndexerComesBack` proves.

`SwitchesSettle` is about the loop alone and is checked without other writers: an indexer or a request that
fetched a block before a reorganisation may save it between the rollback's deletion and its re-indexing, and
then linked blocks come only with the next validation. `Converges` is the claim for all writers together. The history
variable `switches` says how many switches of branch the loop has not rolled back. With `"none"` the table is of the
node's chain; with `"one"` no stored block of the new branch is on a stored block of the left one, so that comparing
one block with its parent's height is enough to find the divergence, and ten blocks are enough to delete it. With
`"more"` nothing is claimed, and nothing could be: a process that resumes near the tip leaves a gap over left blocks
which the rollback starts above; an exception while it re-indexes, or a switch then, leaves blocks of both branches side
by side. "Once the tip is handled, stored neighbours are linked" is therefore not a property of this code (the proof
failed on it, and larger instances refute it); `$validateChain` repairs the table later, which is `Converges`.

### Fairness

* `MainLoop`: weak fairness of the loop's own steps, of an awaited handler and of the timer, since promises
  settle and timers fire on a running event loop; an exception is fair only when the block asked for is gone,
  because then the request does fail. Strong fairness of successful fetches: no transaction the node knows
  fails for ever.
* `RbfCache`: weak fairness of the change handler's steps and of `cleanup`, a `setInterval`. `Forgotten` is
  checked for one process, without an exit; after one, the tree of `rbf_tree_left` is not forgotten anyway.
* `DiskCache`: weak fairness of file operations and of the main loop while the process lives. `HandleBlock` and saves
  need not come.
* `Templates`: weak fairness of the worker and of the delivery of its events. It may die at a request, in which case
  the events are its death.
* `SocketClient`: weak fairness of connecting, of messages, of timers and of the end of a fetch, which may be a
  failure; the server pushes its rates or indicators now and then, since it may ignore an `init` (when it has no blocks
  yet), and only a message tells the page that it is back. Connections need not last; only the number of failures is
  bounded.
* `Lightning`: weak fairness of the two loops and of blocks; there is always a next block, which starts the next scan.
  Nothing is assumed of the import.
* `BlockStore`: weak fairness of the loop, of each run's steps, of the timer and of a pending save. `StartRun`
  is fair because every iteration ends with `indexer.$run()`. Nothing is assumed of the node, of requests or
  of failures.

### What the runs showed

* **The in-sync notice counts.** `$updateMempool` compares lengths (`mempool.ts:224`). Outside the clear
  protection equal lengths do mean equal sets (`InSyncIsExact`, proved). Under it, a transaction kept and a
  fetch that failed cancel out, and the notice is logged with the cache different from the node.
* **A newer version can lose its history.** With a transaction replaced by two others in one update, `remove`
  asks whether the expiring transaction itself was replaced, which the nesting made by `add` does not record.
  The older version expires while the other replacement waits.
* **A restored tree is never removed.** `add` gives a tree the id of a replaced transaction, and `remove` looks for
  the ids of replaced transactions only. `importTree` gives a restored tree the id of its newest version. When that
  expires, its transactions and their tree ids go, and the tree stays in `rbfTrees` while the process lives, where nothing
  finds it any more. It is still written at the next exit; the load after that drops it, since its transactions are no
  longer in `txs` (`rbf-cache.ts:317-320`).
* **Last means oldest.** `$deleteLastAdjustment` deletes the row of the least time, after
  `$indexDifficultyAdjustments` has skipped every indexed height. A reorganisation across a retarget keeps the
  adjustment of the replaced block and drops the oldest one.
* **A penalty can pass for a force close.** The forensics judge a closing from the outputs that are spent when they
  look. If an ordinary lightning output goes first, the force close is stored as resolved (`forensics.service.ts:116`,
  138-140), `$getUnresolvedClosedChannels` leaves the channel out, and the revocation that is spent later is not seen.
* **Greedy but for the overflow.** A package that did not fit waits outside the heap without a node. If one of its
  ancestors is used meanwhile, `updateDescendants` adds it; when the block is closed it is added again
  (`tx-selection-worker.ts:185`). One of the two nodes is never moved when the score changes, and a package of a lower fee
  rate is then taken before a better one that would fit, against the comment at line 82. Still each transaction is
  in one block, after its parents (`EachOnce`, `ParentsNotLater`).

Exceptions that the properties state, each a hazard in `PROJECT.json`:

* `CatchesUp`: the loop compares heights, so a block that replaces one it had fetched, at the same height, is never
  handled (`replaced`). `MinedStaysOut`, `MinedNeverEvicted`: the transactions of a block whose handler threw in its audit
  (`spared`).
* `RestoredIsSaved`: a save that ended between two of its renames leaves a mixture of two saves (`~interrupted`). It
  compares with the blocks as the save read them, which may be newer than the mempool of the same save.
* `BlocksAreOfMempool`: overlapping calls for templates may leave blocks that are not the mempool's, until a call is
  made alone (`overlapped`). `ViewFollows`: a change of the projected blocks that no handler told, because it threw or
  because two calls ended at one message, is missing in the client's block until the client tracks it again (`untold`).
* `SubscribedOnce`: a change of the network while a retry is due leaves two subscriptions (`~switchedOffline`).
  `SessionFollows`: after a change of the network nothing is asked again until components do (`~switched`); the
  replacements followed on a connection that was lost are not asked again, nor an address or an asset whose fetch failed
  (`dropped`).
* `ClosingsAreExplained`: a channel whose closing transaction was not written is never explained (`cut`), and a penalty
  may be resolved too early, as `penalties_missed` shows. `ClosedStaysClosed`: the import may reopen a channel
  (`importing`).

`TreesAgree` and `AddFindsTrees` are claimed of an `Undisturbed` process. Each of its three conditions is needed:

* No exit (`restarts = 0`). A load fills `treeMap` child by child and stores the tree at the end: with four
  transactions (1 and 2 replaced together by 3, then 1 back in the mempool, an exit, and 4 replacing 1 before 2 is
  answered) `add` finds a tree id without a tree and throws at `rbf-cache.ts:74`, and a root that is replaced before its
  own import loses the new version when the import overwrites the tree.
* No return (`returns = 0`). A version that was replaced, comes back and is replaced again brings its tree along: the
  first replacement, the root until then, is nested below the second without an entry in `replacedBy`.
* Versions compete (`VersionsCompete`): transactions that may replace the same one conflict with each other, so that no
  update replaces one by two. Otherwise two trees are nested in a way that no map tells. With seven
  transactions (1 replaced by 2 and 3 in one update, 2 by 4 and 5 in the next) the trees nest as 5, 4, 3, 2, 1. Once 4 is
  mined and expires it takes 3 from the maps, which still waits; 7 replaces 5 and expires with the whole tree, whose id
  `treeMap` still gives for 3; when 6 replaces 3, `add` throws, without a return or an exit.

What is restored or changed is told in every case (`ChangesAreTold`).

Seen while modelling, within what the properties allow: blocks in memory are not rolled back by a
reorganisation; a fast-forward and the jump from height 0 leave holes in the table until the indexer fills
them; a rollback within ten blocks of genesis throws at the first negative height and the iteration after it
finds no divergence any more.

## 5. Proofs

| Theorem | Module | Statement |
|---|---|---|
| `MempoolTypeCorrect` | `MempoolProofs` | `MempoolSpec => []MempoolTypeOK` |
| `ProtectionTimerCorrect` | | `MempoolSpec => []ProtectionHasTimer` |
| `ClearDelayed`, `InSyncExact` | | the two action properties |
| `TypeCorrect` | `MainLoopProofs` | `Spec => []TypeOK` |
| `BlocksAreConsecutiveCorrect` | | `Spec => []BlocksAreConsecutive`, with reorganisations and faults |
| `MinedStaysOutCorrect`, `MinedNeverEvictedCorrect` | | under `MaxReorgs = 0`, `Spec => []...` |
| `DiskInvAlways`, `DiskTypeCorrect`, `FilesAreWholeAlways`, `PausedOnlyByBlocksAlways` | `DiskCacheProofs` | the inductive invariant, and the three invariants, for every number of chunks |
| `RestoredIsSavedAlways` | | the action property, for every number of chunks, saves, faults and ends of the process |
| `ChangesAreToldAlways` | `RbfCacheProofs` | `Spec => []ChangesAreTold`: any transactions and conflicts, returns, exits and loads |
| `TreesAgreeAlways`, `AddFindsTreesAlways` | | the two invariants, for every set of transactions |
| `NewerVersionKeptAlways`, `TreesGoWithTheirIdsAlways` | | `Spec /\ []Undisturbed => ...`, the two action properties |
| `LinksAgreeAlways` | `HeapQueueProofs` | `HeapSpec => []LinksAgree`, for any elements and priorities |
| `ImplementsQueueAlways` | | `HeapSpec => ImplementsQueue`: the heap is a priority queue |
| `SubscribedOnceAlways` | `ServicesProofs` | `ClientSpec => []SubscribedOnce` |
| `PagesNeverRunOutAlways`, `PageIsOfOneJobAlways` | | the two invariants of the pool, for every number of workers |
| `ClosedStaysClosedAlways` | | the action property of the channels, for every set of channels |
| `WorkerInStepAlways`, `BlocksAreOfMempoolAlways`, `ViewFollowsAlways` | `TemplatesProofs` | the three invariants, for every set of transactions, any overlap of calls and any deaths of the worker |
| `StoreTypeCorrect` | `BlockStoreProofs` | `Spec => []TypeOK`, for every number of branches, heights and writers |
| `SwitchesSettleAlways` | | under `Runs = {}` and `Disturbances = {}`, `Spec => []SwitchesSettle`, for every rollback depth and height |
| `IndexerComesBack` | | `Spec => []IndexerReturns`, for every set of concurrent runs |

They hold for every set of transactions, every threshold and every bound, from the named assumptions of the
modules: the set of transactions is finite, constants are numbers in their range.

*Mempool.* The type invariant and the timer invariant are inductive. `InSyncExact` rests on a fact about
finite sets: outside the protection the cache is a subset of the report, and a subset of equal cardinality is
the whole.

*MainLoop.* `MinedStaysOut` is not inductive: whether an update may put a transaction back depends on the list
it was given, long before. `LoopInv` in `MainLoop.tla` collects what is needed: `ListIsFresh` (the list has
nothing of the chain the node had when it gave it), `HeightsAreOrdered` (list, tip and recent blocks were seen
in this order), `PositionIsKnown` (which blocks the iteration has followed), and where each handler's
transactions are. Each action has a lemma. `BlocksAreConsecutive` needs `RowInv` (`MainLoopProofs`): the block at hand
continues the row in memory or starts a new one, whatever jump or abandoned iteration came before. It needs no
hypothesis on reorganisations. For the other two, the hypothesis `MaxReorgs = 0` is essential: a disconnected block
returns its transactions to the node's mempool, and they should come back. A handler that throws in its audit leaves its
transactions to `spared`, and every part of `LoopInv` that speaks of followed blocks is about the others. That what is
proved of `Mempool` holds in the loop follows from its definitions: each action of the loop takes one action of the
mempool's interface or none (the lemma `ImplementsMempool`).

*BlockStore.* `StoreInv` is the type invariant with what makes it inductive: every stored block is one of a chain the
node has had, at its own height, and so are those in the hands of the loop, of runs and of requests. That a least or a
greatest height exists (`LeastExists`) would be an induction; it is taken from the well-foundedness of inclusion on the
subsets of an interval. `SettleInv` says what `switches` stands for. With `"none"` (`Settled`) everything stored, and
what the loop holds, is of the node's chain, so nothing diverges. With `"one"` (`Unsettled`) the left blocks lie within
the rollback depth of each other (`StaleIsShallow`), and a block fetched before the switch fits on the left ones and is
above every stored block of the new branch (`StaleFits`): it can be saved, but never between the two branches. The block
below a divergence is then a left one, and everything left is within the ten blocks deleted. The hypothesis
`Runs = {} /\ Disturbances = {}` is the scope of the property, as in its run; exceptions, restarts and reorganisations
are not restricted. `IndexerReturns` needs of `StoreInv` the shape of a run's record. The step that matters is the one of a run that returns early (`NotSynced`) while another one cleared the flag: it was not past the guard,
so the invariant never counted on it.

*DiskCache.* `FilesAreWhole` needs to know which temporary files of the save under way are written: `WholeSoFar` says
that those below its index are (all of them while it renames), `NotYetSaving` that no save exists while the process
starts. `PausedOnlyByBlocks` needs that a lock is held exactly in the loop's block phase (`Paused`), so that the second
unlock of an iteration finds zero and its clamp matters. `Budget` bounds what is left in the shuffled array by the
chunks still to come, which is why the rounded-down size always leaves enough for the next chunk.
`RestoredIsSaved` relates a load to a save that may have ended several processes before. `FilesInv` carries it:
`SaveIsInParts` says that what the save took at its start is in its parts, temporary or renamed, and in the rest, and
counts the rest, so that after the last part fewer transactions than parts are left out; `FilesHoldSave` that outside
the renames, and unless they were interrupted, the final files are those of the save in `kept` or the first of them is
missing, which is all that `WipedFirst` needs of a wipe that was killed; `LoadedIsSaved` that the memory of a loading
process is what the files held. Readable files are all files there are, by `FilesAreWhole`.

*Templates.* What the worker holds means nothing by itself while requests are under way. `WorkerWillBeInStep` follows
them: the thread, when it has read its requests one after the other (`Reaches`), comes to hold `Numbers`, the numbers of
all the main thread has told. It needs `NumbersMean` (each told transaction has one number, which `uidMap` gives back to
it) and `CallsForget` (what waiting calls will remove from `uidMap` are no numbers of the mempool, so a late answer
forgets nothing that is in use; only the call that the loop waits for has anything to remove, so a call left behind
cannot). `DeathIsTold` keeps a dead thread from being taken for a living one at rest. `CallsAlone` lists, for calls that
do not overlap, all that can be between the one worker and the main loop, and makes the projected blocks those of what
was told; it is re-established after an overlap by `AtRest`. `ViewInv` adds that the deltas of last time
fit the blocks they led to, so that telling them again changes nothing, and that the client's block is the projected
one unless a change was told to nobody. A step that processes an answer changes blocks and deltas and ends every call
that listens: `BlocksTold` is the step with new blocks, which one handler tells or else `untold` notes, `ToldAgain` the
one after a failed call, in which blocks and deltas are as before. No condition on overlaps or deaths is needed. That an interval of numbers is one to one with
the transactions (`Ranks`) is counted with the library's theorems on cardinalities.

*RbfCache.* `ChangesAreTold` needs no hypothesis. Every operation on the cache `Marks` the trees it changes (those not
dirty afterwards are as before), and so does each step of a load; only `SendChanges` clears the marks, and it tells the
marked trees first. For the rest, `CacheOk` is the story of the maps and the trees: a tree has the transactions that
`treeMap` gives to it, all but the root were replaced, the parent of each node has it in `replaces`, and the id of a tree
is one of its older versions. `RbfInv` adds how the cache stands to the mempool and the change under way (`Orderly`):
what was replaced, deleted or expires has left the mempool, and what the change replaces was not replaced before (`Gone`);
the new transactions were never seen and do not conflict with one another (`NewOnes`). `VersionsCompete` is used once, where a change handler has
new transactions left: those replace none that the one at hand replaced. The lemma that matters for `remove` is
`VersionsAreTheTree`: what `replaces` reaches from the newest version is exactly its tree, because the shortest path to a
node outside would lead to a parent outside (`ParentsFirst`, by the least length instead of an induction). `TreesAgree`,
`AddFindsTrees` and both action properties follow; only `cleanup` takes a transaction out (`OnlyCleanupForgets`).
`rbf_newer_version` and `rbf_tree_left` show that the two action properties fail without the hypothesis.

*HeapQueue.* `HeapInv` says that there are a parent and a position among its siblings for each node that fit all links
(`Forest`), and that every parent precedes its children (`Ordered`). Each way to change links has a lemma: linking one
tree below another, cutting off the first child or any node, adding and removing a root. What a recursive argument would
give follows from finiteness: a node without first child is nobody's parent (`Childless`, by the leftmost of its
children), and a set of nodes that has every parent in it is empty (`NoOrphans`, since one of them precedes the others).
So the root precedes everything (`RootFirst`), and child and next reach everything (`AllReached`). Within `mergePairs`,
`MergeInv` has the siblings that are left still below their parent, as if the next were its first child, and the pairs as
trees of their own; each turn leaves less to do (`Left`), so two turns for each node are enough. A change of score
may break the order only at the node itself: below it when it falls, above it when it rises; the operation chosen for
each direction is the one that mends it.

*SocketClient.* The number of subscriptions and retries is not inductive by itself: a late pong adds a retry, and it
does so only when the page is not offline already. `SubscriptionInv` says that without a
connection one retry is due and the page knows that it is offline, and that with one no retry is due.

*PagePool.* `PagesNeverRunOut` compares cardinalities. `TakenIsHeld` says that the page of every taken index is held
by a worker that is not idle, and different indexes by different workers; this injection of the taken indexes into the
workers gives the inequality, whatever pages were replaced twice. `HeldIsNotFree` gives `PageIsOfOneJob`.

*Lightning.* Inductive for the channels left in a step: those to save were not closed when it began, and nothing
closes a channel between.

Only model-checked: liveness (`CatchesUp`, `Forgotten`, `Converges`, `SaveEnds`, `TemplatesCome`, `SessionFollows`,
`ClosingsAreExplained`), and `TxSelection` (`EachOnce`, `ParentsNotLater`, `BlocksFit`, `ScoresAreCurrent`). The
graph of a mempool is walked by a recursive operator, and what it returns for every input is an induction over data,
which the installed provers cannot make. Every other invariant and action property of the passing runs is a theorem; `NewerVersionKept` is one under `[]Undisturbed`, which
always holds of the instance in `services`.

## 6. Not modelled

Contents of transactions and blocks, fee statistics, messages to clients other than the changes of a projected block,
progress and logging; full-RBF flags and the lists made from the trees; the simple projection of blocks (`updateMempoolBlocks`), the effective rates and clusters that
the worker returns; pools, prices, hashrates, summaries and CPFP tables (each is filled by the same pattern of missing
rows as the blocks); a kill that leaves the two cache files of different moments; `$setMempool` beyond its assignment; the pauses of the indexer for `hasPriority`;
`INDEXING_BLOCKS_AMOUNT` other than -1; statements that take effect after their timeout was reported; nodes, policies
and opened channels of the Lightning explorer; a websocket that the server closes in order; the end of the process by
an unhandled rejection of a new-block handler; a browser task that outlives its job. Most of the repository is user interface, SQL queries, REST routes and vendored libraries,
which have no order of events to get wrong; they are listed in `PROJECT.json` with the reason.
