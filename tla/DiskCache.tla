----------------------------- MODULE DiskCache -----------------------------
(***************************************************************************)
(* The cache on disk: src/backend/src/api/disk-cache.ts, with the parts of *)
(* index.ts and api/blocks.ts that lock it, start a save and load it.      *)
(*                                                                         *)
(* A save writes the mempool in ChunkFiles files, the first with the       *)
(* recent blocks, under temporary names and renames them when all are      *)
(* written; the replacements follow in a file of their own.  A save        *)
(* started by a block runs beside the main loop and pauses while the loop  *)
(* handles blocks.  SIGINT and the load save synchronously.  The process   *)
(* may be killed between any two file operations.                          *)
(*                                                                         *)
(* Abstracted: transactions are values, the recent blocks are the height   *)
(* of the last one, network and schema version are one value `network`,    *)
(* the dump of the replacements has no content.                            *)
(***************************************************************************)
EXTENDS Integers, FiniteSets, FiniteSetsExt

CONSTANTS
    Txs,         \* transactions
    Mempools,    \* bound: sets of them that the mempool may be
    Networks,    \* values of config.MEMPOOL.NETWORK, with the schema version
    ChunkFiles,  \* CHUNK_FILES
    MaxHeight,   \* bound: blocks handled
    MaxSaves,    \* bound: saves started
    MaxExits     \* bound: ends of the process

ASSUME DiskCacheAssumption ==
    /\ IsFiniteSet(Txs) /\ Mempools \subseteq SUBSET Txs /\ {} \in Mempools
    /\ Networks # {}
    /\ ChunkFiles \in Nat \ {0, 1}
    /\ MaxHeight \in Nat /\ MaxSaves \in Nat /\ MaxExits \in Nat

VARIABLES
    phase,        \* of the process: see Phases
    network,      \* its configuration
    ignoreBlocks, \* ignoreBlocksCache
    mempool,      \* mempoolCache
    height,       \* of the last block in memory, 0 without blocks
    loop,         \* where runMainUpdateLoop is
    locks,        \* semaphore.locks
    waiters,      \* semaphore.resume: how many saves wait
    writing,      \* isWritingCache
    save,         \* the save under way
    tmp, files,   \* temporary and final files
    read,         \* what $loadMempoolCache has read
    saves, exits, \* counters for the bounds
    kept,         \* history: what the last save whose files are all renamed held
    interrupted           \* history: a save ended between two of its renames, and none since was complete

process == <<phase, network, ignoreBlocks>>
memory == <<mempool, height>>
semaphore == <<locks, waiters>>
disk == <<tmp, files>>
history == <<kept, interrupted>>
diskVars == <<process, memory, loop, semaphore, writing, save, disk, read, saves, exits, history>>

Phases == {"down", "starting", "wiping", "loading", "resaving", "running", "exiting"}
Chunks == 0 .. ChunkFiles - 1
Rbf == ChunkFiles   \* index of the file of the replacements
FileIds == Chunks \cup {Rbf}

NoFile == [whole |-> TRUE, there |-> FALSE]
Content(txs, blocks) ==
    [whole |-> TRUE, there |-> TRUE, txs |-> txs, blocks |-> blocks, network |-> network]

NoSave == [stage |-> "none", sync |-> FALSE, at |-> 0, rest |-> {}, size |-> 0,
           txs |-> {}, blocks |-> 0]
NoRead == [txs |-> {}, blocks |-> 0]

Empty(F) == [i \in F |-> NoFile]

DiskInit ==
    /\ phase = "down" /\ network = (CHOOSE n \in Networks : TRUE) /\ ignoreBlocks = FALSE
    /\ mempool = {} /\ height = 0 /\ loop = "idle"
    /\ locks = 0 /\ waiters = 0 /\ writing = FALSE /\ save = NoSave
    /\ tmp = Empty(FileIds) /\ files = Empty(FileIds)
    /\ read = NoRead /\ saves = 0 /\ exits = 0
    /\ kept = NoRead /\ interrupted = FALSE

-----------------------------------------------------------------------------
(* $saveCacheToDisk *)

Locked == locks # 0

\* "Saving cache already in progress. Skipping."
MaySave == ~writing

\* The part up to the first await, when no save is in progress: the mempool is
\* taken now, the blocks when the first file is written.  An asynchronous save
\* waits in $yield when the cache is locked.
StartSave(sync) ==
    /\ saves < MaxSaves
    /\ saves' = saves + 1
    /\ writing' = TRUE
    /\ save' = [NoSave EXCEPT
                 !.stage = IF ~sync /\ Locked THEN "wait" ELSE "write",
                 !.sync = sync, !.rest = mempool, !.txs = mempool,
                 !.size = Cardinality(mempool) \div ChunkFiles]
    /\ waiters' = waiters + (IF ~sync /\ Locked THEN 1 ELSE 0)

\* writeFile of the next temporary file: truncated first, its content fixed.
\* The mempool array is shuffled: which part of the rest is a chunk does not
\* matter.
WriteFile ==
    /\ save.stage = "write"
    /\ IF save.at = Rbf
       THEN tmp' = [tmp EXCEPT ![Rbf] = [Content({}, 0) EXCEPT !.whole = FALSE]]
            /\ save' = [save EXCEPT !.stage = "written"]
       ELSE LET part == CHOOSE S \in kSubset(save.size, save.rest) : TRUE
                blocks == IF save.at = 0 THEN height ELSE save.blocks IN
            /\ save' = [save EXCEPT !.stage = "written", !.rest = @ \ part, !.blocks = blocks]
            /\ tmp' = [tmp EXCEPT ![save.at] =
                        [Content(part, blocks) EXCEPT !.whole = FALSE]]
    /\ UNCHANGED <<process, memory, loop, semaphore, writing, files, read, saves, exits, history>>

\* The file is written.  $yield before the next chunk; renames after the last.
FileWritten ==
    /\ save.stage = "written"
    /\ tmp' = [tmp EXCEPT ![save.at].whole = TRUE]
    /\ IF save.at \in Chunks /\ save.at + 1 \in Chunks
       THEN /\ save' = [save EXCEPT !.stage = IF ~save.sync /\ Locked THEN "wait" ELSE "write", !.at = @ + 1]
            /\ waiters' = waiters + (IF ~save.sync /\ Locked THEN 1 ELSE 0)
       ELSE /\ save' = [save EXCEPT !.stage = "rename", !.at = IF @ = Rbf THEN Rbf ELSE 0]
            /\ UNCHANGED waiters
    /\ UNCHANGED <<process, memory, loop, locks, writing, files, read, saves, exits, history>>

\* The replacements come after the chunks, even when these failed, and
\* isWritingCache stays set in between as far as anyone can see.  A save that
\* is through goes back to its caller.
Proceed ==
    IF save.at = Rbf
    THEN /\ save' = NoSave /\ writing' = FALSE
         /\ phase' = CASE phase = "exiting" -> "down" [] phase = "resaving" -> "running" [] OTHER -> phase
    ELSE /\ save' = [save EXCEPT !.stage = "write", !.at = Rbf]
         /\ UNCHANGED <<writing, phase>>

MayRename_Early == save.stage \in {"rename", "written"}
MayRename == save.stage = "rename"

RenameFile ==
    /\ MayRename
    /\ files' = [files EXCEPT ![save.at] = tmp[save.at]]
    /\ tmp' = [tmp EXCEPT ![save.at] = NoFile]
    /\ IF save.at \in Chunks /\ save.at + 1 \in Chunks
       THEN /\ save' = [save EXCEPT !.at = @ + 1, !.stage = "rename"]
            /\ UNCHANGED <<writing, phase>>
       ELSE Proceed
    /\ kept' = IF save.at + 1 = Rbf THEN [txs |-> save.txs, blocks |-> save.blocks] ELSE kept
    /\ interrupted' = (interrupted /\ save.at + 1 # Rbf)
    /\ UNCHANGED <<network, ignoreBlocks, memory, loop, semaphore, read, saves, exits>>

AmidRenames == save.stage = "rename" /\ save.at \in Chunks /\ save.at > 0

\* A file operation throws: a warning, and on with the replacements.
SaveFails ==
    /\ save.stage \in {"write", "written", "rename"}
    /\ interrupted' = (interrupted \/ AmidRenames)
    /\ Proceed
    /\ UNCHANGED <<network, ignoreBlocks, memory, loop, semaphore, disk, read, saves, exits, kept>>

-----------------------------------------------------------------------------
(* lock, unlock, and the main loop that calls them *)

Unlocked_BelowZero == locks - 1
\* semaphore.locks is clamped at zero.
Unlocked == IF Locked THEN locks - 1 ELSE 0

Resume_Never(left) == UNCHANGED <<waiters, save>>
\* One waiting save is resumed when the last lock is gone.
Resume(left) ==
    IF left = 0 /\ waiters > 0
    THEN /\ waiters' = waiters - 1
         /\ save' = [save EXCEPT !.stage = "write"]
    ELSE UNCHANGED <<waiters, save>>

Unlock == locks' = Unlocked /\ Resume(Unlocked)

Running == phase = "running"

\* $updateBlocks begins
BeginBlocks ==
    /\ Running /\ loop = "idle"
    /\ loop' = "blocks"
    /\ locks' = locks + 1
    /\ UNCHANGED <<process, memory, waiters, writing, save, disk, read, saves, exits, history>>

\* A block is handled.  Its transactions leave the mempool, before the save
\* that the block may start or, when the handler awaits, after it.
HandleBlock ==
    /\ Running /\ loop = "blocks"
    /\ height < MaxHeight
    /\ height' = height + 1
    /\ mempool' \in Mempools \cap SUBSET mempool
    /\ \/ MaySave /\ StartSave(FALSE)
       \/ UNCHANGED <<saves, writing, save, waiters>>
    /\ UNCHANGED <<process, loop, locks, disk, read, exits, history>>

\* $updateBlocks returns
EndBlocks ==
    /\ Running /\ loop = "blocks"
    /\ loop' = "mempool"
    /\ Unlock
    /\ UNCHANGED <<process, memory, writing, disk, read, saves, exits, history>>

EndIteration_NoUnlock ==
    /\ Running
    /\ \/ loop = "blocks" /\ UNCHANGED mempool
       \/ loop = "mempool" /\ mempool' \in Mempools
    /\ loop' = "idle"
    /\ UNCHANGED <<process, height, semaphore, save, writing, disk, read, saves, exits, history>>
\* The iteration ends, after the mempool's update or with an exception: the
\* finally block unlocks once more.
EndIteration ==
    /\ Running
    /\ \/ loop = "blocks" /\ UNCHANGED mempool
       \/ loop = "mempool" /\ mempool' \in Mempools
    /\ loop' = "idle"
    /\ Unlock
    /\ UNCHANGED <<process, height, writing, disk, read, saves, exits, history>>

-----------------------------------------------------------------------------
(* The process *)

Forget ==
    /\ mempool' = {} /\ height' = 0 /\ loop' = "idle" /\ read' = NoRead
    /\ locks' = 0 /\ waiters' = 0

\* Start, with this configuration; pools-parser.ts may have the blocks ignored.
Start ==
    /\ phase = "down"
    /\ phase' = "starting"
    /\ Forget /\ ignoreBlocks' \in BOOLEAN
    /\ network' \in Networks
    /\ save' = NoSave /\ writing' = FALSE
    /\ UNCHANGED <<disk, saves, exits, history>>

\* process.on('SIGINT'): a synchronous save unless one is in progress, then
\* exit.  From here nothing else of the process runs.
Sigint ==
    /\ phase \in {"starting", "loading", "running"}
    /\ exits < MaxExits /\ exits' = exits + 1
    /\ IF MaySave
       THEN /\ StartSave(TRUE) /\ phase' = "exiting"
            /\ UNCHANGED <<loop, memory, read, locks, ignoreBlocks, interrupted>>
       ELSE /\ phase' = "down" /\ Forget /\ ignoreBlocks' = FALSE /\ save' = NoSave /\ writing' = FALSE
            /\ interrupted' = (interrupted \/ AmidRenames)
            /\ UNCHANGED saves
    /\ UNCHANGED <<network, disk, kept>>

\* The process is killed.  A file that is being written stays as it is.
Killed ==
    /\ phase # "down"
    /\ exits < MaxExits /\ exits' = exits + 1
    /\ phase' = "down" /\ Forget /\ ignoreBlocks' = FALSE /\ save' = NoSave /\ writing' = FALSE
    /\ interrupted' = (interrupted \/ AmidRenames)
    /\ UNCHANGED <<network, disk, saves, kept>>

\* $loadMempoolCache up to the await of $setMempool, which has assigned the
\* mempool by then.  Without a first file, and with one that cannot be parsed,
\* nothing is loaded; a chunk that is missing or cannot be parsed is skipped.
Readable(i) == files[i].there /\ files[i].whole
ReadableChunks_NotTheLast == {i \in Chunks : Readable(i) /\ i + 1 \in Chunks}
ReadableChunks == {i \in Chunks : Readable(i)}

ReadCache ==
    /\ phase = "starting"
    /\ Readable(0) /\ files[0].network = network
    /\ LET txs == UNION {files[i].txs : i \in ReadableChunks} IN
        /\ read' = [txs |-> txs, blocks |-> files[0].blocks]
        /\ mempool' = txs
    /\ phase' = "loading"
    /\ UNCHANGED <<network, ignoreBlocks, height, loop, semaphore, writing, save, disk, saves, exits, history>>

NothingToRead ==
    /\ phase = "starting" /\ ~Readable(0)
    /\ phase' = "running"
    /\ UNCHANGED <<network, ignoreBlocks, memory, loop, semaphore, writing, save, disk, read, saves, exits, history>>

\* wipeCache, when the first file is of another network or version, one
\* unlinkSync after the other.
WipeCache ==
    /\ phase = "starting" /\ Readable(0) /\ files[0].network # network
    /\ phase' = "wiping"
    /\ files' = [files EXCEPT ![0] = NoFile]
    /\ UNCHANGED <<network, ignoreBlocks, memory, loop, semaphore, writing, save, tmp, read, saves, exits, history>>

WipeChunk ==
    /\ phase = "wiping"
    /\ LET left == {i \in Chunks : files[i].there} IN
       IF left = {} THEN phase' = "running" /\ UNCHANGED files
       ELSE files' = [files EXCEPT ![Min(left)] = NoFile] /\ UNCHANGED phase
    /\ UNCHANGED <<network, ignoreBlocks, memory, loop, semaphore, writing, save, tmp, read, saves, exits, history>>

\* $setMempool returns: the blocks follow, or the cache is saved without them.
FinishLoad ==
    /\ phase = "loading"
    /\ \/ /\ ~ignoreBlocks
          /\ height' = read.blocks
          /\ phase' = "running"
          /\ UNCHANGED <<saves, writing, save, waiters>>
       \/ /\ ignoreBlocks
          /\ StartSave(TRUE)
          /\ phase' = "resaving"
          /\ UNCHANGED height
    /\ UNCHANGED <<network, ignoreBlocks, mempool, loop, locks, disk, read, exits, history>>

-----------------------------------------------------------------------------
SaveStep == WriteFile \/ FileWritten \/ RenameFile
LoopStep == BeginBlocks \/ EndBlocks \/ EndIteration
LoadStep == ReadCache \/ NothingToRead \/ WipeCache \/ WipeChunk \/ FinishLoad

DiskNext ==
    \/ SaveStep \/ SaveFails
    \/ LoopStep \/ HandleBlock
    \/ LoadStep
    \/ Start \/ Sigint \/ Killed

DiskSpec == DiskInit /\ [][DiskNext]_diskVars

\* Fairness: file operations return and the main loop goes on, while the
\* process lives.
DiskFairness == WF_diskVars(SaveStep) /\ WF_diskVars(LoopStep)

-----------------------------------------------------------------------------
DiskTypeOK ==
    /\ phase \in Phases /\ network \in Networks /\ ignoreBlocks \in BOOLEAN
    /\ mempool \subseteq Txs /\ height \in Nat
    /\ loop \in {"idle", "blocks", "mempool"}
    /\ locks \in Nat /\ waiters \in Nat /\ writing \in BOOLEAN
    /\ save.stage \in {"none", "wait", "write", "written", "rename"}
    /\ save.at \in FileIds /\ save.rest \subseteq Txs

\* Whenever the process is killed, the files that the next one loads were
\* written to their end (disk-cache.ts:66-107).
FilesAreWhole == \A i \in FileIds : files[i].whole

\* A save pauses exactly while blocks are handled, and never waits for an
\* unlock that has passed, although the loop unlocks twice for one lock
\* (disk-cache.ts:258-281, index.ts:243).
PausedOnlyByBlocks ==
    /\ Locked <=> loop = "blocks"
    /\ waiters > 0 => Locked
    /\ waiters = IF save.stage = "wait" THEN 1 ELSE 0

\* What a process loads is what one save held, up to the remainder of the
\* division into chunks, unless that save ended between two renames
\* (disk-cache.ts:63, 103, 203-222).
RestoredIsSaved ==
    [][phase = "loading" /\ phase' = "running" /\ ~interrupted =>
        /\ mempool' \subseteq kept.txs
        /\ Cardinality(kept.txs \ mempool') < ChunkFiles
        /\ height' = kept.blocks]_diskVars

\* A save that pauses while blocks are handled is resumed and comes to its
\* end, whatever exceptions the loop meets (disk-cache.ts:258-281).
SaveEnds == []<>(save.stage = "none")
=============================================================================
