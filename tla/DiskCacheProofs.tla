-------------------------- MODULE DiskCacheProofs --------------------------
(***************************************************************************)
(* The type invariant of DiskCache, that saves pause only for blocks       *)
(* (PausedOnlyByBlocks), that final files are whole (FilesAreWhole) and    *)
(* that a process loads what one save held (RestoredIsSaved), for any      *)
(* transactions, number of files, saves and ends of the process.           *)
(***************************************************************************)
EXTENDS DiskCache, FiniteSetTheorems, TLAPS

SaveStages == {"none", "wait", "write", "written", "rename"}
SaveRecord == [stage : SaveStages, sync : BOOLEAN, at : FileIds, rest : SUBSET Txs,
               size : Nat, txs : SUBSET Txs, blocks : Nat]
File == [whole : {TRUE}, there : {FALSE}]
        \cup [whole : BOOLEAN, there : {TRUE}, txs : SUBSET Txs, blocks : Nat, network : Networks]

DiskTyped ==
    /\ DiskTypeOK
    /\ save \in SaveRecord
    /\ tmp \in [FileIds -> File] /\ files \in [FileIds -> File]
    /\ read \in [txs : SUBSET Txs, blocks : Nat]

LEMMA FileNumbers == /\ 0 \in Chunks /\ Chunks \subseteq FileIds /\ Rbf \in FileIds /\ Rbf \notin Chunks
                     /\ FileIds \subseteq Nat
                     /\ \A i \in Chunks : i + 1 = Rbf \/ i + 1 \in Chunks
BY DiskCacheAssumption DEF Chunks, FileIds, Rbf

LEMMA ChunkSizes == \A S \in SUBSET Txs : Cardinality(S) \div ChunkFiles \in Nat
<1> SUFFICES ASSUME NEW S \in SUBSET Txs PROVE Cardinality(S) \div ChunkFiles \in Nat
  OBVIOUS
<1>1. Cardinality(S) \in Nat
  BY DiskCacheAssumption, FS_Subset, FS_CardinalityType
<1>2. ChunkFiles \in Nat \ {0}
  BY DiskCacheAssumption
<1> QED
  BY <1>1, <1>2

LEMMA StartSaveTyped ==
    ASSUME DiskTyped, NEW sync \in BOOLEAN, StartSave(sync)
    PROVE  save' \in SaveRecord /\ waiters' \in Nat /\ writing' = TRUE
<1>1. NoSave \in SaveRecord
  BY FileNumbers DEF NoSave, SaveRecord, SaveStages
<1>2. mempool \in SUBSET Txs /\ waiters \in Nat
  BY DEF DiskTyped, DiskTypeOK
<1>3. Cardinality(mempool) \div ChunkFiles \in Nat
  BY <1>2, ChunkSizes
<1>4. PICK stage \in {"wait", "write"} :
        save' = [NoSave EXCEPT !.stage = stage, !.sync = sync, !.rest = mempool, !.txs = mempool,
                               !.size = Cardinality(mempool) \div ChunkFiles]
  BY DEF StartSave
<1>5. save' \in SaveRecord
  BY <1>1, <1>2, <1>3, <1>4 DEF SaveRecord, SaveStages
<1>6. waiters' \in Nat /\ writing' = TRUE
  BY <1>2 DEF StartSave
<1> QED
  BY <1>5, <1>6

LEMMA ProceedTyped ==
    ASSUME DiskTyped, Proceed
    PROVE  save' \in SaveRecord /\ writing' \in BOOLEAN /\ phase' \in Phases
<1>1. NoSave \in SaveRecord
  BY FileNumbers DEF NoSave, SaveRecord, SaveStages
<1>2. CASE save.at = Rbf
  <2>1. save' = NoSave /\ writing' = FALSE
    BY <1>2 DEF Proceed
  <2>2. phase' \in {phase, "down", "running"}
    BY <1>2 DEF Proceed
  <2> QED
    BY <1>1, <2>1, <2>2 DEF DiskTyped, DiskTypeOK, Phases
<1>3. CASE save.at # Rbf
  <2>1. save' = [save EXCEPT !.stage = "write", !.at = Rbf] /\ writing' = writing /\ phase' = phase
    BY <1>3 DEF Proceed
  <2> QED
    BY <2>1, FileNumbers DEF DiskTyped, DiskTypeOK, SaveRecord, SaveStages
<1> QED
  BY <1>2, <1>3

LEMMA UnlockTyped ==
    ASSUME DiskTyped, Unlock
    PROVE  save' \in SaveRecord /\ waiters' \in Nat /\ locks' \in Nat
<1>1. locks \in Nat /\ waiters \in Nat /\ save \in SaveRecord
  BY DEF DiskTyped, DiskTypeOK
<1>2. locks' = Unlocked /\ Unlocked \in Nat
  BY <1>1 DEF Unlock, Unlocked, Locked
<1> QED
  BY <1>1, <1>2 DEF Unlock, Resume, SaveRecord, SaveStages

LEMMA ForgetTyped ==
    ASSUME Forget
    PROVE  /\ mempool' \subseteq Txs /\ height' \in Nat /\ loop' = "idle"
           /\ read' \in [txs : SUBSET Txs, blocks : Nat]
           /\ locks' = 0 /\ waiters' = 0
BY DEF Forget, NoRead
LEMMA ContentIsFile ==
    ASSUME DiskTyped, NEW txs \in SUBSET Txs, NEW blocks \in Nat, NEW b \in BOOLEAN
    PROVE  [Content(txs, blocks) EXCEPT !.whole = b] \in File
BY DEF DiskTyped, DiskTypeOK, Content, File

LEMMA WholeIsFile ==
    ASSUME NEW f \in File
    PROVE  [f EXCEPT !.whole = TRUE] \in File /\ [f EXCEPT !.whole = TRUE].whole = TRUE
<1>1. CASE f \in [whole : {TRUE}, there : {FALSE}]
  BY <1>1 DEF File
<1>2. CASE f \in [whole : BOOLEAN, there : {TRUE}, txs : SUBSET Txs, blocks : Nat, network : Networks]
  BY <1>2 DEF File
<1> QED
  BY <1>1, <1>2 DEF File

LEMMA NoFileIsFile == NoFile \in File /\ NoFile.whole
BY DEF NoFile, File

LEMMA ReadableIsFile ==
    ASSUME DiskTyped, NEW i \in FileIds, Readable(i)
    PROVE  files[i].txs \subseteq Txs /\ files[i].blocks \in Nat
BY DEF DiskTyped, Readable, File

\* A save of n transactions writes ChunkFiles chunks of size n \div ChunkFiles:
\* there is always enough left for the chunks to come.
LEMMA ChunksFit == ASSUME NEW n \in Nat PROVE (n \div ChunkFiles) * ChunkFiles <= n
BY DiskCacheAssumption, SMTT(20)

LEMMA OneChunkLess ==
    ASSUME NEW s \in Nat, NEW k \in Nat, k > 0
    PROVE  s * k = s * (k - 1) + s /\ s * (k - 1) \in Nat
<1>1. s * k = s * (k - 1) + s
  BY SMTT(20)
<1>2. k - 1 \in Nat
  OBVIOUS
<1> QED
  BY <1>1, <1>2

LEMMA SubsetOfSize ==
    ASSUME NEW S, IsFiniteSet(S), NEW k \in Nat, k <= Cardinality(S)
    PROVE  kSubset(k, S) # {}
<1>1. PICK f \in Bijection(1..Cardinality(S), S) : TRUE
  BY FS_CardinalityType DEF ExistsBijection
<1> DEFINE T == {f[i] : i \in 1..k}
<1>2. Cardinality(S) \in Nat /\ 1..k \subseteq 1..Cardinality(S)
  BY FS_CardinalityType
<1>3. T \subseteq S
  BY <1>1, <1>2 DEF Bijection, Injection
<1>4. [i \in 1..k |-> f[i]] \in Bijection(1..k, T)
  BY <1>1, <1>2 DEF Bijection, Injection, Surjection, IsInjective
<1>5. Cardinality(T) = k
  <2> HIDE DEF T
  <2>1. ExistsBijection(1..k, T)
    BY <1>4 DEF ExistsBijection
  <2> QED
    BY <2>1, FS_CountingElements
<1> QED
  BY <1>3, <1>5 DEF kSubset

ChunksLeft == IF save.stage = "written" THEN ChunkFiles - save.at - 1 ELSE ChunkFiles - save.at
Budget ==
    save.stage \in {"wait", "write", "written"} /\ save.at \in Chunks =>
        save.size * ChunksLeft <= Cardinality(save.rest)

\* The part that the next file gets, and what it leaves.
LEMMA NextChunk ==
    ASSUME DiskTyped, Budget, save.stage = "write", save.at \in Chunks
    PROVE  LET part == CHOOSE S \in kSubset(save.size, save.rest) : TRUE IN
           /\ part \subseteq Txs /\ part \subseteq save.rest
           /\ Cardinality(save.rest \ part) = Cardinality(save.rest) - save.size
           /\ save.size * (ChunkFiles - save.at - 1) <= Cardinality(save.rest \ part)
<1> DEFINE part == CHOOSE S \in kSubset(save.size, save.rest) : TRUE
           left == ChunkFiles - save.at
<1>1. save.size \in Nat /\ save.rest \subseteq Txs /\ IsFiniteSet(save.rest) /\ left \in Nat /\ left > 0
  <2>1. save.rest \subseteq Txs /\ save.size \in Nat
    BY DEF DiskTyped, SaveRecord
  <2> QED
    BY <2>1, DiskCacheAssumption, FS_Subset DEF Chunks
<1>2. Cardinality(save.rest) \in Nat
  BY <1>1, FS_CardinalityType
<1>3. save.size * left <= Cardinality(save.rest)
  BY DEF Budget, ChunksLeft
<1>4. save.size * left = save.size * (left - 1) + save.size /\ save.size * (left - 1) \in Nat
  <2> HIDE DEF left
  <2> QED
    BY <1>1, OneChunkLess
<1>5. part \in kSubset(save.size, save.rest)
  <2>1. save.size <= Cardinality(save.rest)
    <3> HIDE DEF left
    <3> QED
      BY <1>1, <1>2, <1>3, <1>4
  <2> QED
    BY <1>1, <2>1, SubsetOfSize
<1>6. part \subseteq save.rest /\ Cardinality(part) = save.size
  BY <1>5 DEF kSubset
<1>7. Cardinality(save.rest \ part) = Cardinality(save.rest) - save.size
  <2>1. save.rest \cap part = part
    BY <1>6
  <2> HIDE DEF part
  <2>2. Cardinality(save.rest \ part) = Cardinality(save.rest) - Cardinality(save.rest \cap part)
    BY <1>1, FS_Difference
  <2> QED
    BY <1>6, <2>1, <2>2
<1>8. save.size * (left - 1) <= Cardinality(save.rest \ part)
  <2> HIDE DEF left, part
  <2> QED
    BY <1>1, <1>2, <1>3, <1>4, <1>7
<1> QED
  BY <1>1, <1>6, <1>7, <1>8

LEMMA InitiallyTyped == DiskInit => DiskTyped
<1> SUFFICES ASSUME DiskInit PROVE DiskTyped
  OBVIOUS
<1>1. network \in Networks
  BY DiskCacheAssumption DEF DiskInit
<1>2. NoSave \in SaveRecord /\ NoSave.stage = "none" /\ NoSave.at \in FileIds /\ NoSave.rest \subseteq Txs
  BY FileNumbers DEF NoSave, SaveRecord, SaveStages
<1>3. save = NoSave /\ tmp = Empty(FileIds) /\ files = Empty(FileIds) /\ read = NoRead
  BY DEF DiskInit
<1>4. Empty(FileIds) \in [FileIds -> File] /\ NoRead \in [txs : SUBSET Txs, blocks : Nat]
  BY NoFileIsFile DEF Empty, NoRead
<1>5. /\ phase \in Phases /\ ignoreBlocks \in BOOLEAN /\ mempool \subseteq Txs /\ height \in Nat
      /\ loop \in {"idle", "blocks", "mempool"}
      /\ locks \in Nat /\ waiters \in Nat /\ writing \in BOOLEAN
  BY DEF DiskInit, Phases
<1>6. DiskTypeOK
  BY <1>1, <1>2, <1>3, <1>5 DEF DiskTypeOK
<1> QED
  BY <1>2, <1>3, <1>4, <1>6 DEF DiskTyped

\* The type of the save and of the files is what the rest of the types needs.
LEMMA TypedFromParts ==
    ASSUME phase' \in Phases, network' \in Networks, ignoreBlocks' \in BOOLEAN,
           mempool' \subseteq Txs, height' \in Nat, loop' \in {"idle", "blocks", "mempool"},
           locks' \in Nat, waiters' \in Nat, writing' \in BOOLEAN, save' \in SaveRecord,
           tmp' \in [FileIds -> File], files' \in [FileIds -> File],
           read' \in [txs : SUBSET Txs, blocks : Nat]
    PROVE  DiskTyped'
BY DEF DiskTyped, DiskTypeOK, SaveRecord, SaveStages
\* The end of the process, and its start.
LEMMA ForgottenTyped ==
    ASSUME DiskTyped, Forget, save' = NoSave, writing' = FALSE, UNCHANGED disk,
           phase' \in Phases, ignoreBlocks' \in BOOLEAN, network' \in Networks
    PROVE  DiskTyped'
<1>1. /\ mempool' \subseteq Txs /\ height' \in Nat /\ loop' = "idle"
      /\ read' \in [txs : SUBSET Txs, blocks : Nat]
      /\ locks' = 0 /\ waiters' = 0
  BY ForgetTyped
<1>2. NoSave \in SaveRecord
  BY FileNumbers DEF NoSave, SaveRecord, SaveStages
<1>3. tmp' \in [FileIds -> File] /\ files' \in [FileIds -> File]
  BY DEF DiskTyped, disk
<1> QED
  BY <1>1, <1>2, <1>3, TypedFromParts

LEMMA DiskTypedStep == DiskTyped /\ Budget /\ [DiskNext]_diskVars => DiskTyped'
<1> SUFFICES ASSUME DiskTyped, Budget, [DiskNext]_diskVars PROVE DiskTyped'
  OBVIOUS
<1>0. /\ phase \in Phases /\ network \in Networks /\ ignoreBlocks \in BOOLEAN
      /\ mempool \subseteq Txs /\ height \in Nat
      /\ loop \in {"idle", "blocks", "mempool"}
      /\ locks \in Nat /\ waiters \in Nat /\ writing \in BOOLEAN
      /\ save \in SaveRecord
      /\ tmp \in [FileIds -> File] /\ files \in [FileIds -> File]
      /\ read \in [txs : SUBSET Txs, blocks : Nat]
      /\ save.at \in FileIds
  BY DEF DiskTyped, DiskTypeOK
<1> USE DEF process, memory, semaphore, disk, history
<1>1. CASE WriteFile
  <2>1. save' \in SaveRecord /\ tmp' \in [FileIds -> File]
    <3>1. CASE save.at = Rbf
      <4>1. [Content({}, 0) EXCEPT !.whole = FALSE] \in File
        BY ContentIsFile
      <4>2. tmp' = [tmp EXCEPT ![Rbf] = [Content({}, 0) EXCEPT !.whole = FALSE]]
            /\ save' = [save EXCEPT !.stage = "written"]
        BY <1>1, <3>1 DEF WriteFile
      <4> QED
        BY <1>0, <4>1, <4>2 DEF SaveRecord, SaveStages
    <3>2. CASE save.at # Rbf
      <4> DEFINE part == CHOOSE S \in kSubset(save.size, save.rest) : TRUE
                 blocks == IF save.at = 0 THEN height ELSE save.blocks
      <4>1. save' = [save EXCEPT !.stage = "written", !.rest = @ \ part, !.blocks = blocks]
            /\ tmp' = [tmp EXCEPT ![save.at] = [Content(part, blocks) EXCEPT !.whole = FALSE]]
        BY <1>1, <3>2 DEF WriteFile
      <4>2. blocks \in Nat
        BY <1>0 DEF SaveRecord
      <4>3. part \in SUBSET Txs
        BY <1>0, <1>1, <3>2, FileNumbers, NextChunk DEF WriteFile, FileIds, Rbf
      <4> HIDE DEF part, blocks
      <4>4. [Content(part, blocks) EXCEPT !.whole = FALSE] \in File
        BY <4>2, <4>3, ContentIsFile
      <4> QED
        BY <1>0, <4>1, <4>2, <4>4 DEF SaveRecord, SaveStages
    <3> QED
      BY <3>1, <3>2
  <2> QED
    BY <1>0, <1>1, <2>1, TypedFromParts DEF WriteFile
<1>2. CASE FileWritten
  <2>1. save' \in SaveRecord /\ waiters' \in Nat
    <3>1. CASE save.at \in Chunks /\ save.at + 1 \in Chunks
      <4>1. PICK stage \in {"wait", "write"} : save' = [save EXCEPT !.stage = stage, !.at = @ + 1]
        BY <1>2, <3>1 DEF FileWritten
      <4>2. save' \in SaveRecord
        BY <1>0, <3>1, <4>1, FileNumbers DEF SaveRecord, SaveStages
      <4>3. waiters' \in Nat
        BY <1>0, <1>2, <3>1 DEF FileWritten
      <4> QED
        BY <4>2, <4>3
    <3>2. CASE ~(save.at \in Chunks /\ save.at + 1 \in Chunks)
      <4>1. PICK at \in {0, Rbf} : save' = [save EXCEPT !.stage = "rename", !.at = at]
        BY <1>2, <3>2 DEF FileWritten
      <4>2. save' \in SaveRecord
        BY <1>0, <3>2, <4>1, FileNumbers DEF SaveRecord, SaveStages
      <4>3. waiters' \in Nat
        BY <1>0, <1>2, <3>2 DEF FileWritten
      <4> QED
        BY <4>2, <4>3
    <3> QED
      BY <3>1, <3>2
  <2>2. tmp' \in [FileIds -> File]
    <3>1. tmp' = [tmp EXCEPT ![save.at] = [tmp[save.at] EXCEPT !.whole = TRUE]]
      BY <1>2 DEF FileWritten
    <3>2. [tmp[save.at] EXCEPT !.whole = TRUE] \in File
      BY <1>0, WholeIsFile
    <3> QED
      BY <1>0, <3>1, <3>2
  <2> QED
    BY <1>0, <1>2, <2>1, <2>2, TypedFromParts DEF FileWritten
<1>3. CASE RenameFile
  <2>1. save' \in SaveRecord /\ writing' \in BOOLEAN /\ phase' \in Phases
    <3>1. CASE save.at \in Chunks /\ save.at + 1 \in Chunks
      <4>1. save' = [save EXCEPT !.at = save.at + 1, !.stage = "rename"]
            /\ writing' = writing /\ phase' = phase
        BY <1>3, <3>1 DEF RenameFile
      <4> QED
        BY <1>0, <3>1, <4>1, FileNumbers DEF SaveRecord, SaveStages
    <3>2. CASE ~(save.at \in Chunks /\ save.at + 1 \in Chunks)
      BY <1>3, <3>2, ProceedTyped DEF RenameFile
    <3> QED
      BY <3>1, <3>2
  <2>2. tmp' \in [FileIds -> File] /\ files' \in [FileIds -> File]
    BY <1>0, <1>3, NoFileIsFile DEF RenameFile
  <2> QED
    BY <1>0, <1>3, <2>1, <2>2, TypedFromParts DEF RenameFile
<1>4. CASE SaveFails
  <2>1. save' \in SaveRecord /\ writing' \in BOOLEAN /\ phase' \in Phases
    BY <1>4, ProceedTyped DEF SaveFails
  <2> QED
    BY <1>0, <1>4, <2>1, TypedFromParts DEF SaveFails
<1>5. CASE BeginBlocks
  BY <1>0, <1>5, TypedFromParts DEF BeginBlocks
<1>6. CASE HandleBlock
  <2>1. mempool' \subseteq Txs /\ height' \in Nat
    BY <1>0, <1>6 DEF HandleBlock
  <2>2. save' \in SaveRecord /\ waiters' \in Nat /\ writing' \in BOOLEAN
    BY <1>0, <1>6, StartSaveTyped DEF HandleBlock
  <2> QED
    BY <1>0, <1>6, <2>1, <2>2, TypedFromParts DEF HandleBlock
<1>7. CASE EndBlocks
  <2>1. save' \in SaveRecord /\ waiters' \in Nat /\ locks' \in Nat
    BY <1>7, UnlockTyped DEF EndBlocks
  <2> QED
    BY <1>0, <1>7, <2>1, TypedFromParts DEF EndBlocks
<1>8. CASE EndIteration
  <2>1. save' \in SaveRecord /\ waiters' \in Nat /\ locks' \in Nat
    BY <1>8, UnlockTyped DEF EndIteration
  <2>2. mempool' \subseteq Txs
    BY <1>0, <1>8, DiskCacheAssumption DEF EndIteration
  <2> QED
    BY <1>0, <1>8, <2>1, <2>2, TypedFromParts DEF EndIteration
<1>9. CASE Start
  <2>1. Forget /\ save' = NoSave /\ writing' = FALSE /\ UNCHANGED disk
    BY <1>9 DEF Start
  <2>2. phase' = "starting" /\ ignoreBlocks' \in BOOLEAN /\ network' \in Networks
    BY <1>9 DEF Start
  <2> QED
    BY <1>0, <2>1, <2>2, ForgottenTyped DEF Phases
<1>10. CASE Sigint
  <2>1. CASE MaySave
    <3>1. save' \in SaveRecord /\ waiters' \in Nat /\ writing' \in BOOLEAN
      BY <1>10, <2>1, StartSaveTyped DEF Sigint
    <3> QED
      BY <1>0, <1>10, <2>1, <3>1, TypedFromParts DEF Sigint, Phases
  <2>2. CASE ~MaySave
    <3>1. Forget /\ save' = NoSave /\ writing' = FALSE /\ UNCHANGED disk
      BY <1>10, <2>2 DEF Sigint
    <3>2. phase' = "down" /\ ignoreBlocks' \in BOOLEAN /\ network' \in Networks
      BY <1>0, <1>10, <2>2 DEF Sigint
    <3> QED
      BY <1>0, <3>1, <3>2, ForgottenTyped DEF Phases
  <2> QED
    BY <2>1, <2>2
<1>11. CASE Killed
  <2>1. Forget /\ save' = NoSave /\ writing' = FALSE /\ UNCHANGED disk
    BY <1>11 DEF Killed
  <2>2. phase' = "down" /\ ignoreBlocks' \in BOOLEAN /\ network' \in Networks
    BY <1>0, <1>11 DEF Killed
  <2> QED
    BY <1>0, <2>1, <2>2, ForgottenTyped DEF Phases
<1>12. CASE ReadCache
  <2>1. /\ Readable(0)
        /\ read' = [txs |-> UNION {files[i].txs : i \in ReadableChunks}, blocks |-> files[0].blocks]
        /\ mempool' = UNION {files[i].txs : i \in ReadableChunks}
    BY <1>12 DEF ReadCache
  <2>2. UNION {files[i].txs : i \in ReadableChunks} \subseteq Txs
    BY FileNumbers, ReadableIsFile DEF ReadableChunks
  <2>3. files[0].blocks \in Nat
    BY <2>1, FileNumbers, ReadableIsFile
  <2> QED
    BY <1>0, <1>12, <2>1, <2>2, <2>3, TypedFromParts DEF ReadCache, Phases
<1>13. CASE NothingToRead
  BY <1>0, <1>13, TypedFromParts DEF NothingToRead, Phases
<1>14. CASE WipeCache
  BY <1>0, <1>14, NoFileIsFile, FileNumbers, TypedFromParts DEF WipeCache, Phases
<1>15. CASE WipeChunk
  <2>1. files' \in [FileIds -> File] /\ phase' \in Phases
    BY <1>0, <1>15, NoFileIsFile DEF WipeChunk, Phases
  <2> QED
    BY <1>0, <1>15, <2>1, TypedFromParts DEF WipeChunk
<1>16. CASE FinishLoad
  <2>1. CASE ignoreBlocks
    <3>1. save' \in SaveRecord /\ waiters' \in Nat /\ writing' \in BOOLEAN
      BY <1>16, <2>1, StartSaveTyped DEF FinishLoad
    <3> QED
      BY <1>0, <1>16, <2>1, <3>1, TypedFromParts DEF FinishLoad, Phases
  <2>2. CASE ~ignoreBlocks
    BY <1>0, <1>16, <2>2, TypedFromParts DEF FinishLoad, Phases
  <2> QED
    BY <2>1, <2>2
<1>17. CASE UNCHANGED diskVars
  BY <1>0, <1>17, TypedFromParts DEF diskVars
<1> QED
  BY <1>1, <1>2, <1>3, <1>4, <1>5, <1>6, <1>7, <1>8, <1>9, <1>10, <1>11, <1>12, <1>13, <1>14,
     <1>15, <1>16, <1>17 DEF DiskNext, SaveStep, LoopStep, LoadStep

-----------------------------------------------------------------------------
\* One lock while blocks are handled; a save waits only then, and a save is
\* under way exactly while isWritingCache is set.
Paused ==
    /\ locks = IF loop = "blocks" THEN 1 ELSE 0
    /\ waiters = IF save.stage = "wait" THEN 1 ELSE 0
    /\ save.stage = "wait" => loop = "blocks"
    /\ writing = FALSE => save.stage = "none"

\* What is in the temporary files of the save under way: those that come before
\* the one that is written, or those that are still to rename.
WholeSoFar ==
    /\ FilesAreWhole
    /\ save.stage \in {"wait", "write", "written"} =>
        \A j \in Chunks : j < save.at /\ save.at # Rbf => tmp[j].whole
    /\ save.stage = "rename" => \A j \in FileIds : j = save.at \/ (j \in Chunks /\ save.at < j) => tmp[j].whole

\* No save is under way before the main loop runs.
NotYetSaving == phase \in {"down", "starting", "wiping", "loading"} => writing = FALSE

DiskInv == DiskTyped /\ Paused /\ Budget /\ WholeSoFar /\ NotYetSaving

LEMMA SaveStarts ==
    ASSUME DiskInv, NEW sync \in BOOLEAN, MaySave, StartSave(sync), loop' = loop, locks' = locks
    PROVE  Paused' /\ Budget' /\ (FilesAreWhole' => WholeSoFar')
<1>1. save \in SaveRecord /\ save.stage = "none" /\ waiters = 0
  BY DEF DiskInv, DiskTyped, Paused, MaySave
<1>2. PICK stage \in {"wait", "write"} :
        /\ stage = "wait" <=> (~sync /\ Locked)
        /\ save' = [NoSave EXCEPT !.stage = stage, !.sync = sync, !.rest = mempool, !.txs = mempool,
                               !.size = Cardinality(mempool) \div ChunkFiles]
  BY DEF StartSave
<1>3. /\ save'.stage = stage /\ save'.at = 0 /\ save'.rest = mempool
      /\ save'.size = Cardinality(mempool) \div ChunkFiles
  BY <1>2 DEF NoSave
<1>4. Locked <=> loop = "blocks"
  BY DEF DiskInv, Paused, Locked
<1>5. Paused'
  <2>1. waiters' = IF ~sync /\ Locked THEN 1 ELSE 0
    BY <1>1 DEF StartSave
  <2>2. writing' = TRUE
    BY DEF StartSave
  <2> QED
    BY <1>2, <1>3, <1>4, <2>1, <2>2 DEF DiskInv, Paused
<1>6. Budget'
  <2>1. Cardinality(mempool) \in Nat
    BY DiskCacheAssumption, FS_Subset, FS_CardinalityType DEF DiskInv, DiskTyped, DiskTypeOK
  <2>2. save'.size * ChunkFiles <= Cardinality(save'.rest)
    BY <1>3, <2>1, ChunksFit
  <2>3. ChunksLeft' = ChunkFiles
    BY <1>2, <1>3, DiskCacheAssumption DEF ChunksLeft
  <2> QED
    BY <2>2, <2>3 DEF Budget
<1>7. FilesAreWhole' => WholeSoFar'
  BY <1>2, <1>3 DEF WholeSoFar, Chunks
<1> QED
  BY <1>5, <1>6, <1>7

LEMMA SaveProceeds ==
    ASSUME DiskInv, Proceed, save.stage \in {"write", "written", "rename"}, UNCHANGED <<loop, semaphore>>
    PROVE  Paused' /\ Budget' /\ (FilesAreWhole' => WholeSoFar')
<1>1. CASE save.at = Rbf
  <2>1. save'.stage = "none" /\ writing' = FALSE
    BY <1>1 DEF Proceed, NoSave
  <2> QED
    BY <2>1 DEF DiskInv, Paused, Budget, WholeSoFar, semaphore
<1>2. CASE save.at # Rbf
  <2>1. save' = [save EXCEPT !.stage = "write", !.at = Rbf] /\ writing' = writing /\ save \in SaveRecord
    BY <1>2 DEF Proceed, DiskInv, DiskTyped
  <2>2. save'.stage = "write" /\ save'.at = Rbf
    BY <2>1 DEF SaveRecord
  <2>3. Budget'
    BY <2>2, FileNumbers DEF Budget
  <2>4. writing' # FALSE
    BY <2>1 DEF DiskInv, Paused
  <2>5. FilesAreWhole' => WholeSoFar'
    BY <2>2 DEF WholeSoFar
  <2> QED
    BY <2>2, <2>3, <2>4, <2>5 DEF DiskInv, Paused, semaphore
<1> QED
  BY <1>1, <1>2

LEMMA SaveResumes ==
    ASSUME DiskInv, Unlock, loop' # "blocks", UNCHANGED <<writing, disk>>
    PROVE  Paused' /\ Budget' /\ WholeSoFar'
<1>1. locks \in {0, 1} /\ locks' = 0 /\ Resume(0)
  BY DEF DiskInv, Paused, Unlock, Unlocked, Locked
<1>2. CASE save.stage = "wait"
  <2>1. save' = [save EXCEPT !.stage = "write"] /\ waiters' = 0 /\ save \in SaveRecord
    BY <1>1, <1>2 DEF DiskInv, DiskTyped, Paused, Resume
  <2>2. save'.stage = "write" /\ save'.at = save.at /\ save'.size = save.size /\ save'.rest = save.rest
    BY <2>1 DEF SaveRecord
  <2>3. Budget'
    BY <1>2, <2>2 DEF DiskInv, Budget, ChunksLeft
  <2>4. WholeSoFar'
    BY <1>2, <2>2 DEF DiskInv, WholeSoFar, FilesAreWhole, disk
  <2> QED
    BY <1>1, <1>2, <2>1, <2>2, <2>3, <2>4 DEF DiskInv, Paused
<1>3. CASE save.stage # "wait"
  <2>1. save' = save /\ waiters' = 0
    BY <1>1, <1>3 DEF DiskInv, Paused, Resume
  <2> QED
    BY <1>1, <1>3, <2>1 DEF DiskInv, Paused, Budget, ChunksLeft, WholeSoFar, FilesAreWhole, disk
<1> QED
  BY <1>2, <1>3

LEMMA ProcessEnds ==
    ASSUME DiskInv, Forget, save' = NoSave, writing' = FALSE, UNCHANGED disk
    PROVE  Paused' /\ Budget' /\ WholeSoFar'
<1>1. save'.stage = "none"
  BY DEF NoSave
<1>2. loop' = "idle" /\ locks' = 0 /\ waiters' = 0
  BY ForgetTyped
<1> QED
  BY <1>1, <1>2 DEF DiskInv, Paused, Budget, WholeSoFar, FilesAreWhole, disk

\* What concerns none of the save, its files and the lock.
LEMMA SaveIsUnchanged ==
    ASSUME DiskInv, UNCHANGED <<save, locks, waiters, writing, loop, tmp>>, FilesAreWhole'
    PROVE  Paused' /\ Budget' /\ WholeSoFar'
BY DEF DiskInv, Paused, Budget, ChunksLeft, WholeSoFar
LEMMA DiskInvStep == DiskInv /\ [DiskNext]_diskVars => Paused' /\ Budget' /\ WholeSoFar'
<1> SUFFICES ASSUME DiskInv, [DiskNext]_diskVars PROVE Paused' /\ Budget' /\ WholeSoFar'
  OBVIOUS
<1>0. /\ save \in SaveRecord /\ save.at \in FileIds /\ save.at \in Nat /\ FilesAreWhole
      /\ tmp \in [FileIds -> File] /\ files \in [FileIds -> File]
  BY FileNumbers DEF DiskInv, DiskTyped, WholeSoFar, SaveRecord
<1> USE DEF process, memory, semaphore, disk, history
<1>1. CASE WriteFile
  <2>1. CASE save.at = Rbf
    <3>1. save' = [save EXCEPT !.stage = "written"] /\ save.stage = "write" /\ UNCHANGED files
      BY <1>1, <2>1 DEF WriteFile
    <3>2. save'.stage = "written" /\ save'.at = Rbf
      BY <1>0, <2>1, <3>1 DEF SaveRecord
    <3>3. Budget' /\ WholeSoFar'
      BY <1>0, <3>1, <3>2, FileNumbers DEF Budget, WholeSoFar, FilesAreWhole
    <3>4. Paused'
      BY <1>1, <3>1, <3>2 DEF WriteFile, DiskInv, Paused
    <3> QED
      BY <3>3, <3>4
  <2>2. CASE save.at # Rbf
    <3> DEFINE part == CHOOSE S \in kSubset(save.size, save.rest) : TRUE
               blocks == IF save.at = 0 THEN height ELSE save.blocks
    <3>1. /\ save' = [save EXCEPT !.stage = "written", !.rest = @ \ part, !.blocks = blocks]
          /\ tmp' = [tmp EXCEPT ![save.at] = [Content(part, blocks) EXCEPT !.whole = FALSE]]
          /\ save.stage = "write" /\ UNCHANGED <<files, loop, locks, waiters, writing>>
      BY <1>1, <2>2 DEF WriteFile
    <3>2. save.at \in Chunks
      BY <1>0, <2>2 DEF FileIds, Rbf
    <3>3. save.size * (ChunkFiles - save.at - 1) <= Cardinality(save.rest \ part)
      BY <3>1, <3>2, NextChunk DEF DiskInv
    <3> HIDE DEF part, blocks
    <3>4. /\ save'.stage = "written" /\ save'.at = save.at /\ save'.size = save.size
          /\ save'.rest = save.rest \ part
      BY <1>0, <3>1 DEF SaveRecord
    <3>5. Budget'
      BY <3>3, <3>4 DEF Budget, ChunksLeft
    <3>6. \A j \in Chunks : j < save.at => tmp'[j] = tmp[j]
      BY <1>0, <3>1, FileNumbers
    <3>7. \A j \in Chunks : j < save.at => tmp[j].whole
      BY <2>2, <3>1 DEF DiskInv, WholeSoFar
    <3>8. WholeSoFar'
      BY <1>0, <3>1, <3>4, <3>6, <3>7 DEF WholeSoFar, FilesAreWhole
    <3>9. Paused'
      BY <3>1, <3>4 DEF DiskInv, Paused
    <3> QED
      BY <3>5, <3>8, <3>9
  <2> QED
    BY <2>1, <2>2
<1>2. CASE FileWritten
  <2>1. /\ save.stage = "written" /\ UNCHANGED <<loop, locks, writing, files>>
        /\ tmp' = [tmp EXCEPT ![save.at] = [tmp[save.at] EXCEPT !.whole = TRUE]]
    BY <1>2 DEF FileWritten
  <2>2. /\ tmp'[save.at].whole = TRUE
        /\ \A j \in FileIds \ {save.at} : tmp'[j] = tmp[j]
    BY <1>0, <2>1, WholeIsFile
  <2>3. Locked <=> loop = "blocks"
    BY DEF DiskInv, Paused, Locked
  <2>4. waiters = 0
    BY <2>1 DEF DiskInv, Paused
  <2>5. FilesAreWhole'
    BY <1>0, <2>1 DEF FilesAreWhole
  <2>6. CASE save.at \in Chunks /\ save.at + 1 \in Chunks
    <3>1. PICK stage \in {"wait", "write"} :
            /\ stage = "wait" <=> (~save.sync /\ Locked)
            /\ save' = [save EXCEPT !.stage = stage, !.at = @ + 1]
      BY <1>2, <2>6 DEF FileWritten
    <3>2. waiters' = IF ~save.sync /\ Locked THEN 1 ELSE 0
      BY <1>2, <2>4, <2>6 DEF FileWritten
    <3>3. /\ save'.stage = stage /\ save'.at = save.at + 1 /\ save'.size = save.size
          /\ save'.rest = save.rest
      BY <1>0, <3>1 DEF SaveRecord
    <3>4. Paused'
      BY <2>1, <2>3, <3>1, <3>2, <3>3 DEF DiskInv, Paused
    <3>5. Budget'
      <4>1. ChunksLeft = ChunkFiles - save.at - 1
        BY <2>1 DEF ChunksLeft
      <4>2. ChunksLeft' = ChunkFiles - (save.at + 1)
        BY <3>1, <3>3 DEF ChunksLeft
      <4>3. ChunksLeft' = ChunksLeft
        BY <1>0, <4>1, <4>2, DiskCacheAssumption
      <4> QED
        BY <2>1, <2>6, <3>3, <4>3 DEF DiskInv, Budget
    <3>6. \A j \in Chunks : j < save.at + 1 => tmp'[j].whole
      BY <1>0, <2>1, <2>2, <2>6, FileNumbers DEF DiskInv, WholeSoFar
    <3>7. WholeSoFar'
      BY <2>5, <3>1, <3>3, <3>6 DEF WholeSoFar
    <3> QED
      BY <3>4, <3>5, <3>7
  <2>7. CASE ~(save.at \in Chunks /\ save.at + 1 \in Chunks)
    <3>1. /\ save' = [save EXCEPT !.stage = "rename", !.at = IF save.at = Rbf THEN Rbf ELSE 0]
          /\ waiters' = waiters
      BY <1>2, <2>7 DEF FileWritten
    <3>2. save'.stage = "rename" /\ save'.at = IF save.at = Rbf THEN Rbf ELSE 0
      BY <1>0, <3>1 DEF SaveRecord
    <3>3. Paused' /\ Budget'
      BY <2>1, <2>4, <3>1, <3>2 DEF DiskInv, Paused, Budget
    <3>4. CASE save.at = Rbf
      <4>1. \A j \in Chunks : ~(Rbf < j)
        BY DiskCacheAssumption DEF Chunks, Rbf
      <4>2. \A j \in FileIds : j = Rbf \/ (j \in Chunks /\ Rbf < j) => tmp'[j].whole
        BY <2>2, <3>4, <4>1
      <4>3. WholeSoFar'
        BY <2>5, <3>2, <3>4, <4>2 DEF WholeSoFar
      <4> QED
        BY <3>3, <4>3
    <3>5. CASE save.at # Rbf
      <4>1. save.at \in Chunks /\ save.at + 1 = Rbf
        BY <1>0, <2>7, <3>5, FileNumbers DEF FileIds
      <4>2. \A j \in Chunks : j = save.at \/ j < save.at
        BY <4>1, DiskCacheAssumption DEF Chunks, Rbf
      <4>3. \A j \in Chunks : tmp'[j].whole
        BY <2>1, <2>2, <3>5, <4>2, FileNumbers DEF DiskInv, WholeSoFar
      <4>4. \A j \in FileIds : j = 0 \/ (j \in Chunks /\ 0 < j) => tmp'[j].whole
        BY <4>3, FileNumbers
      <4>5. WholeSoFar'
        BY <2>5, <3>2, <3>5, <4>4 DEF WholeSoFar
      <4> QED
        BY <3>3, <4>5
    <3> QED
      BY <3>3, <3>4, <3>5
  <2> QED
    BY <2>6, <2>7
<1>3. CASE RenameFile
  <2>1. /\ save.stage = "rename" /\ UNCHANGED <<loop, locks, waiters>>
        /\ files' = [files EXCEPT ![save.at] = tmp[save.at]]
        /\ tmp' = [tmp EXCEPT ![save.at] = NoFile]
    BY <1>3 DEF RenameFile, MayRename
  <2>2. tmp[save.at].whole /\ \A j \in Chunks : save.at < j => tmp[j].whole
    <3>1. \A j \in FileIds : j = save.at \/ (j \in Chunks /\ save.at < j) => tmp[j].whole
      BY <2>1 DEF DiskInv, WholeSoFar
    <3>2. tmp[save.at].whole
      BY <1>0, <3>1, Zenon
    <3>3. \A j \in Chunks : save.at < j => tmp[j].whole
      BY <3>1, FileNumbers
    <3> QED
      BY <3>2, <3>3
  <2>3. FilesAreWhole'
    BY <1>0, <2>1, <2>2 DEF FilesAreWhole
  <2>4. CASE save.at \in Chunks /\ save.at + 1 \in Chunks
    <3>1. save' = [save EXCEPT !.at = save.at + 1, !.stage = "rename"] /\ writing' = writing
      BY <1>3, <2>4 DEF RenameFile
    <3>2. save'.at = save.at + 1 /\ save'.stage = "rename"
      BY <1>0, <3>1 DEF SaveRecord
    <3>3. Paused' /\ Budget'
      BY <2>1, <3>1, <3>2 DEF DiskInv, Paused, Budget
    <3>4. \A j \in Chunks : save.at < j => tmp'[j] = tmp[j]
      BY <1>0, <2>1, FileNumbers
    <3>5. \A j \in FileIds : j = save.at + 1 \/ (j \in Chunks /\ save.at + 1 < j) => j \in Chunks /\ save.at < j
      BY <1>0, <2>4, FileNumbers
    <3>6. WholeSoFar'
      BY <2>2, <2>3, <3>2, <3>4, <3>5 DEF WholeSoFar
    <3> QED
      BY <3>3, <3>6
  <2>5. CASE ~(save.at \in Chunks /\ save.at + 1 \in Chunks)
    <3>1. Proceed
      BY <1>3, <2>5 DEF RenameFile
    <3> QED
      BY <2>1, <2>3, <3>1, SaveProceeds
  <2> QED
    BY <2>4, <2>5
<1>4. CASE SaveFails
  <2>1. Proceed /\ save.stage \in {"write", "written", "rename"} /\ UNCHANGED <<loop, semaphore, files>>
    BY <1>4 DEF SaveFails
  <2> QED
    BY <1>0, <2>1, SaveProceeds DEF FilesAreWhole
<1>5. CASE BeginBlocks
  <2>1. loop' = "blocks" /\ locks' = locks + 1 /\ loop = "idle" /\ UNCHANGED <<save, waiters, writing, tmp, files>>
    BY <1>5 DEF BeginBlocks
  <2> QED
    BY <2>1 DEF DiskInv, Paused, Budget, ChunksLeft, WholeSoFar, FilesAreWhole
<1>6. CASE HandleBlock
  <2>1. loop' = loop /\ locks' = locks /\ UNCHANGED <<tmp, files>> /\ FilesAreWhole'
    BY <1>0, <1>6 DEF HandleBlock, FilesAreWhole
  <2>2. CASE MaySave /\ StartSave(FALSE)
    BY <2>1, <2>2, SaveStarts
  <2>3. CASE UNCHANGED <<saves, writing, save, waiters>>
    BY <2>1, <2>3, SaveIsUnchanged
  <2> QED
    BY <1>6, <2>2, <2>3 DEF HandleBlock
<1>7. CASE EndBlocks
  BY <1>7, SaveResumes DEF EndBlocks
<1>8. CASE EndIteration
  BY <1>8, SaveResumes DEF EndIteration
<1>9. CASE Start
  BY <1>9, ProcessEnds DEF Start
<1>10. CASE Sigint
  <2>1. CASE MaySave
    BY <1>0, <1>10, <2>1, SaveStarts DEF Sigint, FilesAreWhole
  <2>2. CASE ~MaySave
    BY <1>10, <2>2, ProcessEnds DEF Sigint
  <2> QED
    BY <2>1, <2>2
<1>11. CASE Killed
  BY <1>11, ProcessEnds DEF Killed
<1>12. CASE ReadCache
  BY <1>0, <1>12, SaveIsUnchanged DEF ReadCache, FilesAreWhole
<1>13. CASE NothingToRead
  BY <1>0, <1>13, SaveIsUnchanged DEF NothingToRead, FilesAreWhole
<1>14. CASE WipeCache
  <2>1. FilesAreWhole'
    BY <1>0, <1>14, NoFileIsFile DEF WipeCache, FilesAreWhole
  <2> QED
    BY <1>14, <2>1, SaveIsUnchanged DEF WipeCache
<1>15. CASE WipeChunk
  <2>1. FilesAreWhole'
    BY <1>0, <1>15, NoFileIsFile DEF WipeChunk, FilesAreWhole
  <2> QED
    BY <1>15, <2>1, SaveIsUnchanged DEF WipeChunk
<1>16. CASE FinishLoad
  <2>1. loop' = loop /\ locks' = locks /\ UNCHANGED <<tmp, files>> /\ FilesAreWhole'
    BY <1>0, <1>16 DEF FinishLoad, FilesAreWhole
  <2>2. CASE ~ignoreBlocks
    BY <1>16, <2>1, <2>2, SaveIsUnchanged DEF FinishLoad
  <2>3. CASE ignoreBlocks
    <3>1. MaySave
      BY <1>16 DEF MaySave, FinishLoad, DiskInv, NotYetSaving
    <3> QED
      BY <1>16, <2>1, <2>3, <3>1, SaveStarts DEF FinishLoad
  <2> QED
    BY <2>2, <2>3
<1>17. CASE UNCHANGED diskVars
  BY <1>0, <1>17, SaveIsUnchanged DEF diskVars, FilesAreWhole
<1> QED
  BY <1>1, <1>2, <1>3, <1>4, <1>5, <1>6, <1>7, <1>8, <1>9, <1>10, <1>11, <1>12, <1>13, <1>14,
     <1>15, <1>16, <1>17 DEF DiskNext, SaveStep, LoopStep, LoadStep
LEMMA NotYetSavingStep == DiskInv /\ [DiskNext]_diskVars => NotYetSaving'
<1> SUFFICES ASSUME DiskInv, [DiskNext]_diskVars PROVE NotYetSaving'
  OBVIOUS
<1> USE DEF process, memory, semaphore, disk, history, NotYetSaving
<1>0. NotYetSaving /\ phase \in Phases
  BY DEF DiskInv, DiskTyped, DiskTypeOK
<1>1. CASE WriteFile \/ FileWritten
  BY <1>0, <1>1 DEF WriteFile, FileWritten
<1>2. CASE RenameFile \/ SaveFails
  <2>1. CASE Proceed
    BY <1>0, <2>1 DEF Proceed
  <2>2. CASE UNCHANGED <<writing, phase>>
    BY <1>0, <2>2
  <2> QED
    BY <1>2, <2>1, <2>2 DEF RenameFile, SaveFails
<1>3. CASE LoopStep \/ HandleBlock
  BY <1>0, <1>3 DEF LoopStep, BeginBlocks, EndBlocks, EndIteration, HandleBlock, Running
<1>4. CASE LoadStep
  BY <1>0, <1>4 DEF LoadStep, ReadCache, NothingToRead, WipeCache, WipeChunk, FinishLoad
<1>5. CASE Start \/ Killed
  BY <1>5 DEF Start, Killed
<1>6. CASE Sigint
  BY <1>6 DEF Sigint
<1>7. CASE UNCHANGED diskVars
  BY <1>0, <1>7 DEF diskVars
<1> QED
  BY <1>1, <1>2, <1>3, <1>4, <1>5, <1>6, <1>7 DEF DiskNext, SaveStep

LEMMA InitialDiskInv == DiskInit => DiskInv
<1> SUFFICES ASSUME DiskInit PROVE DiskInv
  OBVIOUS
<1>1. save.stage = "none" /\ writing = FALSE /\ loop = "idle" /\ locks = 0 /\ waiters = 0
      /\ files = Empty(FileIds)
  BY DEF DiskInit, NoSave
<1>2. FilesAreWhole
  BY <1>1, NoFileIsFile DEF FilesAreWhole, Empty
<1> QED
  BY <1>1, <1>2, InitiallyTyped DEF DiskInv, Paused, Budget, WholeSoFar, NotYetSaving

\* The inductive invariant: types, the lock and the waiting save, enough left for
\* the chunks to come, whole files (disk-cache.ts:35-107, 258-281).
THEOREM DiskInvAlways == DiskSpec => []DiskInv
<1>1. DiskInv /\ [DiskNext]_diskVars => DiskInv'
  BY DiskTypedStep, DiskInvStep, NotYetSavingStep DEF DiskInv
<1> QED
  BY InitialDiskInv, <1>1, PTL DEF DiskSpec

\* Every variable keeps its type, the parts of the mempool that are chosen for
\* the files included: what is left of it always suffices for the chunks to
\* come (disk-cache.ts:52-96).
THEOREM DiskTypeCorrect == DiskSpec => []DiskTypeOK
<1>1. DiskInv => DiskTypeOK
  BY DEF DiskInv, DiskTyped
<1> QED
  BY DiskInvAlways, <1>1, PTL

\* The files that a next process loads were written to their end, wherever this
\* one ends (disk-cache.ts:66-107).
THEOREM FilesAreWholeAlways == DiskSpec => []FilesAreWhole
<1>1. DiskInv => FilesAreWhole
  BY DEF DiskInv, WholeSoFar
<1> QED
  BY DiskInvAlways, <1>1, PTL

\* A save pauses only while blocks are handled, and one that waits will see an
\* unlock, although the loop unlocks twice for one lock (disk-cache.ts:258-281).
THEOREM PausedOnlyByBlocksAlways == DiskSpec => []PausedOnlyByBlocks
<1>1. DiskInv => PausedOnlyByBlocks
  BY DEF DiskInv, Paused, PausedOnlyByBlocks, Locked
<1> QED
  BY DiskInvAlways, <1>1, PTL

-----------------------------------------------------------------------------
(* What the files of a save hold together. *)

\* Of the chunks: how many the save under way has given their part, and where it is.
Done == IF save.stage = "rename" THEN ChunkFiles ELSE IF save.stage = "written" THEN save.at + 1 ELSE save.at
Part(j) == IF save.stage = "rename" /\ j < save.at THEN files[j] ELSE tmp[j]
Saved == {j \in Chunks : j < Done}

\* What the save holds is in the parts and in the rest, and the parts are of the
\* size that leaves too little for one more transaction in each.
SaveIsInParts ==
    save.stage # "none" /\ save.at \in Chunks =>
        /\ \A j \in Saved : Part(j).there
        /\ save.txs = save.rest \cup UNION {Part(j).txs : j \in Saved}
        /\ save.size = Cardinality(save.txs) \div ChunkFiles
        /\ Cardinality(save.rest) + save.size * Done = Cardinality(save.txs)
        /\ 0 \in Saved => Part(0).blocks = save.blocks

\* The mempool that is loaded from what held this one.
Near(loaded, saved) == loaded \subseteq saved /\ Cardinality(saved \ loaded) < ChunkFiles

InFiles == UNION {files[i].txs : i \in Chunks}
FilesHoldSave ==
    ~interrupted /\ ~AmidRenames =>
        \/ ~files[0].there
        \/ /\ \A i \in Chunks : files[i].there
           /\ Near(InFiles, kept.txs) /\ files[0].blocks = kept.blocks

WipedFirst == phase = "wiping" => ~files[0].there
LoadedIsSaved == phase = "loading" /\ ~interrupted => Near(mempool, kept.txs) /\ read.blocks = kept.blocks

FilesInv == SaveIsInParts /\ FilesHoldSave /\ WipedFirst /\ LoadedIsSaved

\* Less is left by the division into chunks than there are chunks.
LEMMA LittleIsLeft == ASSUME NEW n \in Nat PROVE n - (n \div ChunkFiles) * ChunkFiles < ChunkFiles
BY DiskCacheAssumption, SMTT(20)

\* Finite sets and numbers.
LEMMA DoneIsKnown ==
    ASSUME DiskTyped
    PROVE  /\ save.at \in Nat /\ save.at \in FileIds /\ save.size \in Nat /\ save.rest \subseteq Txs /\ save.txs \subseteq Txs
           /\ IsFiniteSet(save.rest) /\ Cardinality(save.rest) \in Nat
           /\ IsFiniteSet(save.txs) /\ Cardinality(save.txs) \in Nat
           /\ Done \in Nat
<1>1. /\ save.at \in Nat /\ save.at \in FileIds /\ save.size \in Nat /\ save.rest \subseteq Txs /\ save.txs \subseteq Txs
  BY FileNumbers DEF DiskTyped, SaveRecord
<1>2. IsFiniteSet(save.rest) /\ IsFiniteSet(save.txs)
  BY <1>1, DiskCacheAssumption, FS_Subset
<1>3. Cardinality(save.rest) \in Nat /\ Cardinality(save.txs) \in Nat
  BY <1>2, FS_CardinalityType
<1>4. Done \in Nat
  BY <1>1, DiskCacheAssumption DEF Done
<1> QED
  BY <1>1, <1>2, <1>3, <1>4

\* Nothing is in parts yet when a save begins.
LEMMA NothingIsSaved ==
    ASSUME DiskInv, NEW sync \in BOOLEAN, MaySave, StartSave(sync)
    PROVE  SaveIsInParts' /\ ~AmidRenames /\ ~AmidRenames'
<1>1. save.stage = "none"
  BY DEF DiskInv, Paused, MaySave
<1>2. PICK stage \in {"wait", "write"} :
        save' = [NoSave EXCEPT !.stage = stage, !.sync = sync, !.rest = mempool, !.txs = mempool,
                               !.size = Cardinality(mempool) \div ChunkFiles]
  BY DEF StartSave
<1>3. /\ save'.stage = stage /\ save'.at = 0 /\ save'.rest = mempool /\ save'.txs = mempool
      /\ save'.size = Cardinality(mempool) \div ChunkFiles
  BY <1>2 DEF NoSave
<1>4. ~AmidRenames /\ ~AmidRenames'
  BY <1>1, <1>2, <1>3 DEF AmidRenames
<1>5. Done' = 0
  BY <1>2, <1>3 DEF Done
<1>6. Saved' = {}
  BY <1>5 DEF Saved, Chunks
<1>7. Cardinality(mempool) \in Nat /\ Cardinality(mempool) \div ChunkFiles \in Nat
  BY DiskCacheAssumption, FS_Subset, FS_CardinalityType, ChunkSizes DEF DiskInv, DiskTyped, DiskTypeOK
<1>8. Cardinality(save'.rest) + save'.size * Done' = Cardinality(save'.txs)
  BY <1>3, <1>5, <1>7
<1>9. SaveIsInParts'
  BY <1>3, <1>6, <1>8 DEF SaveIsInParts
<1> QED
  BY <1>4, <1>9

\* No chunk is under way, or the save is over.
LEMMA NoChunkLeft ==
    ASSUME Proceed, DiskTyped
    PROVE  SaveIsInParts' /\ ~AmidRenames'
<1>1. save'.stage = "none" \/ (save'.at = Rbf /\ save'.stage = "write")
  <2>1. CASE save.at = Rbf
    BY <2>1 DEF Proceed, NoSave
  <2>2. CASE save.at # Rbf
    <3>1. save' = [save EXCEPT !.stage = "write", !.at = Rbf] /\ save \in SaveRecord
      BY <2>2 DEF Proceed, DiskTyped
    <3> QED
      BY <3>1 DEF SaveRecord
  <2> QED
    BY <2>1, <2>2
<1> QED
  BY <1>1, FileNumbers DEF SaveIsInParts, AmidRenames

\* A save that waits, or is resumed, has the parts that it had.
LEMMA PartsStay ==
    ASSUME SaveIsInParts, UNCHANGED disk,
           save'.at = save.at, save'.rest = save.rest, save'.txs = save.txs, save'.size = save.size,
           save'.blocks = save.blocks, save'.stage = save.stage \/ (save.stage = "wait" /\ save'.stage = "write")
    PROVE  SaveIsInParts' /\ (AmidRenames <=> AmidRenames')
<1>1. tmp' = tmp /\ files' = files
  BY DEF disk
<1>2. AmidRenames <=> AmidRenames'
  BY DEF AmidRenames
<1>3. Done' = Done
  BY DEF Done
<1>4. Saved' = Saved
  BY <1>3 DEF Saved
<1>5. ASSUME NEW j PROVE Part(j)' = Part(j)
  BY <1>1 DEF Part
<1>6. save'.stage # "none" => save.stage # "none"
  OBVIOUS
<1>7. \A j \in Saved : (IF save'.stage = "rename" /\ j < save'.at THEN files'[j] ELSE tmp'[j]) = Part(j)
  BY <1>5 DEF Part
<1> QED
  BY <1>2, <1>3, <1>4, <1>6, <1>7 DEF SaveIsInParts, Part

\* The next part leaves the rest: together they hold what they held.
LEMMA WritePart ==
    ASSUME DiskInv, SaveIsInParts, WriteFile
    PROVE  SaveIsInParts' /\ ~AmidRenames /\ ~AmidRenames'
<1>0. /\ save \in SaveRecord /\ save.stage = "write" /\ tmp \in [FileIds -> File] /\ UNCHANGED files
      /\ save.at \in Nat /\ save.at \in FileIds /\ save.size \in Nat
      /\ Cardinality(save.rest) \in Nat /\ Cardinality(save.txs) \in Nat
  BY DoneIsKnown DEF DiskInv, DiskTyped, WriteFile
<1>1. CASE save.at = Rbf
  <2>1. save' = [save EXCEPT !.stage = "written"]
    BY <1>1 DEF WriteFile
  <2>2. save'.stage = "written" /\ save'.at = Rbf
    BY <1>0, <1>1, <2>1 DEF SaveRecord
  <2> QED
    BY <1>0, <2>2, FileNumbers DEF SaveIsInParts, AmidRenames
<1>2. CASE save.at # Rbf
  <2> DEFINE part == CHOOSE S \in kSubset(save.size, save.rest) : TRUE
             blocks == IF save.at = 0 THEN height ELSE save.blocks
             file == [Content(part, blocks) EXCEPT !.whole = FALSE]
             n == save.at
  <2>1. /\ save' = [save EXCEPT !.stage = "written", !.rest = @ \ part, !.blocks = blocks]
        /\ tmp' = [tmp EXCEPT ![n] = file]
    BY <1>2 DEF WriteFile
  <2>2. n \in Chunks
    BY <1>0, <1>2 DEF FileIds, Rbf
  <2>3. part \subseteq save.rest /\ Cardinality(save.rest \ part) = Cardinality(save.rest) - save.size
    BY <1>0, <2>2, NextChunk DEF DiskInv
  <2>4. file.there /\ file.txs = part /\ file.blocks = blocks
    BY DEF Content
  <2> HIDE DEF part, blocks, file
  <2>5. /\ save'.stage = "written" /\ save'.at = n /\ save'.rest = save.rest \ part /\ save'.txs = save.txs
        /\ save'.size = save.size /\ save'.blocks = blocks
    BY <1>0, <2>1 DEF SaveRecord
  <2>6. Done = n /\ Done' = n + 1
    BY <1>0, <2>5 DEF Done
  <2>7. Saved' = Saved \cup {n} /\ n \notin Saved /\ (0 \in Saved \/ n = 0)
    BY <1>0, <2>2, <2>6, FileNumbers DEF Saved, Chunks
  <2>8. \A j \in Chunks : tmp'[j] = IF j = n THEN file ELSE tmp[j]
    BY <1>0, <2>1, <2>2, FileNumbers
  <2>9. \A j \in Chunks : Part(j) = tmp[j]
    BY <1>0 DEF Part
  <2>10. /\ \A j \in Saved : tmp[j].there
         /\ save.txs = save.rest \cup UNION {tmp[j].txs : j \in Saved}
         /\ save.size = Cardinality(save.txs) \div ChunkFiles
         /\ Cardinality(save.rest) + save.size * n = Cardinality(save.txs)
         /\ 0 \in Saved => tmp[0].blocks = save.blocks
    <3>1. Saved \subseteq Chunks
      BY DEF Saved
    <3>2. {Part(j).txs : j \in Saved} = {tmp[j].txs : j \in Saved}
      BY <2>9, <3>1
    <3> QED
      BY <1>0, <2>2, <2>6, <2>9, <3>1, <3>2, FileNumbers DEF SaveIsInParts
  <2>11. \A j \in Saved' : tmp'[j].there
    BY <2>4, <2>7, <2>8, <2>10 DEF Saved
  <2>12. save.txs = (save.rest \ part) \cup UNION {tmp'[j].txs : j \in Saved'}
    <3>1. \A j \in Saved : tmp'[j] = tmp[j]
      BY <2>7, <2>8 DEF Saved
    <3>2. tmp'[n].txs = part
      BY <2>2, <2>4, <2>8
    <3>3. UNION {tmp'[j].txs : j \in Saved'} = (UNION {tmp[j].txs : j \in Saved}) \cup part
      BY <2>7, <3>1, <3>2
    <3> QED
      BY <2>3, <2>10, <3>3
  <2>13. Cardinality(save.rest \ part) + save.size * (n + 1) = Cardinality(save.txs)
    <3>1. save.size * (n + 1) = save.size * n + save.size /\ save.size * n \in Nat
      <4>1. n + 1 \in Nat /\ n + 1 > 0 /\ (n + 1) - 1 = n
        BY <1>0
      <4> QED
        BY <1>0, <4>1, OneChunkLess
    <3> QED
      BY <1>0, <2>3, <2>10, <3>1
  <2>14. tmp'[0].blocks = blocks
    <3>1. CASE n = 0
      BY <2>4, <2>8, <3>1, FileNumbers
    <3>2. CASE n # 0
      <4>1. blocks = save.blocks
        BY <3>2 DEF blocks
      <4> QED
        BY <2>7, <2>8, <2>10, <3>2, <4>1, FileNumbers
    <3> QED
      BY <3>1, <3>2
  <2>15. \A j : (IF save'.stage = "rename" /\ j < save'.at THEN files'[j] ELSE tmp'[j]) = tmp'[j]
    BY <2>5
  <2>16. SaveIsInParts'
    BY <2>5, <2>6, <2>10, <2>11, <2>12, <2>13, <2>14, <2>15 DEF SaveIsInParts, Part
  <2> QED
    BY <1>0, <2>5, <2>16 DEF AmidRenames
<1> QED
  BY <1>1, <1>2

\* A part that is written to its end has the content that it was begun with.
LEMMA PartIsWritten ==
    ASSUME DiskInv, SaveIsInParts, FileWritten
    PROVE  SaveIsInParts' /\ ~AmidRenames /\ ~AmidRenames'
<1>0. /\ save \in SaveRecord /\ save.stage = "written" /\ tmp \in [FileIds -> File] /\ UNCHANGED files
      /\ save.at \in Nat /\ save.at \in FileIds
      /\ tmp' = [tmp EXCEPT ![save.at] = [tmp[save.at] EXCEPT !.whole = TRUE]]
  BY DoneIsKnown DEF DiskInv, DiskTyped, FileWritten
<1> DEFINE n == save.at
<1>1. /\ save'.rest = save.rest /\ save'.txs = save.txs
      /\ save'.size = save.size /\ save'.blocks = save.blocks
      /\ n \in Chunks /\ n + 1 \in Chunks => save'.stage \in {"wait", "write"} /\ save'.at = n + 1
      /\ ~(n \in Chunks /\ n + 1 \in Chunks) =>
            save'.stage = "rename" /\ save'.at = IF n = Rbf THEN Rbf ELSE 0
  <2>1. CASE n \in Chunks /\ n + 1 \in Chunks
    <3>1. PICK stage \in {"wait", "write"} : save' = [save EXCEPT !.stage = stage, !.at = n + 1]
      BY <2>1 DEF FileWritten
    <3>2. /\ save'.stage = stage /\ save'.at = n + 1 /\ save'.rest = save.rest /\ save'.txs = save.txs
          /\ save'.size = save.size /\ save'.blocks = save.blocks
      BY <1>0, <3>1 DEF SaveRecord
    <3> QED
      BY <2>1, <3>2
  <2>2. CASE ~(n \in Chunks /\ n + 1 \in Chunks)
    <3>1. save' = [save EXCEPT !.stage = "rename", !.at = IF n = Rbf THEN Rbf ELSE 0]
      BY <2>2 DEF FileWritten
    <3>2. /\ save'.stage = "rename" /\ save'.at = (IF n = Rbf THEN Rbf ELSE 0) /\ save'.rest = save.rest
          /\ save'.txs = save.txs /\ save'.size = save.size /\ save'.blocks = save.blocks
      BY <1>0, <3>1 DEF SaveRecord
    <3> QED
      BY <2>2, <3>2
  <2> QED
    BY <2>1, <2>2
<1>2. save'.at \in Nat
  BY <1>0, <1>1, FileNumbers
<1>3. ~AmidRenames /\ ~AmidRenames'
  BY <1>0, <1>1, <1>2, FileNumbers DEF AmidRenames
<1>4. CASE n = Rbf
  <2>1. save'.at = Rbf
    BY <1>1, <1>4, FileNumbers
  <2> QED
    BY <1>2, <1>3, <2>1, FileNumbers DEF SaveIsInParts
<1>5. CASE n # Rbf
  <2>1. n \in Chunks /\ (n + 1 \in Chunks \/ n + 1 = Rbf)
    BY <1>0, <1>5, FileNumbers DEF FileIds
  <2>2. Done = n + 1 /\ Done' = n + 1
    BY <1>0, <1>1, <1>2, <1>5, <2>1, FileNumbers DEF Done, Rbf
  <2>3. Saved' = Saved
    BY <2>2 DEF Saved
  <2>4. \A j \in Chunks : Part(j) = tmp[j]
    BY <1>0 DEF Part
  <2>5. \A j \in Chunks : (IF save'.stage = "rename" /\ j < save'.at THEN files'[j] ELSE tmp'[j]) = tmp'[j]
    BY <1>1, <1>2, <1>5, FileNumbers
  <2>6. \A j \in Saved : j \in Chunks
    BY DEF Saved
  <2>7. n \in Saved
    BY <1>0, <2>1, <2>2 DEF Saved
  <2>8. /\ \A j \in Saved : tmp[j].there
        /\ save.txs = save.rest \cup UNION {tmp[j].txs : j \in Saved}
        /\ save.size = Cardinality(save.txs) \div ChunkFiles
        /\ Cardinality(save.rest) + save.size * Done = Cardinality(save.txs)
        /\ 0 \in Saved => tmp[0].blocks = save.blocks
    <3>1. {Part(j).txs : j \in Saved} = {tmp[j].txs : j \in Saved}
      BY <2>4, <2>6
    <3> QED
      BY <1>0, <2>1, <2>4, <2>6, <3>1, FileNumbers DEF SaveIsInParts
  <2>9. \A j \in Saved : tmp'[j].there /\ tmp'[j].txs = tmp[j].txs /\ tmp'[j].blocks = tmp[j].blocks
    <3>1. ASSUME NEW f \in File, f.there
          PROVE  LET g == [f EXCEPT !.whole = TRUE] IN g.there /\ g.txs = f.txs /\ g.blocks = f.blocks
      BY <3>1 DEF File
    <3>2. tmp[n] \in File /\ tmp[n].there /\ tmp'[n] = [tmp[n] EXCEPT !.whole = TRUE]
      BY <1>0, <2>7, <2>8
    <3>3. tmp'[n].there /\ tmp'[n].txs = tmp[n].txs /\ tmp'[n].blocks = tmp[n].blocks
      BY <3>1, <3>2
    <3>4. \A j \in Saved : j # n => tmp'[j] = tmp[j]
      BY <1>0, <2>6, FileNumbers
    <3> QED
      BY <2>8, <3>3, <3>4
  <2>10. {tmp'[j].txs : j \in Saved} = {tmp[j].txs : j \in Saved}
    BY <2>9
  <2>11. {(IF save'.stage = "rename" /\ j < save'.at THEN files'[j] ELSE tmp'[j]).txs : j \in Saved}
           = {tmp[j].txs : j \in Saved}
    BY <2>5, <2>6, <2>10
  <2>12. /\ \A j \in Saved : (IF save'.stage = "rename" /\ j < save'.at THEN files'[j] ELSE tmp'[j]).there
         /\ 0 \in Saved =>
              (IF save'.stage = "rename" /\ 0 < save'.at THEN files'[0] ELSE tmp'[0]).blocks = save.blocks
    BY <2>5, <2>6, <2>8, <2>9
  <2>13. SaveIsInParts'
    BY <1>1, <2>2, <2>3, <2>8, <2>11, <2>12 DEF SaveIsInParts, Part
  <2> QED
    BY <1>3, <2>13
<1> QED
  BY <1>4, <1>5

\* The files hold what they held as long as none of the chunks changes.
LEMMA FilesStay ==
    ASSUME FilesHoldSave, \A i \in Chunks : files'[i] = files[i], kept' = kept,
           ~interrupted' /\ ~AmidRenames' => ~interrupted /\ ~AmidRenames
    PROVE  FilesHoldSave'
<1>1. InFiles' = InFiles
  <2>1. {files'[i].txs : i \in Chunks} = {files[i].txs : i \in Chunks}
    OBVIOUS
  <2> QED
    BY <2>1 DEF InFiles
<1>2. 0 \in Chunks
  BY FileNumbers
<1> QED
  BY <1>1, <1>2 DEF FilesHoldSave, Near

\* When the last chunk is renamed, the files hold the save.
LEMMA LastIsRenamed ==
    ASSUME DiskInv, SaveIsInParts, RenameFile, save.at \in Chunks, save.at + 1 = Rbf
    PROVE  FilesHoldSave'
<1>0. /\ save.stage = "rename" /\ files \in [FileIds -> File]
      /\ files' = [files EXCEPT ![save.at] = tmp[save.at]]
      /\ kept' = [txs |-> save.txs, blocks |-> save.blocks]
      /\ save.at \in Nat /\ save.size \in Nat /\ save.rest \subseteq Txs /\ save.txs \subseteq Txs
      /\ IsFiniteSet(save.rest) /\ Cardinality(save.rest) \in Nat /\ Cardinality(save.txs) \in Nat
  BY DoneIsKnown DEF DiskInv, DiskTyped, RenameFile, MayRename
<1>1. Saved = Chunks /\ Done = ChunkFiles /\ ChunkFiles \in Nat
  BY <1>0, DiskCacheAssumption DEF Saved, Done, Chunks
<1>2. \A j \in Chunks : files'[j] = Part(j)
  <2>1. \A j \in Chunks : j \in FileIds /\ (j = save.at \/ j < save.at)
    BY <1>0, DiskCacheAssumption, FileNumbers DEF Chunks, Rbf
  <2>2. \A j \in Chunks : j < save.at => files'[j] = files[j]
    BY <1>0, <2>1
  <2>3. files'[save.at] = tmp[save.at] /\ Part(save.at) = tmp[save.at]
    BY <1>0, <2>1 DEF Part
  <2> QED
    BY <1>0, <2>1, <2>2, <2>3 DEF Part
<1>3. /\ \A j \in Chunks : Part(j).there
      /\ save.txs = save.rest \cup UNION {Part(j).txs : j \in Chunks}
      /\ save.size = Cardinality(save.txs) \div ChunkFiles
      /\ Cardinality(save.rest) + save.size * ChunkFiles = Cardinality(save.txs)
      /\ Part(0).blocks = save.blocks
  BY <1>0, <1>1, FileNumbers DEF SaveIsInParts
<1>4. InFiles' = UNION {Part(j).txs : j \in Chunks}
  <2>1. {files'[j].txs : j \in Chunks} = {Part(j).txs : j \in Chunks}
    BY <1>2
  <2> QED
    BY <2>1 DEF InFiles
<1>5. Cardinality(save.rest) < ChunkFiles
  <2>1. Cardinality(save.txs) - (Cardinality(save.txs) \div ChunkFiles) * ChunkFiles < ChunkFiles
    BY <1>0, LittleIsLeft
  <2>2. Cardinality(save.txs) - save.size * ChunkFiles < ChunkFiles
    BY <1>3, <2>1
  <2> DEFINE inChunks == save.size * ChunkFiles
  <2>3. inChunks \in Nat
    BY <1>0, <1>1
  <2> HIDE DEF inChunks
  <2>4. Cardinality(save.rest) + inChunks = Cardinality(save.txs) /\ Cardinality(save.txs) - inChunks < ChunkFiles
    BY <1>3, <2>2 DEF inChunks
  <2> QED
    BY <1>0, <1>1, <2>3, <2>4
<1>6. Near(InFiles', save.txs)
  <2>1. InFiles' \subseteq save.txs /\ save.txs \ InFiles' \subseteq save.rest
    BY <1>3, <1>4
  <2>2. Cardinality(save.txs \ InFiles') <= Cardinality(save.rest)
    BY <1>0, <2>1, FS_Subset
  <2>3. Cardinality(save.txs \ InFiles') \in Nat
    BY <1>0, <2>1, FS_Subset, FS_CardinalityType
  <2> QED
    BY <1>0, <1>1, <1>5, <2>1, <2>2, <2>3 DEF Near
<1>7. kept'.txs = save.txs /\ kept'.blocks = save.blocks
  BY <1>0
<1>8. 0 \in Chunks
  BY FileNumbers
<1> QED
  BY <1>2, <1>3, <1>6, <1>7, <1>8 DEF FilesHoldSave, Near

\* A part that is renamed is the same part under its final name.
LEMMA FileIsRenamed ==
    ASSUME DiskInv, SaveIsInParts, FilesHoldSave, RenameFile
    PROVE  SaveIsInParts' /\ FilesHoldSave'
<1>0. /\ save \in SaveRecord /\ save.stage = "rename"
      /\ tmp \in [FileIds -> File] /\ files \in [FileIds -> File]
      /\ files' = [files EXCEPT ![save.at] = tmp[save.at]]
      /\ tmp' = [tmp EXCEPT ![save.at] = NoFile]
      /\ save.at \in Nat /\ save.at \in FileIds
  BY DoneIsKnown DEF DiskInv, DiskTyped, RenameFile, MayRename
<1> DEFINE n == save.at
<1>1. CASE n \in Chunks /\ n + 1 \in Chunks
  <2>1. save' = [save EXCEPT !.at = n + 1, !.stage = "rename"]
    BY <1>1 DEF RenameFile
  <2>2. /\ save'.stage = "rename" /\ save'.at = n + 1 /\ save'.rest = save.rest /\ save'.txs = save.txs
        /\ save'.size = save.size /\ save'.blocks = save.blocks
    BY <1>0, <2>1 DEF SaveRecord
  <2>3. Done' = Done
    BY <1>0, <2>2 DEF Done
  <2>4. Saved' = Saved
    BY <2>3 DEF Saved
  <2>5. \A j \in Chunks : (IF save'.stage = "rename" /\ j < save'.at THEN files'[j] ELSE tmp'[j]) = Part(j)
    <3> SUFFICES ASSUME NEW j \in Chunks
                 PROVE  (IF j < n + 1 THEN files'[j] ELSE tmp'[j]) = Part(j)
      BY <2>2
    <3>1. j \in Nat /\ j \in FileIds
      BY FileNumbers
    <3>2. CASE j < n
      <4>1. files'[j] = files[j] /\ j < n + 1
        BY <1>0, <3>1, <3>2
      <4> QED
        BY <1>0, <3>2, <4>1 DEF Part
    <3>3. CASE j = n
      <4>1. files'[j] = tmp[j] /\ j < n + 1 /\ ~(j < n)
        BY <1>0, <3>1, <3>3
      <4> QED
        BY <4>1 DEF Part
    <3>4. CASE n < j
      <4>1. tmp'[j] = tmp[j] /\ ~(j < n + 1) /\ ~(j < n)
        BY <1>0, <3>1, <3>4
      <4> QED
        BY <4>1 DEF Part
    <3> QED
      BY <1>0, <3>1, <3>2, <3>3, <3>4
  <2>6. \A j \in Saved : j \in Chunks
    BY DEF Saved
  <2>7. {(IF save'.stage = "rename" /\ j < save'.at THEN files'[j] ELSE tmp'[j]).txs : j \in Saved}
          = {Part(j).txs : j \in Saved}
    BY <2>5, <2>6
  <2>8. /\ \A j \in Saved : Part(j).there
        /\ save.txs = save.rest \cup UNION {Part(j).txs : j \in Saved}
        /\ save.size = Cardinality(save.txs) \div ChunkFiles
        /\ Cardinality(save.rest) + save.size * Done = Cardinality(save.txs)
        /\ 0 \in Saved => Part(0).blocks = save.blocks
    BY <1>0, <1>1 DEF SaveIsInParts
  <2>9. /\ \A j \in Saved : (IF save'.stage = "rename" /\ j < save'.at THEN files'[j] ELSE tmp'[j]).there
        /\ 0 \in Saved =>
             (IF save'.stage = "rename" /\ 0 < save'.at THEN files'[0] ELSE tmp'[0]).blocks = save.blocks
    BY <2>5, <2>6, <2>8
  <2>10. SaveIsInParts'
    BY <2>2, <2>3, <2>4, <2>7, <2>8, <2>9 DEF SaveIsInParts, Part
  <2>11. AmidRenames'
    BY <1>0, <1>1, <2>2 DEF AmidRenames
  <2> QED
    BY <2>10, <2>11 DEF FilesHoldSave
<1>2. CASE ~(n \in Chunks /\ n + 1 \in Chunks)
  <2>1. Proceed
    BY <1>2 DEF RenameFile
  <2>2. SaveIsInParts' /\ ~AmidRenames'
    BY <2>1, NoChunkLeft DEF DiskInv
  <2>3. CASE n = Rbf
    <3>1. \A i \in Chunks : files'[i] = files[i]
      BY <1>0, <2>3, FileNumbers
    <3>2. n + 1 # Rbf
      BY <1>0, <2>3
    <3>3. kept' = kept /\ interrupted' = (interrupted /\ TRUE)
      BY <3>2 DEF RenameFile
    <3>4. ~AmidRenames
      BY <2>3, FileNumbers DEF AmidRenames
    <3> QED
      BY <2>2, <3>1, <3>3, <3>4, FilesStay
  <2>4. CASE n # Rbf
    <3>1. n \in Chunks /\ n + 1 = Rbf
      BY <1>0, <1>2, <2>4, FileNumbers DEF FileIds
    <3> QED
      BY <2>2, <3>1, LastIsRenamed
  <2> QED
    BY <2>3, <2>4
<1> QED
  BY <1>1, <1>2

\* No save is under way before the main loop runs, nor does it start with one.
LEMMA NoSaveYet ==
    ASSUME DiskInv, phase \in {"down", "starting", "wiping", "loading"}
    PROVE  save.stage = "none" /\ ~AmidRenames
BY DEF DiskInv, NotYetSaving, Paused, AmidRenames

\* A file operation of the save leaves a process that is not loading so.
LEMMA SaveIsNotLoading ==
    ASSUME DiskInv, save.stage # "none", Proceed \/ phase' = phase
    PROVE  WipedFirst' /\ LoadedIsSaved'
<1>1. phase \notin {"down", "starting", "wiping", "loading"}
  BY NoSaveYet
<1>2. phase' \notin {"wiping", "loading"}
  BY <1>1 DEF Proceed
<1> QED
  BY <1>2 DEF WipedFirst, LoadedIsSaved

\* What the files hold is loaded, all of it.
LEMMA FilesAreLoaded ==
    ASSUME DiskInv, FilesHoldSave, ReadCache
    PROVE  LoadedIsSaved'
<1>1. ~AmidRenames /\ interrupted' = interrupted /\ kept' = kept
  BY NoSaveYet DEF ReadCache, history
<1> SUFFICES ASSUME ~interrupted PROVE Near(mempool', kept.txs) /\ read'.blocks = kept.blocks
  BY <1>1 DEF LoadedIsSaved, Near
<1>2. /\ \A i \in Chunks : files[i].there
      /\ Near(InFiles, kept.txs) /\ files[0].blocks = kept.blocks
  BY <1>1 DEF FilesHoldSave, ReadCache, Readable
<1>3. ReadableChunks = Chunks
  BY <1>2, FileNumbers DEF ReadableChunks, Readable, DiskInv, WholeSoFar, FilesAreWhole
<1>4. mempool' = InFiles /\ read'.blocks = files[0].blocks
  BY <1>3 DEF ReadCache, InFiles
<1> QED
  BY <1>2, <1>4

\* A step that leaves the files and the parts of the save alone.
LEMMA FilesAreLeft ==
    ASSUME DiskInv, SaveIsInParts, FilesHoldSave, UNCHANGED <<tmp, files, kept>>,
           \/ UNCHANGED save /\ interrupted' = interrupted
           \/ Unlock /\ interrupted' = interrupted
           \/ save' = NoSave /\ (~interrupted' => ~interrupted /\ ~AmidRenames)
    PROVE  SaveIsInParts' /\ FilesHoldSave'
<1>0. UNCHANGED disk /\ save \in SaveRecord
  BY DEF disk, DiskInv, DiskTyped
<1>1. CASE UNCHANGED save /\ interrupted' = interrupted
  <2>1. SaveIsInParts' /\ (AmidRenames <=> AmidRenames')
    BY <1>0, <1>1, PartsStay
  <2> QED
    BY <1>1, <2>1, FilesStay
<1>2. CASE Unlock /\ interrupted' = interrupted
  <2>1. /\ save'.at = save.at /\ save'.rest = save.rest /\ save'.txs = save.txs /\ save'.size = save.size
        /\ save'.blocks = save.blocks
        /\ save'.stage = save.stage \/ (save.stage = "wait" /\ save'.stage = "write")
    <3>1. CASE save' = save
      BY <3>1
    <3>2. CASE save' = [save EXCEPT !.stage = "write"] /\ waiters > 0
      <4>1. save.stage = "wait"
        BY <3>2 DEF DiskInv, Paused
      <4> QED
        BY <1>0, <3>2, <4>1 DEF SaveRecord
    <3> QED
      BY <1>2, <3>1, <3>2 DEF Unlock, Resume
  <2>2. SaveIsInParts' /\ (AmidRenames <=> AmidRenames')
    BY <1>0, <2>1, PartsStay
  <2> QED
    BY <1>2, <2>2, FilesStay
<1>3. CASE save' = NoSave /\ (~interrupted' => ~interrupted /\ ~AmidRenames)
  <2>1. SaveIsInParts'
    BY <1>3 DEF NoSave, SaveIsInParts
  <2> QED
    BY <1>3, <2>1, FilesStay
<1> QED
  BY <1>1, <1>2, <1>3

\* One case for each action; those that write or rename files are lemmas above.
LEMMA FilesInvStep == DiskInv /\ FilesInv /\ [DiskNext]_diskVars => FilesInv'
<1> SUFFICES ASSUME DiskInv, FilesInv, [DiskNext]_diskVars PROVE FilesInv'
  OBVIOUS
<1>0. SaveIsInParts /\ FilesHoldSave /\ WipedFirst /\ LoadedIsSaved
  BY DEF FilesInv
<1>a. ASSUME phase' \notin {"wiping", "loading"} PROVE WipedFirst' /\ LoadedIsSaved'
  BY <1>a DEF WipedFirst, LoadedIsSaved
<1> USE DEF process, memory, semaphore, disk, history
<1>1. CASE WriteFile
  <2>1. SaveIsInParts' /\ ~AmidRenames
    BY <1>0, <1>1, WritePart
  <2>2. FilesHoldSave'
    BY <1>0, <1>1, <2>1, FilesStay DEF WriteFile
  <2>3. WipedFirst' /\ LoadedIsSaved'
    BY <1>1, SaveIsNotLoading DEF WriteFile
  <2> QED
    BY <2>1, <2>2, <2>3 DEF FilesInv
<1>2. CASE FileWritten
  <2>1. SaveIsInParts' /\ ~AmidRenames
    BY <1>0, <1>2, PartIsWritten
  <2>2. FilesHoldSave'
    BY <1>0, <1>2, <2>1, FilesStay DEF FileWritten
  <2>3. WipedFirst' /\ LoadedIsSaved'
    BY <1>2, SaveIsNotLoading DEF FileWritten
  <2> QED
    BY <2>1, <2>2, <2>3 DEF FilesInv
<1>3. CASE RenameFile
  <2>1. SaveIsInParts' /\ FilesHoldSave'
    BY <1>0, <1>3, FileIsRenamed
  <2>2. WipedFirst' /\ LoadedIsSaved'
    BY <1>3, SaveIsNotLoading DEF RenameFile, MayRename
  <2> QED
    BY <2>1, <2>2 DEF FilesInv
<1>4. CASE SaveFails
  <2>1. SaveIsInParts' /\ ~AmidRenames'
    BY <1>4, NoChunkLeft DEF SaveFails, DiskInv
  <2>2. FilesHoldSave'
    BY <1>0, <1>4, FilesStay DEF SaveFails
  <2>3. WipedFirst' /\ LoadedIsSaved'
    BY <1>4, SaveIsNotLoading DEF SaveFails
  <2> QED
    BY <2>1, <2>2, <2>3 DEF FilesInv
<1>5. CASE LoopStep
  <2>1. SaveIsInParts' /\ FilesHoldSave'
    BY <1>0, <1>5, FilesAreLeft DEF LoopStep, BeginBlocks, EndBlocks, EndIteration
  <2>2. phase' \notin {"wiping", "loading"}
    BY <1>5 DEF LoopStep, BeginBlocks, EndBlocks, EndIteration, Running
  <2> QED
    BY <1>a, <2>1, <2>2 DEF FilesInv
<1>6. CASE HandleBlock
  <2>1. SaveIsInParts' /\ FilesHoldSave'
    <3>1. CASE MaySave /\ StartSave(FALSE)
      <4>1. SaveIsInParts' /\ ~AmidRenames
        BY <3>1, NothingIsSaved
      <4> QED
        BY <1>0, <1>6, <4>1, FilesStay DEF HandleBlock
    <3>2. CASE UNCHANGED save
      BY <1>0, <1>6, <3>2, FilesAreLeft DEF HandleBlock
    <3> QED
      BY <1>6, <3>1, <3>2 DEF HandleBlock
  <2>2. phase' \notin {"wiping", "loading"}
    BY <1>6 DEF HandleBlock, Running
  <2> QED
    BY <1>a, <2>1, <2>2 DEF FilesInv
<1>7. CASE Start
  <2>1. ~AmidRenames
    BY <1>7, NoSaveYet DEF Start
  <2>2. SaveIsInParts' /\ FilesHoldSave'
    BY <1>0, <1>7, <2>1, FilesAreLeft DEF Start
  <2> QED
    BY <1>7, <1>a, <2>2 DEF FilesInv, Start
<1>8. CASE Killed
  <2>1. SaveIsInParts' /\ FilesHoldSave'
    BY <1>0, <1>8, FilesAreLeft DEF Killed
  <2> QED
    BY <1>8, <1>a, <2>1 DEF FilesInv, Killed
<1>9. CASE Sigint
  <2>1. SaveIsInParts' /\ FilesHoldSave'
    <3>1. CASE MaySave
      <4>1. SaveIsInParts' /\ ~AmidRenames
        BY <1>9, <3>1, NothingIsSaved DEF Sigint
      <4> QED
        BY <1>0, <1>9, <3>1, <4>1, FilesStay DEF Sigint
    <3>2. CASE ~MaySave
      BY <1>0, <1>9, <3>2, FilesAreLeft DEF Sigint
    <3> QED
      BY <3>1, <3>2
  <2>2. phase' \notin {"wiping", "loading"}
    BY <1>9 DEF Sigint
  <2> QED
    BY <1>a, <2>1, <2>2 DEF FilesInv
<1>10. CASE ReadCache
  <2>1. SaveIsInParts' /\ FilesHoldSave'
    BY <1>0, <1>10, FilesAreLeft DEF ReadCache
  <2>2. LoadedIsSaved'
    BY <1>0, <1>10, FilesAreLoaded
  <2>3. WipedFirst'
    BY <1>10 DEF WipedFirst, ReadCache
  <2> QED
    BY <2>1, <2>2, <2>3 DEF FilesInv
<1>11. CASE NothingToRead
  <2>1. SaveIsInParts' /\ FilesHoldSave'
    BY <1>0, <1>11, FilesAreLeft DEF NothingToRead
  <2> QED
    BY <1>11, <1>a, <2>1 DEF FilesInv, NothingToRead
<1>12. CASE WipeCache \/ WipeChunk
  <2>1. save' = save /\ save.stage = "none"
    BY <1>12, NoSaveYet DEF WipeCache, WipeChunk
  <2>2. SaveIsInParts'
    BY <2>1 DEF SaveIsInParts
  <2>3. ~files'[0].there
    <3>1. 0 \in FileIds /\ files \in [FileIds -> File] /\ ~NoFile.there
      BY FileNumbers DEF DiskInv, DiskTyped, NoFile
    <3>2. CASE WipeCache
      BY <3>1, <3>2 DEF WipeCache
    <3>3. CASE WipeChunk
      <4>1. ~files[0].there
        BY <1>0, <3>3 DEF WipedFirst, WipeChunk
      <4> DEFINE first == Min({i \in Chunks : files[i].there})
      <4>2. files' = files \/ files' = [files EXCEPT ![first] = NoFile]
        BY <3>3 DEF WipeChunk
      <4> HIDE DEF first
      <4> QED
        BY <3>1, <4>1, <4>2
    <3> QED
      BY <1>12, <3>2, <3>3
  <2>4. phase' # "loading"
    BY <1>12 DEF WipeCache, WipeChunk
  <2> QED
    BY <2>2, <2>3, <2>4 DEF FilesInv, FilesHoldSave, WipedFirst, LoadedIsSaved
<1>13. CASE FinishLoad
  <2>1. SaveIsInParts' /\ FilesHoldSave'
    <3>1. CASE ignoreBlocks
      <4>1. MaySave /\ StartSave(TRUE)
        BY <1>13, <3>1 DEF MaySave, FinishLoad, DiskInv, NotYetSaving
      <4>2. SaveIsInParts' /\ ~AmidRenames
        BY <4>1, NothingIsSaved
      <4> QED
        BY <1>0, <1>13, <4>2, FilesStay DEF FinishLoad
    <3>2. CASE ~ignoreBlocks
      BY <1>0, <1>13, <3>2, FilesAreLeft DEF FinishLoad
    <3> QED
      BY <3>1, <3>2
  <2>2. phase' \notin {"wiping", "loading"}
    BY <1>13 DEF FinishLoad
  <2> QED
    BY <1>a, <2>1, <2>2 DEF FilesInv
<1>14. CASE UNCHANGED diskVars
  <2>1. UNCHANGED <<phase, mempool, read, save, tmp, files, kept, interrupted>>
    BY <1>14 DEF diskVars
  <2>2. SaveIsInParts' /\ FilesHoldSave'
    BY <1>0, <2>1, FilesAreLeft
  <2> QED
    BY <1>0, <2>1, <2>2 DEF FilesInv, WipedFirst, LoadedIsSaved, Near
<1> QED
  BY <1>1, <1>2, <1>3, <1>4, <1>5, <1>6, <1>7, <1>8, <1>9, <1>10, <1>11, <1>12, <1>13, <1>14
     DEF DiskNext, SaveStep, LoadStep

LEMMA InitialFilesInv == DiskInit => FilesInv
<1> SUFFICES ASSUME DiskInit PROVE FilesInv
  OBVIOUS
<1>1. save.stage = "none" /\ phase = "down" /\ ~files[0].there
  BY FileNumbers DEF DiskInit, NoSave, Empty, NoFile
<1> QED
  BY <1>1 DEF FilesInv, SaveIsInParts, FilesHoldSave, WipedFirst, LoadedIsSaved

LEMMA FilesInvAlways == DiskSpec => []FilesInv
<1>1. DiskInv /\ FilesInv /\ [DiskNext]_diskVars => FilesInv'
  BY FilesInvStep
<1> QED
  BY DiskInvAlways, InitialFilesInv, <1>1, PTL DEF DiskSpec

\* What a process loads is what one save held, but for less than a transaction
\* for each file, and the blocks of that save, unless the save ended between two
\* renames: wherever saves fail, processes end and blocks come between the files
\* (disk-cache.ts:63, 103, 203-222).
THEOREM RestoredIsSavedAlways == DiskSpec => RestoredIsSaved
<1>1. DiskInv /\ FilesInv /\ [DiskNext]_diskVars =>
        (phase = "loading" /\ phase' = "running" /\ ~interrupted =>
            /\ mempool' \subseteq kept.txs
            /\ Cardinality(kept.txs \ mempool') < ChunkFiles
            /\ height' = kept.blocks) \/ UNCHANGED diskVars
  <2> SUFFICES ASSUME DiskInv, FilesInv, DiskNext, phase = "loading", phase' = "running", ~interrupted
               PROVE  /\ mempool' \subseteq kept.txs
                      /\ Cardinality(kept.txs \ mempool') < ChunkFiles
                      /\ height' = kept.blocks
    OBVIOUS
  <2>1. save.stage = "none"
    BY NoSaveYet
  <2>2. FinishLoad
    BY <2>1 DEF DiskNext, SaveStep, SaveFails, WriteFile, FileWritten, RenameFile, MayRename,
       LoopStep, BeginBlocks, EndBlocks, EndIteration, HandleBlock, Running, LoadStep, ReadCache,
       NothingToRead, WipeCache, WipeChunk, Start, Sigint, Killed
  <2>3. mempool' = mempool /\ height' = read.blocks
    BY <2>2 DEF FinishLoad
  <2> QED
    BY <2>3 DEF FilesInv, LoadedIsSaved, Near
<1> QED
  BY DiskInvAlways, FilesInvAlways, <1>1, PTL DEF DiskSpec, RestoredIsSaved
====
