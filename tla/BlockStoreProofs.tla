-------------------------- MODULE BlockStoreProofs --------------------------
(***************************************************************************)
(* Proofs about the stored blocks: the types, with every stored block at   *)
(* its own height (StoreInv); that the table settles after a switch of     *)
(* branch while only the loop writes (SettleInv); and that the indexer     *)
(* always comes back, whatever calls of $run are under way together.       *)
(*                                                                         *)
(* Blocks are sequences, so the first lemmas are about them: the ancestors *)
(* of an ancestor, and least and greatest heights, which exist because the *)
(* intervals below the elements of a set are ordered by inclusion, a       *)
(* well-founded order on the subsets of a finite set.                      *)
(***************************************************************************)
EXTENDS BlockStore, TLAPS, FiniteSetTheorems

(***************************************************************************)
(* Blocks and heights.                                                     *)
(***************************************************************************)

LEMMA ConstantFacts ==
    /\ MaxHeight \in Nat /\ MaxFaults \in Nat /\ Branches # {}
    /\ InitialBlocks \in Nat /\ InitialBlocks # 0
    /\ RollbackDepth \in Nat /\ RollbackDepth # 0
    /\ RetargetPeriod \in Nat /\ RetargetPeriod # 0
    /\ MainBranch \in Branches
BY BlockStoreAssumption DEF MainBranch

LEMMA BlockFacts ==
    ASSUME NEW b \in BlockSet
    PROVE  Height(b) \in 0..MaxHeight /\ b \in [1..Height(b) -> Branches] /\ b \in Seq(Branches)
<1>1. PICK h \in 0..MaxHeight : b \in [1..h -> Branches]
  BY DEF BlockSet
<1>2. Len(b) = h
  BY <1>1
<1> QED
  BY <1>1, <1>2 DEF Height

LEMMA IsBlock ==
    ASSUME NEW h \in 0..MaxHeight, NEW b \in [1..h -> Branches]
    PROVE  b \in BlockSet /\ Height(b) = h
BY DEF BlockSet, Height

LEMMA AncestorFacts ==
    ASSUME NEW b \in BlockSet, NEW h \in 0..Height(b)
    PROVE  /\ Ancestor(b, h) \in BlockSet /\ Height(Ancestor(b, h)) = h
           /\ \A i \in 1..h : Ancestor(b, h)[i] = b[i]
           /\ Ancestor(b, h) = [i \in 1..h |-> b[i]]
<1>1. b \in [1..Height(b) -> Branches] /\ Height(b) \in 0..MaxHeight /\ Height(b) = Len(b) /\ MaxHeight \in Nat
  BY BlockFacts, ConstantFacts DEF Height
<1>2. Ancestor(b, h) = [i \in 1..h |-> b[i]]
  BY <1>1 DEF Ancestor
<1>3. [i \in 1..h |-> b[i]] \in [1..h -> Branches]
  BY <1>1
<1> QED
  BY <1>1, <1>2, <1>3, IsBlock

\* The ancestors of an ancestor.
LEMMA AncestorOfAncestor ==
    ASSUME NEW b \in BlockSet, NEW h \in 0..Height(b), NEW g \in 0..h
    PROVE  Ancestor(Ancestor(b, h), g) = Ancestor(b, g)
<1>1. Height(b) \in Nat /\ h \in Nat /\ g \in Nat /\ g <= h
  BY BlockFacts
<1>2. Ancestor(b, h) \in BlockSet /\ Height(Ancestor(b, h)) = h
  BY AncestorFacts
<1>3. g \in 0..Height(b) /\ g \in 0..Height(Ancestor(b, h))
  BY <1>1, <1>2
<1>4. Ancestor(Ancestor(b, h), g) = [i \in 1..g |-> Ancestor(b, h)[i]]
  BY <1>2, <1>3, AncestorFacts
<1>5. Ancestor(b, g) = [i \in 1..g |-> b[i]]
  BY <1>3, AncestorFacts
<1>6. \A i \in 1..g : Ancestor(b, h)[i] = b[i]
  <2>1. \A i \in 1..g : i \in 1..h
    BY <1>1
  <2> QED
    BY <2>1, AncestorFacts
<1> QED
  BY <1>4, <1>5, <1>6

LEMMA WholeIsAncestor == ASSUME NEW b \in BlockSet PROVE Ancestor(b, Height(b)) = b
<1>1. Height(b) \in Nat /\ b \in [1..Height(b) -> Branches]
  BY BlockFacts
<1>2. Height(b) \in 0..Height(b)
  BY <1>1
<1>3. Ancestor(b, Height(b)) = [i \in 1..Height(b) |-> b[i]]
  BY <1>2, AncestorFacts
<1> QED
  BY <1>1, <1>3

LEMMA GenesisFacts == <<>> \in BlockSet /\ Height(<<>>) = 0 /\ \A b \in BlockSet : Ancestor(b, 0) = <<>>
<1>1. [i \in 1..0 |-> CHOOSE l \in Branches : TRUE] = <<>>
  OBVIOUS
<1>2. [i \in 1..0 |-> CHOOSE l \in Branches : TRUE] \in [1..0 -> Branches] /\ 0 \in 0..MaxHeight
  <2>1. \A i \in 1..0 : (CHOOSE l \in Branches : TRUE) \in Branches
    OBVIOUS
  <2>2. 0 \in 0..MaxHeight
    BY ConstantFacts
  <2> QED
    BY <2>1, <2>2
<1>3. <<>> \in BlockSet /\ Height(<<>>) = 0
  BY <1>1, <1>2, IsBlock
<1>4. ASSUME NEW b \in BlockSet PROVE Ancestor(b, 0) = <<>>
  BY DEF Ancestor
<1> QED
  BY <1>3, <1>4

\* A nonempty set of natural numbers has a least element: the sets of the
\* smaller numbers are ordered by inclusion, which is well-founded.
LEMMA LeastExists ==
    ASSUME NEW S, S \subseteq Nat, S # {}
    PROVE  \E h \in S : \A g \in S : h <= g
<1>1. PICK n \in S : TRUE
  OBVIOUS
<1> DEFINE U == 0..n
           below(h) == {g \in U : g < h}
           R == S \cap U
           T == {below(h) : h \in R}
<1>2. IsFiniteSet(U) /\ n \in Nat
  BY FS_Interval
<1>3. IsWellFoundedOn(StrictSubsetOrdering(U), SUBSET U)
  BY <1>2, FS_FiniteSubsetsOfFinite, FS_StrictSubsetOrderingWellFounded
<1>4. T \subseteq SUBSET U /\ T # {}
  <2>1. \A h : below(h) \in SUBSET U
    OBVIOUS
  <2>2. n \in R
    BY <1>2
  <2> HIDE DEF below, U, R
  <2> QED
    BY <2>1, <2>2
<1>5. PICK x \in T : \A y \in T : <<y, x>> \notin StrictSubsetOrdering(U)
  <2> HIDE DEF T, U
  <2> QED
    BY <1>3, <1>4, WFMin
<1>6. PICK h \in R : x = below(h)
  OBVIOUS
<1>7. \A g \in R : h <= g
  <2> SUFFICES ASSUME NEW g \in R, g < h PROVE FALSE
    BY <1>2
  <2>1. below(g) \subseteq below(h) /\ g \in below(h) /\ g \notin below(g)
    BY <1>2
  <2>2. below(g) \in T /\ below(g) \subseteq U /\ below(h) \subseteq U
    OBVIOUS
  <2>3. <<below(g), below(h)>> \in StrictSubsetOrdering(U)
    <3> HIDE DEF below, U
    <3> QED
      BY <2>1, <2>2 DEF StrictSubsetOrdering
  <2> QED
    BY <1>5, <1>6, <2>2, <2>3
<1>8. \A g \in S : h <= g
  BY <1>2, <1>7
<1> QED
  BY <1>6, <1>8

LEMMA LowestFacts ==
    ASSUME NEW S, S \subseteq Nat, S # {}
    PROVE  Lowest(S) \in S /\ \A g \in S : Lowest(S) <= g
BY LeastExists DEF Lowest

LEMMA HighestFacts ==
    ASSUME NEW n \in Nat, NEW S, S \subseteq 0..n, S # {}
    PROVE  Highest(S) \in S /\ \A g \in S : g <= Highest(S)
<1> DEFINE T == {n - h : h \in S}
<1>1. T \subseteq Nat /\ T # {}
  <2>1. \A h \in S : n - h \in Nat
    OBVIOUS
  <2> QED
    BY <2>1
<1>2. PICK t \in T : \A u \in T : t <= u
  <2> HIDE DEF T
  <2> QED
    BY <1>1, LeastExists
<1>3. PICK h \in S : t = n - h
  OBVIOUS
<1>4. \A g \in S : g <= h
  <2>1. \A g \in S : n - g \in T /\ g \in Nat /\ h \in Nat
    OBVIOUS
  <2>2. \A g \in S : n - h <= n - g
    BY <1>2, <1>3, <2>1
  <2> HIDE DEF T
  <2> QED
    BY <2>1, <2>2
<1>5. \E f \in S : \A g \in S : g <= f
  BY <1>4
<1> QED
  BY <1>5 DEF Highest

(***************************************************************************)
(* The types.                                                              *)
(***************************************************************************)

\* Blocks of the chains the node has had, and the heights up to its tip.
Known == {b \in BlockSet : Height(b) <= Height(tip)}
Positions == -1 .. Height(tip)
LoopPcs == {"idle", "fetch", "compare", "rollback", "reindex", "reindexSave",
            "adjust", "deleteLast", "save", "finish", "push"}
Before == {"idle", "checking"}
Past == {"list", "index", "indexSave", "delete", "adjust"}
RunSet == [pc : Before \cup Past, todo : SUBSET (0 .. Height(tip)), block : Known]
LoopSet == [pc : LoopPcs, target : Positions, fast : BOOLEAN, current : Positions,
            block : Known, last : Positions, at : Int, copy : Known]

\* Every stored block is one the node has had, at its height.
StoredIn(table) == \A h \in DOMAIN table : table[h] \in Known /\ Height(table[h]) = h

\* The loop goes up to a height the node has reached, and re-indexes up to the
\* height it found diverged.
LoopTyped ==
    /\ loop \in LoopSet
    /\ loop.pc # "idle" => loop.current <= loop.target
    /\ loop.pc = "fetch" => loop.current < loop.target
    /\ loop.pc \in {"reindex", "reindexSave"} => loop.at <= loop.last

FlagsTyped ==
    /\ runIndexer \in BOOLEAN /\ indexerRunning \in BOOLEAN /\ timers \in Nat
    /\ switches \in {"none", "one", "more"}

StoreInv ==
    /\ tip \in BlockSet
    /\ StoredIn(blocks) /\ StoredIn(adjustments)
    /\ memory \in Positions /\ cached \in Positions
    /\ LoopTyped
    /\ runs \in [Runs -> RunSet]
    /\ requested \subseteq Known
    /\ FlagsTyped

LEMMA TipFacts ==
    ASSUME tip \in BlockSet
    PROVE  /\ Height(tip) \in Nat /\ Height(tip) <= MaxHeight
           /\ \A h \in 0 .. Height(tip) : Ancestor(tip, h) \in Known /\ Height(Ancestor(tip, h)) = h
           /\ <<>> \in Known /\ Height(<<>>) = 0
           /\ \A b \in Known : Height(b) \in 0 .. Height(tip)
<1>1. Height(tip) \in 0 .. MaxHeight /\ MaxHeight \in Nat
  BY BlockFacts, ConstantFacts
<1>2. \A b \in Known : Height(b) \in Nat /\ Height(b) <= Height(tip)
  <2>1. \A b \in BlockSet : Height(b) \in 0 .. MaxHeight
    BY BlockFacts
  <2> QED
    BY <1>1, <2>1 DEF Known
<1>3. <<>> \in Known /\ Height(<<>>) = 0
  BY <1>1, GenesisFacts DEF Known
<1>4. \A h \in 0 .. Height(tip) : Ancestor(tip, h) \in Known /\ Height(Ancestor(tip, h)) = h
  BY <1>1, AncestorFacts DEF Known
<1> QED
  BY <1>1, <1>2, <1>3, <1>4

LEMMA InsertKeeps ==
    ASSUME tip \in BlockSet, NEW table, StoredIn(table), NEW b \in Known
    PROVE  StoredIn(Insert(table, b))
BY DEF StoredIn, Insert

LEMMA RowsKeep ==
    ASSUME NEW table, StoredIn(table), NEW S \in SUBSET DOMAIN table
    PROVE  StoredIn(Rows(table, S))
BY DEF StoredIn, Rows

LEMMA DeleteKeeps ==
    ASSUME NEW table, StoredIn(table), NEW h
    PROVE  StoredIn(DeleteFrom(table, h))
BY RowsKeep DEF DeleteFrom

LEMMA IndexedAdjustmentsKeep ==
    ASSUME StoreInv
    PROVE  StoredIn(IndexedAdjustments)
<1>1. <<>> \in Known /\ Height(<<>>) = 0
  BY TipFacts DEF StoreInv
<1>2. AdjustmentHeights \subseteq DOMAIN blocks
  BY DEF AdjustmentHeights
<1>3. StoredIn(blocks) /\ StoredIn(adjustments)
  BY DEF StoreInv
<1> QED
  BY <1>1, <1>2, <1>3 DEF StoredIn, IndexedAdjustments

\* A higher tip keeps everything in its type.
LEMMA GrowthKeeps ==
    ASSUME StoreInv, tip' \in BlockSet, Height(tip) <= Height(tip'),
           UNCHANGED <<tables, loopVars, runIndexer, indexerVars, requested>>,
           switches' \in {"none", "one", "more"}
    PROVE  StoreInv'
<1>1. Height(tip) \in Nat /\ Height(tip') \in Nat
  BY BlockFacts DEF StoreInv
<1>2. Positions \subseteq Positions' /\ Known \subseteq Known'
  <2>1. \A b \in BlockSet : Height(b) \in Nat
    BY BlockFacts
  <2> QED
    BY <1>1, <2>1 DEF Positions, Known
<1>3. RunSet \subseteq RunSet'
  <2>1. SUBSET (0 .. Height(tip)) \subseteq SUBSET (0 .. Height(tip'))
    BY <1>1
  <2> QED
    BY <1>2, <2>1 DEF RunSet
<1>4. LoopSet \subseteq LoopSet'
  BY <1>2 DEF LoopSet
<1>5. StoredIn(blocks)' /\ StoredIn(adjustments)'
  BY <1>2 DEF StoreInv, StoredIn, tables
<1>6. LoopTyped'
  BY <1>4 DEF StoreInv, LoopTyped, loopVars
<1>7. runs' \in [Runs -> RunSet']
  BY <1>3 DEF StoreInv, indexerVars
<1>8. memory' \in Positions' /\ cached' \in Positions' /\ requested' \subseteq Known'
  BY <1>2 DEF StoreInv, loopVars, memoryVars
<1>9. FlagsTyped'
  BY DEF StoreInv, FlagsTyped, indexerVars
<1> QED
  BY <1>5, <1>6, <1>7, <1>8, <1>9 DEF StoreInv

\* The node: the tip is a higher block.
LEMMA NodeKeeps ==
    ASSUME StoreInv, NodeMine \/ NodeReorg
    PROVE  StoreInv' /\ tip' \in BlockSet /\ Height(tip) < Height(tip')
<1>1. Height(tip) \in 0 .. MaxHeight /\ tip \in [1..Height(tip) -> Branches] /\ tip \in Seq(Branches)
  BY BlockFacts DEF StoreInv
<1>2. CASE NodeMine
  <2>1. PICK l \in Branches : tip' = Append(tip, l) /\ Height(tip) < MaxHeight
    <3>1. tip # <<>> => tip[Height(tip)] \in Branches
      <4>1. tip # <<>> => Height(tip) \in 1..Height(tip)
        BY <1>1 DEF Height
      <4> QED
        BY <1>1, <4>1
    <3> QED
      BY <1>2, <3>1, ConstantFacts DEF NodeMine
  <2>2. tip' \in [1..Height(tip) + 1 -> Branches] /\ Height(tip) + 1 \in 0..MaxHeight
    <3>1. Height(tip) = Len(tip) /\ Len(tip) \in Nat
      BY <1>1 DEF Height
    <3>2. tip' \in Seq(Branches) /\ Len(tip') = Len(tip) + 1
      BY <1>1, <2>1
    <3>3. tip' \in [1..Len(tip') -> Branches]
      BY <3>2
    <3> QED
      BY <2>1, <3>1, <3>2, <3>3, ConstantFacts
  <2>3. tip' \in BlockSet /\ Height(tip') = Height(tip) + 1
    BY <2>2, IsBlock
  <2>4. UNCHANGED <<tables, loopVars, runIndexer, indexerVars, requested>> /\ switches' \in {"none", "one", "more"}
    BY <1>2 DEF NodeMine, StoreInv, FlagsTyped
  <2> QED
    BY <1>1, <2>3, <2>4, GrowthKeeps
<1>3. CASE NodeReorg
  <2>1. tip' \in BlockSet /\ Height(tip') > Height(tip)
    BY <1>3 DEF NodeReorg
  <2>2. UNCHANGED <<tables, loopVars, runIndexer, indexerVars, requested>> /\ switches' \in {"none", "one", "more"}
    BY <1>3 DEF NodeReorg
  <2>3. Height(tip') \in Nat
    BY <2>1, BlockFacts
  <2> QED
    BY <1>1, <2>1, <2>2, <2>3, GrowthKeeps
<1> QED
  BY <1>2, <1>3

\* A new value of the loop's record is in its type when the loop is.
LEMMA LoopStepKeeps ==
    ASSUME StoreInv, LoopTyped', StoredIn(blocks)', StoredIn(adjustments)',
           memory' \in Positions, cached' \in Positions, runIndexer' \in BOOLEAN,
           UNCHANGED <<tip, indexerVars, requested>>, switches' \in {"none", "one", "more"}
    PROVE  StoreInv'
BY DEF StoreInv, FlagsTyped, indexerVars, Known, Positions, RunSet

LEMMA IdleIsTyped ==
    ASSUME tip' \in BlockSet, loop' = IdleLoop
    PROVE  LoopTyped'
<1>1. Height(tip') \in Nat /\ <<>> \in Known' /\ -1 \in Positions'
  <2>1. Height(tip') \in Nat
    BY BlockFacts
  <2> QED
    BY <2>1, GenesisFacts DEF Known, Positions
<1> QED
  BY <1>1 DEF LoopTyped, IdleLoop, LoopSet, LoopPcs

LEMMA CheckTipKeeps == ASSUME StoreInv, CheckTip PROVE StoreInv'
<1> USE DEF StoreInv
<1>1. Height(tip) \in Nat /\ <<>> \in Known
  BY TipFacts
<1>2. InitialBlocks \in Nat /\ InitialBlocks # 0
  BY ConstantFacts
<1>3. LastHandled \in Positions /\ LastHandled < Height(tip)
  <2>1. CASE memory # -1
    BY <2>1 DEF LastHandled, CheckTip
  <2>2. CASE memory = -1
    <3> DEFINE S == {Height(tip) - InitialBlocks, -1}
    <3>1. Highest(S) \in S
      <4>1. \E h \in S : \A g \in S : g <= h
        BY <1>1, <1>2
      <4> QED
        BY <4>1 DEF Highest
    <3>2. \A h \in S : h \in Int
      BY <1>1, <1>2
    <3>3. Highest(S) >= -1
      <4>1. \E h \in S : \A g \in S : g <= h
        BY <1>1, <1>2
      <4>2. \A g \in S : g <= Highest(S)
        BY <4>1 DEF Highest
      <4>3. -1 \in S
        OBVIOUS
      <4> QED
        BY <4>2, <4>3
    <3>4. LastHandled = Highest(S)
      BY <2>2 DEF LastHandled
    <3>5. LastHandled < Height(tip)
      BY DEF CheckTip
    <3> HIDE DEF S
    <3> QED
      BY <3>1, <3>2, <3>3, <3>4, <3>5, <1>1 DEF Positions
  <2> QED
    BY <2>1, <2>2
<1> DEFINE current == IF FastForwards THEN Height(tip) - InitialBlocks ELSE LastHandled
<1>4. current \in Positions /\ current < Height(tip)
  BY <1>1, <1>2, <1>3 DEF FastForwards, Positions
<1>5. loop' = [IdleLoop EXCEPT !.pc = "fetch", !.target = Height(tip), !.fast = FastForwards,
                               !.current = current]
  BY DEF CheckTip
<1>6. FastForwards \in BOOLEAN
  BY DEF FastForwards
<1> HIDE DEF current
<1>7. loop' = [pc |-> "fetch", target |-> Height(tip), fast |-> FastForwards, current |-> current,
               block |-> <<>>, last |-> -1, at |-> -1, copy |-> <<>>]
  BY <1>5 DEF IdleLoop
<1>8. Height(tip) \in Positions /\ -1 \in Positions
  BY <1>1 DEF Positions
<1>9. loop' \in LoopSet /\ loop'.current < loop'.target
  BY <1>1, <1>4, <1>6, <1>7, <1>8 DEF LoopSet, LoopPcs
<1>10. UNCHANGED <<tip, blocks, adjustments, memory, cached, indexerVars, requested, switches>>
  BY DEF CheckTip, nodeVars, tables, memoryVars
<1>11. LoopTyped'
  BY <1>7, <1>9, <1>10 DEF LoopTyped, LoopSet, Known, Positions
<1>12. runIndexer' \in BOOLEAN
  BY <1>6 DEF CheckTip, FlagsTyped
<1> QED
  BY <1>10, <1>11, <1>12, LoopStepKeeps DEF StoredIn, Known, FlagsTyped

\* A step of the loop after the tip was looked up.
LEMMA LoopStepsKeep ==
    ASSUME StoreInv, LoopStep \/ LoopFails
    PROVE  StoreInv'
<1> USE DEF StoreInv
<1>0. /\ Height(tip) \in Nat /\ <<>> \in Known /\ Height(<<>>) = 0
      /\ \A h \in 0 .. Height(tip) : Ancestor(tip, h) \in Known /\ Height(Ancestor(tip, h)) = h
      /\ \A b \in Known : Height(b) \in 0 .. Height(tip)
  BY TipFacts
<1>l. loop \in LoopSet /\ (loop.pc # "idle" => loop.current <= loop.target)
  BY DEF LoopTyped
<1>s. ASSUME loop' \in LoopSet, loop'.pc # "idle" => loop'.current <= loop'.target,
             loop'.pc = "fetch" => loop'.current < loop'.target,
             loop'.pc \in {"reindex", "reindexSave"} => loop'.at <= loop'.last,
             StoredIn(blocks'), StoredIn(adjustments'),
             memory' \in Positions, cached' \in Positions, runIndexer' \in BOOLEAN,
             UNCHANGED <<tip, indexerVars, requested>>, switches' \in {"none", "one", "more"}
      PROVE  StoreInv'
  <2>1. LoopTyped' /\ StoredIn(blocks)' /\ StoredIn(adjustments)'
    BY <1>s DEF LoopTyped, LoopSet, StoredIn, Known, Positions
  <2> QED
    BY <1>s, <2>1, LoopStepKeeps
<1>1. CASE CheckTip
  BY <1>1, CheckTipKeeps
<1>2. CASE FetchBlock
  <2> DEFINE next == IF loop.current = 0 THEN loop.target ELSE loop.current + 1
  <2>1. loop.current \in Positions /\ loop.target \in Positions /\ loop.current < loop.target
    BY <1>2, <1>l DEF FetchBlock, LoopTyped, LoopSet
  <2>2. next \in 0 .. Height(tip) /\ next \in Positions /\ next <= loop.target
    BY <1>0, <2>1 DEF Positions
  <2> DEFINE pc == IF loop.fast THEN "finish" ELSE "compare"
  <2>3. loop' = [loop EXCEPT !.pc = pc, !.current = next, !.block = Ancestor(tip, next)]
    BY <1>2 DEF FetchBlock
  <2>4. pc \in LoopPcs /\ pc \notin {"fetch", "reindex", "reindexSave"}
    BY DEF LoopPcs
  <2>5. Ancestor(tip, next) \in Known
    BY <1>0, <2>2
  <2> HIDE DEF next, pc
  <2>6. loop' \in LoopSet /\ loop'.pc = pc /\ loop'.current <= loop'.target
    BY <1>l, <2>2, <2>3, <2>4, <2>5 DEF LoopSet
  <2>7. UNCHANGED <<tip, blocks, adjustments, memory, cached, runIndexer, indexerVars, requested, switches>>
    BY <1>2 DEF FetchBlock, nodeVars, tables, memoryVars
  <2> QED
    BY <1>s, <2>4, <2>6, <2>7 DEF FlagsTyped
<1>3. CASE Compare
  <2>1. loop' = [loop EXCEPT !.pc = "rollback", !.last = Height(loop.block) - 1]
        \/ loop' = [loop EXCEPT !.pc = "save"]
    BY <1>3 DEF Compare
  <2>2. Height(loop.block) - 1 \in Positions
    BY <1>0, <1>l DEF LoopSet, Positions
  <2>3. loop' \in LoopSet /\ loop'.pc \in {"rollback", "save"} /\ loop'.current <= loop'.target
    BY <1>3, <1>l, <2>1, <2>2 DEF Compare, LoopSet, LoopPcs
  <2>4. UNCHANGED <<tip, blocks, adjustments, memory, cached, runIndexer, indexerVars, requested, switches>>
    BY <1>3 DEF Compare, nodeVars, tables, memoryVars
  <2> QED
    BY <1>s, <2>3, <2>4 DEF FlagsTyped
<1>4. CASE Rollback
  <2>1. loop' = [loop EXCEPT !.pc = "reindex", !.at = loop.last - RollbackDepth]
    BY <1>4 DEF Rollback
  <2>2. loop.last \in Int /\ loop.last - RollbackDepth \in Int /\ loop.last - RollbackDepth <= loop.last
    BY <1>0, <1>l, ConstantFacts DEF LoopSet, Positions
  <2>3. loop' \in LoopSet /\ loop'.pc = "reindex" /\ loop'.at <= loop'.last /\ loop'.current <= loop'.target
    BY <1>4, <1>l, <2>1, <2>2 DEF Rollback, LoopSet, LoopPcs
  <2>4. StoredIn(blocks')
    BY <1>4, DeleteKeeps DEF Rollback, DeleteBlocksFrom
  <2>5. UNCHANGED <<tip, adjustments, memory, cached, runIndexer, indexerVars, requested>>
        /\ switches' \in {"none", switches}
    BY <1>4 DEF Rollback, memoryVars
  <2> QED
    BY <1>s, <2>3, <2>4, <2>5 DEF FlagsTyped
<1>n. ASSUME loop.pc \in {"reindex", "reindexSave"}, loop' = ReindexNext
      PROVE  /\ loop' \in LoopSet /\ loop'.pc \in {"reindex", "adjust"}
             /\ loop'.pc = "reindex" => loop'.at <= loop'.last
             /\ loop'.current <= loop'.target
  <2>1. loop.at \in Int /\ loop.last \in Int /\ loop.at <= loop.last
    BY <1>0, <1>l, <1>n DEF LoopTyped, LoopSet, Positions
  <2>2. CASE loop.at = loop.last
    <3>1. loop' = [loop EXCEPT !.pc = "adjust", !.copy = <<>>]
      BY <1>n, <2>2 DEF ReindexNext
    <3> QED
      BY <1>0, <1>l, <1>n, <3>1 DEF LoopSet, LoopPcs
  <2>3. CASE loop.at # loop.last
    <3>1. loop' = [loop EXCEPT !.pc = "reindex", !.at = loop.at + 1, !.copy = <<>>]
      BY <1>n, <1>l, <2>3 DEF ReindexNext, LoopSet
    <3>2. loop.at + 1 \in Int /\ loop.at + 1 <= loop.last
      BY <2>1, <2>3
    <3> QED
      BY <1>0, <1>l, <1>n, <3>1, <3>2 DEF LoopSet, LoopPcs
  <2> QED
    BY <2>2, <2>3
<1>i. loop' = IdleLoop => loop' \in LoopSet /\ loop'.pc = "idle"
  <2>1. -1 \in Positions
    BY <1>0 DEF Positions
  <2> QED
    BY <1>0, <2>1 DEF IdleLoop, LoopSet, LoopPcs
<1>5. CASE ReindexFetch
  <2>1. UNCHANGED <<tip, blocks, adjustments, memory, cached, runIndexer, indexerVars, requested, switches>>
    BY <1>5 DEF ReindexFetch, nodeVars, tables, memoryVars
  <2>2. loop.pc = "reindex" /\ loop.at \in Int /\ loop.last \in Positions /\ loop.at <= loop.last
    BY <1>5, <1>l DEF ReindexFetch, LoopTyped, LoopSet
  <2>3. CASE loop.at >= 0 /\ loop.at \notin DOMAIN blocks
    <3>1. loop' = [loop EXCEPT !.pc = "reindexSave", !.copy = Ancestor(tip, loop.at)]
      BY <1>5, <2>2, <2>3 DEF ReindexFetch
    <3>2. loop.at \in 0 .. Height(tip)
      BY <1>0, <2>2, <2>3 DEF Positions
    <3>3. /\ loop' \in LoopSet /\ loop'.pc = "reindexSave" /\ loop'.at = loop.at /\ loop'.last = loop.last
          /\ loop'.current <= loop'.target
      BY <1>0, <1>l, <2>2, <3>1, <3>2 DEF LoopSet, LoopPcs
    <3> QED
      BY <1>s, <2>1, <2>2, <3>3 DEF FlagsTyped
  <2>4. CASE loop.at < 0
    <3>1. loop' = IdleLoop
      BY <1>5, <2>4 DEF ReindexFetch
    <3> QED
      BY <1>s, <1>i, <2>1, <3>1 DEF FlagsTyped
  <2>5. CASE ~(loop.at < 0) /\ loop.at \in DOMAIN blocks
    <3>1. loop' = ReindexNext
      BY <1>5, <2>5 DEF ReindexFetch
    <3> QED
      BY <1>s, <1>n, <2>1, <2>2, <3>1 DEF FlagsTyped
  <2> QED
    BY <2>2, <2>3, <2>4, <2>5
<1>6. CASE ReindexSave
  <2>1. UNCHANGED <<tip, adjustments, memory, cached, runIndexer, indexerVars, requested, switches>>
    BY <1>6 DEF ReindexSave, nodeVars, memoryVars
  <2>2. loop.copy \in Known
    BY <1>l DEF LoopSet
  <2>3. StoredIn(blocks')
    BY <1>6, <2>2, InsertKeeps DEF ReindexSave
  <2>4. loop.pc = "reindexSave" /\ loop' = ReindexNext
    BY <1>6 DEF ReindexSave
  <2> QED
    BY <1>s, <1>n, <2>1, <2>3, <2>4 DEF FlagsTyped
<1>7. CASE ReindexAdjustments
  <2>1. UNCHANGED <<tip, blocks, memory, cached, runIndexer, indexerVars, requested, switches>>
    BY <1>7 DEF ReindexAdjustments, nodeVars, memoryVars
  <2>2. StoredIn(adjustments')
    BY <1>7, IndexedAdjustmentsKeep DEF ReindexAdjustments
  <2>3. loop' \in LoopSet /\ loop'.pc = "deleteLast" /\ loop'.current <= loop'.target
    BY <1>7, <1>l DEF ReindexAdjustments, LoopSet, LoopPcs
  <2> QED
    BY <1>s, <2>1, <2>2, <2>3 DEF FlagsTyped
<1>8. CASE DeleteLastAdjustment
  <2>1. UNCHANGED <<tip, blocks, memory, cached, indexerVars, requested, switches>> /\ runIndexer' = TRUE
    BY <1>8 DEF DeleteLastAdjustment, nodeVars, memoryVars
  <2>2. StoredIn(adjustments')
    BY <1>8, RowsKeep DEF DeleteLastAdjustment
  <2>3. loop' \in LoopSet /\ loop'.pc = "save" /\ loop'.current <= loop'.target
    BY <1>8, <1>l DEF DeleteLastAdjustment, LoopSet, LoopPcs
  <2> QED
    BY <1>s, <2>1, <2>2, <2>3 DEF FlagsTyped
<1>9. CASE SaveBlock
  <2>1. UNCHANGED <<tip, adjustments, memory, cached, runIndexer, indexerVars, requested, switches>>
    BY <1>9 DEF SaveBlock, nodeVars, memoryVars
  <2>2. loop.block \in Known
    BY <1>l DEF LoopSet
  <2>3. StoredIn(blocks')
    BY <1>9, <2>2, InsertKeeps DEF SaveBlock
  <2>4. loop' \in LoopSet /\ loop'.pc = "finish" /\ loop'.current <= loop'.target
    BY <1>9, <1>l DEF SaveBlock, LoopSet, LoopPcs
  <2> QED
    BY <1>s, <2>1, <2>3, <2>4 DEF FlagsTyped
<1>12. CASE SaveAdjustment
  <2>1. UNCHANGED <<tip, blocks, memory, cached, runIndexer, indexerVars, requested, switches>>
    BY <1>12 DEF SaveAdjustment, nodeVars, memoryVars
  <2>2. loop.block \in Known
    BY <1>l DEF LoopSet
  <2>3. StoredIn(adjustments')
    BY <1>12, <2>2, InsertKeeps DEF SaveAdjustment
  <2>4. loop' \in LoopSet /\ loop'.pc = "push" /\ loop'.current <= loop'.target
    BY <1>12, <1>l DEF SaveAdjustment, LoopSet, LoopPcs, LoopTyped
  <2> QED
    BY <1>s, <2>1, <2>3, <2>4 DEF FlagsTyped
<1>10. CASE FinishBlock
  <2>1. UNCHANGED <<tip, blocks, adjustments, runIndexer, indexerVars, requested, switches>>
    BY <1>10 DEF FinishBlock, nodeVars, tables
  <2>2. loop.block \in Known /\ loop.current \in Positions /\ loop.target \in Positions /\ loop.fast \in BOOLEAN
    BY <1>l DEF LoopSet
  <2>3. StoredIn(adjustments')
    BY <2>1
  <2>4. memory' \in Positions /\ cached' \in Positions
    BY <1>10, <2>2 DEF FinishBlock
  <2>5. CASE loop.current < loop.target
    <3>1. loop' = [pc |-> "fetch", target |-> loop.target, fast |-> loop.fast, current |-> loop.current,
                   block |-> <<>>, last |-> -1, at |-> -1, copy |-> <<>>]
      BY <1>10, <2>5 DEF FinishBlock, IdleLoop
    <3>2. -1 \in Positions
      BY <1>0 DEF Positions
    <3>3. loop' \in LoopSet /\ loop'.pc = "fetch" /\ loop'.current < loop'.target
      BY <1>0, <2>2, <2>5, <3>1, <3>2 DEF LoopSet, LoopPcs
    <3>4. loop'.current <= loop'.target
      BY <1>0, <2>2, <2>5, <3>1 DEF Positions
    <3> QED
      BY <1>s, <2>1, <2>3, <2>4, <3>3, <3>4 DEF FlagsTyped
  <2>6. CASE ~(loop.current < loop.target)
    <3>1. loop' = IdleLoop
      BY <1>10, <2>6 DEF FinishBlock
    <3> QED
      BY <1>s, <1>i, <2>1, <2>3, <2>4, <3>1 DEF FlagsTyped
  <2> QED
    BY <2>5, <2>6
<1>11. CASE LoopFails
  <2>1. UNCHANGED <<tip, blocks, adjustments, memory, cached, runIndexer, indexerVars, requested, switches>>
    BY <1>11 DEF LoopFails, nodeVars, tables, memoryVars
  <2>2. loop' = IdleLoop
    BY <1>11 DEF LoopFails
  <2> QED
    BY <1>s, <1>i, <2>1, <2>2 DEF FlagsTyped
<1> QED
  BY <1>1, <1>2, <1>3, <1>4, <1>5, <1>6, <1>7, <1>8, <1>9, <1>10, <1>11, <1>12 DEF LoopStep

\* A step of one call of $run.
LEMMA RunStepKeeps ==
    ASSUME NEW r \in Runs, StoreInv,
           \/ StartRun(r) \/ RunStep(r) \/ NotSynced(r) \/ RunFails(r)
           \/ DeletionInterrupted(r)
    PROVE  StoreInv'
<1> USE DEF StoreInv
<1>0. /\ Height(tip) \in Nat /\ <<>> \in Known /\ Height(<<>>) = 0
      /\ \A h \in 0 .. Height(tip) : Ancestor(tip, h) \in Known /\ Height(Ancestor(tip, h)) = h
      /\ \A b \in Known : Height(b) \in 0 .. Height(tip)
  BY TipFacts
<1>d. DOMAIN blocks \subseteq 0 .. Height(tip)
  BY <1>0 DEF StoredIn
<1>r. runs[r] \in RunSet
  OBVIOUS
<1>s. ASSUME runs' \in [Runs -> RunSet], StoredIn(blocks'), StoredIn(adjustments'),
             UNCHANGED <<nodeVars, loopVars, requested>>,
             runIndexer' \in BOOLEAN, indexerRunning' \in BOOLEAN, timers' \in Nat
      PROVE  StoreInv'
  <2>1. UNCHANGED <<tip, memory, cached, loop, switches>>
    BY <1>s DEF nodeVars, loopVars, memoryVars
  <2>2. RunSet' = RunSet /\ Known' = Known /\ Positions' = Positions
    BY <2>1 DEF RunSet, Known, Positions
  <2>3. LoopTyped' /\ FlagsTyped'
    BY <1>s, <2>1 DEF LoopTyped, LoopSet, FlagsTyped, Known, Positions
  <2>4. StoredIn(blocks)' /\ StoredIn(adjustments)'
    BY <1>s, <2>2 DEF StoredIn
  <2> QED
    BY <1>s, <2>1, <2>2, <2>3, <2>4
<1>i. IdleRun \in RunSet
  BY <1>0 DEF IdleRun, RunSet, Before
<1>e. EndRun(r) => /\ runs' \in [Runs -> RunSet] /\ indexerRunning' \in BOOLEAN
                   /\ timers' \in Nat
  <2> SUFFICES ASSUME EndRun(r) PROVE /\ runs' \in [Runs -> RunSet] /\ indexerRunning' \in BOOLEAN
                                      /\ timers' \in Nat
    OBVIOUS
  <2>1. runs' = [runs EXCEPT ![r] = IdleRun] /\ timers' = timers + 1
    BY DEF EndRun
  <2>2. runs' \in [Runs -> RunSet]
    BY <1>i, <2>1
  <2>3. timers' \in Nat
    BY <2>1 DEF FlagsTyped
  <2>4. indexerRunning' \in BOOLEAN
    BY DEF EndRun
  <2> QED
    BY <2>2, <2>3, <2>4
<1>f. runIndexer \in BOOLEAN /\ indexerRunning \in BOOLEAN /\ timers \in Nat
  BY DEF FlagsTyped
<1>p. \A p \in Before \cup Past : [runs EXCEPT ![r].pc = p] \in [Runs -> RunSet]
  BY <1>r DEF RunSet
<1>1. CASE StartRun(r)
  <2>1. runs' \in [Runs -> RunSet]
    BY <1>1, <1>p DEF StartRun, Before
  <2> QED
    BY <1>1, <1>s, <1>f, <2>1 DEF StartRun, tables
<1>2. CASE NotSynced(r)
  <2>1. runs' \in [Runs -> RunSet]
    BY <1>2, <1>i DEF NotSynced
  <2> QED
    BY <1>2, <1>s, <1>f, <2>1 DEF NotSynced, tables
<1>3. CASE BeginRun(r)
  <2>1. runs' \in [Runs -> RunSet]
    BY <1>3, <1>p DEF BeginRun, Past
  <2> QED
    BY <1>3, <1>s, <1>f, <2>1 DEF BeginRun, tables
<1>4. CASE ListMissing(r)
  <2> DEFINE t == 0 .. Height(tip) \ DOMAIN blocks
  <2>1. runs' = [runs EXCEPT ![r].pc = "index", ![r].todo = t]
    BY <1>4 DEF ListMissing
  <2>2. t \in SUBSET (0 .. Height(tip))
    OBVIOUS
  <2> HIDE DEF t
  <2>3. runs' \in [Runs -> RunSet]
    BY <1>r, <2>1, <2>2 DEF RunSet, Past
  <2> QED
    BY <1>4, <1>s, <1>f, <2>3 DEF ListMissing, tables
<1>5. CASE IndexFetch(r)
  <2> DEFINE b == Ancestor(tip, Highest(runs[r].todo))
  <2>1. runs' = [runs EXCEPT ![r].pc = "indexSave", ![r].block = b]
    BY <1>5 DEF IndexFetch
  <2>2. b \in Known
    <3>1. runs[r].todo \subseteq 0 .. Height(tip) /\ runs[r].todo # {}
      BY <1>5, <1>r DEF IndexFetch, RunSet
    <3>2. Highest(runs[r].todo) \in 0 .. Height(tip)
      BY <1>0, <3>1, HighestFacts
    <3> QED
      BY <1>0, <3>2
  <2> HIDE DEF b
  <2>3. runs' \in [Runs -> RunSet]
    BY <1>r, <2>1, <2>2 DEF RunSet, Past
  <2> QED
    BY <1>5, <1>s, <1>f, <2>3 DEF IndexFetch, tables
<1>6. CASE IndexSave(r)
  <2> DEFINE t == runs[r].todo \ {Height(runs[r].block)}
  <2>1. runs' = [runs EXCEPT ![r].pc = "index", ![r].block = <<>>, ![r].todo = t]
    BY <1>6, <1>r DEF IndexSave, RunSet
  <2>2. t \in SUBSET (0 .. Height(tip)) /\ runs[r].block \in Known
    BY <1>r DEF RunSet
  <2> HIDE DEF t
  <2>3. runs' \in [Runs -> RunSet]
    BY <1>0, <1>r, <2>1, <2>2 DEF RunSet, Past
  <2>4. StoredIn(blocks')
    BY <1>6, <2>2, InsertKeeps DEF IndexSave
  <2> QED
    BY <1>6, <1>s, <1>f, <2>3, <2>4 DEF IndexSave
<1>7. CASE Validate(r)
  <2>1. CASE runs' = [runs EXCEPT ![r].pc = "adjust"]
    <3>1. runs' \in [Runs -> RunSet]
      BY <1>p, <2>1 DEF Past
    <3> QED
      BY <1>7, <1>s, <1>f, <3>1 DEF Validate, tables
  <2>2. CASE Divergences # {} /\ runs' = [runs EXCEPT ![r].pc = "delete", ![r].todo = {Lowest(Divergences)}]
    <3>1. Divergences \subseteq 0 .. Height(tip)
      BY <1>d DEF Divergences
    <3>2. Lowest(Divergences) \in 0 .. Height(tip)
      <4>1. Divergences \subseteq Nat
        BY <3>1
      <4> QED
        BY <2>2, <3>1, <4>1, LowestFacts
    <3> DEFINE t == {Lowest(Divergences)}
    <3>3. t \in SUBSET (0 .. Height(tip))
      BY <3>2
    <3>4. runs' = [runs EXCEPT ![r].pc = "delete", ![r].todo = t]
      BY <2>2
    <3> HIDE DEF t
    <3>5. runs' \in [Runs -> RunSet]
      BY <1>r, <3>3, <3>4 DEF RunSet, Past
    <3> QED
      BY <1>7, <1>s, <1>f, <3>5 DEF Validate, tables
  <2> QED
    BY <1>7, <2>1, <2>2 DEF Validate
<1>h. \A h : DeleteBlocksFrom(h) => StoredIn(blocks')
  BY DeleteKeeps DEF DeleteBlocksFrom
<1>8. CASE DeleteDiverged(r)
  <2>1. StoredIn(blocks') /\ StoredIn(adjustments')
    BY <1>8, <1>h, DeleteKeeps DEF DeleteDiverged
  <2>2. EndRun(r) /\ UNCHANGED <<nodeVars, loopVars, runIndexer, requested>>
    BY <1>8 DEF DeleteDiverged
  <2> QED
    BY <1>e, <1>f, <1>s, <2>1, <2>2
<1>9. CASE RunAdjustments(r)
  <2>1. StoredIn(blocks') /\ StoredIn(adjustments')
    BY <1>9, IndexedAdjustmentsKeep DEF RunAdjustments
  <2>2. EndRun(r) /\ UNCHANGED <<nodeVars, loopVars, runIndexer, requested>>
    BY <1>9 DEF RunAdjustments
  <2> QED
    BY <1>e, <1>f, <1>s, <2>1, <2>2
<1>10. CASE RunFails(r)
  <2>1. StoredIn(blocks') /\ StoredIn(adjustments')
    BY <1>10 DEF RunFails, tables
  <2>2. EndRun(r) /\ UNCHANGED <<nodeVars, loopVars, runIndexer, requested>>
    BY <1>10 DEF RunFails
  <2> QED
    BY <1>e, <1>f, <1>s, <2>1, <2>2
<1>11. CASE DeletionInterrupted(r)
  <2>1. StoredIn(blocks')
    BY <1>11, DeleteKeeps DEF DeletionInterrupted
  <2>2. runs' \in [Runs -> RunSet]
    BY <1>11, <1>p DEF DeletionInterrupted, Past
  <2> QED
    BY <1>11, <1>f, <1>s, <2>1, <2>2 DEF DeletionInterrupted
<1> QED
  BY <1>1, <1>2, <1>3, <1>4, <1>5, <1>6, <1>7, <1>8, <1>9, <1>10, <1>11 DEF RunStep

LEMMA OthersKeep ==
    ASSUME StoreInv, RequestBlock \/ SaveRequested \/ Reindex \/ Restart \/ UNCHANGED vars
    PROVE  StoreInv'
<1> USE DEF StoreInv
<1>0. /\ Height(tip) \in Nat /\ <<>> \in Known
      /\ \A h \in 0 .. Height(tip) : Ancestor(tip, h) \in Known
  BY TipFacts
<1>s. ASSUME UNCHANGED <<tip, adjustments, loop, cached, runs, switches, indexerRunning>>,
             memory' = memory, StoredIn(blocks'),
             requested' \subseteq Known, runIndexer' \in BOOLEAN, timers' \in Nat
      PROVE  StoreInv'
  BY <1>s DEF LoopTyped, LoopSet, RunSet, StoredIn, Known, Positions, FlagsTyped
<1>f. runIndexer \in BOOLEAN /\ indexerRunning \in BOOLEAN /\ timers \in Nat
  BY DEF FlagsTyped
<1>1. CASE RequestBlock
  <2>1. requested' \subseteq Known
    BY <1>0, <1>1 DEF RequestBlock
  <2> QED
    BY <1>1, <1>f, <1>s, <2>1 DEF RequestBlock, nodeVars, tables, loopVars, memoryVars, indexerVars
<1>2. CASE SaveRequested
  <2>1. requested' \subseteq Known /\ StoredIn(blocks')
    BY <1>2, InsertKeeps DEF SaveRequested
  <2> QED
    BY <1>2, <1>f, <1>s, <2>1 DEF SaveRequested, nodeVars, loopVars, memoryVars, indexerVars
<1>3. CASE Reindex
  <2>1. timers' \in Nat
    BY <1>3, <1>f DEF Reindex
  <2> QED
    BY <1>3, <1>f, <1>s, <2>1 DEF Reindex, nodeVars, tables, loopVars, memoryVars
<1>4. CASE Restart
  <2>1. UNCHANGED <<tip, switches, blocks, adjustments, cached>> /\ loop' = IdleLoop
    BY <1>4 DEF Restart, nodeVars, tables
  <2>2. LoopTyped'
    BY <2>1, IdleIsTyped
  <2>3. memory' \in Positions
    BY <1>0, <1>4 DEF Restart, Positions
  <2>4. IdleRun \in RunSet
    BY <1>0 DEF IdleRun, RunSet, Before
  <2>5. runs' \in [Runs -> RunSet] /\ requested' = {}
        /\ runIndexer' \in BOOLEAN /\ indexerRunning' \in BOOLEAN /\ timers' \in Nat
    BY <1>4, <2>4 DEF Restart
  <2> QED
    BY <2>1, <2>2, <2>3, <2>5 DEF RunSet, StoredIn, Known, Positions, FlagsTyped
<1>5. CASE UNCHANGED vars
  BY <1>5, <1>f, <1>s DEF vars, nodeVars, tables, loopVars, memoryVars, indexerVars
<1> QED
  BY <1>1, <1>2, <1>3, <1>4, <1>5

LEMMA StoreInvInductive == StoreInv /\ [Next]_vars => StoreInv'
<1> SUFFICES ASSUME StoreInv, [Next]_vars PROVE StoreInv'
  OBVIOUS
<1>1. CASE NodeMine \/ NodeReorg
  BY <1>1, NodeKeeps
<1>2. CASE LoopStep \/ LoopFails
  BY <1>2, LoopStepsKeep
<1>3. CASE \E r \in Runs : \/ StartRun(r) \/ RunStep(r) \/ NotSynced(r) \/ RunFails(r)
                           \/ DeletionInterrupted(r)
  BY <1>3, RunStepKeeps
<1>4. CASE RequestBlock \/ SaveRequested \/ Reindex \/ Restart \/ UNCHANGED vars
  BY <1>4, OthersKeep
<1> QED
  BY <1>1, <1>2, <1>3, <1>4 DEF Next

LEMMA InitialStore == Init => StoreInv
<1> SUFFICES ASSUME Init PROVE StoreInv
  OBVIOUS
<1>1. tip \in BlockSet
  <2>1. PICK h \in StartHeights : tip = [g \in 1 .. h |-> MainBranch]
    BY DEF Init
  <2>2. h \in 0 .. MaxHeight /\ tip \in [1 .. h -> Branches]
    BY <2>1, BlockStoreAssumption, ConstantFacts
  <2> QED
    BY <2>2, IsBlock
<1>2. /\ Height(tip) \in Nat /\ <<>> \in Known /\ Height(<<>>) = 0
      /\ \A h \in 0 .. Height(tip) : Ancestor(tip, h) \in Known /\ Height(Ancestor(tip, h)) = h
  BY <1>1, TipFacts
<1>3. PICK k \in -1 .. Height(tip) :
        /\ blocks = [h \in 0 .. k |-> Ancestor(tip, h)]
        /\ adjustments = [h \in {g \in 0 .. k : g % RetargetPeriod = 0} |-> Ancestor(tip, h)]
  BY DEF Init
<1>4. StoredIn(blocks) /\ StoredIn(adjustments)
  <2>1. \A h \in 0 .. k : h \in 0 .. Height(tip)
    BY <1>2
  <2> QED
    BY <1>2, <1>3, <2>1 DEF StoredIn
<1>5. memory \in Positions /\ cached \in Positions
  BY <1>2 DEF Init, Positions
<1>6. LoopTyped
  <2>1. -1 \in Positions
    BY <1>2 DEF Positions
  <2> QED
    BY <1>2, <2>1 DEF Init, LoopTyped, IdleLoop, LoopSet, LoopPcs
<1>7. runs \in [Runs -> RunSet]
  <2>1. IdleRun \in RunSet
    BY <1>2 DEF IdleRun, RunSet, Before
  <2> QED
    BY <2>1 DEF Init
<1>8. requested \subseteq Known /\ FlagsTyped
  BY DEF Init, FlagsTyped
<1> QED
  BY <1>1, <1>4, <1>5, <1>6, <1>7, <1>8 DEF StoreInv

\* Every variable has its type; a stored block is at its own height, no height
\* in the tables, in memory or in the loop is beyond the node's tip, and the
\* loop of $updateBlocks never passes the height it started for (blocks.ts:575-588).
THEOREM StoreTypeCorrect == Spec => []TypeOK
<1>1. StoreInv => TypeOK
  <2> SUFFICES ASSUME StoreInv PROVE TypeOK
    OBVIOUS
  <2>1. /\ Height(tip) \in Nat /\ Height(tip) <= MaxHeight /\ MaxHeight \in Nat
        /\ \A b \in Known : Height(b) \in 0 .. Height(tip)
    BY TipFacts, ConstantFacts DEF StoreInv
  <2>2. Known \subseteq BlockSet
    BY DEF Known
  <2>3. ASSUME NEW table, StoredIn(table) PROVE Table(table)
    BY <2>1, <2>2, <2>3 DEF StoredIn, Table
  <2>4. Table(blocks) /\ Table(adjustments) /\ (loop.pc # "idle" => loop.current <= loop.target)
    BY <2>3 DEF StoreInv, LoopTyped
  <2>5. {memory, cached} \subseteq -1 .. Height(tip)
    BY DEF StoreInv, Positions
  <2>6. /\ loop.block \in BlockSet /\ loop.copy \in BlockSet
        /\ loop.current \in -1 .. Height(tip) /\ loop.target \in -1 .. Height(tip)
    BY <2>2 DEF StoreInv, LoopTyped, LoopSet, Positions
  <2>7. \A r \in Runs : runs[r].block \in BlockSet
    BY <2>2 DEF StoreInv, RunSet
  <2> QED
    BY <2>2, <2>4, <2>5, <2>6, <2>7 DEF StoreInv, FlagsTyped, TypeOK
<1> QED
  BY <1>1, InitialStore, StoreInvInductive, PTL DEF Spec

(***************************************************************************)
(* The switches of branch, while only the loop writes.                     *)
(***************************************************************************)

Stale(h) == h \in DOMAIN blocks /\ ~OnChain(blocks[h])

\* No request is under way, and a block is copied only to be saved.
Alone == requested = {} /\ (loop.pc # "reindexSave" => loop.copy = <<>>)

\* After a rollback: everything stored, and the blocks that will be, are of the
\* node's chain, so that nothing is found diverged.
Settled ==
    /\ \A h \in DOMAIN blocks : OnChain(blocks[h])
    /\ OnChain(loop.block) /\ OnChain(loop.copy) /\ loop.pc # "rollback"

\* After one switch: the blocks left lie together, no deeper than a rollback
\* goes, and none of them has a block of the new branch on it.
StaleIsShallow ==
    \A g, h \in DOMAIN blocks : Stale(g) /\ Stale(h) => h <= g + RollbackDepth
NoneOnStale ==
    \A g \in DOMAIN blocks : g + 1 \in DOMAIN blocks /\ OnChain(blocks[g + 1]) => OnChain(blocks[g])

\* The block the loop fetched before the switch: it fits what is stored, and is
\* above every stored block of the new branch.
StaleInLoop == ~OnChain(loop.block) /\ loop.pc \in {"compare", "adjust", "deleteLast", "save"}
StaleFits ==
    /\ \A h \in DOMAIN blocks : Stale(h) => /\ h <= Height(loop.block) + RollbackDepth
                                            /\ Height(loop.block) <= h + RollbackDepth
    /\ \A h \in DOMAIN blocks : OnChain(blocks[h]) => h < Height(loop.block)
    /\ loop.pc = "compare" => ~Diverges(loop.block)

Unsettled ==
    /\ StaleIsShallow /\ NoneOnStale
    /\ loop.pc \notin {"reindex", "reindexSave"}
    /\ loop.pc = "rollback" => /\ OnChain(loop.block) /\ Diverges(loop.block)
                               /\ loop.last = Height(loop.block) - 1
    /\ loop.pc \in {"adjust", "deleteLast", "save"} /\ OnChain(loop.block) => ~Stale(Height(loop.block) - 1)
    /\ StaleInLoop => StaleFits

SettleInv ==
    /\ Alone
    /\ switches = "none" => Settled
    /\ switches = "one" => Unsettled

LEMMA OnChainFacts ==
    ASSUME StoreInv
    PROVE  /\ OnChain(<<>>)
           /\ \A h \in 0 .. Height(tip) : OnChain(Ancestor(tip, h))
           /\ \A h \in DOMAIN blocks : /\ blocks[h] \in Known /\ Height(blocks[h]) = h
                                       /\ h \in 0 .. Height(tip)
                                       /\ OnChain(blocks[h]) <=> blocks[h] = Ancestor(tip, h)
<1>1. /\ \A h \in 0 .. Height(tip) : Height(Ancestor(tip, h)) = h
      /\ \A b \in Known : Height(b) \in 0 .. Height(tip)
      /\ Height(<<>>) = 0
  BY TipFacts DEF StoreInv
<1>2. Ancestor(tip, 0) = <<>>
  BY GenesisFacts DEF StoreInv
<1>3. OnChain(<<>>) /\ \A h \in 0 .. Height(tip) : OnChain(Ancestor(tip, h))
  BY <1>1, <1>2 DEF OnChain
<1>4. \A h \in DOMAIN blocks : blocks[h] \in Known /\ Height(blocks[h]) = h
  BY DEF StoreInv, StoredIn
<1> QED
  BY <1>1, <1>3, <1>4 DEF OnChain

LEMMA ParentOnChain ==
    ASSUME StoreInv, NEW b \in Known, OnChain(b), Height(b) # 0
    PROVE  Parent(b) = Ancestor(tip, Height(b) - 1)
<1>1. Height(b) \in 0 .. Height(tip) /\ Height(tip) \in Nat
  BY TipFacts DEF StoreInv
<1>2. b = Ancestor(tip, Height(b)) /\ Height(b) - 1 \in 0 .. Height(b)
  BY <1>1 DEF OnChain
<1>3. Ancestor(Ancestor(tip, Height(b)), Height(b) - 1) = Ancestor(tip, Height(b) - 1)
  BY <1>1, <1>2, AncestorOfAncestor DEF StoreInv
<1> QED
  BY <1>2, <1>3 DEF Parent

\* A block on top changes nothing below it.
LEMMA MiningKeepsChain ==
    ASSUME StoreInv, NodeMine
    PROVE  \A b \in Known : OnChain(b)' <=> OnChain(b)
<1>1. Height(tip) \in Nat /\ tip \in Seq(Branches) /\ Height(tip) = Len(tip)
  BY BlockFacts DEF StoreInv, Height
<1>2. PICK l : tip' = Append(tip, l)
  BY DEF NodeMine
<1>3. tip' \in BlockSet /\ Height(tip) < Height(tip')
  BY NodeKeeps
<1>4. \A i \in 1 .. Len(tip) : tip'[i] = tip[i]
  BY <1>1, <1>2
<1>5. ASSUME NEW h \in 0 .. Height(tip) PROVE Ancestor(tip', h) = Ancestor(tip, h)
  <2>1. h \in 0 .. Height(tip')
    <3>1. Height(tip') \in Nat
      BY <1>3, BlockFacts
    <3> QED
      BY <1>1, <1>3, <3>1
  <2>2. Ancestor(tip', h) = [i \in 1 .. h |-> tip'[i]]
    BY <1>3, <2>1, AncestorFacts
  <2>3. Ancestor(tip, h) = [i \in 1 .. h |-> tip[i]]
    BY AncestorFacts DEF StoreInv
  <2>4. \A i \in 1 .. h : tip'[i] = tip[i]
    BY <1>1, <1>4
  <2> QED
    BY <2>2, <2>3, <2>4
<1>6. \A b \in Known : Height(b) \in 0 .. Height(tip)
  BY TipFacts DEF StoreInv
<1> QED
  BY <1>5, <1>6 DEF OnChain

\* A switch of branch keeps what is up to the fork and nothing above it.
LEMMA SwitchForks ==
    ASSUME StoreInv, NodeReorg
    PROVE  \E f \in Nat :
             /\ f < Height(tip) /\ Height(tip) <= f + RollbackDepth
             /\ \A b \in Known : OnChain(b) => (OnChain(b)' <=> Height(b) <= f)
<1>1. PICK b \in BlockSet, f \in 0 .. Height(tip) - 1 :
        /\ Height(b) > Height(tip) /\ Height(tip) - f <= RollbackDepth
        /\ Ancestor(b, f) = Ancestor(tip, f) /\ b[f + 1] # tip[f + 1]
        /\ tip' = b
  BY DEF NodeReorg
<1>2. Height(tip) \in Nat /\ Height(b) \in Nat /\ RollbackDepth \in Nat /\ tip \in BlockSet
  BY BlockFacts, ConstantFacts DEF StoreInv
<1>3. f \in Nat /\ f < Height(tip) /\ Height(tip) <= f + RollbackDepth
  BY <1>1, <1>2
<1>4. ASSUME NEW h \in 0 .. Height(tip), h <= f PROVE Ancestor(b, h) = Ancestor(tip, h)
  <2>1. h \in 0 .. f /\ f \in 0 .. Height(b) /\ f \in 0 .. Height(tip)
    BY <1>1, <1>2, <1>3, <1>4
  <2>2. Ancestor(Ancestor(b, f), h) = Ancestor(b, h)
    BY <2>1, AncestorOfAncestor
  <2>3. Ancestor(Ancestor(tip, f), h) = Ancestor(tip, h)
    BY <1>2, <2>1, AncestorOfAncestor
  <2> QED
    BY <1>1, <2>2, <2>3
<1>5. ASSUME NEW h \in 0 .. Height(tip), h > f PROVE Ancestor(b, h) # Ancestor(tip, h)
  <2>1. h \in 0 .. Height(b) /\ f + 1 \in 1 .. h
    BY <1>1, <1>2, <1>3, <1>5
  <2>2. Ancestor(b, h)[f + 1] = b[f + 1]
    BY <2>1, AncestorFacts
  <2>3. Ancestor(tip, h)[f + 1] = tip[f + 1]
    BY <1>2, <2>1, AncestorFacts
  <2> QED
    BY <1>1, <2>2, <2>3
<1>6. \A c \in Known : Height(c) \in 0 .. Height(tip)
  BY TipFacts DEF StoreInv
<1>7. ASSUME NEW c \in Known, OnChain(c) PROVE OnChain(c)' <=> Height(c) <= f
  <2>1. Height(c) \in 0 .. Height(tip) /\ c = Ancestor(tip, Height(c))
    BY <1>6, <1>7 DEF OnChain
  <2>2. OnChain(c)' <=> c = Ancestor(b, Height(c))
    BY <1>1 DEF OnChain
  <2>3. CASE Height(c) <= f
    BY <1>4, <2>1, <2>2, <2>3
  <2>4. CASE Height(c) > f
    <3>1. ~(Height(c) <= f)
      BY <1>3, <2>1, <2>4
    <3> QED
      BY <1>5, <2>1, <2>2, <2>4, <3>1
  <2> QED
    BY <1>3, <2>1, <2>3, <2>4
<1> QED
  BY <1>3, <1>7

LEMMA SettleFacts ==
    ASSUME StoreInv
    PROVE  /\ Height(tip) \in Nat /\ RollbackDepth \in Nat
           /\ loop \in LoopSet /\ loop.block \in Known /\ loop.copy \in Known
           /\ \A b \in Known : Height(b) \in 0 .. Height(tip)
           /\ Height(loop.block) \in 0 .. Height(tip)
           /\ \A h \in DOMAIN blocks : h \in 0 .. Height(tip) /\ blocks[h] \in Known
<1>1. loop \in LoopSet /\ loop.block \in Known /\ loop.copy \in Known
  BY DEF StoreInv, LoopTyped, LoopSet
<1>2. Height(tip) \in Nat /\ \A b \in Known : Height(b) \in 0 .. Height(tip)
  BY TipFacts DEF StoreInv
<1>3. \A h \in DOMAIN blocks : h \in 0 .. Height(tip) /\ blocks[h] \in Known
  BY OnChainFacts
<1> QED
  BY <1>1, <1>2, <1>3, ConstantFacts

\* While everything stored is of the node's chain, no block of it diverges.
LEMMA NoneDiverges ==
    ASSUME StoreInv, \A h \in DOMAIN blocks : OnChain(blocks[h]),
           NEW b \in Known, OnChain(b)
    PROVE  ~Diverges(b)
<1> SUFFICES ASSUME Diverges(b) PROVE FALSE
  OBVIOUS
<1>1. Height(b) - 1 \in DOMAIN blocks /\ blocks[Height(b) - 1] # Parent(b)
  BY DEF Diverges
<1>2. Height(b) - 1 \in 0 .. Height(tip) /\ Height(b) \in 0 .. Height(tip) /\ Height(tip) \in Nat
  BY <1>1, SettleFacts
<1>3. Parent(b) = Ancestor(tip, Height(b) - 1)
  BY <1>2, ParentOnChain
<1>4. blocks[Height(b) - 1] = Ancestor(tip, Height(b) - 1)
  BY <1>1, OnChainFacts
<1> QED
  BY <1>1, <1>3, <1>4

\* An iteration of the loop begins or ends, or is given up.
LEMMA ResetSettles ==
    ASSUME StoreInv, SettleInv, UNCHANGED <<tip, blocks, switches>>, requested' = {},
           loop'.pc \in {"idle", "fetch"}, loop'.block = <<>>, loop'.copy = <<>>
    PROVE  SettleInv'
<1>1. \A b : OnChain(b)' <=> OnChain(b)
  BY DEF OnChain
<1>2. OnChain(<<>>)
  BY OnChainFacts
<1>3. Alone'
  BY DEF Alone
<1>4. switches' = "none" => Settled'
  BY <1>1, <1>2 DEF SettleInv, Settled
<1>5. ASSUME switches' = "one" PROVE Unsettled'
  <2>1. StaleIsShallow /\ NoneOnStale
    BY <1>5 DEF SettleInv, Unsettled
  <2>2. \A h : Stale(h)' <=> Stale(h)
    BY <1>1 DEF Stale
  <2>3. StaleIsShallow' /\ NoneOnStale'
    BY <1>1, <2>1, <2>2 DEF StaleIsShallow, NoneOnStale
  <2> QED
    BY <2>3 DEF Unsettled, StaleInLoop
<1> QED
  BY <1>3, <1>4, <1>5 DEF SettleInv

LEMMA NodeSettles ==
    ASSUME StoreInv, SettleInv, NodeMine \/ NodeReorg
    PROVE  SettleInv'
<1>0. /\ Height(tip) \in Nat /\ RollbackDepth \in Nat
      /\ loop.block \in Known /\ loop.copy \in Known
      /\ Height(loop.block) \in 0 .. Height(tip)
      /\ \A h \in DOMAIN blocks : /\ h \in 0 .. Height(tip) /\ h \in Nat
                                  /\ blocks[h] \in Known /\ Height(blocks[h]) = h
  BY SettleFacts, OnChainFacts
<1>1. blocks' = blocks /\ loop' = loop /\ requested' = requested
  BY DEF NodeMine, NodeReorg, tables, loopVars
<1>2. Alone'
  BY <1>1 DEF SettleInv, Alone
<1>3. CASE NodeMine
  <2>1. /\ \A h \in DOMAIN blocks : OnChain(blocks[h])' <=> OnChain(blocks[h])
        /\ OnChain(loop.block)' <=> OnChain(loop.block)
        /\ OnChain(loop.copy)' <=> OnChain(loop.copy)
    BY <1>0, <1>1, <1>3, MiningKeepsChain
  <2>2. switches' = switches
    BY <1>3 DEF NodeMine
  <2>3. switches' = "none" => Settled'
    BY <1>1, <2>1, <2>2 DEF SettleInv, Settled
  <2>4. \A h : Stale(h)' <=> Stale(h)
    BY <1>1, <2>1 DEF Stale
  <2>5. \A b : Diverges(b)' <=> Diverges(b)
    BY <1>1 DEF Diverges
  <2>6. StaleInLoop' <=> StaleInLoop
    BY <1>1, <2>1 DEF StaleInLoop
  <2>7. StaleFits => StaleFits'
    BY <1>1, <2>1, <2>4, <2>5 DEF StaleFits
  <2>8. StaleIsShallow => StaleIsShallow'
    BY <1>1, <2>4 DEF StaleIsShallow
  <2>9. NoneOnStale => NoneOnStale'
    BY <1>1, <2>1 DEF NoneOnStale
  <2>10. ASSUME Unsettled PROVE Unsettled'
    BY <1>1, <2>1, <2>4, <2>5, <2>6, <2>7, <2>8, <2>9, <2>10 DEF Unsettled
  <2> QED
    BY <1>2, <2>2, <2>3, <2>10 DEF SettleInv
<1>4. CASE NodeReorg
  <2>1. switches' = IF switches = "none" /\ loop.pc \notin {"reindex", "reindexSave"}
                    THEN "one" ELSE "more"
    BY <1>4 DEF NodeReorg
  <2>2. CASE switches' = "more"
    BY <1>2, <2>2 DEF SettleInv
  <2>3. CASE switches' # "more"
    <3>1. switches' = "one" /\ switches = "none" /\ loop.pc \notin {"reindex", "reindexSave"}
      BY <2>1, <2>3
    <3>2. /\ \A h \in DOMAIN blocks : OnChain(blocks[h])
          /\ OnChain(loop.block) /\ loop.pc # "rollback"
      BY <3>1 DEF SettleInv, Settled
    <3>3. PICK f \in Nat :
            /\ f < Height(tip) /\ Height(tip) <= f + RollbackDepth
            /\ \A b \in Known : OnChain(b) => (OnChain(b)' <=> Height(b) <= f)
      BY <1>4, SwitchForks
    <3>4. \A h \in DOMAIN blocks : OnChain(blocks[h])' <=> h <= f
      BY <1>0, <1>1, <3>2, <3>3
    <3>5. OnChain(loop.block)' <=> Height(loop.block) <= f
      BY <1>0, <1>1, <3>2, <3>3
    <3>6. \A h : Stale(h)' <=> h \in DOMAIN blocks /\ ~(h <= f)
      BY <1>1, <3>4 DEF Stale
    <3>7. StaleIsShallow'
      BY <1>0, <1>1, <3>3, <3>6 DEF StaleIsShallow
    <3>8. NoneOnStale'
      BY <1>0, <1>1, <3>3, <3>4 DEF NoneOnStale
    <3>9. OnChain(loop.block)' => ~Stale(Height(loop.block) - 1)'
      <4>1. Height(loop.block) <= f => Height(loop.block) - 1 <= f
        BY <1>0, <3>3
      <4> QED
        BY <1>1, <3>5, <3>6, <4>1
    <3>10. ~OnChain(loop.block)' => StaleFits'
      <4> SUFFICES ASSUME ~(Height(loop.block) <= f) PROVE StaleFits'
        BY <3>5
      <4>1. \A h \in DOMAIN blocks : ~(h <= f) => /\ h <= Height(loop.block) + RollbackDepth
                                                  /\ Height(loop.block) <= h + RollbackDepth
        BY <1>0, <3>3
      <4>2. \A h \in DOMAIN blocks : h <= f => h < Height(loop.block)
        BY <1>0, <3>3
      <4>3. ~Diverges(loop.block)
        BY <1>0, <3>2, NoneDiverges
      <4> QED
        BY <1>1, <3>4, <3>6, <4>1, <4>2, <4>3 DEF StaleFits, Diverges
    <3>11. StaleInLoop' => StaleFits'
      BY <1>1, <3>10 DEF StaleInLoop
    <3>12. Unsettled'
      BY <1>1, <3>1, <3>2, <3>7, <3>8, <3>9, <3>11 DEF Unsettled
    <3> QED
      BY <1>2, <3>1, <3>12 DEF SettleInv
  <2> QED
    BY <2>2, <2>3
<1> QED
  BY <1>3, <1>4

\* An iteration begins without a block.
LEMMA FreshLoop ==
    ASSUME CheckTip \/ FinishBlock
    PROVE  loop'.pc \in {"idle", "fetch"} /\ loop'.block = <<>> /\ loop'.copy = <<>>
<1> DEFINE fresh(t, f, c) == [IdleLoop EXCEPT !.pc = "fetch", !.target = t, !.fast = f, !.current = c]
<1>1. ASSUME NEW t, NEW f, NEW c
      PROVE  fresh(t, f, c).pc = "fetch" /\ fresh(t, f, c).block = <<>> /\ fresh(t, f, c).copy = <<>>
  BY DEF IdleLoop
<1>2. IdleLoop.pc = "idle" /\ IdleLoop.block = <<>> /\ IdleLoop.copy = <<>>
  BY DEF IdleLoop
<1>3. loop' = IdleLoop \/ \E t, f, c : loop' = fresh(t, f, c)
  <2>1. CASE CheckTip
    BY <2>1 DEF CheckTip
  <2>2. CASE FinishBlock
    BY <2>2 DEF FinishBlock
  <2> QED
    BY <2>1, <2>2
<1> HIDE DEF fresh
<1> QED
  BY <1>1, <1>2, <1>3

\* What a step of the loop after the node's block was looked up changes, when
\* nothing diverges any more.
LEMMA SettledSteps ==
    ASSUME StoreInv, SettleInv, switches = "none", LoopStep
    PROVE  SettleInv'
<1>0. /\ Height(tip) \in Nat /\ loop \in LoopSet
      /\ loop.block \in Known /\ OnChain(loop.block) /\ OnChain(loop.copy)
      /\ \A h \in DOMAIN blocks : OnChain(blocks[h])
      /\ loop.pc # "rollback" /\ requested = {}
      /\ loop.pc # "reindexSave" => loop.copy = <<>>
      /\ OnChain(<<>>) /\ \A h \in 0 .. Height(tip) : OnChain(Ancestor(tip, h))
  BY SettleFacts, OnChainFacts DEF SettleInv, Settled, Alone
<1>s. ASSUME UNCHANGED <<tip, switches, requested>>,
             OnChain(loop'.block), OnChain(loop'.copy), loop'.pc # "rollback",
             loop'.pc # "reindexSave" => loop'.copy = <<>>,
             \A h \in DOMAIN blocks' : OnChain(blocks'[h])
      PROVE  SettleInv'
  <2>1. \A b : OnChain(b)' <=> OnChain(b)
    BY <1>s DEF OnChain
  <2>2. Settled'
    BY <1>s, <2>1 DEF Settled
  <2> QED
    BY <1>0, <1>s, <2>2 DEF SettleInv, Alone
<1>i. ASSUME NEW b, OnChain(b), blocks' = Insert(blocks, b)
      PROVE  \A h \in DOMAIN blocks' : OnChain(blocks'[h])
  BY <1>0, <1>i DEF Insert
<1>r. CASE CheckTip \/ FinishBlock
  <2>1. UNCHANGED <<tip, blocks, switches, requested>>
    BY <1>r DEF CheckTip, FinishBlock, nodeVars, tables
  <2>2. loop'.pc \in {"idle", "fetch"} /\ loop'.block = <<>> /\ loop'.copy = <<>>
    BY <1>r, FreshLoop
  <2> QED
    BY <1>0, <2>1, <2>2, ResetSettles
<1>1. CASE FetchBlock
  <2> DEFINE next == IF loop.current = 0 THEN loop.target ELSE loop.current + 1
  <2>1. next \in 0 .. Height(tip)
    BY <1>0, <1>1 DEF FetchBlock, StoreInv, LoopTyped, LoopSet, Positions
  <2>2. loop'.block = Ancestor(tip, next) /\ loop'.copy = loop.copy /\ loop'.pc \in {"finish", "compare"}
    BY <1>0, <1>1 DEF FetchBlock, LoopSet
  <2>3. UNCHANGED <<tip, switches, requested, blocks>> /\ loop.pc = "fetch"
    BY <1>1 DEF FetchBlock, nodeVars, tables
  <2> HIDE DEF next
  <2> QED
    BY <1>0, <1>s, <2>1, <2>2, <2>3
<1>2. CASE Compare
  <2>1. ~Diverges(loop.block)
    BY <1>0, NoneDiverges
  <2>2. loop'.block = loop.block /\ loop'.copy = loop.copy /\ loop'.pc = "save"
    BY <1>0, <1>2, <2>1 DEF Compare, LoopSet
  <2>3. UNCHANGED <<tip, switches, requested, blocks>> /\ loop.pc = "compare"
    BY <1>2 DEF Compare, nodeVars, tables
  <2> QED
    BY <1>0, <1>s, <2>2, <2>3
<1>3. CASE Rollback
  BY <1>0, <1>3 DEF Rollback
<1>n. /\ ReindexNext.block = loop.block /\ ReindexNext.copy = <<>>
      /\ ReindexNext.pc \in {"adjust", "reindex"}
  BY <1>0 DEF ReindexNext, LoopSet
<1>4. CASE ReindexFetch
  <2>1. UNCHANGED <<tip, switches, requested, blocks>> /\ loop.pc = "reindex"
    BY <1>4 DEF ReindexFetch, nodeVars, tables
  <2>2. CASE loop' = IdleLoop
    BY <1>0, <2>1, <2>2, ResetSettles DEF IdleLoop
  <2>3. CASE loop' = ReindexNext
    BY <1>0, <1>n, <1>s, <2>1, <2>3
  <2>4. CASE ~(loop.at < 0) /\ loop' = [loop EXCEPT !.pc = "reindexSave", !.copy = Ancestor(tip, loop.at)]
    <3>1. loop.at \in 0 .. Height(tip)
      BY <1>0, <2>1, <2>4 DEF StoreInv, LoopTyped, LoopSet, Positions
    <3>2. loop'.block = loop.block /\ loop'.copy = Ancestor(tip, loop.at) /\ loop'.pc = "reindexSave"
      BY <1>0, <2>4 DEF LoopSet
    <3> QED
      BY <1>0, <1>s, <2>1, <3>1, <3>2
  <2> QED
    BY <1>4, <2>2, <2>3, <2>4 DEF ReindexFetch
<1>5. CASE ReindexSave
  <2>1. UNCHANGED <<tip, switches, requested>> /\ blocks' = Insert(blocks, loop.copy) /\ loop' = ReindexNext
    BY <1>5 DEF ReindexSave, nodeVars
  <2>2. \A h \in DOMAIN blocks' : OnChain(blocks'[h])
    BY <1>0, <1>i, <2>1
  <2> QED
    BY <1>0, <1>n, <1>s, <2>1, <2>2
<1>6. CASE ReindexAdjustments \/ DeleteLastAdjustment
  <2>1. UNCHANGED <<tip, switches, requested, blocks>> /\ loop.pc \in {"adjust", "deleteLast"}
    BY <1>6 DEF ReindexAdjustments, DeleteLastAdjustment, nodeVars
  <2>2. loop'.block = loop.block /\ loop'.copy = loop.copy /\ loop'.pc \in {"deleteLast", "save"}
    BY <1>0, <1>6 DEF ReindexAdjustments, DeleteLastAdjustment, LoopSet
  <2> QED
    BY <1>0, <1>s, <2>1, <2>2
<1>7. CASE SaveBlock
  <2>1. UNCHANGED <<tip, switches, requested>> /\ blocks' = Insert(blocks, loop.block) /\ loop.pc = "save"
    BY <1>7 DEF SaveBlock, nodeVars
  <2>2. loop'.block = loop.block /\ loop'.copy = loop.copy /\ loop'.pc = "finish"
    BY <1>0, <1>7 DEF SaveBlock, LoopSet
  <2>3. \A h \in DOMAIN blocks' : OnChain(blocks'[h])
    BY <1>0, <1>i, <2>1
  <2> QED
    BY <1>0, <1>s, <2>1, <2>2, <2>3
<1>8. CASE SaveAdjustment
  <2>1. UNCHANGED <<tip, switches, requested, blocks>> /\ loop.pc = "finish"
    BY <1>8 DEF SaveAdjustment, nodeVars
  <2>2. loop'.block = loop.block /\ loop'.copy = loop.copy /\ loop'.pc = "push"
    BY <1>0, <1>8 DEF SaveAdjustment, LoopSet
  <2> QED
    BY <1>0, <1>s, <2>1, <2>2
<1> QED
  BY <1>r, <1>1, <1>2, <1>3, <1>4, <1>5, <1>6, <1>7, <1>8 DEF LoopStep

\* The same between a switch of branch and the rollback.
LEMMA UnsettledSteps ==
    ASSUME StoreInv, SettleInv, switches = "one", LoopStep, Disturbances = {}
    PROVE  SettleInv'
<1>0. /\ Height(tip) \in Nat /\ RollbackDepth \in Nat /\ loop \in LoopSet
      /\ loop.block \in Known /\ Height(loop.block) \in 0 .. Height(tip)
      /\ requested = {} /\ (loop.pc # "reindexSave" => loop.copy = <<>>)
      /\ OnChain(<<>>) /\ \A h \in 0 .. Height(tip) : OnChain(Ancestor(tip, h))
      /\ \A h \in DOMAIN blocks : /\ h \in 0 .. Height(tip)
                                  /\ OnChain(blocks[h]) <=> blocks[h] = Ancestor(tip, h)
  BY SettleFacts, OnChainFacts DEF SettleInv, Alone
<1>u. /\ StaleIsShallow /\ NoneOnStale
      /\ loop.pc \notin {"reindex", "reindexSave"}
      /\ loop.pc = "rollback" => /\ OnChain(loop.block) /\ Diverges(loop.block)
                                 /\ loop.last = Height(loop.block) - 1
      /\ loop.pc \in {"adjust", "deleteLast", "save"} /\ OnChain(loop.block)
            => ~Stale(Height(loop.block) - 1)
      /\ StaleInLoop => StaleFits
  BY DEF SettleInv, Unsettled
\* A step that leaves the table alone.
<1>s. ASSUME UNCHANGED <<tip, switches, requested, blocks>>,
             loop'.copy = <<>>, loop'.pc \notin {"reindex", "reindexSave"},
             loop'.pc = "rollback" => /\ OnChain(loop'.block) /\ Diverges(loop'.block)
                                      /\ loop'.last = Height(loop'.block) - 1,
             loop'.pc \in {"adjust", "deleteLast", "save"} /\ OnChain(loop'.block)
                => ~Stale(Height(loop'.block) - 1),
             ~OnChain(loop'.block) /\ loop'.pc \in {"compare", "adjust", "deleteLast", "save"}
                => StaleInLoop /\ loop'.block = loop.block /\ loop'.pc # "compare"
      PROVE  SettleInv'
  <2>1. \A b : (OnChain(b)' <=> OnChain(b)) /\ (Diverges(b)' <=> Diverges(b))
    BY <1>s DEF OnChain, Diverges
  <2>2. \A h : Stale(h)' <=> Stale(h)
    BY <1>s, <2>1 DEF Stale
  <2>3. StaleIsShallow' /\ NoneOnStale'
    BY <1>s, <1>u, <2>1, <2>2 DEF StaleIsShallow, NoneOnStale
  <2>4. StaleInLoop' => StaleFits'
    <3> SUFFICES ASSUME StaleInLoop' PROVE StaleFits'
      OBVIOUS
    <3>1. StaleInLoop /\ loop'.block = loop.block /\ loop'.pc # "compare"
      BY <1>s, <2>1 DEF StaleInLoop
    <3> QED
      BY <1>s, <1>u, <2>1, <2>2, <3>1 DEF StaleFits
  <2>5. Unsettled'
    BY <1>s, <2>1, <2>2, <2>3, <2>4 DEF Unsettled
  <2> QED
    BY <1>0, <1>s, <2>5 DEF SettleInv, Alone
<1>r. CASE CheckTip \/ FinishBlock
  <2>1. UNCHANGED <<tip, blocks, switches, requested>>
    BY <1>r DEF CheckTip, FinishBlock, nodeVars, tables
  <2>2. loop'.pc \in {"idle", "fetch"} /\ loop'.block = <<>> /\ loop'.copy = <<>>
    BY <1>r, FreshLoop
  <2> QED
    BY <1>0, <2>1, <2>2, ResetSettles
<1>1. CASE FetchBlock
  <2> DEFINE next == IF loop.current = 0 THEN loop.target ELSE loop.current + 1
  <2>1. next \in 0 .. Height(tip)
    BY <1>0, <1>1 DEF FetchBlock, StoreInv, LoopTyped, LoopSet, Positions
  <2>2. loop'.block = Ancestor(tip, next) /\ loop'.copy = loop.copy /\ loop'.pc \in {"finish", "compare"}
    BY <1>0, <1>1 DEF FetchBlock, LoopSet
  <2>3. UNCHANGED <<tip, switches, requested, blocks>> /\ loop.pc = "fetch"
    BY <1>1 DEF FetchBlock, nodeVars, tables
  <2> HIDE DEF next
  <2>4. OnChain(loop'.block) /\ loop'.copy = <<>>
    BY <1>0, <2>1, <2>2, <2>3
  <2> QED
    BY <1>s, <2>2, <2>3, <2>4
<1>2. CASE Compare
  <2>1. UNCHANGED <<tip, switches, requested, blocks>> /\ loop.pc = "compare"
    BY <1>2 DEF Compare, nodeVars, tables
  <2>2. CASE Diverges(loop.block)
    <3>1. /\ loop'.block = loop.block /\ loop'.copy = loop.copy /\ loop'.pc = "rollback"
          /\ loop'.last = Height(loop.block) - 1
      BY <1>0, <1>2, <2>2 DEF Compare, LoopSet
    <3>2. OnChain(loop.block)
      BY <1>u, <2>1, <2>2 DEF StaleInLoop, StaleFits
    <3> QED
      BY <1>0, <1>s, <2>1, <2>2, <3>1, <3>2
  <2>3. CASE ~Diverges(loop.block)
    <3>1. loop'.block = loop.block /\ loop'.copy = loop.copy /\ loop'.pc = "save"
      BY <1>0, <1>2, <2>3 DEF Compare, LoopSet
    <3>2. ASSUME OnChain(loop.block), Stale(Height(loop.block) - 1) PROVE FALSE
      <4> DEFINE h == Height(loop.block) - 1
      <4>1. h \in DOMAIN blocks /\ ~OnChain(blocks[h]) /\ blocks[h] = Parent(loop.block)
        BY <2>3, <3>2 DEF Diverges, Stale
      <4>2. Height(loop.block) # 0
        BY <1>0, <4>1
      <4>3. Parent(loop.block) = Ancestor(tip, h)
        BY <1>0, <3>2, <4>2, ParentOnChain
      <4> HIDE DEF h
      <4> QED
        BY <1>0, <4>1, <4>3
    <3>3. ~OnChain(loop.block) => StaleInLoop
      BY <2>1 DEF StaleInLoop
    <3> QED
      BY <1>0, <1>s, <2>1, <3>1, <3>2, <3>3
  <2> QED
    BY <2>2, <2>3
<1>3. CASE Rollback
  <2> DEFINE h == loop.last
  <2>1. /\ loop.pc = "rollback" /\ UNCHANGED <<tip, requested>>
        /\ blocks' = DeleteFrom(blocks, h - RollbackDepth) /\ switches' = "none"
    BY <1>3 DEF Rollback, DeleteBlocksFrom
  <2>2. loop'.block = loop.block /\ loop'.copy = loop.copy /\ loop'.pc = "reindex"
    BY <1>0, <1>3 DEF Rollback, LoopSet
  <2>3. OnChain(loop.block) /\ h = Height(loop.block) - 1 /\ h \in DOMAIN blocks /\ blocks[h] # Parent(loop.block)
    BY <1>u, <2>1 DEF Diverges
  <2>4. Height(loop.block) # 0 /\ h \in Nat
    BY <1>0, <2>3
  <2>5. Stale(h)
    <3>1. Parent(loop.block) = Ancestor(tip, h)
      BY <1>0, <2>3, <2>4, ParentOnChain
    <3> HIDE DEF h
    <3> QED
      BY <1>0, <2>3, <3>1 DEF Stale
  <2> HIDE DEF h
  <2>6. ASSUME NEW g \in DOMAIN blocks, g < h - RollbackDepth PROVE OnChain(blocks[g])
    <3>1. ~(h <= g + RollbackDepth)
      BY <1>0, <2>4, <2>6
    <3> QED
      BY <1>u, <2>3, <2>5, <3>1 DEF StaleIsShallow, Stale
  <2>7. \A g \in DOMAIN blocks' : OnChain(blocks'[g])
    BY <2>1, <2>6 DEF DeleteFrom, Rows
  <2>8. \A b : OnChain(b)' <=> OnChain(b)
    BY <2>1 DEF OnChain
  <2>9. loop'.copy = <<>>
    BY <1>0, <2>1, <2>2
  <2>10. Settled'
    BY <1>0, <2>2, <2>3, <2>7, <2>8, <2>9 DEF Settled
  <2> QED
    BY <1>0, <2>1, <2>9, <2>10 DEF SettleInv, Alone
<1>4. CASE ReindexFetch \/ ReindexSave
  BY <1>u, <1>4 DEF ReindexFetch, ReindexSave
<1>5. CASE ReindexAdjustments \/ DeleteLastAdjustment
  <2>1. UNCHANGED <<tip, switches, requested, blocks>> /\ loop.pc \in {"adjust", "deleteLast"}
    BY <1>5 DEF ReindexAdjustments, DeleteLastAdjustment, nodeVars
  <2>2. loop'.block = loop.block /\ loop'.copy = loop.copy /\ loop'.pc \in {"deleteLast", "save"}
    BY <1>0, <1>5 DEF ReindexAdjustments, DeleteLastAdjustment, LoopSet
  <2>3. ~OnChain(loop.block) => StaleInLoop
    BY <2>1 DEF StaleInLoop
  <2> QED
    BY <1>0, <1>s, <1>u, <2>1, <2>2, <2>3
<1>6. CASE SaveBlock
  <2> DEFINE b == loop.block
             n == Height(loop.block)
  <2>1. UNCHANGED <<tip, switches, requested>> /\ blocks' = Insert(blocks, b) /\ loop.pc = "save"
    BY <1>6 DEF SaveBlock, nodeVars
  <2>2. loop'.pc = "finish" /\ loop'.copy = <<>>
    BY <1>0, <1>6, <2>1 DEF SaveBlock, LoopSet
  <2>3. \A a : OnChain(a)' <=> OnChain(a)
    BY <2>1 DEF OnChain
  <2>4. /\ DOMAIN blocks' = DOMAIN blocks \cup {n}
        /\ \A h \in DOMAIN blocks : blocks'[h] = blocks[h]
        /\ n \notin DOMAIN blocks => blocks'[n] = b
    BY <2>1 DEF Insert
  <2>5. OnChain(b) => ~Stale(n - 1)
    BY <1>u, <2>1
  <2>6. ~OnChain(b) => /\ \A h \in DOMAIN blocks : Stale(h) => h <= n + RollbackDepth /\ n <= h + RollbackDepth
                       /\ \A h \in DOMAIN blocks : OnChain(blocks[h]) => h < n
    BY <1>u, <2>1 DEF StaleInLoop, StaleFits
  <2>7. n \in Nat /\ \A h \in DOMAIN blocks : h \in Nat
    BY <1>0
  <2> HIDE DEF b, n
  <2>8. \A h : Stale(h)' <=> Stale(h) \/ (h = n /\ n \notin DOMAIN blocks /\ ~OnChain(b))
    BY <2>3, <2>4 DEF Stale
  <2>9. \A h : Stale(h) => h \in DOMAIN blocks
    BY DEF Stale
  <2>10. StaleIsShallow'
    <3> SUFFICES ASSUME NEW g, NEW h, Stale(g)', Stale(h)'
                 PROVE  h <= g + RollbackDepth
      BY DEF StaleIsShallow
    <3>1. CASE Stale(g) /\ Stale(h)
      BY <1>u, <2>9, <3>1 DEF StaleIsShallow
    <3>2. CASE ~Stale(g) /\ ~Stale(h)
      BY <1>0, <2>7, <2>8, <3>2
    <3>3. CASE Stale(g) /\ ~Stale(h)
      BY <2>6, <2>8, <2>9, <3>3
    <3>4. CASE ~Stale(g) /\ Stale(h)
      BY <2>6, <2>8, <2>9, <3>4
    <3> QED
      BY <3>1, <3>2, <3>3, <3>4
  <2>11. NoneOnStale'
    <3> SUFFICES ASSUME NEW g \in DOMAIN blocks', g + 1 \in DOMAIN blocks', OnChain(blocks'[g + 1])
                 PROVE  OnChain(blocks'[g])
      BY <2>3 DEF NoneOnStale
    <3>1. CASE g \in DOMAIN blocks /\ g + 1 \in DOMAIN blocks
      BY <1>u, <2>4, <3>1 DEF NoneOnStale
    <3>2. CASE g \in DOMAIN blocks /\ g + 1 \notin DOMAIN blocks
      <4>1. g + 1 = n /\ OnChain(b) /\ g = n - 1
        BY <2>4, <2>7, <3>2
      <4> QED
        BY <2>4, <2>5, <3>2, <4>1 DEF Stale
    <3>3. CASE g \notin DOMAIN blocks
      <4>1. g = n /\ blocks'[g] = b /\ g + 1 \in DOMAIN blocks /\ blocks'[g + 1] = blocks[g + 1]
        BY <2>4, <2>7, <3>3
      <4>2. ~(n + 1 < n)
        BY <2>7
      <4> QED
        BY <2>6, <4>1, <4>2
    <3> QED
      BY <3>1, <3>2, <3>3
  <2>12. Unsettled'
    BY <2>2, <2>10, <2>11 DEF Unsettled, StaleInLoop
  <2> QED
    BY <1>0, <2>1, <2>2, <2>12 DEF SettleInv, Alone
<1>7. CASE SaveAdjustment
  <2>1. UNCHANGED <<tip, switches, requested, blocks>> /\ loop.pc = "finish"
    BY <1>7 DEF SaveAdjustment, nodeVars
  <2>2. loop'.block = loop.block /\ loop'.copy = loop.copy /\ loop'.pc = "push"
    BY <1>0, <1>7 DEF SaveAdjustment, LoopSet
  <2> QED
    BY <1>0, <1>s, <2>1, <2>2
<1> QED
  BY <1>r, <1>1, <1>2, <1>3, <1>4, <1>5, <1>6, <1>7 DEF LoopStep

\* After more switches nothing is said of the table.
LEMMA MoreSteps ==
    ASSUME StoreInv, SettleInv, switches = "more", LoopStep
    PROVE  SettleInv'
<1>1. loop \in LoopSet
  BY SettleFacts
<1>2. switches' = "more" /\ requested' = requested
  BY DEF LoopStep, CheckTip, FetchBlock, Compare, Rollback, ReindexFetch, ReindexSave,
         ReindexAdjustments, DeleteLastAdjustment, SaveBlock, SaveAdjustment, FinishBlock, nodeVars
<1>3. loop.pc # "reindexSave" => loop.copy = <<>>
  BY DEF SettleInv, Alone
<1>4. loop'.pc # "reindexSave" => loop'.copy = <<>>
  <2>1. CASE CheckTip \/ FinishBlock
    <3>1. loop'.copy = <<>>
      BY <2>1, FreshLoop
    <3> QED
      BY <3>1
  <2>2. CASE FetchBlock \/ Compare \/ Rollback
    BY <1>1, <1>3, <2>2 DEF FetchBlock, Compare, Rollback, LoopSet
  <2>3. CASE ReindexFetch \/ ReindexSave
    <3>1. ReindexNext.copy = <<>> /\ IdleLoop.copy = <<>>
      BY <1>1 DEF ReindexNext, IdleLoop, LoopSet
    <3>2. [loop EXCEPT !.pc = "reindexSave", !.copy = Ancestor(tip, loop.at)].pc = "reindexSave"
      BY <1>1 DEF LoopSet
    <3> QED
      BY <2>3, <3>1, <3>2 DEF ReindexFetch, ReindexSave
  <2>4. CASE ReindexAdjustments \/ DeleteLastAdjustment \/ SaveBlock \/ SaveAdjustment
    BY <1>1, <1>3, <2>4 DEF ReindexAdjustments, DeleteLastAdjustment, SaveBlock,
                            SaveAdjustment, LoopSet
  <2> QED
    BY <2>1, <2>2, <2>3, <2>4 DEF LoopStep
<1> QED
  BY <1>2, <1>4 DEF SettleInv, Alone

LEMMA SettleInvInductive ==
    ASSUME Runs = {}, Disturbances = {}
    PROVE  StoreInv /\ SettleInv /\ [Next]_vars => SettleInv'
<1> SUFFICES ASSUME StoreInv, SettleInv, [Next]_vars PROVE SettleInv'
  OBVIOUS
<1>1. CASE NodeMine \/ NodeReorg
  BY <1>1, NodeSettles
<1>2. CASE LoopStep
  BY <1>2, SettledSteps, UnsettledSteps, MoreSteps DEF StoreInv, FlagsTyped
<1>3. CASE LoopFails \/ Restart
  <2>1. UNCHANGED <<tip, blocks, switches>> /\ loop' = IdleLoop
    BY <1>3 DEF LoopFails, Restart, nodeVars, tables
  <2>2. requested' = {}
    BY <1>3 DEF LoopFails, Restart, SettleInv, Alone
  <2> QED
    BY <2>1, <2>2, ResetSettles DEF IdleLoop
<1>4. CASE RequestBlock \/ SaveRequested
  BY <1>4 DEF RequestBlock, SaveRequested, SettleInv, Alone
<1>5. CASE Reindex \/ UNCHANGED vars
  <2>1. UNCHANGED <<tip, blocks, switches, loop, requested>>
    BY <1>5 DEF Reindex, vars, nodeVars, tables, loopVars
  <2> QED
    BY <2>1 DEF SettleInv, Alone, Settled, Unsettled, StaleIsShallow, NoneOnStale, StaleInLoop,
                StaleFits, Stale, OnChain, Diverges
<1> QED
  BY <1>1, <1>2, <1>3, <1>4, <1>5 DEF Next

LEMMA InitialSettled == Init => SettleInv
<1> SUFFICES ASSUME Init PROVE SettleInv
  OBVIOUS
<1>1. StoreInv
  BY InitialStore
<1>2. PICK k \in -1 .. Height(tip) : blocks = [h \in 0 .. k |-> Ancestor(tip, h)]
  BY DEF Init
<1>3. Height(tip) \in Nat /\ OnChain(<<>>) /\ \A h \in 0 .. Height(tip) : OnChain(Ancestor(tip, h))
  BY <1>1, SettleFacts, OnChainFacts
<1>4. \A h \in DOMAIN blocks : OnChain(blocks[h])
  BY <1>2, <1>3
<1> QED
  BY <1>3, <1>4 DEF Init, SettleInv, Alone, Settled, IdleLoop

\* While nobody else writes, a rollback leaves no block that was left, and no
\* stored block of the new branch is ever on one, for every depth the node may
\* switch at, every chain and every number of exceptions and restarts.
THEOREM SwitchesSettleAlways ==
    ASSUME Runs = {}, Disturbances = {}
    PROVE  Spec => []SwitchesSettle
<1>1. StoreInv /\ SettleInv => SwitchesSettle
  BY DEF SettleInv, Settled, Unsettled, NoneOnStale, SwitchesSettle
<1>2. StoreInv /\ SettleInv /\ [Next]_vars => (StoreInv /\ SettleInv)'
  BY StoreInvInductive, SettleInvInductive
<1>3. Init => StoreInv /\ SettleInv
  BY InitialStore, InitialSettled
<1> QED
  BY <1>1, <1>2, <1>3, PTL DEF Spec

(***************************************************************************)
(* The indexer comes back.                                                 *)
(***************************************************************************)

\* A step that leaves the runs and the timers alone, and the flag set.
LEMMA LeavesIndexer ==
    ASSUME IndexerReturns, UNCHANGED <<timers, runs>>, runIndexer => runIndexer'
    PROVE  IndexerReturns'
BY DEF IndexerReturns

LEMMA LoopLeavesIndexer ==
    ASSUME IndexerReturns, NodeMine \/ NodeReorg \/ LoopStep \/ LoopFails
                           \/ RequestBlock \/ SaveRequested
    PROVE  IndexerReturns'
<1>1. UNCHANGED <<timers, runs>>
  BY DEF NodeMine, NodeReorg, LoopStep, LoopFails, RequestBlock, SaveRequested,
         CheckTip, FetchBlock, Compare, Rollback, ReindexFetch, ReindexSave,
         ReindexAdjustments, DeleteLastAdjustment, SaveBlock, SaveAdjustment, FinishBlock,
         indexerVars, loopVars
<1>2. runIndexer => runIndexer'
  BY DEF NodeMine, NodeReorg, LoopStep, LoopFails, RequestBlock, SaveRequested,
         CheckTip, FetchBlock, Compare, Rollback, ReindexFetch, ReindexSave,
         ReindexAdjustments, DeleteLastAdjustment, SaveBlock, SaveAdjustment, FinishBlock,
         indexerVars, loopVars
<1> QED
  BY <1>1, <1>2, LeavesIndexer

\* The end of a run, however it came about, leaves a timer.
LEMMA EndLeavesTimer ==
    ASSUME NEW r, StoreInv, EndRun(r)
    PROVE  IndexerReturns'
BY DEF StoreInv, FlagsTyped, EndRun, IndexerReturns

\* The steps of one call of $run: before the point where it clears the flag
\* nothing is lost, past it the run itself is what comes back.
LEMMA RunKeepsIndexer ==
    ASSUME NEW r \in Runs, StoreInv, IndexerReturns,
           \/ StartRun(r) \/ RunStep(r) \/ NotSynced(r) \/ RunFails(r)
           \/ DeletionInterrupted(r)
    PROVE  IndexerReturns'
<1>r. runs \in [Runs -> RunSet]
  BY DEF StoreInv
<1>1. CASE StartRun(r)
  BY <1>1 DEF StartRun, IndexerReturns
<1>2. CASE NotSynced(r)
  <2>1. UNCHANGED <<timers, runIndexer>> /\ runs[r].pc = "checking"
    BY <1>2 DEF NotSynced
  <2>2. \A q \in Runs : runs[q].pc \notin Before => runs'[q] = runs[q]
    BY <1>2, <1>r, <2>1 DEF NotSynced, Before
  <2> QED
    BY <2>1, <2>2 DEF IndexerReturns, Before
<1>p. ASSUME NEW q, q \in Past, runs'[r].pc = q PROVE IndexerReturns'
  BY <1>p DEF IndexerReturns, Past
<1>3. CASE BeginRun(r)
  <2>1. runs'[r].pc = "list"
    BY <1>3, <1>r DEF BeginRun, RunSet
  <2> QED
    BY <1>p, <2>1 DEF Past
<1>4. CASE ListMissing(r) \/ IndexFetch(r) \/ IndexSave(r)
  <2>1. runs'[r].pc \in {"index", "indexSave"}
    BY <1>4, <1>r DEF ListMissing, IndexFetch, IndexSave, RunSet
  <2> QED
    BY <1>p, <2>1 DEF Past
<1>5. CASE Validate(r) \/ DeletionInterrupted(r)
  <2>1. runs'[r].pc \in {"adjust", "delete"}
    BY <1>5, <1>r DEF Validate, DeletionInterrupted, RunSet
  <2> QED
    BY <1>p, <2>1 DEF Past
<1>6. CASE DeleteDiverged(r) \/ RunAdjustments(r) \/ RunFails(r)
  BY <1>6, EndLeavesTimer DEF DeleteDiverged, RunAdjustments, RunFails
<1> QED
  BY <1>1, <1>2, <1>3, <1>4, <1>5, <1>6 DEF RunStep

LEMMA NextLeavesIndexer == ASSUME StoreInv, IndexerReturns, [Next]_vars PROVE IndexerReturns'
<1>1. CASE NodeMine \/ NodeReorg \/ LoopStep \/ LoopFails \/ RequestBlock \/ SaveRequested
  BY <1>1, LoopLeavesIndexer
<1>2. CASE \E r \in Runs : \/ StartRun(r) \/ RunStep(r) \/ NotSynced(r) \/ RunFails(r)
                           \/ DeletionInterrupted(r)
  BY <1>2, RunKeepsIndexer
<1>3. CASE Reindex \/ Restart
  BY <1>3 DEF Reindex, Restart, IndexerReturns
<1>4. CASE UNCHANGED vars
  BY <1>4, LeavesIndexer DEF vars, indexerVars
<1> QED
  BY <1>1, <1>2, <1>3, <1>4 DEF Next

\* Whatever fails, and whatever calls of $run pass the guard together, the
\* indexer is due, past its guard, or has a timer (indexer.ts:90-141).
THEOREM IndexerComesBack == Spec => []IndexerReturns
<1>1. Init => StoreInv /\ IndexerReturns
  BY InitialStore DEF Init, IndexerReturns
<1>2. StoreInv /\ IndexerReturns /\ [Next]_vars => (StoreInv /\ IndexerReturns)'
  BY StoreInvInductive, NextLeavesIndexer
<1> QED
  BY <1>1, <1>2, PTL DEF Spec
=============================================================================
