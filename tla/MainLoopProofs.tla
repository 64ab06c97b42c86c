--------------------------- MODULE MainLoopProofs ---------------------------
(***************************************************************************)
(* Theorems about MainLoop, for every set of transactions and every value  *)
(* of the bounds.  The loop implements the interface of Mempool; and while *)
(* the node's chain only grows, mined transactions stay out of the cache   *)
(* and are never reported as evicted.                                      *)
(***************************************************************************)
EXTENDS MainLoop, MempoolProofs, SequenceTheorems

(***************************************************************************)
(* Type correctness.                                                       *)
(***************************************************************************)

LEMMA KeepRecentFacts ==
    ASSUME NEW s \in Seq(Blocks), NEW b \in Blocks
    PROVE  /\ KeepRecent(Append(s, b)) \in Seq(Blocks)
           /\ KeepRecent(Append(s, b)) # <<>>
           /\ KeepRecent(Append(s, b))[Len(KeepRecent(Append(s, b)))] = b
<1>. DEFINE t == Append(s, b)
            n == 4 * InitialBlocks
<1>1. t \in Seq(Blocks) /\ Len(t) = Len(s) + 1 /\ t[Len(t)] = b /\ Len(s) \in Nat
  OBVIOUS
<1>2. n \in Nat /\ n >= 1
  BY MainLoopAssumption
<1>3. /\ KeepRecent(t) \in Seq(Blocks)
      /\ Len(KeepRecent(t)) >= 1
      /\ KeepRecent(t)[Len(KeepRecent(t))] = b
  <2>. HIDE DEF t
  <2>1. CASE Len(t) > n
    <3>. HIDE DEF n
    <3>1. /\ SubSeq(t, Len(t) - n + 1, Len(t)) \in Seq(Blocks)
          /\ Len(SubSeq(t, Len(t) - n + 1, Len(t))) = n
          /\ SubSeq(t, Len(t) - n + 1, Len(t))[n] = t[Len(t)]
      BY <1>1, <1>2, <2>1
    <3>. QED
      BY <1>1, <1>2, <2>1, <3>1 DEF KeepRecent, n
  <2>2. CASE ~(Len(t) > n)
    BY <1>1, <2>2 DEF KeepRecent
  <2>. QED
    BY <2>1, <2>2
<1>. QED
  BY <1>3

LEMMA NonEmptyHasLast ==
    ASSUME blocks \in Seq(Blocks), blocks # <<>>
    PROVE  Len(blocks) \in Nat \ {0} /\ LastHeight \in Nat
<1>1. Len(blocks) \in Nat \ {0}
  BY EmptySeq
<1>2. blocks[Len(blocks)] \in Blocks
  BY <1>1
<1>. QED
  BY <1>1, <1>2 DEF LastHeight, Blocks

LEMMA ContentType ==
    ASSUME chain \in Seq(SUBSET Txs), NEW h \in 0..Len(chain)
    PROVE  Content(h) \in SUBSET Txs
BY DEF Content

\* Every step of the loop is one the mempool's interface allows.
LEMMA StepIsMempoolStep ==
    ASSUME TypeOK, [Next]_vars
    PROVE  [MempoolNext]_mempoolVars
<1>. USE DEF MempoolNext
<1>1. CASE StartBlock
  <2>1. NextHeight \in 0..Len(chain)
    BY <1>1, MainLoopAssumption DEF StartBlock, NextHeight, TypeOK
  <2>. QED
    BY <1>1, <2>1, ContentType DEF StartBlock, TypeOK
<1>2. CASE AwaitedHandlerStep
  BY <1>2 DEF AwaitedHandlerStep, HandlerStep, TypeOK
<1>3. ASSUME NEW call \in abandoned, AbandonedHandlerStep(call)
      PROVE  [MempoolNext]_mempoolVars
  BY <1>3 DEF AbandonedHandlerStep, HandlerStep, TypeOK
<1>4. CASE BlocksUpToDate
  BY <1>4 DEF BlocksUpToDate, TypeOK
<1>5. CASE MempoolStep
  <2>1. ASSUME NEW t, FetchOk(t) PROVE t \in Txs
    BY <2>1 DEF FetchOk, TypeOK, MempoolTypeOK
  <2>. QED
    BY <1>5, <2>1 DEF MempoolStep
<1>6. CASE Fault \/ HandlerThrows
  <2>1. (retries + 1 >= OutOfSyncRetries) \in BOOLEAN
    OBVIOUS
  <2>. QED
    BY <1>6, <2>1 DEF Fault, HandlerThrows, IterationThrows
<1>7. CASE MempoolTimer
  BY <1>7 DEF MempoolTimer
<1>8. CASE UNCHANGED vars
  BY <1>8 DEF vars
<1>. QED
  BY <1>1, <1>2, <1>3, <1>4, <1>5, <1>6, <1>7, <1>8
     DEF Next, NodeAccept, NodeEvict, NodeMine, NodeReorg, GetRawMempool, GetTip,
         BlockStored, CallbacksDone

LEMMA TypeStep == TypeOK /\ [Next]_vars => TypeOK'
<1>. SUFFICES ASSUME TypeOK, [Next]_vars PROVE TypeOK'
  OBVIOUS
<1>0. MempoolTypeOK'
  BY StepIsMempoolStep, MempoolTypeStep DEF TypeOK
<1>. USE DEF TypeOK, nodeVars, blockVars, loopVars, handlerVars
<1>1. ASSUME NEW t \in Txs, NodeAccept(t) PROVE TypeOK'
  BY <1>0, <1>1 DEF NodeAccept
<1>2. ASSUME NEW t \in Txs, NodeEvict(t) PROVE TypeOK'
  BY <1>0, <1>2 DEF NodeEvict
<1>3. ASSUME NEW txs \in SUBSET Txs, NodeMine(txs) PROVE TypeOK'
  BY <1>0, <1>3 DEF NodeMine
<1>4. CASE NodeReorg
  <2>1. chain' \in Seq(SUBSET Txs) /\ nodeMempool' \subseteq Txs
    BY <1>4 DEF NodeReorg
  <2>2. replaced' \subseteq Nat
    <3>1. Len(chain) \in Nat /\ replaced' \subseteq replaced \cup {Len(chain)}
      BY <1>4 DEF NodeReorg
    <3>2. replaced \subseteq Nat
      OBVIOUS
    <3>. QED
      BY <3>1, <3>2, Zenon
  <2>. QED
    BY <1>0, <1>4, <2>1, <2>2 DEF NodeReorg
<1>5. CASE GetRawMempool
  BY <1>0, <1>5 DEF GetRawMempool
<1>6. CASE GetTip
  <2>1. blocks # <<>> => LastHeight \in Nat
    BY NonEmptyHasLast
  <2>2. StartOf(Len(chain)) \in Nat \cup {-1}
    BY <2>1, MainLoopAssumption DEF StartOf, FastForwards, ResumeAfter, MaxOf
  <2>. QED
    BY <1>0, <1>6, <2>2 DEF GetTip
<1>7. CASE StartBlock
  <2>1. NextHeight \in 0..Len(chain)
    BY <1>7 DEF StartBlock, NextHeight
  <2>2. Content(NextHeight) \in SUBSET Txs
    BY <2>1, ContentType
  <2>. QED
    BY <1>0, <1>7, <2>1, <2>2 DEF StartBlock, FirstStage, Stages
<1>8. CASE BlockStored
  <2>1. [height |-> current, txs |-> callback.txs] \in Blocks
    BY <1>8 DEF BlockStored, Blocks
  <2>2. blocks' \in Seq(Blocks)
    BY <1>8, <2>1, KeepRecentFacts DEF BlockStored
  <2>. QED
    BY <1>0, <1>8, <2>2 DEF BlockStored
<1>9. CASE CallbacksDone
  BY <1>0, <1>9 DEF CallbacksDone, NoCallback, Stages
<1>10. CASE AwaitedHandlerStep
  BY <1>0, <1>10 DEF AwaitedHandlerStep, NextStage, Stages
<1>11. ASSUME NEW call \in abandoned, AbandonedHandlerStep(call) PROVE TypeOK'
  <2>1. [call EXCEPT !.stage = NextStage(@)] \in [no : Nat, stage : Stages, txs : SUBSET Txs]
    BY DEF NextStage, Stages
  <2>. QED
    BY <1>0, <1>11, <2>1 DEF AbandonedHandlerStep
<1>12. CASE BlocksUpToDate
  BY <1>0, <1>12 DEF BlocksUpToDate, EndIteration
<1>13. CASE MempoolStep
  BY <1>0, <1>13 DEF MempoolStep, EndIteration
<1>14. CASE Fault
  BY <1>0, <1>14 DEF Fault, IterationThrows, EndIteration, NoCallback, Stages
<1>17. CASE HandlerThrows
  BY <1>0, <1>17 DEF HandlerThrows, IterationThrows, EndIteration, NoCallback, Stages
<1>15. CASE MempoolTimer
  BY <1>0, <1>15 DEF MempoolTimer
<1>16. CASE UNCHANGED vars
  BY <1>0, <1>16 DEF vars
<1>. QED
  BY <1>1, <1>2, <1>3, <1>4, <1>5, <1>6, <1>7, <1>8, <1>9, <1>10, <1>11, <1>12,
     <1>13, <1>14, <1>15, <1>16, <1>17 DEF Next

LEMMA InitType == Init => TypeOK
<1>. SUFFICES ASSUME NEW height \in 0..StartHeight, NEW restored \in SUBSET Txs,
                     NEW fromDisk \in BOOLEAN,
                     Init!(height, restored, fromDisk)
              PROVE  TypeOK
  BY Zenon DEF Init
<1>1. MempoolTypeOK
  <2>1. inSync \in BOOLEAN /\ timer \in BOOLEAN
    BY Zenon DEF MempoolInit
  <2>. QED
    BY <2>1 DEF MempoolInit, MempoolTypeOK
<1>2. height \in Nat
  BY MainLoopAssumption
<1>3. chain \in Seq(SUBSET Txs)
  BY <1>2, SeqDef
<1>4. blocks \in Seq(Blocks)
  <2>1. [height |-> height, txs |-> {}] \in Blocks
    BY <1>2 DEF Blocks
  <2>. QED
    BY <2>1
<1>. QED
  BY <1>1, <1>2, <1>3, <1>4 DEF TypeOK, NoCallback, Stages

\* The type invariant of the composed system.
THEOREM TypeCorrect == Spec => []TypeOK
BY InitType, TypeStep, PTL DEF Spec

\* The main loop uses the mempool only as its specification allows.
LEMMA ImplementsMempool == Spec => MempoolSpec
<1>1. Init => \E restored \in SUBSET Txs : MempoolInit(restored)
  BY DEF Init
<1>2. TypeOK /\ [Next]_vars => [MempoolNext]_mempoolVars
  BY StepIsMempoolStep
<1>. QED
  BY <1>1, <1>2, TypeCorrect, PTL DEF Spec, MempoolSpec

\* So what the mempool promises whatever its callers do holds under the main
\* loop, its exceptions and the handlers they leave behind.
COROLLARY MempoolPromisesHold ==
    Spec => []ProtectionHasTimer /\ ClearIsDelayed /\ InSyncIsExact
BY ImplementsMempool, ProtectionTimerCorrect, ClearDelayed, InSyncExact

(***************************************************************************)
(* Mined transactions and followed blocks.                                 *)
(***************************************************************************)

LEMMA MinedMember ==
    ASSUME chain \in Seq(SUBSET Txs), NEW a \in Int, NEW b \in Int, NEW t
    PROVE  t \in Mined(a, b) <=>
               \E h \in 1..Len(chain) : a <= h /\ h <= b /\ t \in chain[h]
<1>1. t \in Mined(a, b) <=> \E h \in (a..b) \cap (0..Len(chain)) : t \in Content(h)
  BY DEF Mined
<1>2. \A h \in 1..Len(chain) : Content(h) = chain[h]
  BY DEF Content
<1>3. Content(0) = {}
  BY DEF Content
<1>. QED
  BY <1>1, <1>2, <1>3

LEMMA MinedWithin ==
    ASSUME chain \in Seq(SUBSET Txs),
           NEW a \in Int, NEW b \in Int, NEW c \in Int, NEW d \in Int, c <= a, b <= d
    PROVE  Mined(a, b) \subseteq Mined(c, d)
BY MinedMember

\* The part of a range below a height and the block at that height.
LEMMA MinedAtTop ==
    ASSUME chain \in Seq(SUBSET Txs), NEW a \in Int, NEW b \in 0..Len(chain)
    PROVE  Mined(a, b) \subseteq Mined(a, b - 1) \cup Content(b)
<1>1. \A h \in 1..Len(chain) : Content(h) = chain[h]
  BY DEF Content
<1>. QED
  BY <1>1, MinedMember

LEMMA MinedUnchanged ==
    ASSUME UNCHANGED chain
    PROVE  /\ \A a, b : Mined(a, b)' = Mined(a, b)
           /\ \A h : Content(h)' = Content(h)
           /\ ChainTxs' = ChainTxs
BY DEF Mined, Content, ChainTxs

\* A new block changes nothing below it.
LEMMA MinedAppend ==
    ASSUME chain \in Seq(SUBSET Txs), NEW txs \in SUBSET Txs, chain' = Append(chain, txs),
           NEW a \in Int, NEW b \in Int, b <= Len(chain)
    PROVE  Mined(a, b)' = Mined(a, b)
<1>1. chain' \in Seq(SUBSET Txs) /\ Len(chain') = Len(chain) + 1
      /\ \A h \in 1..Len(chain) : chain'[h] = chain[h]
  OBVIOUS
<1>2. \A h \in 0..Len(chain) : Content(h)' = Content(h)
  BY <1>1 DEF Content
<1>3. (a..b) \cap (0..Len(chain')) = (a..b) \cap (0..Len(chain))
  BY <1>1
<1>. QED
  BY <1>2, <1>3 DEF Mined

\* Steps that touch neither the chain nor the blocks keep Followed.
LEMMA FollowedUnchanged ==
    ASSUME UNCHANGED <<chain, blocks, followedFrom>>
    PROVE  Followed' = Followed /\ LastHeight' = LastHeight
BY MinedUnchanged DEF Followed, LastHeight

(***************************************************************************)
(* The inductive step, one lemma for each kind of action.                  *)
(***************************************************************************)

LEMMA InitInv == Init => LoopInv
<1>. SUFFICES ASSUME NEW height \in 0..StartHeight, NEW restored \in SUBSET Txs,
                     NEW fromDisk \in BOOLEAN,
                     Init!(height, restored, fromDisk)
              PROVE  LoopInv
  BY Zenon DEF Init
<1>1. height \in Nat /\ Len(chain) = height
  BY MainLoopAssumption
<1>2. TypeOK
  BY InitType DEF Init
<1>3. phase = "none" /\ raw = {} /\ deleted = {}
  BY DEF MempoolInit
<1>4. ListIsFresh
  BY <1>3 DEF ListIsFresh
<1>5. blocks # <<>> => LastHeight = height
  BY DEF LastHeight
<1>6. Followed = {}
  BY <1>1, <1>2, <1>5, MinedMember DEF Followed, TypeOK
<1>. QED
  BY <1>1, <1>3, <1>4, <1>5, <1>6 DEF LoopInv, HeightsAreOrdered, PositionIsKnown,
     CallsAreInPlace, MinedStaysOut, MinedNeverEvicted

\* The node's own steps.
LEMMA NodeStepInv ==
    ASSUME MaxReorgs = 0, TypeOK, LoopInv,
           \/ \E t \in Txs : NodeAccept(t) \/ NodeEvict(t)
           \/ \E txs \in SUBSET Txs : NodeMine(txs)
           \/ NodeReorg
    PROVE  LoopInv'
<1>. USE DEF LoopInv, TypeOK
<1>1. ASSUME NEW t \in Txs, NodeAccept(t) \/ NodeEvict(t) PROVE LoopInv'
  <2>1. UNCHANGED <<chain, blockVars, loopVars, handlerVars, mempoolVars>>
    BY <1>1 DEF NodeAccept, NodeEvict
  <2>2. nodeMempool' \cap ChainTxs = {}
    BY <1>1 DEF NodeAccept, NodeEvict, ListIsFresh
  <2>. USE MinedUnchanged, FollowedUnchanged
       DEF blockVars, loopVars, handlerVars, mempoolVars, updateVars
  <2>3. ListIsFresh'
    BY <2>1, <2>2 DEF ListIsFresh
  <2>4. HeightsAreOrdered' /\ PositionIsKnown'
    BY <2>1 DEF HeightsAreOrdered, PositionIsKnown
  <2>5. CallsAreInPlace' /\ MinedStaysOut' /\ MinedNeverEvicted'
    BY <2>1 DEF CallsAreInPlace, MinedStaysOut, MinedNeverEvicted, NoCallback
  <2>. QED
    BY <2>3, <2>4, <2>5
<1>2. ASSUME NEW txs \in SUBSET Txs, NodeMine(txs) PROVE LoopInv'
  <2>1. /\ UNCHANGED <<blockVars, loopVars, handlerVars, mempoolVars>>
        /\ chain' = Append(chain, txs) /\ nodeMempool' = nodeMempool \ txs
    BY <1>2 DEF NodeMine
  <2>2. /\ chain' \in Seq(SUBSET Txs) /\ Len(chain') = Len(chain) + 1 /\ Len(chain) \in Nat
        /\ chain'[Len(chain) + 1] = txs
        /\ \A h \in 1..Len(chain) : chain'[h] = chain[h]
    BY <2>1
  <2>3. ChainTxs' \subseteq ChainTxs \cup txs
    <3>1. ChainTxs' = UNION {IF h = 0 THEN {} ELSE chain'[h] :
                                h \in (0..Len(chain')) \cap (0..Len(chain'))}
      BY DEF ChainTxs, Mined, Content
    <3>2. ChainTxs = UNION {IF h = 0 THEN {} ELSE chain[h] :
                                h \in (0..Len(chain)) \cap (0..Len(chain))}
      BY DEF ChainTxs, Mined, Content
    <3>3. ASSUME NEW h \in 0..Len(chain')
          PROVE  (IF h = 0 THEN {} ELSE chain'[h]) \subseteq ChainTxs \cup txs
      <4>1. h = 0 \/ h \in 1..Len(chain) \/ h = Len(chain) + 1
        BY <2>2
      <4>2. ASSUME h \in 1..Len(chain) PROVE chain[h] \subseteq ChainTxs
        BY <2>2, <3>2, <4>2
      <4>. QED
        BY <2>2, <4>1, <4>2
    <3>. QED
      BY <3>1, <3>3
  <2>. USE DEF blockVars, loopVars, handlerVars, mempoolVars, updateVars
  <2>4. ListIsFresh'
    BY <2>1, <2>3, MinedAppend DEF ListIsFresh, HeightsAreOrdered
  <2>5. LastHeight' = LastHeight
    BY <2>1 DEF LastHeight
  <2>6. HeightsAreOrdered'
    BY <2>1, <2>2, <2>5, NonEmptyHasLast DEF HeightsAreOrdered
  <2>6a. PositionIsKnown'
    BY <2>1, <2>2, <2>5 DEF PositionIsKnown
  <2>7. Followed' = Followed
    BY <2>1, <2>5, MinedAppend, NonEmptyHasLast DEF Followed, HeightsAreOrdered
  <2>8. pc \in {"store", "callbacks"} => Content(current)' = Content(current)
    BY <2>1, <2>2, NonEmptyHasLast DEF Content, PositionIsKnown, HeightsAreOrdered
  <2>9. CallsAreInPlace'
    BY <2>1, <2>8 DEF CallsAreInPlace, NoCallback
  <2>10. MinedStaysOut' /\ MinedNeverEvicted'
    BY <2>1, <2>7, MinedAppend DEF MinedStaysOut, MinedNeverEvicted, HeightsAreOrdered
  <2>. QED
    BY <2>4, <2>6, <2>6a, <2>9, <2>10
<1>3. ASSUME NodeReorg PROVE FALSE
  BY <1>3 DEF NodeReorg
<1>. QED
  BY <1>1, <1>2, <1>3

\* The requests that open an iteration.
LEMMA RequestStepInv ==
    ASSUME TypeOK, LoopInv, GetRawMempool \/ GetTip
    PROVE  LoopInv'
<1>. USE DEF LoopInv, TypeOK
<1>1. CASE GetRawMempool
  <2>1. /\ UNCHANGED <<nodeVars, blockVars, callback, abandoned, mempoolVars, tip>>
        /\ spared' = spared \cap cache
        /\ pc = "idle" /\ pc' = "tip" /\ handled' = 0
        /\ rawMempool' = nodeMempool /\ rawHeight' = Len(chain)
    BY <1>1 DEF GetRawMempool
  <2>. USE DEF nodeVars, blockVars, handlerVars, mempoolVars, updateVars
  <2>2. raw = {} /\ phase = "none"
    BY <2>1 DEF CallsAreInPlace
  <2>3. Mined(0, rawHeight)' = ChainTxs
    BY <2>1, MinedUnchanged DEF ChainTxs, Mined, Content
  <2>4. ListIsFresh'
    BY <2>1, <2>2, <2>3, MinedUnchanged DEF ListIsFresh
  <2>5. HeightsAreOrdered' /\ PositionIsKnown'
    BY <2>1, FollowedUnchanged DEF HeightsAreOrdered, PositionIsKnown
  <2>6. CallsAreInPlace' /\ MinedStaysOut' /\ MinedNeverEvicted'
    BY <2>1, <2>2, FollowedUnchanged
       DEF CallsAreInPlace, MinedStaysOut, MinedNeverEvicted, NoCallback
  <2>. QED
    BY <2>4, <2>5, <2>6
<1>2. CASE GetTip
  <2>1. /\ UNCHANGED <<nodeVars, blocks, handlerVars, mempoolVars, rawMempool, rawHeight, handled>>
        /\ pc = "tip" /\ pc' = "blocks"
        /\ tip' = Len(chain) /\ current' = StartOf(Len(chain))
        /\ followedFrom' = IF blocks = <<>> \/ FastForwards(Len(chain))
                           THEN StartOf(Len(chain)) + 1 ELSE followedFrom
    BY <1>2 DEF GetTip
  <2>. USE DEF nodeVars, handlerVars, mempoolVars, updateVars
  <2>2. LastHeight' = LastHeight
    BY <2>1 DEF LastHeight
  <2>3. ASSUME blocks = <<>> \/ FastForwards(Len(chain))
        PROVE  PositionIsKnown' /\ MinedStaysOut'
    <3>1. followedFrom' = current' + 1
      BY <2>1, <2>3
    <3>2. current' \in Int /\ current' < tip'
      BY <2>1, <2>3, NonEmptyHasLast, MainLoopAssumption
         DEF StartOf, FastForwards, ResumeAfter, MaxOf
    <3>3. blocks # <<>> => LastHeight < followedFrom'
      BY <2>1, <2>3, NonEmptyHasLast, MainLoopAssumption DEF StartOf, FastForwards, ResumeAfter
    <3>4. Followed' = {}
      <4>1. CASE blocks = <<>>
        BY <2>1, <4>1 DEF Followed
      <4>2. CASE blocks # <<>>
        <5>1. (followedFrom'..LastHeight) \cap (0..Len(chain)) = {}
          BY <3>1, <3>2, <3>3, <4>2, NonEmptyHasLast
        <5>. QED
          BY <2>1, <2>2, <4>2, <5>1 DEF Followed, Mined
      <4>. QED
        BY <4>1, <4>2
    <3>5. PositionIsKnown'
      BY <2>1, <3>1, <3>2 DEF PositionIsKnown
    <3>6. MinedStaysOut'
      BY <3>4 DEF MinedStaysOut
    <3>. QED
      BY <3>5, <3>6
  <2>4. ASSUME ~(blocks = <<>> \/ FastForwards(Len(chain)))
        PROVE  PositionIsKnown' /\ MinedStaysOut'
    <3>1. UNCHANGED followedFrom /\ current' = LastHeight
      BY <2>1, <2>4 DEF StartOf, ResumeAfter
    <3>2. PositionIsKnown'
      BY <2>1, <2>2, <2>4, <3>1 DEF PositionIsKnown
    <3>3. MinedStaysOut'
      BY <2>1, <3>1, FollowedUnchanged DEF MinedStaysOut
    <3>. QED
      BY <3>2, <3>3
  <2>5. PositionIsKnown' /\ MinedStaysOut'
    BY <2>3, <2>4
  <2>6. ListIsFresh'
    BY <2>1, MinedUnchanged DEF ListIsFresh
  <2>7. HeightsAreOrdered'
    BY <2>1, <2>2 DEF HeightsAreOrdered
  <2>8. CallsAreInPlace' /\ MinedNeverEvicted'
    BY <2>1 DEF CallsAreInPlace, MinedNeverEvicted, NoCallback
  <2>. QED
    BY <2>5, <2>6, <2>7, <2>8
<1>. QED
  BY <1>1, <1>2

\* Handling one block, from the fetch to the end of its handleNewBlock.
LEMMA BlockStepInv ==
    ASSUME TypeOK, TypeOK', LoopInv, StartBlock \/ BlockStored \/ CallbacksDone
    PROVE  LoopInv'
<1>. USE DEF LoopInv, TypeOK
<1>1. CASE StartBlock
  <2>1. /\ UNCHANGED <<nodeVars, blocks, abandoned, spared, rawMempool, rawHeight, tip, handled>>
        /\ UNCHANGED <<inSync, delta, protection, timer, updateVars>>
        /\ pc = "blocks" /\ pc' = "store" /\ current < tip
        /\ current' = NextHeight /\ NextHeight <= Len(chain)
        /\ followedFrom' = IF current = 0 /\ followedFrom < NextHeight
                           THEN NextHeight ELSE followedFrom
        /\ callback' = [stage |-> FirstStage, txs |-> Content(NextHeight)]
        /\ cache' \subseteq cache
        /\ FirstStage # "audit" => cache' = cache \ Content(NextHeight)
    BY <1>1 DEF StartBlock, RemoveMined, mempoolVars
  <2>. USE DEF nodeVars, handlerVars, updateVars
  <2>2. NextHeight \in 0..Len(chain) /\ followedFrom' >= followedFrom
    BY <2>1, MainLoopAssumption DEF NextHeight
  <2>3. LastHeight' = LastHeight
    BY <2>1 DEF LastHeight
  <2>4. Followed' \subseteq Followed
    BY <2>1, <2>2, <2>3, MinedUnchanged, MinedWithin, NonEmptyHasLast DEF Followed
  <2>5. phase = "none" /\ raw = {} /\ cache \cap Followed \subseteq spared
    BY <2>1 DEF CallsAreInPlace, MinedStaysOut, NoCallback
  <2>6. ListIsFresh'
    BY <2>1, MinedUnchanged DEF ListIsFresh
  <2>7. HeightsAreOrdered'
    BY <2>1, <2>3 DEF HeightsAreOrdered
  <2>8. PositionIsKnown'
    <3>1. followedFrom > current \/ (blocks # <<>> /\ LastHeight = current)
      BY <2>1 DEF PositionIsKnown
    <3>2. current \in Int /\ followedFrom \in Nat
      OBVIOUS
    <3>3. followedFrom' >= current' \/ (blocks # <<>> /\ LastHeight = current' - 1)
      <4>. HIDE DEF LoopInv, TypeOK
      <4>1. CASE current = 0
        <5>1. NextHeight \in Int
          BY <2>2
        <5>. QED
          BY <2>1, <3>2, <4>1, <5>1
      <4>2. CASE current # 0
        <5>1. current' = current + 1 /\ followedFrom' = followedFrom
          BY <2>1, <4>2 DEF NextHeight
        <5>2. followedFrom > current => followedFrom' >= current'
          BY <3>2, <5>1
        <5>. QED
          BY <3>1, <3>2, <5>1, <5>2
      <4>. QED
        BY <4>1, <4>2
    <3>. QED
      BY <2>1, <2>2, <2>3, <3>3 DEF PositionIsKnown
  <2>9. CallsAreInPlace'
    <3>1. callback'.txs = Content(current)' /\ callback'.stage = FirstStage
      BY <2>1 DEF Content
    <3>. QED
      BY <2>1, <2>5, <3>1 DEF CallsAreInPlace, Content
  <2>10. MinedStaysOut' /\ MinedNeverEvicted'
    BY <2>1, <2>4, <2>5 DEF MinedStaysOut, MinedNeverEvicted
  <2>. QED
    BY <2>6, <2>7, <2>8, <2>9, <2>10
<1>2. CASE BlockStored
  <2>. DEFINE new == [height |-> current, txs |-> callback.txs]
  <2>1. /\ UNCHANGED <<nodeVars, current, followedFrom, handlerVars, mempoolVars,
                       rawMempool, rawHeight, tip, handled>>
        /\ pc = "store" /\ pc' = "callbacks"
        /\ blocks' = KeepRecent(Append(blocks, new))
    BY <1>2 DEF BlockStored
  <2>. USE DEF nodeVars, handlerVars, mempoolVars, updateVars
  <2>2. current \in Nat /\ new \in Blocks
    BY <2>1 DEF Blocks
  <2>3. blocks' # <<>> /\ LastHeight' = current
    <3>. HIDE DEF new
    <3>1. blocks' # <<>> /\ blocks'[Len(blocks')] = new
      BY <2>1, <2>2, KeepRecentFacts
    <3>. QED
      BY <3>1 DEF LastHeight, new
  <2>4. Followed' = Mined(followedFrom, current)
    BY <2>1, <2>3, MinedUnchanged DEF Followed
  <2>5. Followed' \subseteq Followed \cup Content(current)
    <3>1. current \in 0..Len(chain)
      BY <2>1, <2>2 DEF PositionIsKnown
    <3>2. Mined(followedFrom, current) \subseteq Mined(followedFrom, current - 1) \cup Content(current)
      <4>1. chain \in Seq(SUBSET Txs) /\ followedFrom \in Int
        OBVIOUS
      <4>. HIDE DEF LoopInv, TypeOK
      <4>. QED
        BY <3>1, <4>1, MinedAtTop
    <3>3. CASE followedFrom >= current
      <4>1. followedFrom \in Int /\ current \in Int
        BY <2>2
      <4>2. \A t \in Mined(followedFrom, current) : t \in Content(current)
        <5>1. SUFFICES ASSUME NEW t \in Mined(followedFrom, current) PROVE t \in Content(current)
          OBVIOUS
        <5>2. PICK h \in (followedFrom..current) \cap (0..Len(chain)) : t \in Content(h)
          BY DEF Mined
        <5>3. h = current
          BY <4>1, <5>2, <3>3
        <5>. QED
          BY <5>2, <5>3
      <4>. QED
        BY <2>4, <4>2
    <3>4. CASE blocks # <<>> /\ LastHeight = current - 1
      <4>1. Followed = Mined(followedFrom, current - 1)
        BY <3>4 DEF Followed
      <4>. QED
        BY <2>4, <3>2, <4>1
    <3>. QED
      BY <2>1, <3>3, <3>4 DEF PositionIsKnown
  <2>6. /\ callback.txs = Content(current)
        /\ callback.stage # "audit" => cache \cap callback.txs = {}
        /\ cache \cap Followed \subseteq spared /\ phase = "none"
    BY <2>1 DEF CallsAreInPlace, MinedStaysOut
  <2>7. ListIsFresh'
    BY <2>1, MinedUnchanged DEF ListIsFresh
  <2>8. HeightsAreOrdered' /\ PositionIsKnown'
    BY <2>1, <2>2, <2>3 DEF HeightsAreOrdered, PositionIsKnown
  <2>9. CallsAreInPlace'
    BY <2>1, <2>6, MinedUnchanged DEF CallsAreInPlace
  <2>10. MinedStaysOut' /\ MinedNeverEvicted'
    BY <2>1, <2>5, <2>6 DEF MinedStaysOut, MinedNeverEvicted
  <2>. QED
    BY <2>7, <2>8, <2>9, <2>10
<1>3. CASE CallbacksDone
  <2>1. /\ UNCHANGED <<nodeVars, blockVars, abandoned, spared, mempoolVars, rawMempool, rawHeight, tip>>
        /\ pc = "callbacks" /\ callback.stage = "done" /\ pc' = "blocks"
        /\ handled' = handled + 1 /\ callback' = NoCallback
    BY <1>3 DEF CallbacksDone
  <2>. USE DEF nodeVars, blockVars, handlerVars, mempoolVars, updateVars
  <2>2. Followed' = Followed /\ LastHeight' = LastHeight
    BY <2>1, FollowedUnchanged
  <2>3. ListIsFresh'
    BY <2>1, MinedUnchanged DEF ListIsFresh
  <2>4. HeightsAreOrdered' /\ PositionIsKnown'
    BY <2>1, <2>2 DEF HeightsAreOrdered, PositionIsKnown
  <2>5. CallsAreInPlace' /\ MinedStaysOut' /\ MinedNeverEvicted'
    BY <2>1, <2>2 DEF CallsAreInPlace, MinedStaysOut, MinedNeverEvicted, NoCallback
  <2>. QED
    BY <2>3, <2>4, <2>5
<1>. QED
  BY <1>1, <1>2, <1>3

\* A handleNewBlock call moves on.
LEMMA HandlerStepInv ==
    ASSUME TypeOK, LoopInv,
           AwaitedHandlerStep \/ \E call \in abandoned : AbandonedHandlerStep(call)
    PROVE  LoopInv'
<1>. USE DEF LoopInv, TypeOK
<1>1. CASE AwaitedHandlerStep
  <2>1. /\ UNCHANGED <<nodeVars, blockVars, loopVars, updateVars, spared>>
        /\ callback.stage # "done" /\ callback'.stage # "audit" /\ callback'.txs = callback.txs
        /\ IF callback.stage = "audit" THEN cache' = cache \ callback.txs ELSE cache' = cache
    BY <1>1 DEF AwaitedHandlerStep, HandlerStep, RemoveMined, mempoolVars, NextStage
  <2>2. pc \in {"store", "callbacks"} /\ phase = "none"
    BY <2>1 DEF CallsAreInPlace, NoCallback
  <2>. USE DEF nodeVars, blockVars, loopVars, updateVars
  <2>3. Followed' = Followed /\ LastHeight' = LastHeight
    BY <2>1, FollowedUnchanged
  <2>4. ListIsFresh'
    BY <2>1, MinedUnchanged DEF ListIsFresh
  <2>5. HeightsAreOrdered' /\ PositionIsKnown'
    BY <2>1, <2>3 DEF HeightsAreOrdered, PositionIsKnown
  <2>6. CallsAreInPlace'
    BY <2>1, <2>2, MinedUnchanged DEF CallsAreInPlace
  <2>7. MinedStaysOut' /\ MinedNeverEvicted'
    BY <2>1, <2>2, <2>3 DEF MinedStaysOut, MinedNeverEvicted
  <2>. QED
    BY <2>4, <2>5, <2>6, <2>7
<1>2. ASSUME NEW call \in abandoned, AbandonedHandlerStep(call) PROVE LoopInv'
  <2>1. UNCHANGED <<nodeVars, blockVars, loopVars, callback, spared, updateVars>> /\ cache' \subseteq cache
    BY <1>2 DEF AbandonedHandlerStep, HandlerStep, RemoveMined, mempoolVars
  <2>. USE DEF nodeVars, blockVars, loopVars, updateVars
  <2>2. Followed' = Followed /\ LastHeight' = LastHeight
    BY <2>1, FollowedUnchanged
  <2>3. ListIsFresh'
    BY <2>1, MinedUnchanged DEF ListIsFresh
  <2>4. HeightsAreOrdered' /\ PositionIsKnown'
    BY <2>1, <2>2 DEF HeightsAreOrdered, PositionIsKnown
  <2>5. CallsAreInPlace'
    BY <2>1, MinedUnchanged DEF CallsAreInPlace, NoCallback
  <2>6. MinedStaysOut' /\ MinedNeverEvicted'
    BY <2>1, <2>2, MinedUnchanged DEF MinedStaysOut, MinedNeverEvicted
  <2>. QED
    BY <2>3, <2>4, <2>5, <2>6
<1>. QED
  BY <1>1, <1>2

\* An iteration that is over, or interrupted where it can be, leaves nothing
\* behind that the invariant restricts.
LEMMA EndOfIterationInv ==
    ASSUME TypeOK, LoopInv, EndIteration,
           UNCHANGED <<nodeVars, blockVars>>,
           cache' \cap Followed \subseteq spared', phase' = "none", raw' = {}, callback' = NoCallback
    PROVE  LoopInv'
<1>. USE DEF LoopInv, TypeOK, EndIteration, nodeVars, blockVars
<1>1. Followed' = Followed /\ LastHeight' = LastHeight
  BY FollowedUnchanged
<1>2. ListIsFresh'
  BY MinedUnchanged DEF ListIsFresh
<1>3. HeightsAreOrdered' /\ PositionIsKnown'
  BY <1>1, NonEmptyHasLast DEF HeightsAreOrdered, PositionIsKnown
<1>4. CallsAreInPlace'
  BY DEF CallsAreInPlace, NoCallback
<1>5. MinedStaysOut' /\ MinedNeverEvicted'
  BY <1>1 DEF MinedStaysOut, MinedNeverEvicted
<1>. QED
  BY <1>2, <1>3, <1>4, <1>5

\* $updateBlocks returns.
LEMMA BlocksUpToDateInv ==
    ASSUME TypeOK, LoopInv, BlocksUpToDate
    PROVE  LoopInv'
<1>. USE DEF LoopInv, TypeOK
<1>1. /\ pc = "blocks" /\ current >= tip
      /\ UNCHANGED <<nodeVars, blockVars, handlerVars>>
      /\ IF handled > 0
         THEN EndIteration /\ UNCHANGED mempoolVars
         ELSE /\ pc' = "mempool"
              /\ BeginUpdate(rawMempool)
              /\ rawMempool' = {}
              /\ UNCHANGED <<rawHeight, tip, handled>>
  BY DEF BlocksUpToDate
<1>2. phase = "none" /\ raw = {} /\ callback = NoCallback /\ cache \cap Followed \subseteq spared
  BY <1>1 DEF CallsAreInPlace, MinedStaysOut
<1>3. CASE handled > 0
  BY <1>1, <1>2, <1>3, EndOfIterationInv DEF mempoolVars, updateVars, handlerVars
<1>4. ASSUME ~(handled > 0) PROVE LoopInv'
  <2>1. handled = 0 /\ blocks # <<>> /\ LastHeight = current
    BY <1>1, <1>4 DEF PositionIsKnown
  <2>2. /\ pc' = "mempool" /\ phase' = "fetch"
        /\ rawMempool' = {} /\ raw' = rawMempool
        /\ UNCHANGED <<rawHeight, tip, handled, cache>>
    BY <1>1, <1>4 DEF BeginUpdate
  <2>. USE DEF nodeVars, blockVars, handlerVars
  <2>3. Followed' = Followed /\ LastHeight' = LastHeight
    BY <1>1, FollowedUnchanged
  <2>4. ListIsFresh'
    BY <1>1, <2>2, MinedUnchanged DEF ListIsFresh
  <2>5. HeightsAreOrdered' /\ PositionIsKnown'
    BY <1>1, <2>1, <2>2, <2>3 DEF HeightsAreOrdered, PositionIsKnown
  <2>6. CallsAreInPlace' /\ MinedStaysOut' /\ MinedNeverEvicted'
    BY <1>1, <1>2, <2>2, <2>3 DEF CallsAreInPlace, MinedStaysOut, MinedNeverEvicted, NoCallback
  <2>. QED
    BY <2>4, <2>5, <2>6
<1>. QED
  BY <1>3, <1>4

\* $updateMempool fetches only from a list without followed transactions, and
\* what it evicts was not in the chain when that list was given.
LEMMA MempoolStepInv ==
    ASSUME TypeOK, LoopInv, MempoolStep
    PROVE  LoopInv'
<1>. USE DEF LoopInv, TypeOK
<1>1. /\ pc = "mempool" /\ phase # "none"
      /\ UNCHANGED <<nodeVars, blockVars, handlerVars>>
      /\ IF phase' = "none" THEN EndIteration
         ELSE UNCHANGED <<pc, rawMempool, rawHeight, tip, handled>>
  BY DEF MempoolStep, CallsAreInPlace
<1>2. callback = NoCallback /\ cache \cap Followed \subseteq spared
  BY <1>1 DEF CallsAreInPlace, MinedStaysOut
<1>3. /\ handled = 0 /\ blocks # <<>> /\ LastHeight \in Nat
      /\ rawHeight <= LastHeight /\ LastHeight <= rawHeight
  BY <1>1, NonEmptyHasLast DEF PositionIsKnown, HeightsAreOrdered
<1>4. Followed = Mined(followedFrom, rawHeight)
  BY <1>3 DEF Followed
<1>5. raw \cap Followed = {}
  BY <1>3, <1>4, MinedWithin DEF ListIsFresh
<1>6. /\ cache' \cap Followed \subseteq spared
      /\ raw' = raw \/ raw' = {}
      /\ phase' = "none" => raw' = {}
      /\ phase' = "change" => deleted' \cap Followed \subseteq spared
  <2>1. ASSUME NEW t \in Txs, SkipTx(t) \/ FetchFailed(t) PROVE <1>6!:
    BY <1>2, <2>1 DEF SkipTx, FetchFailed
  <2>2. ASSUME NEW t, FetchOk(t) PROVE <1>6!:
    BY <1>2, <1>5, <2>2 DEF FetchOk, MempoolTypeOK
  <2>3. CASE FinishUpdate
    BY <1>2, <2>3 DEF FinishUpdate, ReturnUpdate, Evicted
  <2>4. CASE ChangeHandled
    BY <1>2, <2>4 DEF ChangeHandled, ReturnUpdate
  <2>. QED
    BY <2>1, <2>2, <2>3, <2>4 DEF MempoolStep
<1>. USE DEF nodeVars, blockVars, handlerVars
<1>7. CASE phase' = "none"
  BY <1>1, <1>2, <1>6, <1>7, EndOfIterationInv
<1>8. ASSUME phase' # "none" PROVE LoopInv'
  <2>1. UNCHANGED <<pc, rawMempool, rawHeight, tip, handled>>
    BY <1>1, <1>8
  <2>2. Followed' = Followed /\ LastHeight' = LastHeight
    BY <1>1, FollowedUnchanged
  <2>3. Mined(0, rawHeight)' = Mined(0, rawHeight)
        /\ Mined(followedFrom, rawHeight)' = Followed
    BY <1>1, <1>4, <2>1, MinedUnchanged
  <2>4. ListIsFresh'
    BY <1>1, <1>6, <2>1, <2>3, MinedUnchanged DEF ListIsFresh
  <2>5. HeightsAreOrdered' /\ PositionIsKnown'
    BY <1>1, <2>1, <2>2 DEF HeightsAreOrdered, PositionIsKnown
  <2>6. CallsAreInPlace'
    BY <1>1, <1>2, <1>8, <2>1 DEF CallsAreInPlace, NoCallback
  <2>7. MinedStaysOut' /\ MinedNeverEvicted'
    BY <1>1, <1>6, <2>1, <2>2, <2>3 DEF MinedStaysOut, MinedNeverEvicted
  <2>. QED
    BY <2>4, <2>5, <2>6, <2>7
<1>. QED
  BY <1>7, <1>8

\* An exception abandons the iteration anywhere it can happen.  Out of an
\* awaited handleNewBlock it leaves at most that block's transactions behind.
LEMMA FaultInv ==
    ASSUME TypeOK, LoopInv, Fault \/ HandlerThrows
    PROVE  LoopInv'
<1>1. EndIteration /\ UNCHANGED <<nodeVars, blockVars>> /\ callback' = NoCallback
  BY DEF Fault, HandlerThrows, IterationThrows
<1>2. phase' = "none" /\ raw' = {} /\ cache' = cache
  BY DEF Fault, HandlerThrows, IterationThrows, IterationFailed, ReturnUpdate,
         updateVars, LoopInv, CallsAreInPlace
<1>3. cache \cap Followed \subseteq spared'
  <2>1. CASE Fault
    <3>1. pc # "callbacks" /\ spared' = spared
      BY <2>1 DEF Fault, BlockGone
    <3>. QED
      BY <3>1 DEF LoopInv, MinedStaysOut
  <2>2. CASE HandlerThrows
    BY <2>2 DEF HandlerThrows, LoopInv, MinedStaysOut
  <2>. QED
    BY <2>1, <2>2
<1>. QED
  BY <1>1, <1>2, <1>3, EndOfIterationInv

LEMMA LoopInvStep ==
    ASSUME MaxReorgs = 0, TypeOK, TypeOK', LoopInv, [Next]_vars
    PROVE  LoopInv'
<1>1. ASSUME UNCHANGED <<nodeVars, blockVars, loopVars, handlerVars, cache, updateVars>>
      PROVE  LoopInv'
  <2>. USE DEF LoopInv, nodeVars, blockVars, loopVars, handlerVars, updateVars
  <2>1. Followed' = Followed /\ LastHeight' = LastHeight
    BY <1>1, FollowedUnchanged
  <2>2. ListIsFresh'
    BY <1>1, MinedUnchanged DEF ListIsFresh
  <2>3. HeightsAreOrdered' /\ PositionIsKnown'
    BY <1>1, <2>1 DEF HeightsAreOrdered, PositionIsKnown
  <2>4. CallsAreInPlace' /\ MinedStaysOut' /\ MinedNeverEvicted'
    BY <1>1, <2>1, MinedUnchanged DEF CallsAreInPlace, MinedStaysOut, MinedNeverEvicted, NoCallback
  <2>. QED
    BY <2>2, <2>3, <2>4
<1>2. CASE MempoolTimer
  BY <1>1, <1>2 DEF MempoolTimer, ProtectionTimeout
<1>3. CASE UNCHANGED vars
  BY <1>1, <1>3 DEF vars, mempoolVars
<1>. QED
  BY <1>2, <1>3, NodeStepInv, RequestStepInv, BlockStepInv, HandlerStepInv,
     BlocksUpToDateInv, MempoolStepInv, FaultInv DEF Next

THEOREM LoopInvariant ==
    ASSUME MaxReorgs = 0
    PROVE  Spec => []LoopInv
<1>1. TypeOK /\ TypeOK' /\ LoopInv /\ [Next]_vars => LoopInv'
  BY LoopInvStep
<1>. QED
  BY <1>1, InitInv, TypeCorrect, PTL DEF Spec

\* While the node's chain only grows, no update, fault, restart of the loop or
\* left-over handleNewBlock call brings back the transactions of a block the
\* process has handled (index.ts:213-217, websocket-handler.ts:595-599).
THEOREM MinedStaysOutCorrect ==
    ASSUME MaxReorgs = 0
    PROVE  Spec => []MinedStaysOut
<1>1. LoopInv => MinedStaysOut
  BY DEF LoopInv
<1>. QED
  BY <1>1, LoopInvariant, PTL

\* And an update never reports as evicted a transaction that was mined when the
\* node gave the list it works from (mempool.ts:203-219).
THEOREM MinedNeverEvictedCorrect ==
    ASSUME MaxReorgs = 0
    PROVE  Spec => []MinedNeverEvicted
<1>1. LoopInv => MinedNeverEvicted
  BY DEF LoopInv
<1>. QED
  BY <1>1, LoopInvariant, PTL

(***************************************************************************)
(* The row of blocks in memory, with reorganisations as well.              *)
(***************************************************************************)

\* The heights in memory never go back, and the block at hand continues the
\* row or starts a new one, at or above followedFrom.
RowInv ==
    /\ BlocksAreConsecutive
    /\ \A i \in 1..Len(blocks) : blocks[i].height <= LastHeight
    /\ (pc \in {"blocks", "store"} /\ blocks # <<>>) => LastHeight <= current
    /\ pc = "blocks" => followedFrom > current \/ (blocks # <<>> /\ LastHeight = current)
    /\ pc = "store" => followedFrom >= current \/ (blocks # <<>> /\ LastHeight = current - 1)
    /\ pc = "callbacks" => blocks # <<>> /\ LastHeight = current

\* What KeepRecent keeps is the end of the row.
LEMMA KeepRecentKeepsEnd ==
    ASSUME NEW s \in Seq(Blocks)
    PROVE  \E d \in Nat :
              /\ Len(KeepRecent(s)) = Len(s) - d
              /\ Len(KeepRecent(s)) <= 4 * InitialBlocks
              /\ \A i \in 1..Len(KeepRecent(s)) : KeepRecent(s)[i] = s[i + d]
<1>. DEFINE n == 4 * InitialBlocks
<1>1. n \in Nat /\ n >= 1 /\ Len(s) \in Nat
  BY MainLoopAssumption
<1>2. CASE Len(s) > n
  <2>1. KeepRecent(s) = SubSeq(s, Len(s) - n + 1, Len(s))
    BY <1>2 DEF KeepRecent
  <2>. HIDE DEF n
  <2>2. /\ Len(SubSeq(s, Len(s) - n + 1, Len(s))) = n
        /\ \A i \in 1..n : SubSeq(s, Len(s) - n + 1, Len(s))[i] = s[i + (Len(s) - n)]
    BY <1>1, <1>2
  <2>3. Len(s) - n \in Nat
    BY <1>1, <1>2
  <2>4. Len(KeepRecent(s)) = Len(s) - (Len(s) - n) /\ Len(KeepRecent(s)) <= n
    BY <1>1, <2>1, <2>2
  <2>5. \A i \in 1..Len(KeepRecent(s)) : KeepRecent(s)[i] = s[i + (Len(s) - n)]
    BY <1>1, <2>1, <2>2
  <2>. QED
    BY <2>3, <2>4, <2>5 DEF n
<1>3. CASE ~(Len(s) > n)
  <2>1. KeepRecent(s) = s
    BY <1>3 DEF KeepRecent
  <2>2. \A i \in 1..Len(s) : s[i] = s[i + 0]
    OBVIOUS
  <2>. QED
    BY <1>1, <1>3, <2>1, <2>2
<1>. QED
  BY <1>2, <1>3

LEMMA HeightsInMemory ==
    ASSUME blocks \in Seq(Blocks)
    PROVE  \A i \in 1..Len(blocks) : blocks[i].height \in Nat
<1>1. \A i \in 1..Len(blocks) : blocks[i] \in Blocks
  OBVIOUS
<1>. QED
  BY <1>1 DEF Blocks

\* A step that leaves the row and its place in the chain alone.
LEMMA RowUntouched ==
    ASSUME TypeOK, RowInv, UNCHANGED blockVars,
           pc' = pc \/ pc' \in {"idle", "tip", "mempool"}
    PROVE  RowInv'
BY DEF RowInv, BlocksAreConsecutive, LastHeight, blockVars

LEMMA InitRow == ASSUME Init PROVE RowInv
<1>1. PICK height \in 0..StartHeight : blocks = <<[height |-> height, txs |-> {}]>> \/ blocks = <<>>
  BY DEF Init
<1>2. pc = "idle"
  BY DEF Init
<1>3. Len(blocks) \in {0, 1} /\ \A i \in 1..Len(blocks) : blocks[i] = [height |-> height, txs |-> {}]
  <2>. DEFINE b == [height |-> height, txs |-> {}]
  <2>1. Len(<<b>>) = 1 /\ <<b>>[1] = b /\ Len(<<>>) = 0
    OBVIOUS
  <2>. HIDE DEF b
  <2>2. ASSUME blocks = <<b>>
        PROVE  Len(blocks) = 1 /\ \A i \in 1..Len(blocks) : blocks[i] = b
    <3>1. Len(blocks) = 1 /\ blocks[1] = b
      BY <2>1, <2>2
    <3>2. \A i \in 1..Len(blocks) : i = 1
      BY <3>1
    <3>. QED
      BY <3>1, <3>2
  <2>3. ASSUME blocks = <<>>
        PROVE  Len(blocks) = 0 /\ \A i \in 1..Len(blocks) : blocks[i] = b
    BY <2>1, <2>3
  <2>4. Len(blocks) \in {0, 1} /\ \A i \in 1..Len(blocks) : blocks[i] = b
    BY <1>1, <2>2, <2>3 DEF b
  <2>. QED
    BY <2>4 DEF b
<1>4. \A i \in 1..Len(blocks) : blocks[i].height <= LastHeight
  <2>1. height \in Nat
    BY MainLoopAssumption
  <2>. QED
    BY <1>3, <2>1 DEF LastHeight
<1>. QED
  BY <1>2, <1>3, <1>4, MainLoopAssumption DEF RowInv, BlocksAreConsecutive

\* The tip is known: the loop goes on after the last block, or skips ahead.
LEMMA GetTipRow == ASSUME TypeOK, RowInv, GetTip PROVE RowInv'
<1>1. blocks' = blocks /\ pc' = "blocks" /\ current' = StartOf(Len(chain))
      /\ followedFrom' = IF blocks = <<>> \/ FastForwards(Len(chain))
                         THEN StartOf(Len(chain)) + 1 ELSE followedFrom
  BY DEF GetTip
<1>2. LastHeight' = LastHeight /\ Len(chain) \in Nat /\ InitialBlocks \in Nat \ {0}
  BY <1>1, MainLoopAssumption DEF LastHeight, TypeOK
<1>3. \A i \in 1..Len(blocks) : blocks[i].height \in Nat
  BY HeightsInMemory DEF TypeOK
<1>4. CASE blocks = <<>>
  <2>1. StartOf(Len(chain)) \in Int
    BY <1>2, <1>4 DEF StartOf, FastForwards, ResumeAfter, MaxOf
  <2>. QED
    BY <1>1, <1>2, <1>4, <2>1 DEF RowInv, BlocksAreConsecutive
<1>5. CASE blocks # <<>> /\ ~FastForwards(Len(chain))
  <2>1. StartOf(Len(chain)) = LastHeight /\ LastHeight \in Nat
    BY <1>5, NonEmptyHasLast DEF StartOf, ResumeAfter, TypeOK
  <2>. QED
    BY <1>1, <1>2, <1>5, <2>1 DEF RowInv, BlocksAreConsecutive
<1>6. CASE blocks # <<>> /\ FastForwards(Len(chain))
  <2>1. LastHeight \in Nat
    BY <1>6, NonEmptyHasLast DEF TypeOK
  <2>2. StartOf(Len(chain)) \in Int /\ StartOf(Len(chain)) > LastHeight
    BY <1>2, <1>6, <2>1 DEF StartOf, FastForwards, ResumeAfter
  <2>3. \A i \in 1..Len(blocks) : ~(blocks[i].height >= followedFrom' + 1)
    BY <1>1, <1>3, <1>6, <2>1, <2>2 DEF RowInv
  <2>4. BlocksAreConsecutive'
    <3>1. \A i \in 1..Len(blocks) - 1 : i + 1 \in 1..Len(blocks)
      BY DEF TypeOK
    <3>. QED
      BY <1>1, <2>3, <3>1 DEF RowInv, BlocksAreConsecutive
  <2>. QED
    BY <1>1, <1>2, <1>6, <2>1, <2>2, <2>4 DEF RowInv
<1>. QED
  BY <1>4, <1>5, <1>6

\* The next block is begun: the one after the last, or the tip after genesis.
LEMMA StartBlockRow == ASSUME TypeOK, RowInv, StartBlock PROVE RowInv'
<1>1. pc = "blocks" /\ pc' = "store" /\ blocks' = blocks /\ current' = NextHeight
      /\ current < tip
      /\ followedFrom' = IF current = 0 /\ followedFrom < NextHeight
                         THEN NextHeight ELSE followedFrom
  BY DEF StartBlock
<1>2. current \in Nat \cup {-1} /\ tip \in Nat /\ followedFrom \in Nat
  BY <1>1 DEF TypeOK
<1>3. LastHeight' = LastHeight /\ (blocks # <<>> => LastHeight \in Nat)
  BY <1>1, NonEmptyHasLast DEF LastHeight, TypeOK
<1>4. /\ NextHeight \in Nat /\ NextHeight > current /\ followedFrom' \in Nat
      /\ followedFrom' >= followedFrom
      /\ followedFrom' >= NextHeight \/ (followedFrom' = followedFrom /\ NextHeight = current + 1)
  BY <1>1, <1>2 DEF NextHeight
<1>5. BlocksAreConsecutive'
  <2>1. \A i \in 1..Len(blocks) - 1 : blocks[i + 1].height \in Nat
    <3>1. \A i \in 1..Len(blocks) - 1 : blocks[i + 1] \in Blocks
      BY DEF TypeOK
    <3>. QED
      BY <3>1 DEF Blocks
  <2>2. \A i \in 1..Len(blocks) - 1 :
          blocks[i + 1].height >= followedFrom' + 1 => blocks[i + 1].height >= followedFrom + 1
    BY <1>2, <1>4, <2>1
  <2>. QED
    BY <1>1, <2>2 DEF RowInv, BlocksAreConsecutive
<1>6. \A i \in 1..Len(blocks') : blocks'[i].height <= LastHeight'
  BY <1>1, <1>3 DEF RowInv
<1>7. blocks # <<>> => LastHeight <= NextHeight
  BY <1>1, <1>2, <1>3, <1>4 DEF RowInv
<1>8. followedFrom' >= NextHeight \/ (blocks # <<>> /\ LastHeight = NextHeight - 1)
  BY <1>1, <1>2, <1>3, <1>4 DEF RowInv
<1>. QED
  BY <1>1, <1>3, <1>5, <1>6, <1>7, <1>8 DEF RowInv

\* The block joins the row.
LEMMA BlockStoredRow == ASSUME TypeOK, RowInv, BlockStored PROVE RowInv'
<1>. DEFINE b == [height |-> current, txs |-> callback.txs]
            t == Append(blocks, b)
<1>1. pc = "store" /\ pc' = "callbacks" /\ blocks' = KeepRecent(t)
      /\ current' = current /\ followedFrom' = followedFrom
  BY DEF BlockStored
<1>2. current \in Nat /\ followedFrom \in Nat /\ b \in Blocks /\ blocks \in Seq(Blocks)
  BY <1>1 DEF TypeOK, Blocks
<1>3. t \in Seq(Blocks) /\ Len(t) = Len(blocks) + 1 /\ Len(blocks) \in Nat
      /\ t[Len(t)] = b /\ \A i \in 1..Len(blocks) : t[i] = blocks[i]
  BY <1>2
<1>4. PICK d \in Nat :
        /\ Len(blocks') = Len(t) - d
        /\ Len(blocks') <= 4 * InitialBlocks
        /\ \A i \in 1..Len(blocks') : blocks'[i] = t[i + d]
  BY <1>1, <1>3, KeepRecentKeepsEnd
<1>5. blocks' # <<>> /\ LastHeight' = current
  <2>1. blocks' # <<>> /\ blocks'[Len(blocks')] = b
    BY <1>1, <1>2, KeepRecentFacts
  <2>. QED
    BY <2>1 DEF LastHeight
<1>. HIDE DEF t
<1>6. \A i \in 1..Len(t) : t[i].height <= current
  <2>1. \A i \in 1..Len(blocks) : blocks[i].height <= current
    <3>1. ASSUME NEW i \in 1..Len(blocks) PROVE blocks[i].height <= current
      <4>1. blocks # <<>> /\ LastHeight \in Nat /\ blocks[i].height \in Nat
        <5>1. blocks # <<>>
          BY <1>2, <3>1
        <5>. QED
          BY <1>2, <5>1, NonEmptyHasLast, HeightsInMemory
      <4>2. blocks[i].height <= LastHeight /\ LastHeight <= current
        BY <1>1, <3>1, <4>1 DEF RowInv
      <4>. QED
        BY <1>2, <4>1, <4>2
    <3>. QED
      BY <3>1
  <2>. QED
    BY <1>2, <1>3, <2>1
<1>7. \A i \in 1..Len(t) - 1 :
        t[i + 1].height >= followedFrom + 1 => t[i + 1].height = t[i].height + 1
  <2>1. ASSUME NEW i \in 1..Len(t) - 1, t[i + 1].height >= followedFrom + 1
        PROVE  t[i + 1].height = t[i].height + 1
    <3>1. i \in 1..Len(blocks) /\ t[i] = blocks[i]
      BY <1>3
    <3>2. CASE i = Len(blocks)
      <4>1. t[i + 1].height = current /\ t[i].height = LastHeight /\ blocks # <<>>
        BY <1>3, <3>1, <3>2 DEF LastHeight
      <4>2. LastHeight = current - 1
        BY <1>1, <1>2, <2>1, <4>1 DEF RowInv
      <4>. QED
        BY <1>2, <4>1, <4>2
    <3>3. CASE i # Len(blocks)
      <4>1. i \in 1..Len(blocks) - 1 /\ t[i + 1] = blocks[i + 1]
        BY <1>3, <3>1, <3>3
      <4>. QED
        BY <2>1, <3>1, <4>1 DEF RowInv, BlocksAreConsecutive
    <3>. QED
      BY <3>2, <3>3
  <2>. QED
    BY <2>1
<1>8. \A i \in 1..Len(blocks') : i + d \in 1..Len(t)
  BY <1>3, <1>4
<1>9. \A i \in 1..Len(blocks') : blocks'[i].height <= current
  BY <1>4, <1>6, <1>8
<1>10. BlocksAreConsecutive'
  <2>1. ASSUME NEW i \in 1..Len(blocks') - 1, blocks'[i + 1].height >= followedFrom + 1
        PROVE  blocks'[i + 1].height = blocks'[i].height + 1
    <3>1. Len(blocks') \in Nat
      BY <1>3, <1>4, <1>5
    <3>2. /\ i \in 1..Len(blocks') /\ i + 1 \in 1..Len(blocks')
          /\ i + d \in 1..Len(t) - 1 /\ (i + d) + 1 = (i + 1) + d
      BY <1>3, <1>4, <3>1
    <3>3. blocks'[i] = t[i + d] /\ blocks'[i + 1] = t[(i + d) + 1]
      BY <1>4, <3>2
    <3>4. t[(i + d) + 1].height >= followedFrom + 1
      BY <2>1, <3>3
    <3>5. t[(i + d) + 1].height = t[i + d].height + 1
      BY <1>7, <3>2, <3>4
    <3>. QED
      BY <3>3, <3>5
  <2>. QED
    BY <1>1, <1>4, <2>1 DEF BlocksAreConsecutive
<1>. QED
  BY <1>1, <1>5, <1>9, <1>10 DEF RowInv

\* The handler has returned: on to the next block.
LEMMA CallbacksDoneRow == ASSUME TypeOK, RowInv, CallbacksDone PROVE RowInv'
<1>1. pc = "callbacks" /\ pc' = "blocks" /\ UNCHANGED blockVars
  BY DEF CallbacksDone
<1>2. blocks # <<>> /\ LastHeight = current /\ LastHeight \in Nat
  BY <1>1, NonEmptyHasLast DEF RowInv, TypeOK
<1>. QED
  BY <1>1, <1>2 DEF RowInv, BlocksAreConsecutive, LastHeight, blockVars

LEMMA RowStep == ASSUME TypeOK, RowInv, [Next]_vars PROVE RowInv'
<1>1. CASE GetTip
  BY <1>1, GetTipRow
<1>2. CASE StartBlock
  BY <1>2, StartBlockRow
<1>3. CASE BlockStored
  BY <1>3, BlockStoredRow
<1>4. CASE CallbacksDone
  BY <1>4, CallbacksDoneRow
<1>5. CASE \/ \E t \in Txs : NodeAccept(t) \/ NodeEvict(t)
           \/ \E txs \in SUBSET Txs : NodeMine(txs)
           \/ NodeReorg \/ AwaitedHandlerStep
           \/ \E call \in abandoned : AbandonedHandlerStep(call)
           \/ MempoolTimer \/ UNCHANGED vars
  <2>1. UNCHANGED blockVars /\ pc' = pc
    BY <1>5 DEF NodeAccept, NodeEvict, NodeMine, NodeReorg, AwaitedHandlerStep,
                AbandonedHandlerStep, MempoolTimer, vars, loopVars
  <2>. QED
    BY <2>1, RowUntouched
<1>6. CASE GetRawMempool \/ BlocksUpToDate \/ MempoolStep \/ Fault \/ HandlerThrows
  <2>1. UNCHANGED blockVars /\ (pc' = pc \/ pc' \in {"idle", "tip", "mempool"})
    BY <1>6 DEF GetRawMempool, BlocksUpToDate, MempoolStep, Fault, HandlerThrows,
                IterationThrows, EndIteration
  <2>. QED
    BY <2>1, RowUntouched
<1>. QED
  BY <1>1, <1>2, <1>3, <1>4, <1>5, <1>6 DEF Next

\* No block is skipped or handled into memory twice, whatever iterations threw
\* and whatever the node reorganised meanwhile (blocks.ts:549-561, 588-694).
THEOREM BlocksAreConsecutiveCorrect == Spec => []BlocksAreConsecutive
<1>1. Init => RowInv
  BY InitRow
<1>2. TypeOK /\ RowInv /\ [Next]_vars => RowInv'
  BY RowStep
<1>3. RowInv => BlocksAreConsecutive
  BY DEF RowInv
<1>. QED
  BY <1>1, <1>2, <1>3, TypeCorrect, PTL DEF Spec
=============================================================================
