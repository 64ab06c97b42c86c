------------------------------ MODULE RbfCache ------------------------------
(***************************************************************************)
(* The replacement cache: src/backend/src/api/rbf-cache.ts, driven by the  *)
(* mempool-change and new-block handlers of api/websocket-handler.ts.      *)
(*                                                                         *)
(* When a new transaction spends an input of one that left the mempool and *)
(* pays more, it replaces it: both join a tree of replacements, whose root *)
(* is the newest version.  A transaction that leaves the mempool, mined or *)
(* not, expires a day later and takes its previous versions with it unless *)
(* a newer version exists.                                                 *)
(*                                                                         *)
(* A process that ends on SIGINT dumps the cache; the next one loads it    *)
(* again while its handlers are already at work, asking the node for one   *)
(* transaction of one tree after the other.                                *)
(*                                                                         *)
(* Transactions are numbered by the fee they pay.  Abstracted: what a      *)
(* transaction holds, times and intervals (only the order of expiry is     *)
(* kept) and the full-RBF flags.  A load is over before cleanup runs, and  *)
(* the files are those of the exit: DiskCache tells when they are not.     *)
(***************************************************************************)
EXTENDS Naturals, FiniteSets, SequencesExt

CONSTANTS
    Txs,        \* transactions, as numbers: a greater one pays more
    Conflicts,  \* pairs that spend a common input
    MaxReturns, \* bound: transactions that come back to the mempool
    MaxRestarts \* bound: exits of the process

ASSUME RbfAssumption ==
    /\ Txs \subseteq Nat /\ IsFiniteSet(Txs)
    /\ MaxReturns \in Nat /\ MaxRestarts \in Nat

VARIABLES
    rbf,        \* the fields of RbfCache
    mempool,    \* keys of mempoolCache
    confirmed,  \* transactions of the chain
    seen,       \* transactions that were in the mempool before
    returns,    \* counter for the bound
    change,     \* what $updateMempool told the change handler under way
    told,       \* history: the trees the clients were sent last
    load,       \* the call of load that waits for the node
    missed,     \* transactions of blocks mined while no process ran
    restarts    \* counter for the bound

loadVars == <<load, missed, restarts>>
vars == <<rbf, mempool, confirmed, seen, returns, change, told, loadVars>>

-----------------------------------------------------------------------------
\* Maps as functions with a growing and shrinking domain.
EmptyMap == [x \in {} |-> x]
With(f, S, v) == [x \in DOMAIN f \cup S |-> IF x \in S THEN v ELSE f[x]]
Without(f, S) == [x \in DOMAIN f \ S |-> f[x]]

\* What is left of a sequence, in its order, without the members of S.
Drop(s, S) ==
    LET left == {i \in DOMAIN s : s[i] \notin S}
    IN  [k \in 1..Cardinality(left) |-> s[CHOOSE i \in left : Cardinality({j \in left : j <= i}) = k]]

\* A tree is a function from paths to nodes: the root is at <<>>, and below
\* the node at p its children, the trees it replaced, at Append(p, i).
Node(t) == [tx |-> t, txMined |-> FALSE, mined |-> FALSE]
Leaf(t) == [p \in {<<>>} |-> Node(t)]
Join(node, subtrees) ==
    [p \in {<<>>} \cup UNION {{<<i>> \o q : q \in DOMAIN subtrees[i]} : i \in DOMAIN subtrees} |->
        IF p = <<>> THEN node ELSE subtrees[Head(p)][Tail(p)]]
Root(tree) == tree[<<>>].tx

\* getTransactionsInTree
TxsIn(tree) == {tree[p].tx : p \in DOMAIN tree}

\* setTreeMined: the first node of each branch that holds t; and the tree has
\* a mined transaction.
WithMined(tree, t) ==
    [p \in DOMAIN tree |-> [tree[p] EXCEPT
        !.txMined = @ \/ (tree[p].tx = t /\ \A q \in DOMAIN tree : IsStrictPrefix(q, p) => tree[q].tx # t),
        !.mined = @ \/ p = <<>>]]

EmptyCache ==
    [ replacedBy |-> EmptyMap,  \* transaction -> the one that replaced it
      replaces   |-> EmptyMap,  \* transaction -> the ones it replaced
      trees      |-> EmptyMap,  \* rbfTrees: tree id -> tree
      treeMap    |-> EmptyMap,  \* transaction -> tree id
      txs        |-> {},        \* keys of txs
      expiring   |-> <<>>,      \* keys of expiring, soonest first
      dirty      |-> {},        \* dirtyTrees
      thrown     |-> FALSE ]    \* add threw

Add_KeepsOldTrees(cache, replaced, newTx) ==
    LET known == {i \in DOMAIN replaced : replaced[i] \in DOMAIN cache.treeMap}
        sources == [i \in DOMAIN replaced |->
            IF i \in known THEN cache.trees[cache.treeMap[replaced[i]]] ELSE Leaf(replaced[i])]
        id == Root(sources[1])
        tree == Join(Node(newTx), sources)
    IN  [cache EXCEPT
           !.txs = @ \cup {newTx} \cup {replaced[i] : i \in DOMAIN replaced \ known},
           !.replacedBy = With(@, ToSet(replaced), newTx),
           !.trees = With(@, {id}, tree),
           !.treeMap = With(@, TxsIn(tree), id),
           !.replaces = With(@, {newTx}, {Root(sources[i]) : i \in DOMAIN sources}),
           !.dirty = @ \cup {id}]
\* add(replaced, newTx).  A replaced transaction that has a tree brings the
\* whole tree along, once; another one becomes a leaf.  The first of them gives
\* the new tree its id, and when there is none the code throws.
Add(cache, replaced, newTx) ==
    LET known == {i \in DOMAIN replaced : replaced[i] \in DOMAIN cache.treeMap}
        idOf(i) == cache.treeMap[replaced[i]]
        found == {i \in known : /\ idOf(i) \in DOMAIN cache.trees
                                /\ \A j \in known : j < i => idOf(j) # idOf(i)}
        sources == [i \in found \cup (DOMAIN replaced \ known) |->
            IF i \in found THEN cache.trees[idOf(i)] ELSE Leaf(replaced[i])]
        first == CHOOSE i \in DOMAIN sources : \A j \in DOMAIN sources : i <= j
        id == Root(sources[first])
        tree == Join(Node(newTx), sources)
        registered == [cache EXCEPT
            !.txs = @ \cup {newTx} \cup {replaced[i] : i \in DOMAIN replaced \ known},
            !.replacedBy = With(@, ToSet(replaced), newTx),
            !.trees = Without(@, {idOf(i) : i \in known})]
    IN  IF DOMAIN sources = {} THEN [registered EXCEPT !.thrown = TRUE]
        ELSE [registered EXCEPT
                !.trees = With(@, {id}, tree),
                !.treeMap = With(@, TxsIn(tree), id),
                !.replaces = With(@, {newTx}, {Root(sources[i]) : i \in DOMAIN sources}),
                !.dirty = @ \cup {id}]

\* evict(t): it expires in a day, unless it already expires.
Evict(cache, t) ==
    IF t \in cache.txs /\ t \notin ToSet(cache.expiring)
    THEN [cache EXCEPT !.expiring = Append(@, t)] ELSE cache

\* The tree that treeMap names, if it is there.
HasTree(cache, t) == t \in DOMAIN cache.treeMap /\ cache.treeMap[t] \in DOMAIN cache.trees

Mined_NotDirty(cache, t) ==
    LET id == cache.treeMap[t]
        marked == [cache EXCEPT !.trees[id] = WithMined(@, t)]
    IN  IF t \notin cache.txs THEN cache
        ELSE Evict(IF HasTree(cache, t) THEN marked ELSE cache, t)
Mined_NeverExpires(cache, t) ==
    LET id == cache.treeMap[t]
        marked == [cache EXCEPT !.trees[id] = WithMined(@, t), !.dirty = @ \cup {id}]
    IN  IF HasTree(cache, t) THEN marked ELSE cache
\* mined(t)
Mined(cache, t) ==
    LET id == cache.treeMap[t]
        marked == [cache EXCEPT !.trees[id] = WithMined(@, t), !.dirty = @ \cup {id}]
    IN  IF t \notin cache.txs THEN cache
        ELSE Evict(IF HasTree(cache, t) THEN marked ELSE cache, t)

HasNewerVersion_Never(cache, t) == FALSE
\* "don't remove a transaction if a newer version remains in the mempool"
HasNewerVersion(cache, t) == t \in DOMAIN cache.replacedBy

\* "if this is the id of a tree, remove that too"
IsTreeId(cache, t) == t \in DOMAIN cache.treeMap /\ cache.treeMap[t] = t

\* t and its previous versions: what the map replaces reaches from t.
Versions(cache, t) ==
    LET all == {t} \cup UNION {cache.replaces[x] : x \in DOMAIN cache.replaces}
        closed(S) == t \in S /\ \A x \in S \cap DOMAIN cache.replaces : cache.replaces[x] \subseteq S
    IN  {v \in all : \A S \in SUBSET all : closed(S) => v \in S}

RemoveVersions_KeepsMap(cache, t) ==
    LET gone == Versions(cache, t)
        prior == gone \ {t}
    IN  IF HasNewerVersion(cache, t) THEN cache
        ELSE [cache EXCEPT
                !.replaces = Without(@, gone), !.txs = @ \ gone,
                !.expiring = Drop(@, gone),
                !.replacedBy = Without(@, gone),
                !.trees = Without(@, {p \in prior : IsTreeId(cache, p)})]
\* remove(t): the transaction and all previous versions.
RemoveVersions(cache, t) ==
    LET gone == Versions(cache, t)
        prior == gone \ {t}
    IN  IF HasNewerVersion(cache, t) THEN cache
        ELSE [cache EXCEPT
                !.replaces = Without(@, gone), !.treeMap = Without(@, gone), !.txs = @ \ gone,
                !.expiring = Drop(@, gone),
                !.replacedBy = Without(@, gone),
                !.trees = Without(@, {p \in prior : IsTreeId(cache, p)})]

\* getRbfChanges: the trees that changed since the last call.
RbfChanges(cache) ==
    [id \in cache.dirty \cap DOMAIN cache.trees |-> cache.trees[id]]

-----------------------------------------------------------------------------
(* Dump and load *)

\* exportTree, what is kept of each transaction of a tree: of one that is there
\* more than once, what the depth-first walk writes last.
WalkedBefore(p, q) ==
    IsPrefix(p, q) \/ \E i \in DOMAIN p \cap DOMAIN q : p[i] < q[i] /\ \A j \in 1..(i - 1) : p[j] = q[j]
ChildrenOf(tree, p) ==
    LET at == {i \in UNION {ToSet(q) : q \in DOMAIN tree} : Append(p, i) \in DOMAIN tree}
        order == SetToSortSeq(at, <)
    IN  [k \in DOMAIN order |-> tree[Append(p, order[k])].tx]
Export(tree) ==
    [t \in TxsIn(tree) |->
        LET at == {p \in DOMAIN tree : tree[p].tx = t}
            last == CHOOSE p \in at : \A q \in at : WalkedBefore(q, p)
        IN  [txMined |-> tree[last].txMined, mined |-> tree[last].mined, replaces |-> ChildrenOf(tree, last)]]
Deflated(tree) == [root |-> Root(tree), info |-> Export(tree)]

NoLoad == [running |-> FALSE, trees |-> <<>>, deflated |-> [root |-> 0, info |-> EmptyMap],
           calls |-> <<>>, expiring |-> <<>>, fast |-> {}, fastFirst |-> FALSE]

\* A call of importTree: `left` are the children to come, `done` the subtrees
\* rebuilt.  It asks the node first, unless the tree is known to be mined.
Call(deflated, t, mined) ==
    [tx |-> t, mined |-> mined \/ deflated.info[t].mined, asked |-> FALSE,
     txMined |-> deflated.info[t].txMined, left |-> deflated.info[t].replaces, done |-> <<>>]
Asks(call) == ~call.mined /\ ~call.asked

\* At the end the times of expiry come back.  A transaction evicted by the
\* load expires in ten minutes, before or after those.
Loaded(cache, l) ==
    LET restored == SelectSeq(l.expiring, LAMBDA t : t \in cache.txs)
        fast == SelectSeq(cache.expiring, LAMBDA t : t \in l.fast \ ToSet(restored))
        others == SelectSeq(cache.expiring, LAMBDA t : t \notin l.fast \cup ToSet(restored))
    IN  [cache EXCEPT !.expiring =
            (IF l.fastFirst THEN fast \o restored ELSE restored \o fast) \o others]

-----------------------------------------------------------------------------
InConflict(s, t) == <<s, t>> \in Conflicts \/ <<t, s>> \in Conflicts
Compatible(S) == \A s, t \in S : ~InConflict(s, t)

NoChange == [new |-> <<>>, deleted |-> {}, running |-> FALSE]

Init ==
    /\ rbf = EmptyCache
    /\ mempool = {} /\ confirmed = {} /\ seen = {} /\ returns = 0
    /\ change = NoChange
    /\ told = EmptyMap
    /\ load = NoLoad /\ missed = {} /\ restarts = 0

\* $updateMempool up to the change handler (Mempool.tla): some of the node's
\* transactions are new, in the order of its list, and those it no longer has
\* are deleted unless the clear protection holds them.
UpdateMempool ==
    /\ change = NoChange
    /\ \E list \in {S \in SUBSET (Txs \ confirmed) : Compatible(S \cup confirmed)},
          held \in BOOLEAN :
       \E new \in SetToAllKPermutations(list \ mempool) :
        /\ returns' = returns + Cardinality(ToSet(new) \cap seen)
        /\ returns' <= MaxReturns
        /\ change' = [new |-> new, deleted |-> IF held THEN {} ELSE mempool \ list,
                       running |-> FALSE]
        /\ change' # NoChange
        /\ mempool' = (mempool \ change'.deleted) \cup ToSet(new)
        /\ seen' = seen \cup ToSet(new)
    /\ UNCHANGED <<rbf, confirmed, told, loadVars>>

\* findRbfTransactions: the deleted transactions that t pays more than and
\* spends an input of.
Replaced(t) == {d \in change.deleted : d < t /\ InConflict(t, d)}

\* $handleMempoolChange after its await, which nothing interrupts.  First
\* handleRbfTransactions, one new transaction at a time, its replaced ones in
\* the order of the mempool cache; one mined meanwhile is passed over, and an
\* exception ends the handler.
HandleRbf ==
    /\ change.new # <<>>
    /\ LET t == Head(change.new) IN
       IF t \in mempool /\ Replaced(t) # {}
       THEN \E order \in SetToSeqs(Replaced(t)) : rbf' = Add(rbf, order, t)
       ELSE UNCHANGED rbf
    /\ change' = IF rbf'.thrown THEN NoChange
                 ELSE [change EXCEPT !.new = Tail(@), !.running = TRUE]
    /\ UNCHANGED <<mempool, confirmed, seen, returns, told, loadVars>>

\* Then the changed trees are sent, and the deleted transactions expire.
SendChanges ==
    /\ change # NoChange /\ change.new = <<>>
    /\ told' = [id \in DOMAIN told \cup DOMAIN RbfChanges(rbf) |->
                    IF id \in DOMAIN RbfChanges(rbf) THEN RbfChanges(rbf)[id] ELSE told[id]]
    /\ \E order \in SetToSeqs((change.deleted \cap rbf.txs) \ ToSet(rbf.expiring)) :
        rbf' = [rbf EXCEPT !.dirty = {}, !.expiring = @ \o order]
    /\ change' = NoChange
    /\ UNCHANGED <<mempool, confirmed, seen, returns, loadVars>>

\* handleNewBlock deletes a transaction of the block, even while the change
\* handler awaits the new templates.
TxMined(t) ==
    /\ ~change.running
    /\ t \in missed \/ (t \notin confirmed /\ Compatible(confirmed \cup {t}))
    /\ confirmed' = confirmed \cup {t} /\ missed' = missed \ {t}
    /\ mempool' = mempool \ {t}
    /\ rbf' = Mined(rbf, t)
    /\ UNCHANGED <<seen, returns, change, told, load, restarts>>

\* cleanup, for the transaction that expires first.
Cleanup ==
    /\ ~change.running /\ load = NoLoad
    /\ rbf.expiring # <<>>
    /\ rbf' = RemoveVersions([rbf EXCEPT !.expiring = Tail(@)], Head(rbf.expiring))
    /\ UNCHANGED <<mempool, confirmed, seen, returns, change, told, loadVars>>

\* SIGINT: the mempool and the cache are dumped, the change handler under way
\* is lost.  Blocks come until the next process starts and calls load.
Restart ==
    /\ ~change.running
    /\ restarts < MaxRestarts /\ restarts' = restarts + 1
    /\ \E mined \in SUBSET (Txs \ confirmed) :
        /\ Compatible(confirmed \cup mined)
        /\ confirmed' = confirmed \cup mined /\ missed' = mined
    /\ rbf' = [EmptyCache EXCEPT !.txs = rbf.txs]
    /\ \E trees \in SetToSeqs({Deflated(rbf.trees[id]) : id \in DOMAIN rbf.trees}), fastFirst \in BOOLEAN :
        load' = [NoLoad EXCEPT !.running = TRUE, !.trees = trees, !.expiring = rbf.expiring,
                               !.fastFirst = fastFirst]
    /\ change' = NoChange
    /\ UNCHANGED <<mempool, seen, returns, told>>

\* load and importTree run without interruption up to the next request.
LoadRuns == load.running /\ ~(load.calls # <<>> /\ Asks(Last(load.calls)))

ImportTree ==
    /\ load.calls = <<>> /\ load.trees # <<>>
    /\ LET next == Head(load.trees) IN
       load' = [load EXCEPT !.trees = Tail(@), !.deflated = next,
                            !.calls = <<Call(next, next.root, FALSE)>>]
    /\ UNCHANGED rbf

LoadEnds ==
    /\ load.calls = <<>> /\ load.trees = <<>>
    /\ rbf' = Loaded(rbf, load) /\ load' = NoLoad

ImportChild ==
    /\ load.calls # <<>> /\ Last(load.calls).left # <<>>
    /\ LET call == Last(load.calls)
           child == Call(load.deflated, Head(call.left), call.mined)
       IN  load' = [load EXCEPT !.calls = Append(Append(Front(@), [call EXCEPT !.left = Tail(@)]), child)]
    /\ UNCHANGED rbf

\* A call returns: the maps name the transaction, whose tree hangs from the
\* call below or, under the root, is complete.  One that is no longer in txs
\* is left out.
ImportReturns ==
    /\ load.calls # <<>> /\ Last(load.calls).left = <<>>
    /\ LET call == Last(load.calls)
           tree == Join([tx |-> call.tx, txMined |-> call.txMined, mined |-> call.mined], call.done)
           below == Front(load.calls)
           parent == Last(below)
           hung == [parent EXCEPT !.done = Append(@, tree), !.mined = @ \/ call.mined]
           replaced == [rbf EXCEPT !.replaces = With(@, {call.tx}, {Root(call.done[i]) : i \in DOMAIN call.done})]
           mapped == [replaced EXCEPT !.treeMap = With(@, {call.tx}, load.deflated.root)]
       IN  \/ /\ call.tx \notin rbf.txs
              /\ rbf' = replaced
              /\ load' = [load EXCEPT !.calls = below]
           \/ /\ call.tx \in rbf.txs /\ call.tx = load.deflated.root
              /\ rbf' = [mapped EXCEPT !.trees = With(@, {call.tx}, tree), !.dirty = @ \cup {call.tx}]
              /\ load' = [load EXCEPT !.calls = below]
           \/ /\ call.tx \in rbf.txs /\ call.tx # load.deflated.root
              /\ rbf' = [mapped EXCEPT !.replacedBy = With(@, {call.tx}, parent.tx)]
              /\ load' = [load EXCEPT !.calls = Append(Front(below), hung)]

LoadStep ==
    /\ ImportTree \/ LoadEnds \/ ImportChild \/ ImportReturns
    /\ UNCHANGED <<mempool, confirmed, seen, returns, change, told, missed, restarts>>

\* What the node can say of t: an index of transactions is optional, and any
\* request may fail.
Answers(t) == {"nothing", IF t \in confirmed THEN "confirmed" ELSE "in mempool"}

\* The node answers the request of importTree.  A confirmed transaction, and a
\* root that is neither confirmed nor in the mempool, are evicted fast.
ImportTx ==
    /\ ~change.running /\ load.calls # <<>>
    /\ LET call == Last(load.calls) IN
       \E answer \in Answers(call.tx) :
        LET isMined == answer = "confirmed"
            evicts == isMined \/ (answer = "nothing" /\ call.tx = load.deflated.root)
            asked == [call EXCEPT !.asked = TRUE, !.mined = isMined, !.txMined = @ \/ isMined]
        IN  /\ rbf' = IF evicts THEN Evict(rbf, call.tx) ELSE rbf
            /\ load' = [load EXCEPT !.calls = Append(Front(@), asked),
                                    !.fast = IF evicts THEN @ \cup {call.tx} ELSE @]
    /\ UNCHANGED <<mempool, confirmed, seen, returns, change, told, missed, restarts>>

Next ==
    \/ LoadRuns /\ LoadStep
    \/ /\ ~LoadRuns
       /\ \/ UpdateMempool
          \/ HandleRbf
          \/ SendChanges
          \/ \E t \in Txs : TxMined(t)
          \/ Cleanup
          \/ Restart \/ ImportTx

Spec == Init /\ [][Next]_vars

\* Fairness: the change handler returns and cleanup runs every ten minutes.
FairSpec == Spec /\ WF_vars(HandleRbf \/ SendChanges) /\ WF_vars(Cleanup)

-----------------------------------------------------------------------------
Newer(t) == UNION {TxsIn(rbf.trees[id]) : id \in
                     {i \in DOMAIN rbf.trees : t \in TxsIn(rbf.trees[i])}} \ {t}

\* Two transactions that may replace the same one compete with one another:
\* no update replaces one transaction by two.  When one does, add nests the
\* tree of the first below the second, which replacedBy does not tell.
VersionsCompete ==
    \A d, s, t \in Txs :
        s # t /\ d < s /\ d < t /\ InConflict(d, s) /\ InConflict(d, t) => InConflict(s, t)

\* A process that started with an empty cache, to whose mempool nothing came
\* back, with one newest version of every payment.
Undisturbed == returns = 0 /\ restarts = 0 /\ VersionsCompete

\* The maps and the trees tell one story: every cached transaction is in the
\* one tree that treeMap names, and a transaction was replaced exactly when it
\* is not the newest of its tree (rbf-cache.ts:33-85, 184-209).
TreesAgree ==
    Undisturbed =>
        /\ DOMAIN rbf.treeMap = rbf.txs
        /\ \A t \in rbf.txs :
            /\ rbf.treeMap[t] \in DOMAIN rbf.trees
            /\ t \in TxsIn(rbf.trees[rbf.treeMap[t]])
            /\ t \in DOMAIN rbf.replacedBy <=> t # Root(rbf.trees[rbf.treeMap[t]])
        /\ \A id \in DOMAIN rbf.trees : \A t \in TxsIn(rbf.trees[id]) :
            t \in rbf.txs /\ rbf.treeMap[t] = id

\* "don't remove a transaction if a newer version remains in the mempool"
\* (rbf-cache.ts:185).
NewerVersionKept ==
    [][\A t \in rbf.txs \ rbf'.txs : \A n \in Newer(t) : n < t \/ n \notin mempool]_vars

\* "if this is the id of a tree, remove that too" (rbf-cache.ts:195): the
\* tree goes with the transaction that gives it its id.
TreesGoWithTheirIds ==
    [][\A id \in DOMAIN rbf.trees \cap rbf.txs : id \notin rbf'.txs => id \notin DOMAIN rbf'.trees]_vars

\* Whatever happens to a tree, a replacement or a confirmed version, reaches
\* the clients with the next mempool change (rbf-cache.ts:131-161).
ChangesAreTold ==
    \A id \in DOMAIN rbf.trees \ rbf.dirty :
        id \in DOMAIN told /\ told[id] = rbf.trees[id]

\* A replacement finds the tree or makes the leaf it hangs from: add never
\* throws out of the mempool update (rbf-cache.ts:74).  A load fills the maps
\* before it completes the trees, and expiries of one of two newest versions
\* or of a version that came back can take the tree of another away.
AddFindsTrees == Undisturbed => ~rbf.thrown

\* A replacement is remembered no longer than needed: in the end a cached
\* transaction has a version in the mempool (rbf-cache.ts:166-202).
Forgotten ==
    <>[](\A t \in rbf.txs : t \in mempool \/ Newer(t) \cap mempool # {})
=============================================================================
