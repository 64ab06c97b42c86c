---------------------------- MODULE TxSelection ----------------------------
(***************************************************************************)
(* The selection of transactions for the projected blocks:                 *)
(* makeBlockTemplates in src/backend/src/api/tx-selection-worker.ts, one   *)
(* action per turn of its loop.                                            *)
(*                                                                         *)
(* Abstracted: a transaction is its uid, fees and weights are small        *)
(* integers, scores are compared as fractions.  Weights are in units of    *)
(* Reserved (4000): a block starts with Reserved taken.                    *)
(***************************************************************************)
EXTENDS PairingHeap, FiniteSets

CONSTANTS
    Pools,        \* bound: the mempools considered, each with the inputs, the fee
                  \* and the weight of the transactions 1 .. n
    BlockWeight,  \* config.MEMPOOL.BLOCK_WEIGHT_UNITS
    Reserved,     \* the 4000 units of the coinbase
    MaxBlocks,    \* 8 blocks, the last of them unbounded
    MaxFailures   \* 1000 packages

ASSUME TxSelectionAssumption ==
    /\ \A p \in Pools : \A u \in DOMAIN p.inputs :
        p.fee[u] \in Nat /\ p.weight[u] \in Nat \ {0} /\ ToSet(p.inputs[u]) \subseteq DOMAIN p.inputs
    /\ BlockWeight \in Nat /\ Reserved \in Nat
    /\ MaxBlocks \in Nat \ {0} /\ MaxFailures \in Nat

VARIABLES
    selecting,    \* a selection is under way
    auditPool,    \* the transactions: see AuditTx
    mempoolArray, \* in descending order of their first scores
    top,
    modified,     \* heap of the transactions some of whose ancestors are used
    overflow,     \* packages that did not fit the block
    failures,
    transactions, \* of the block under construction
    blockWeight,
    blocks,
    choice        \* history: transaction chosen by the last turn, 0 for none

selectionVars == <<selecting, auditPool, mempoolArray, top, modified, overflow, failures,
                   transactions, blockWeight, blocks, choice>>

Uids == DOMAIN auditPool

-----------------------------------------------------------------------------
(* Relatives and scores *)

\* Score of a over that of b: fees by weights, as fractions.
Above(a, b) == a.ancestorFee * b.ancestorWeight > b.ancestorFee * a.ancestorWeight
SameScore(a, b) == a.ancestorFee * b.ancestorWeight = b.ancestorFee * a.ancestorWeight

\* The order of the heap `modified`.
Higher(pool) ==
    {x \in (DOMAIN pool) \X (DOMAIN pool) :
        LET u == x[1]  v == x[2]
        IN  Above(pool[u], pool[v]) \/ (SameScore(pool[u], pool[v]) /\ u > v)}

SumOver(f, s) == FoldLeft(LAMBDA sum, u : sum + f[u], 0, s)

\* setRelatives(tx) on the maps so far: inputs are followed depth first, each
\* transaction once.  A parent already known through an earlier input does
\* not get tx as a child.
RECURSIVE SetRelatives(_, _, _)
SetRelatives(inputs, r, tx) ==
    LET missing(q, s) == SelectSeq(s, LAMBDA a : ~Contains(q.ancestors[tx], a))
        visit(q, parent) ==
            LET linked == [q EXCEPT !.ancestors[tx] = Append(@, parent),
                                    !.children[parent] = Append(@, tx)]
                known == IF parent \in q.relativesSet THEN linked
                         ELSE SetRelatives(inputs, linked, parent)
            IN  IF Contains(q.ancestors[tx], parent) THEN q
                ELSE [known EXCEPT !.ancestors[tx] = @ \o missing(known, known.ancestors[parent])]
        done == FoldLeft(visit, r, inputs[tx])
    IN  [done EXCEPT !.relativesSet = @ \cup {tx}]

Relatives(inputs) ==
    LET none == [u \in DOMAIN inputs |-> <<>>]
        set(r, tx) == IF tx \in r.relativesSet THEN r ELSE SetRelatives(inputs, r, tx)
    IN  FoldLeft(set, [ancestors |-> none, children |-> none, relativesSet |-> {}],
                 [u \in DOMAIN inputs |-> u])

AuditPool(inputs, fee, weight) ==
    LET r == Relatives(inputs)
    IN  [u \in DOMAIN inputs |->
            [fee |-> fee[u], weight |-> weight[u], inputs |-> inputs[u],
             ancestorMap |-> r.ancestors[u], children |-> r.children[u],
             ancestorFee |-> fee[u] + SumOver(fee, r.ancestors[u]),
             ancestorWeight |-> weight[u] + SumOver(weight, r.ancestors[u]),
             used |-> FALSE, modified |-> FALSE, modifiedNode |-> None]]

\* One descendant of root in updateDescendants: root is taken off its
\* ancestors, its score changes, its node is added or moved.
DropAncestor(s, root, d) ==
    LET old == s.pool[d]
        new == [old EXCEPT !.ancestorMap = SelectSeq(@, LAMBDA a : a # root),
                           !.ancestorFee = @ - s.pool[root].fee,
                           !.ancestorWeight = @ - s.pool[root].weight]
        pool == [s.pool EXCEPT ![d] = new]
        higher == Higher(pool)
        node == Cardinality(DOMAIN s.heap.elem) + 1
        fresh == CHOOSE n \in 1 .. node : n \notin DOMAIN s.heap.elem
    IN  IF old.modifiedNode = None
        THEN [s EXCEPT !.pool = [pool EXCEPT ![d].modified = TRUE, ![d].modifiedNode = fresh],
                       !.heap = HeapAdd(s.heap, higher, fresh, d)]
        ELSE [s EXCEPT !.pool = pool,
                       !.heap = IF Above(old, new) THEN DecreasePriority(s.heap, higher, old.modifiedNode)
                                ELSE IF Above(new, old) THEN IncreasePriority(s.heap, higher, old.modifiedNode)
                                ELSE s.heap]

DropRoot_ChildrenOnly(s, root) ==
    FoldLeft(LAMBDA t, d : IF Contains(t.pool[d].ancestorMap, root)
                           THEN DropAncestor(t, root, d) ELSE t,
             s, s.pool[root].children)

\* updateDescendants(root): depth first over the children lists, each
\* descendant once, not beyond one that has not root as its ancestor.
RECURSIVE DropBelow(_, _, _, _)
DropBelow(s, root, stack, seen) ==
    IF stack = <<>> THEN s
    ELSE LET d == Last(stack)
             more == SelectSeq(s.pool[d].children, LAMBDA c : c \notin seen)
         IN  IF Contains(s.pool[d].ancestorMap, root)
             THEN DropBelow(DropAncestor(s, root, d), root, Front(stack) \o more, seen \cup ToSet(more))
             ELSE DropBelow(s, root, Front(stack), seen)
DropRoot(s, root) ==
    DropBelow(s, root, s.pool[root].children, ToSet(s.pool[root].children))

-----------------------------------------------------------------------------
(* The loop *)

SelectionInit ==
    /\ selecting = FALSE /\ auditPool = <<>> /\ mempoolArray = <<>> /\ top = 1
    /\ modified = EmptyHeap /\ overflow = <<>> /\ failures = 0
    /\ transactions = <<>> /\ blockWeight = Reserved /\ blocks = <<>> /\ choice = 0

\* The node's relay policy bounds packages: each one fits an empty block.
PackagesFit(pool) == \A u \in DOMAIN pool : Reserved + pool[u].ancestorWeight < BlockWeight

\* A message with a mempool arrives.
BeginSelection ==
    /\ ~selecting /\ auditPool = <<>>
    /\ selecting' = TRUE
    /\ \E p \in Pools : \E pool \in {AuditPool(p.inputs, p.fee, p.weight)} :
        LET before(u, v) == Above(pool[u], pool[v]) \/ (SameScore(pool[u], pool[v]) /\ u < v) IN
        /\ PackagesFit(pool)
        /\ auditPool' = pool
        /\ mempoolArray' = SortSeq([u \in DOMAIN pool |-> u], before)
    /\ UNCHANGED <<top, modified, overflow, failures, transactions, blockWeight, blocks, choice>>

\* The first entry from `top` on that is neither used nor modified.
NextTop ==
    LET live == {i \in top .. Len(mempoolArray) :
                    ~auditPool[mempoolArray[i]].used /\ ~auditPool[mempoolArray[i]].modified}
    IN  IF live = {} THEN Len(mempoolArray) + 1 ELSE Min(live)

\* The better of the next pool transaction and the next modified one, and what
\* is left after it is taken; None when both are out.
NextTx ==
    LET inPool == NextTop \in DOMAIN mempoolArray
        poolTx == mempoolArray[NextTop]
        modifiedTx == Peek(modified)
    IN  IF inPool /\ (IsEmptyHeap(modified) \/ Above(auditPool[poolTx], auditPool[modifiedTx]))
        THEN [tx |-> poolTx, top |-> NextTop + 1, heap |-> modified, pool |-> auditPool]
        ELSE IF IsEmptyHeap(modified)
        THEN [tx |-> None, top |-> NextTop, heap |-> modified, pool |-> auditPool]
        ELSE [tx |-> modifiedTx, top |-> NextTop, heap |-> HeapPop(modified, Higher(auditPool)),
              pool |-> [auditPool EXCEPT ![modifiedTx].modifiedNode = None]]

Fits_OwnWeight(pool, tx) ==
    Len(blocks) >= MaxBlocks - 1 \/ blockWeight + pool[tx].weight < BlockWeight
Fits(pool, tx) ==
    Len(blocks) >= MaxBlocks - 1 \/ blockWeight + pool[tx].ancestorWeight < BlockWeight

Package_Alone(pool, tx) == <<tx>>
\* The package of tx as it is pushed: tx, then its ancestors, those with more
\* ancestors first.
Package(pool, tx) ==
    LET count(u) == Len(pool[u].ancestorMap)
        up == SortSeq(pool[tx].ancestorMap, LAMBDA u, v : count(u) < count(v))
    IN  <<tx>> \o Reverse(up)

\* The package is added to the block and dropped from its descendants.
Include(next) ==
    LET package == Package(next.pool, next.tx)
        marked == [u \in Uids |-> [next.pool[u] EXCEPT !.used = @ \/ Contains(package, u)]]
    IN  [next EXCEPT !.pool = marked] @@
        [package |-> package,
         dropped |-> FoldLeft(DropRoot, [pool |-> marked, heap |-> next.heap], package)]

\* Packages that overflowed are put back: the modified ones in the heap, the
\* others before `top`, in the order they were taken.
PutBack(s, tx) ==
    IF s.pool[tx].modified
    THEN LET n == Cardinality(DOMAIN s.heap.elem) + 1
             fresh == CHOOSE i \in 1 .. n : i \notin DOMAIN s.heap.elem
         IN  [s EXCEPT !.heap = HeapAdd(@, Higher(s.pool), fresh, tx),
                       !.pool[tx].modifiedNode = fresh]
    ELSE [s EXCEPT !.top = @ - 1, !.array[s.top - 1] = tx]

\* End of a turn, after the choice: the block is closed when enough packages
\* failed in a row or nothing is left, unless it is the last, unbounded one.
EndTurn(turn) ==
    \E s \in {turn} :
        LET exceeded == s.failures > MaxFailures /\ s.weight > BlockWeight - Reserved
            queueEmpty == s.top > Len(mempoolArray) /\ IsEmptyHeap(s.heap)
            start == [pool |-> s.pool, heap |-> s.heap, top |-> s.top, array |-> mempoolArray] IN
        /\ failures' = s.failures
        /\ IF (exceeded \/ queueEmpty) /\ Len(blocks) < MaxBlocks - 1
           THEN /\ blocks' = IF s.txs = <<>> THEN blocks ELSE Append(blocks, s.txs)
                /\ transactions' = <<>> /\ blockWeight' = Reserved /\ overflow' = <<>>
                /\ \E back \in {FoldLeft(PutBack, start, Reverse(s.overflow))} :
                    /\ auditPool' = back.pool /\ modified' = back.heap
                    /\ top' = back.top /\ mempoolArray' = back.array
           ELSE /\ transactions' = s.txs /\ blockWeight' = s.weight /\ overflow' = s.overflow
                /\ auditPool' = s.pool /\ modified' = s.heap /\ top' = s.top
                /\ UNCHANGED <<blocks, mempoolArray>>

Looping == selecting /\ (top <= Len(mempoolArray) \/ ~IsEmptyHeap(modified))

IsUsed_Unchecked(pool, tx) == FALSE
IsUsed(pool, tx) == pool[tx].used

\* One turn of the loop.
TakeNext ==
    /\ Looping
    /\ \E n \in {NextTx} :
        LET keep == [pool |-> n.pool, heap |-> n.heap, top |-> n.top, txs |-> transactions,
                     weight |-> blockWeight, overflow |-> overflow, failures |-> failures]
            own == [u \in Uids |-> auditPool[u].weight] IN
        IF n.tx = None \/ IsUsed(n.pool, n.tx)
        THEN choice' = 0 /\ EndTurn(keep)
        ELSE /\ choice' = n.tx
             /\ IF Fits(n.pool, n.tx)
                THEN \E i \in {Include(n)} :
                        EndTurn([keep EXCEPT !.pool = i.dropped.pool, !.heap = i.dropped.heap,
                                             !.txs = @ \o i.package, !.failures = 0,
                                             !.weight = @ + SumOver(own, i.package)])
                ELSE EndTurn([keep EXCEPT !.overflow = Append(@, n.tx), !.failures = @ + 1])
    /\ UNCHANGED selecting

\* Nothing is left: the last block is added and the answer posted.
EndSelection ==
    /\ selecting /\ ~Looping
    /\ selecting' = FALSE
    /\ blocks' = IF transactions = <<>> THEN blocks ELSE Append(blocks, transactions)
    /\ transactions' = <<>>
    /\ choice' = 0
    /\ UNCHANGED <<auditPool, mempoolArray, top, modified, overflow, failures, blockWeight>>

\* The answer is out and the worker waits for the next message.
ForgetSelection ==
    /\ ~selecting /\ auditPool # <<>>
    /\ auditPool' = <<>> /\ mempoolArray' = <<>> /\ top' = 1
    /\ modified' = EmptyHeap /\ overflow' = <<>> /\ failures' = 0
    /\ blockWeight' = Reserved /\ blocks' = <<>> /\ choice' = 0
    /\ UNCHANGED <<selecting, transactions>>

SelectionNext == BeginSelection \/ TakeNext \/ EndSelection \/ ForgetSelection

SelectionSpec == SelectionInit /\ [][SelectionNext]_selectionVars

-----------------------------------------------------------------------------
Chosen == FlattenSeq(blocks) \o transactions

\* A transaction is in one projected block at most, in one when the selection
\* ends, and then nothing overflows (tx-selection-worker.ts:98-201).
EachOnce ==
    /\ IsInjective(Chosen)
    /\ ToSet(Chosen) = {u \in Uids : auditPool[u].used}
    /\ ~selecting => ToSet(Chosen) = Uids /\ overflow = <<>>

\* A transaction is never in an earlier block than one it spends from
\* (tx-selection-worker.ts:122-160).
ParentsNotLater ==
    \A i, j \in DOMAIN blocks : i < j =>
        \A u \in ToSet(blocks[i]), v \in ToSet(blocks[j]) : ~Contains(auditPool[u].inputs, v)

\* Every block but the last fits (tx-selection-worker.ts:121, 151, 173).
BlocksFit ==
    \A i \in DOMAIN blocks : i < MaxBlocks =>
        Reserved + FoldLeft(LAMBDA s, u : s + auditPool[u].weight, 0, blocks[i]) < BlockWeight

\* The scores in use are those of the packages as they are: an unused
\* transaction counts the unused ones among the transactions it spends from,
\* directly or not, each of them once and nothing else, however they share
\* parents and whatever packages were taken (tx-selection-worker.ts:206-298).
ScoresAreCurrent ==
    LET spends(u) == ToSet(auditPool[u].inputs)
        ancestors[u \in Uids] == spends(u) \cup UNION {ancestors[p] : p \in spends(u)}
        fee == [u \in Uids |-> auditPool[u].fee]
        weight == [u \in Uids |-> auditPool[u].weight] IN
    \A u \in Uids : ~auditPool[u].used =>
        LET rest == auditPool[u].ancestorMap IN
        /\ IsInjective(rest)
        /\ ToSet(rest) = {a \in ancestors[u] : ~auditPool[a].used}
        /\ auditPool[u].ancestorFee = fee[u] + SumOver(fee, rest)
        /\ auditPool[u].ancestorWeight = weight[u] + SumOver(weight, rest)

\* "Build blocks by greedily choosing the highest feerate package": no
\* transaction that could have been included has a better score than the one
\* whose package is (tx-selection-worker.ts:82-117).
BestFirst ==
    [][choice' # 0 /\ auditPool'[choice'].used =>
        \A u \in Uids : ~auditPool[u].used /\ ~Contains(overflow, u) /\ Fits(auditPool, u) =>
            ~Above(auditPool[u], auditPool[choice'])]_selectionVars
=============================================================================
