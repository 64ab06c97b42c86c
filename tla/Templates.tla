----------------------------- MODULE Templates -----------------------------
(***************************************************************************)
(* The projected blocks: src/backend/src/api/mempool-blocks.ts with        *)
(* ADVANCED_GBT_MEMPOOL, the message handler of tx-selection-worker.ts,    *)
(* and the handlers of websocket-handler.ts that call them and tell a      *)
(* client the changes of the block it tracks.                              *)
(*                                                                         *)
(* The main thread numbers the transactions and sends the worker the whole *)
(* mempool or what changed; the worker answers with blocks of numbers.  A  *)
(* call waits for any next message of the worker.  The worker may throw at *)
(* any request.  A block handler may be left behind by an exception in the *)
(* main loop, and then runs beside the calls of later iterations.  A       *)
(* handler may throw when it has its templates and has told nobody yet.    *)
(*                                                                         *)
(* Abstracted: the selection (see TxSelection) puts the greatest           *)
(* transactions in the first block and the rest in the second; fees, rates *)
(* and clusters; clients but one, which wants blocks.                      *)
(***************************************************************************)
EXTENDS Naturals, SequencesExt

CONSTANTS
    PoolTxs,     \* transactions, naturals
    FirstBlock,  \* bound: transactions that fit the first block
    MaxCalls,    \* bound: calls for new templates
    MaxCrashes,  \* bound: errors of the worker
    MaxThrows,   \* bound: exceptions of the handlers
    MaxLeft      \* bound: block handlers left behind

ASSUME TemplatesAssumption ==
    /\ PoolTxs \subseteq Nat
    /\ {FirstBlock, MaxCalls, MaxCrashes, MaxThrows, MaxLeft} \subseteq Nat

VARIABLES
    pool,          \* mempoolCache
    fetched,       \* newTransactions of the update under way
    uid,           \* uid of each transaction object, 0 without
    nextUid, uidMap,
    worker,        \* txSelectionWorker: index in threads, 0 for null
    threads,       \* the worker threads started: see Thread
    calls,         \* $makeBlockTemplates and $updateBlockTemplates that wait
    awaited,       \* the call the main loop waits for, 0 when it is free
    projected,     \* mempoolBlocks
    deltas,        \* mempoolBlockDeltas
    track, view,   \* the client's track-mempool-block, 0 without, and what it shows
    untold,        \* history: a change of the projected blocks was told to nobody
                   \* since the client asked for its block
    made, crashes, throws, left,  \* counters for the bounds
    overlapped     \* history: whether calls were in flight at once: "no", "yes", or
                   \* "past" when one has been made since with the worker at rest

uidVars == <<uid, nextUid, uidMap>>
workerVars == <<worker, threads>>
viewVars == <<track, view, untold, throws>>
templateVars == <<pool, fetched, uidVars, workerVars, calls, awaited, projected, deltas,
                  viewVars, made, crashes, left, overlapped>>

\* A worker thread: what it holds, the requests and the events under way.
Thread(requests) == [alive |-> TRUE, mempool |-> {}, inbox |-> requests, events |-> <<>>]

TemplatesInit ==
    /\ pool = {} /\ fetched = {}
    /\ uid = [t \in PoolTxs |-> 0] /\ nextUid = 1 /\ uidMap = <<>>
    /\ worker = 0 /\ threads = <<>> /\ calls = {} /\ awaited = 0
    /\ projected = <<>> /\ deltas = <<>> /\ track = 0 /\ view = {}
    /\ untold = FALSE /\ throws = 0
    /\ made = 0 /\ crashes = 0 /\ left = 0 /\ overlapped = "no"

-----------------------------------------------------------------------------
(* Requests *)

\* setUid on each of the transactions in turn: the numbers from `first` on.
UidOf(first, txs, t) == first + Cardinality({s \in txs : s < t})
Numbered(first, txs) ==
    [u \in first .. first + Cardinality(txs) - 1 |-> CHOOSE t \in txs : UidOf(first, txs, t) = u]

SetUids_Continuing(txs) ==
    /\ nextUid' = 1 + Cardinality(txs)
    /\ uid' = [t \in PoolTxs |-> IF t \in txs THEN UidOf(1, txs, t) ELSE uid[t]]
    /\ uidMap' = Numbered(1, txs) @@ uidMap
\* resetUids, then setUid on the whole mempool.
SetUids(txs) ==
    /\ nextUid' = 1 + Cardinality(txs)
    /\ uid' = [t \in PoolTxs |-> IF t \in txs THEN UidOf(1, txs, t) ELSE uid[t]]
    /\ uidMap' = Numbered(1, txs)

\* getUid
KnownUids(txs) == {uid[t] : t \in {t \in txs : uid[t] \in DOMAIN uidMap}}

\* No request or answer is under way.
AtRest == \A w \in DOMAIN threads : threads[w].inbox = <<>> /\ threads[w].events = <<>>

\* The call is made by a handler and waits for the worker.
Wait(removed) ==
    /\ made < MaxCalls /\ made' = made + 1
    /\ calls' = calls \cup {[no |-> made + 1, worker |-> worker', removed |-> removed]}
    /\ awaited' = made + 1
    /\ overlapped' = IF calls # {} THEN "yes"
                     ELSE IF overlapped = "yes" /\ AtRest THEN "past" ELSE overlapped

\* $makeBlockTemplates(mempool), with a new worker thread when there is none.
MakeTemplates(mempool) ==
    LET request == [type |-> "set", added |-> DOMAIN uidMap', removed |-> {}] IN
    /\ SetUids(mempool)
    /\ IF worker = 0
       THEN worker' = Len(threads) + 1 /\ threads' = Append(threads, Thread(<<request>>))
       ELSE worker' = worker /\ threads' = [threads EXCEPT ![worker].inbox = Append(@, request)]
    /\ Wait({})

\* $updateBlockTemplates(mempool, added, removed), when there is a worker.
SendChanges(added, removed) ==
    LET new == Numbered(nextUid, added)
        request == [type |-> "update", added |-> DOMAIN new, removed |-> KnownUids(removed)] IN
    /\ nextUid' = nextUid + Cardinality(added)
    /\ uid' = [t \in PoolTxs |-> IF t \in added THEN UidOf(nextUid, added, t) ELSE uid[t]]
    /\ uidMap' = [u \in DOMAIN new \cup DOMAIN uidMap |-> IF u \in DOMAIN new THEN new[u] ELSE uidMap[u]]
    /\ worker' = worker
    /\ threads' = [threads EXCEPT ![worker].inbox = Append(@, request)]
    /\ Wait(request.removed)

UpdateTemplates_TrustsWorker(mempool, added, removed) ==
    IF threads = <<>> THEN MakeTemplates(mempool)
    ELSE LET last == Len(threads)
             request == [type |-> "update", added |-> {}, removed |-> KnownUids(removed)] IN
         /\ UNCHANGED <<uidVars, worker>>
         /\ threads' = [threads EXCEPT ![last].inbox = Append(@, request)]
         /\ Wait(request.removed)
UpdateTemplates(mempool, added, removed) ==
    IF worker = 0 THEN MakeTemplates(mempool) ELSE SendChanges(added, removed)

LoopIsFree == awaited = 0

\* $updateMempool fetches a transaction that is not in the mempool yet.
FetchTransaction(t) ==
    /\ LoopIsFree /\ t \notin pool
    /\ pool' = pool \cup {t} /\ fetched' = fetched \cup {t}
    /\ uid' = [uid EXCEPT ![t] = 0]
    /\ UNCHANGED <<nextUid, uidMap, workerVars, calls, awaited, projected, deltas, viewVars,
                   made, crashes, left, overlapped>>

\* $updateMempool deletes what the node has no longer and, after a change,
\* calls $handleMempoolChange.
FinishUpdate(removed) ==
    /\ LoopIsFree /\ removed \subseteq pool \ fetched
    /\ removed \cup fetched # {}
    /\ pool' = pool \ removed
    /\ UpdateTemplates(pool', fetched, removed)
    /\ fetched' = {}
    /\ UNCHANGED <<projected, deltas, viewVars, crashes, left>>

\* handleNewBlock: the block's transactions leave the mempool.
MineBlock(txs) ==
    /\ LoopIsFree /\ fetched = {}
    /\ txs \subseteq pool
    /\ pool' = pool \ txs
    /\ MakeTemplates(pool')
    /\ UNCHANGED <<fetched, projected, deltas, viewVars, crashes, left>>

\* An exception in $updateBlocks: the main loop goes on and does not wait for
\* the block handler, whose call has no removed transactions.
LeaveBehind ==
    /\ left < MaxLeft /\ left' = left + 1
    /\ \E c \in calls : c.no = awaited /\ c.removed = {}
    /\ awaited' = 0
    /\ UNCHANGED <<pool, fetched, uidVars, workerVars, calls, projected, deltas, viewVars,
                   made, crashes, overlapped>>

-----------------------------------------------------------------------------
(* The worker *)

\* parentPort.on('message'): the mempool is set or updated, the answer posted.
WorkerAnswers(w) ==
    /\ threads[w].alive /\ threads[w].inbox # <<>>
    /\ LET request == Head(threads[w].inbox)
           before == IF request.type = "set" THEN {} ELSE threads[w].mempool
           after == (before \cup request.added) \ request.removed IN
       threads' = [threads EXCEPT ![w].mempool = after, ![w].inbox = Tail(@),
                                  ![w].events = Append(@, [type |-> "message", uids |-> after])]
    /\ UNCHANGED <<pool, fetched, uidVars, worker, calls, awaited, projected, deltas, viewVars,
                   made, crashes, left, overlapped>>

\* The worker throws at a request: the thread ends.
WorkerThrows(w) ==
    /\ crashes < MaxCrashes /\ crashes' = crashes + 1
    /\ threads[w].alive /\ threads[w].inbox # <<>>
    /\ threads' = [threads EXCEPT ![w].alive = FALSE, ![w].inbox = <<>>,
            ![w].events = @ \o <<[type |-> "error", uids |-> {}], [type |-> "exit", uids |-> {}]>>]
    /\ UNCHANGED <<pool, fetched, uidVars, worker, calls, awaited, projected, deltas, viewVars,
                   made, left, overlapped>>

-----------------------------------------------------------------------------
(* Answers *)

Block(blocks, i) == IF i \in DOMAIN blocks THEN blocks[i] ELSE {}

\* The blocks the worker makes of the transactions.
Projection(txs) ==
    LET first == {t \in txs : Cardinality({s \in txs : s > t}) < FirstBlock}
    IN  IF txs = {} THEN <<>> ELSE IF first = txs THEN <<txs>> ELSE <<first, txs \ first>>

\* calculateMempoolDeltas
Deltas(prev, next) ==
    [i \in 1 .. Max({Len(prev), Len(next)}) |->
        [added |-> Block(next, i) \ Block(prev, i), removed |-> Block(prev, i) \ Block(next, i)]]

ProcessTemplates_DeltasLast(txs, times) ==
    projected' = Projection(txs) /\ deltas' = Deltas(projected', projected')
\* processBlockTemplates, once for each of the calls that listened: all process
\* the same blocks, so that the second finds no difference.  It throws at a
\* transaction that the mempool does not have, before it assigns anything.
ProcessTemplates(txs, times) ==
    IF txs \subseteq pool /\ times > 0
    THEN /\ projected' = Projection(txs)
         /\ deltas' = Deltas(IF times = 1 THEN projected ELSE projected', projected')
    ELSE UNCHANGED <<projected, deltas>>

Listening(w) == {c \in calls : c.worker = w}

\* The handlers send the client what the deltas say now; a client whose block
\* has no delta gets nothing.
Tell == view' = IF track \in DOMAIN deltas'
                THEN (view \ deltas'[track].removed) \cup deltas'[track].added ELSE view

\* Every call that listens to the thread is over, and the loop goes on when it
\* waited for one of them.  Their handlers tell the client, or throw before
\* they do.  A change is lost when nobody tells it, and when the deltas of two
\* calls are computed before either tells.
CallsReturn(w) ==
    /\ calls' = calls \ Listening(w)
    /\ awaited' = IF \E c \in Listening(w) : c.no = awaited THEN 0 ELSE awaited
    /\ \/ Listening(w) = {} /\ UNCHANGED <<view, untold, throws>>
       \/ /\ Listening(w) # {} /\ Tell /\ throws' = throws
          /\ untold' = (untold \/ (Cardinality(Listening(w)) # 1 /\ projected' # projected))
       \/ /\ Listening(w) # {} /\ throws < MaxThrows
          /\ throws' = throws + 1 /\ view' = view
          /\ untold' = (untold \/ projected' # projected)

Event(w, type) == threads[w].events # <<>> /\ Head(threads[w].events).type = type

\* An answer: numbers that mean nothing are skipped, the removed ones are
\* forgotten.
ReceiveMessage(w) ==
    /\ Event(w, "message")
    /\ LET uids == Head(threads[w].events).uids \cap DOMAIN uidMap
           removed == UNION {c.removed : c \in Listening(w)} IN
        /\ ProcessTemplates({uidMap[u] : u \in uids}, Cardinality(Listening(w)))
        /\ uidMap' = Restrict(uidMap, DOMAIN uidMap \ removed)
    /\ CallsReturn(w)
    /\ threads' = [threads EXCEPT ![w].events = Tail(@)]
    /\ UNCHANGED <<pool, fetched, uid, nextUid, worker, track, made, crashes, left, overlapped>>

ReceiveError_Unheard(w) ==
    /\ Event(w, "error")
    /\ worker' = 0
    /\ threads' = [threads EXCEPT ![w].events = Tail(@)]
    /\ UNCHANGED <<pool, fetched, uidVars, calls, awaited, projected, deltas, viewVars,
                   made, crashes, left, overlapped>>
\* The worker is forgotten and the calls that listen fail: what they would
\* have removed from uidMap stays.
ReceiveError(w) ==
    /\ Event(w, "error")
    /\ worker' = 0
    /\ UNCHANGED <<projected, deltas>> /\ CallsReturn(w)
    /\ threads' = [threads EXCEPT ![w].events = Tail(@)]
    /\ UNCHANGED <<pool, fetched, uidVars, track, made, crashes, left, overlapped>>

\* The worker is forgotten, even when another one has been started since.
ReceiveExit(w) ==
    /\ Event(w, "exit")
    /\ worker' = 0
    /\ threads' = [threads EXCEPT ![w].events = Tail(@)]
    /\ UNCHANGED <<pool, fetched, uidVars, calls, awaited, projected, deltas, viewVars,
                   made, crashes, left, overlapped>>

-----------------------------------------------------------------------------
\* The client says which block it tracks, 0 for none, and gets its transactions.
TrackBlock(i) ==
    /\ track' = i /\ view' = Block(projected, i)
    /\ untold' = FALSE /\ throws' = throws
    /\ UNCHANGED <<pool, fetched, uidVars, workerVars, calls, awaited, projected, deltas,
                   made, crashes, left, overlapped>>

ThreadStep == \E w \in DOMAIN threads : WorkerAnswers(w)
ReceiveStep == \E w \in DOMAIN threads : ReceiveMessage(w) \/ ReceiveError(w) \/ ReceiveExit(w)

TemplatesNext ==
    \/ \E t \in PoolTxs : FetchTransaction(t)
    \/ \E txs \in SUBSET pool : FinishUpdate(txs) \/ MineBlock(txs)
    \/ LeaveBehind
    \/ ThreadStep \/ ReceiveStep
    \/ \E w \in DOMAIN threads : WorkerThrows(w)
    \/ \E i \in 0 .. 2 : TrackBlock(i)

\* Fairness: the worker computes and its events are delivered.
TemplatesFairness == WF_templateVars(ThreadStep) /\ WF_templateVars(ReceiveStep)

TemplatesSpec == TemplatesInit /\ [][TemplatesNext]_templateVars /\ TemplatesFairness

-----------------------------------------------------------------------------
Quiet == calls = {} /\ fetched = {}

\* A worker that will be sent changes only, and has nothing left to read,
\* holds the mempool, under numbers that mean its transactions: whatever
\* handlers overlapped, whatever threads died (mempool-blocks.ts:280-310, 445-468).
WorkerInStep ==
    Quiet /\ worker # 0 /\ threads[worker].alive /\ threads[worker].inbox = <<>> =>
        LET uids == threads[worker].mempool IN
        /\ uids \subseteq DOMAIN uidMap
        /\ {uidMap[u] : u \in uids} = pool /\ Cardinality(uids) = Cardinality(pool)
        /\ KnownUids(pool) = uids

\* The projected blocks are of the mempool's transactions, each in one, unless
\* the worker died at the last change; after overlapping calls, as soon as a
\* call is made alone
\* (mempool-blocks.ts:302-326, websocket-handler.ts:536-605).
BlocksAreOfMempool ==
    Quiet /\ overlapped # "yes" /\ worker # 0 =>
        UNION Range(projected) = pool /\ \A i, j \in DOMAIN projected : i # j => projected[i] \cap projected[j] = {}

\* The changes a client is told, one after the other, give the block as it is:
\* also after failed calls, when the last change is sent again, and whatever
\* handlers overlapped.  Not from a change on that no handler told, because it
\* threw or two of them were resumed at once, until the client asks again
\* (mempool-blocks.ts:167-206, websocket-handler.ts:300-316, 500-508, 723-731).
ViewFollows == track # 0 /\ ~untold => view = Block(projected, track)

\* The main loop never waits for templates for ever
\* (mempool-blocks.ts:235-262, 298-310).
TemplatesCome == []<>(awaited = 0)
=============================================================================
