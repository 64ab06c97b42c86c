----------------------------- MODULE HeapQueue -----------------------------
(***************************************************************************)
(* The pairing heap as tx-selection-worker.ts uses it: elements are added, *)
(* the first one is taken out, and the score of one that waits changes and *)
(* its node is moved.  It implements PriorityQueue.                        *)
(***************************************************************************)
EXTENDS PairingHeap

CONSTANTS Elements, Priorities

ASSUME HeapQueueAssumption ==
    Elements \subseteq Nat \ {None} /\ Priorities \subseteq Nat /\ Priorities # {}

VARIABLES
    heap,
    priority,  \* score of each element
    popped     \* the element popped last

heapVars == <<heap, priority, popped>>

Waiting == HeapNodes(heap)

\* The comparator given to the constructor (tx-selection-worker.ts:80), for
\* scores s: the greater score, then the greater uid.
Precedes(s, e, f) == s[e] > s[f] \/ (s[e] = s[f] /\ e > f)
Before(s) == {x \in Elements \X Elements : Precedes(s, x[1], x[2])}

HeapInit ==
    /\ heap = EmptyHeap
    /\ priority = [e \in Elements |-> CHOOSE p \in Priorities : TRUE]
    /\ popped = None

\* The node of an element bears its number.
AddElement(e, p) ==
    /\ e \notin DOMAIN heap.elem
    /\ priority' = [priority EXCEPT ![e] = p]
    /\ heap' = HeapAdd(heap, Before(priority'), e, e)
    /\ UNCHANGED popped

PopElement ==
    /\ ~IsEmptyHeap(heap)
    /\ popped' = Peek(heap)
    /\ heap' = HeapPop(heap, Before(priority))
    /\ UNCHANGED priority

\* updateDescendants on an element that waits: its score has changed.
ChangeScore(e, p) ==
    /\ e \in DOMAIN heap.elem
    /\ p # priority[e]
    /\ priority' = [priority EXCEPT ![e] = p]
    /\ heap' = IF p < priority[e]
               THEN DecreasePriority(heap, Before(priority'), e)
               ELSE IncreasePriority(heap, Before(priority'), e)
    /\ UNCHANGED popped

HeapNext ==
    \/ \E e \in Elements, p \in Priorities : AddElement(e, p) \/ ChangeScore(e, p)
    \/ PopElement

HeapSpec == HeapInit /\ [][HeapNext]_heapVars

-----------------------------------------------------------------------------
\* No node is lost and no link leads astray, whatever is melded, cut off and
\* melded again (pairing-heap.ts:57-148).
LinksAgree == WellLinked(heap) /\ Waiting = DOMAIN heap.elem

\* The heap is a priority queue: the nodes below its root are the elements
\* waiting (pairing-heap.ts).
Queue == INSTANCE PriorityQueue WITH queue <- DOMAIN heap.elem
ImplementsQueue == Queue!QueueSpec
=============================================================================
