---------------------------- MODULE PairingHeap ----------------------------
(***************************************************************************)
(* The priority queue of the transaction selection:                        *)
(* src/backend/src/utils/pairing-heap.ts.                                  *)
(*                                                                         *)
(* A heap is a record: its root, and for each node the element and the     *)
(* links child (first child), next (right sibling) and prev (left sibling, *)
(* or the parent of a first child).  None is the null link.  The operators *)
(* take the heap's comparator, the pairs of elements it is true of, since  *)
(* priorities belong to the elements and change under the heap.            *)
(***************************************************************************)
EXTENDS Naturals, FiniteSets, SequencesExt

None == 0

EmptyHeap == [root |-> None, elem |-> <<>>, child |-> <<>>, next |-> <<>>, prev |-> <<>>]

IsEmptyHeap(h) == h.root = None
Peek(h) == h.elem[h.root]

Meld_LosesSiblings(h, precedes, a, b) ==
    LET parent == IF <<h.elem[a], h.elem[b]>> \in precedes THEN a ELSE b
        child == IF parent = a THEN b ELSE a
    IN  IF a = None THEN [heap |-> h, top |-> b]
        ELSE IF b = None \/ a = b THEN [heap |-> h, top |-> a]
        ELSE [heap |-> [h EXCEPT
                !.prev = [@ EXCEPT ![child] = parent, ![parent] = None],
                !.child[parent] = child,
                !.next = [@ EXCEPT ![child] = None, ![parent] = None]],
              top |-> parent]
\* meld(a, b): the node of less priority becomes the first child of the other.
Meld(h, precedes, a, b) ==
    LET parent == IF <<h.elem[a], h.elem[b]>> \in precedes THEN a ELSE b
        child == IF parent = a THEN b ELSE a
        second == h.child[parent]
        prev == IF second = None THEN h.prev ELSE [h.prev EXCEPT ![second] = child]
    IN  IF a = None THEN [heap |-> h, top |-> b]
        ELSE IF b = None \/ a = b THEN [heap |-> h, top |-> a]
        ELSE [heap |-> [h EXCEPT
                !.prev = [prev EXCEPT ![child] = parent, ![parent] = None],
                !.child[parent] = child,
                !.next = [@ EXCEPT ![child] = second, ![parent] = None]],
              top |-> parent]

\* One turn of the loops of mergePairs: while siblings are left, from `rest` on,
\* the next two are melded and put before the pairs; then the pairs are melded
\* into one, `top`, from the last to the first.
MergeTurn(s, precedes) ==
    LET second == s.heap.next[s.rest]
        pair == Meld(s.heap, precedes, s.rest, second)
        all == Meld(s.heap, precedes, s.top, Head(s.pairs))
    IN  IF s.rest # None
        THEN [s EXCEPT !.heap = pair.heap, !.pairs = <<pair.top>> \o @,
                       !.rest = IF second = None THEN None ELSE s.heap.next[second]]
        ELSE IF s.pairs # <<>>
        THEN [s EXCEPT !.heap = all.heap, !.top = all.top, !.pairs = Tail(@)]
        ELSE s

\* mergePairs(node): its turns, of which there are at most two for each sibling.
MergePairs(h, precedes, n) ==
    LET turns[k \in Nat] ==
            IF k = 0 THEN [heap |-> h, rest |-> n, pairs |-> <<>>, top |-> None]
            ELSE MergeTurn(turns[k - 1], precedes)
        merged == turns[2 * Cardinality(DOMAIN h.elem)]
    IN  IF merged.top = None THEN merged ELSE [merged EXCEPT !.heap.prev[merged.top] = None]

\* add(element)
HeapAdd(h, precedes, n, e) ==
    LET with(f, v) == [m \in DOMAIN f \cup {n} |-> IF m = n THEN v ELSE f[m]]
        m == Meld([h EXCEPT !.elem = with(@, e), !.child = with(@, None),
                            !.next = with(@, None), !.prev = with(@, None)], precedes, h.root, n)
    IN  [m.heap EXCEPT !.root = m.top]

\* The popped or deleted node is no longer part of the heap.
Unlink(h, n) ==
    LET without(f) == Restrict(f, DOMAIN f \ {n})
    IN  [h EXCEPT !.elem = without(@), !.child = without(@), !.next = without(@), !.prev = without(@)]

\* pop()
HeapPop(h, precedes) ==
    LET m == MergePairs(h, precedes, h.child[h.root])
    IN  Unlink([m.heap EXCEPT !.root = m.top], h.root)

\* A node that is not the root is cut off from its left and right neighbours.
Detach(h, n) ==
    LET left == h.prev[n]
        right == h.next[n]
        linked == IF left = None THEN h
                  ELSE IF h.child[left] = n THEN [h EXCEPT !.child[left] = right]
                  ELSE [h EXCEPT !.next[left] = right]
    IN  IF right = None THEN linked ELSE [linked EXCEPT !.prev[right] = left]

\* deleteNode(node)
DeleteNode(h, precedes, n) ==
    LET detached == IF n = h.root THEN h ELSE Detach(h, n)
        m == MergePairs(detached, precedes, detached.child[n])
        all == IF n = h.root THEN m ELSE Meld(m.heap, precedes, h.root, m.top)
    IN  [all.heap EXCEPT !.root = all.top, !.child[n] = None, !.prev[n] = None, !.next[n] = None]

\* decreasePriority(node)
DecreasePriority(h, precedes, n) ==
    LET deleted == DeleteNode(h, precedes, n)
        m == Meld(deleted, precedes, deleted.root, n)
    IN  [m.heap EXCEPT !.root = m.top]

IncreasePriority_Stays(h, precedes, n) == h
\* increasePriority(node): nothing to do for the root and for a first child
\* that is still below its parent.
IncreasePriority(h, precedes, n) ==
    LET parent == h.prev[n]
        m == Meld(Detach(h, n), precedes, h.root, n)
    IN  IF n = h.root \/ (h.child[parent] = n /\ <<h.elem[parent], h.elem[n]>> \in precedes)
        THEN h ELSE [m.heap EXCEPT !.root = m.top]

-----------------------------------------------------------------------------
\* The nodes the root leads to, by child and next.
HeapNodes(h) ==
    LET nodes == DOMAIN h.elem
        closed(S) == /\ {h.root} \subseteq S \cup {None}
                     /\ \A n \in S : {h.child[n], h.next[n]} \subseteq S \cup {None}
    IN  {n \in nodes : \A S \in SUBSET nodes : closed(S) => n \in S}

\* prev leads back from every node that child or next leads to.
WellLinked(h) ==
    /\ h.root # None => h.prev[h.root] = None /\ h.next[h.root] = None
    /\ \A n \in HeapNodes(h) :
        /\ h.child[n] # None => h.prev[h.child[n]] = n
        /\ h.next[n] # None => h.prev[h.next[n]] = n
=============================================================================
