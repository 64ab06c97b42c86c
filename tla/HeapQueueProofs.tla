-------------------------- MODULE HeapQueueProofs --------------------------
(***************************************************************************)
(* The pairing heap loses no node and is a priority queue, for any set of  *)
(* elements and of priorities.                                             *)
(*                                                                         *)
(* Forest says that child, next and prev make trees, given what each       *)
(* node's parent is and where it stands among its siblings; every          *)
(* operation of the heap is shown to turn one forest into another in which *)
(* parents precede their children.  A loop of mergePairs is followed turn  *)
(* by turn (MergeInv); HeapInv is the invariant between the operations.    *)
(***************************************************************************)
EXTENDS HeapQueue, FiniteSetTheorems, WellFoundedInduction, TLAPS

-----------------------------------------------------------------------------
(* Numbers and finite sets *)

\* A set of numbers has a least one.
LEMMA LeastNat ==
    ASSUME NEW S \in SUBSET Nat, S # {}
    PROVE  \E n \in S : \A m \in S : n <= m
<1>1. \E n \in S : \A m \in S : ~ (<<m, n>> \in OpToRel(<, Nat))
  BY NatLessThanWellFounded, WFMin
<1>2. PICK n \in S : \A m \in S : ~ (<<m, n>> \in OpToRel(<, Nat))
  BY <1>1
<1>3. ASSUME NEW m \in S PROVE n <= m
  <2>1. ~ (<<m, n>> \in OpToRel(<, Nat))
    BY <1>2
  <2>2. m \in Nat /\ n \in Nat
    OBVIOUS
  <2>3. ~ (m < n)
    BY <2>1, <2>2 DEF OpToRel
  <2> QED
    BY <2>2, <2>3
<1> QED
  BY <1>3

\* A finite set has a first element in any strict order: the one that the
\* fewest precede.
LEMMA FirstExists ==
    ASSUME NEW S, IsFiniteSet(S), S # {}, NEW Lt,
           \A x \in S : <<x, x>> \notin Lt,
           \A x, y, z \in S : <<x, y>> \in Lt /\ <<y, z>> \in Lt => <<x, z>> \in Lt
    PROVE  \E x \in S : \A y \in S : <<y, x>> \notin Lt
<1> DEFINE Preceding(x) == {y \in S : <<y, x>> \in Lt}
           counts == {Cardinality(Preceding(x)) : x \in S}
<1>1. \A x \in S : IsFiniteSet(Preceding(x)) /\ Cardinality(Preceding(x)) \in Nat
  <2> SUFFICES ASSUME NEW x \in S PROVE IsFiniteSet(Preceding(x)) /\ Cardinality(Preceding(x)) \in Nat
    OBVIOUS
  <2>1. Preceding(x) \in SUBSET S
    OBVIOUS
  <2> HIDE DEF Preceding
  <2> QED
    BY <2>1, FS_Subset, FS_CardinalityType
<1>2. counts \in SUBSET Nat /\ counts # {}
  <2> HIDE DEF Preceding
  <2> QED
    BY <1>1
<1>3. PICK n \in counts : \A m \in counts : n <= m
  <2> HIDE DEF counts
  <2> QED
    BY <1>2, LeastNat
<1>4. PICK x \in S : n = Cardinality(Preceding(x))
  BY <1>3
<1>5. ASSUME NEW y \in S, <<y, x>> \in Lt PROVE FALSE
  <2>1. Preceding(y) \in SUBSET Preceding(x) /\ Preceding(y) # Preceding(x)
    BY <1>5
  <2> HIDE DEF Preceding
  <2>2. Cardinality(Preceding(x)) <= Cardinality(Preceding(y))
    BY <1>3, <1>4
  <2>3. Cardinality(Preceding(y)) <= Cardinality(Preceding(x)) /\ Cardinality(Preceding(x)) # Cardinality(Preceding(y))
    BY <1>1, <2>1, FS_Subset
  <2> QED
    BY <1>1, <2>2, <2>3
<1> QED
  BY <1>5

-----------------------------------------------------------------------------
(* Forests of links *)

\* The links over the nodes D make trees with the roots R: f is the first child
\* of a node, nx and pv its neighbours; par is its parent and pos falls from the
\* first child to the last.  The neighbours of a root mean nothing.
Forest(D, R, f, nx, pv, par, pos) ==
    /\ None \notin D /\ R \subseteq D
    /\ f \in [D -> D \cup {None}] /\ nx \in [D -> D \cup {None}] /\ pv \in [D -> D \cup {None}]
    /\ par \in [D -> D] /\ pos \in [D -> Nat]
    /\ \A m \in D : f[m] # None => f[m] \notin R /\ par[f[m]] = m /\ pv[f[m]] = m
    /\ \A m \in D \ R : nx[m] # None =>
        nx[m] \notin R /\ par[nx[m]] = par[m] /\ pv[nx[m]] = m /\ pos[nx[m]] < pos[m]
    /\ \A n \in D \ R :
        /\ par[n] # n /\ pv[n] # None
        /\ \/ pv[n] = par[n] /\ f[par[n]] = n
           \/ pv[n] \notin R /\ nx[pv[n]] = n /\ par[pv[n]] = par[n]

\* A root c becomes the first child of another root p.
LEMMA LinkForest ==
    ASSUME NEW D, NEW R, NEW f, NEW nx, NEW pv, NEW par, NEW pos, Forest(D, R, f, nx, pv, par, pos),
           NEW p \in R, NEW c \in R, p # c
    PROVE  Forest(D, R \ {c}, [f EXCEPT ![p] = c], [nx EXCEPT ![c] = f[p], ![p] = None],
                  [(IF f[p] = None THEN pv ELSE [pv EXCEPT ![f[p]] = c]) EXCEPT ![c] = p, ![p] = None],
                  [par EXCEPT ![c] = p], [pos EXCEPT ![c] = IF f[p] = None THEN 0 ELSE pos[f[p]] + 1])
BY DEF Forest

\* The first child c of a root r becomes a root.
LEMMA CutFirstForest ==
    ASSUME NEW D, NEW R, NEW f, NEW nx, NEW pv, NEW par, NEW pos, Forest(D, R, f, nx, pv, par, pos),
           NEW r \in R, f[r] # None
    PROVE  Forest(D, R \cup {f[r]}, [f EXCEPT ![r] = nx[f[r]]], nx,
                  IF nx[f[r]] = None THEN pv ELSE [pv EXCEPT ![nx[f[r]]] = r], par, pos)
BY DEF Forest

\* A node is cut off from its neighbours.
LEMMA DetachForest ==
    ASSUME NEW D, NEW R, NEW f, NEW nx, NEW pv, NEW par, NEW pos, Forest(D, R, f, nx, pv, par, pos),
           NEW n \in D \ R
    PROVE  LET left == pv[n]
               right == nx[n]
           IN  Forest(D, R \cup {n},
                      IF f[left] = n THEN [f EXCEPT ![left] = right] ELSE f,
                      IF f[left] = n THEN nx ELSE [nx EXCEPT ![left] = right],
                      IF right = None THEN pv ELSE [pv EXCEPT ![right] = left], par, pos)
BY DEF Forest

\* Functions that agree on S; g is f on the nodes but r.
Alike(S, f, g) == \A m \in S : f[m] = g[m]
Without(D, r, f, g) == g \in [D \ {r} -> D \cup {None}] /\ \A m \in D \ {r} : g[m] = f[m]
\* A root without children goes.
LEMMA RemoveForest ==
    ASSUME NEW D, NEW R, NEW f, NEW nx, NEW pv, NEW par, NEW pos, Forest(D, R, f, nx, pv, par, pos),
           NEW r \in R, \A n \in D \ R : par[n] # r,
           \A t \in R \ {r} : nx[t] # r /\ pv[t] # r,
           NEW f2, NEW nx2, NEW pv2, Without(D, r, f, f2), Without(D, r, nx, nx2), Without(D, r, pv, pv2)
    PROVE  \E q, qos : Forest(D \ {r}, R \ {r}, f2, nx2, pv2, q, qos) /\ Alike(D \ R, q, par)
<1> DEFINE q == [m \in D \ {r} |-> IF par[m] = r THEN m ELSE par[m]]
           qos == [m \in D \ {r} |-> pos[m]]
<1>1. Forest(D \ {r}, R \ {r}, f2, nx2, pv2, q, qos)
  BY DEF Forest, Without
<1>2. Alike(D \ R, q, par)
  BY DEF Alike
<1> HIDE DEF q, qos
<1> QED
  BY <1>1, <1>2

\* A new node is a root.
LEMMA AddForest ==
    ASSUME NEW D, NEW R, NEW f, NEW nx, NEW pv, NEW par, NEW pos, Forest(D, R, f, nx, pv, par, pos),
           NEW n, n \notin D, n # None
    PROVE  LET plus(g, v) == [m \in D \cup {n} |-> IF m = n THEN v ELSE g[m]]
           IN  Forest(D \cup {n}, R \cup {n}, plus(f, None), plus(nx, None), plus(pv, None), plus(par, n), plus(pos, 0))
BY DEF Forest

\* Of the children of a node, those left over when a child and all its right
\* siblings are taken away have the first child among them.
Siblings(C, p, f, pv, par) ==
    \A n \in C : par[n] = p /\ (pv[n] # p \/ f[p] # n => pv[n] \in C)
LEMMA Leftmost ==
    ASSUME NEW D, NEW R, NEW f, NEW nx, NEW pv, NEW par, NEW pos, Forest(D, R, f, nx, pv, par, pos),
           IsFiniteSet(D), NEW C \in SUBSET (D \ R), C # {}, NEW p, Siblings(C, p, f, pv, par)
    PROVE  f[p] \in C
<1>0. \A n \in C : par[n] = p /\ (pv[n] # par[n] \/ f[par[n]] # n => pv[n] \in C)
  BY DEF Siblings
<1> USE <1>0
<1> DEFINE Right == {e \in D \X D : pos[e[1]] > pos[e[2]]}
<1>1. \A x \in D : pos[x] \in Nat
  BY DEF Forest
<1>2. \A x, y \in C : <<x, y>> \in Right <=> pos[x] > pos[y]
  OBVIOUS
<1>3. IsFiniteSet(C)
  BY FS_Subset
<1> HIDE DEF Right
<1>4. \A x \in C : <<x, x>> \notin Right
  BY <1>1, <1>2
<1>5. \A x, y, z \in C : <<x, y>> \in Right /\ <<y, z>> \in Right => <<x, z>> \in Right
  BY <1>1, <1>2
<1>6. PICK n \in C : \A y \in C : <<y, n>> \notin Right
  BY <1>3, <1>4, <1>5, FirstExists
<1>7. \A y \in C : ~(pos[y] > pos[n])
  BY <1>2, <1>6
<1>8. ASSUME pv[n] \in C, ~(pv[n] = par[n] /\ f[par[n]] = n) PROVE FALSE
  BY <1>7, <1>8 DEF Forest
<1> QED
  BY <1>8 DEF Forest

\* A node without first child is nobody's parent.
LEMMA Childless ==
    ASSUME NEW D, NEW R, NEW f, NEW nx, NEW pv, NEW par, NEW pos, Forest(D, R, f, nx, pv, par, pos),
           IsFiniteSet(D), NEW r \in D, f[r] = None
    PROVE  \A n \in D \ R : par[n] # r
<1> DEFINE C == {n \in D \ R : par[n] = r}
<1>1. Siblings(C, r, f, pv, par)
  BY DEF Forest, Siblings
<1>2. None \notin C
  BY DEF Forest
<1> HIDE DEF C
<1>3. ASSUME C # {} PROVE FALSE
  <2>1. C \in SUBSET (D \ R)
    BY DEF C
  <2> QED
    BY <1>1, <1>2, <1>3, <2>1, Leftmost
<1> QED
  BY <1>3 DEF C

\* If every parent precedes its children, nothing but roots has no root above.
Strict(Lt, D) ==
    /\ \A x \in D : <<x, x>> \notin Lt
    /\ \A x, y, z \in D : <<x, y>> \in Lt /\ <<y, z>> \in Lt => <<x, z>> \in Lt
Orphans(X, par, Lt) == \A n \in X : par[n] \in X /\ <<par[n], n>> \in Lt
LEMMA NoOrphans ==
    ASSUME NEW D, IsFiniteSet(D), NEW Lt, Strict(Lt, D), NEW par, NEW X \in SUBSET D, Orphans(X, par, Lt)
    PROVE  X = {}
<1>0. /\ \A x \in D : <<x, x>> \notin Lt
      /\ \A x, y, z \in D : <<x, y>> \in Lt /\ <<y, z>> \in Lt => <<x, z>> \in Lt
      /\ \A n \in X : par[n] \in X /\ <<par[n], n>> \in Lt
  BY DEF Strict, Orphans
<1> USE <1>0
<1>1. IsFiniteSet(X)
  BY FS_Subset
<1>2. ASSUME X # {} PROVE \E x \in X : \A y \in X : <<y, x>> \notin Lt
  BY <1>1, <1>2, FirstExists
<1> QED
  BY <1>2

-----------------------------------------------------------------------------
(* The turns of mergePairs *)

Start(h, n) == [heap |-> h, rest |-> n, pairs |-> <<>>, top |-> None]

\* The first turns, up to the last-th.
AreTurns(t, last, h, precedes, n) ==
    t = [k \in 0..last |-> IF k = 0 THEN Start(h, n) ELSE MergeTurn(t[k - 1], precedes)]

\* However many turns are asked for, there are so many.
LEMMA SomeTurns ==
    ASSUME NEW h, NEW precedes, NEW n, NEW last \in Nat
    PROVE  \E t : AreTurns(t, last, h, precedes, n)
<1> DEFINE bad == {k \in Nat : ~ \E t : AreTurns(t, k, h, precedes, n)}
<1> SUFFICES ASSUME bad # {} PROVE FALSE
  OBVIOUS
<1>1. PICK k \in bad : \A m \in bad : k <= m
  BY LeastNat
<1>2. k # 0
  <2>1. AreTurns([m \in 0..0 |-> Start(h, n)], 0, h, precedes, n)
    BY DEF AreTurns
  <2> QED
    BY <2>1
<1>3. k \in Nat /\ k - 1 \in Nat /\ k - 1 \notin bad
  BY <1>1, <1>2
<1>4. PICK t : AreTurns(t, k - 1, h, precedes, n)
  BY <1>3
<1> DEFINE u == [m \in 0..k |-> IF m = k THEN MergeTurn(t[k - 1], precedes) ELSE t[m]]
<1>5. \A m \in 0..k : u[m] = IF m = 0 THEN Start(h, n) ELSE MergeTurn(u[m - 1], precedes)
  <2> SUFFICES ASSUME NEW m \in 0..k
               PROVE u[m] = IF m = 0 THEN Start(h, n) ELSE MergeTurn(u[m - 1], precedes)
    OBVIOUS
  <2>1. CASE m = k
    <3>1. u[k] = MergeTurn(t[k - 1], precedes)
      OBVIOUS
    <3>2. u[k - 1] = t[k - 1]
      BY <1>3
    <3> QED
      BY <3>1, <3>2, <2>1, <1>2
  <2>2. CASE m # k
    <3>1. m \in 0..(k - 1)
      BY <2>2, <1>3
    <3>2. u[m] = t[m] /\ (m # 0 => u[m - 1] = t[m - 1])
      BY <2>2, <1>3
    <3> HIDE DEF u
    <3> QED
      BY <3>1, <3>2, <1>4 DEF AreTurns
  <2> QED
    BY <2>1, <2>2
<1>6. u = [m \in 0..k |-> u[m]]
  OBVIOUS
<1> HIDE DEF u
<1>7. AreTurns(u, k, h, precedes, n)
  BY <1>5, <1>6 DEF AreTurns
<1> QED
  BY <1>3, <1>7

\* A number of turns has one result.
LEMMA SameTurns ==
    ASSUME NEW h, NEW precedes, NEW n, NEW a \in Nat, NEW b \in Nat, NEW t, NEW u,
           AreTurns(t, a, h, precedes, n), AreTurns(u, b, h, precedes, n)
    PROVE  \A k \in 0..a : k \in 0..b => t[k] = u[k]
<1> DEFINE bad == {k \in Nat : k \in 0..a /\ k \in 0..b /\ t[k] # u[k]}
<1> SUFFICES ASSUME bad # {} PROVE FALSE
  OBVIOUS
<1>1. PICK k \in bad : \A m \in bad : k <= m
  BY LeastNat
<1>2. k # 0 => k - 1 \in 0..a /\ k - 1 \in 0..b /\ k - 1 \notin bad
  BY <1>1
<1>3. t[k] = u[k]
  BY <1>2 DEF AreTurns
<1> QED
  BY <1>3

\* The turns that the definition of MergePairs chooses.
Turns(h, precedes, n) ==
    CHOOSE t : t = [k \in Nat |-> IF k = 0 THEN Start(h, n) ELSE MergeTurn(t[k - 1], precedes)]

\* They exist, all of them together.
LEMMA TurnsExist ==
    ASSUME NEW h, NEW precedes, NEW n
    PROVE  Turns(h, precedes, n) =
               [k \in Nat |-> IF k = 0 THEN Start(h, n) ELSE MergeTurn(Turns(h, precedes, n)[k - 1], precedes)]
<1> DEFINE of(k) == CHOOSE t : AreTurns(t, k, h, precedes, n)
           all == [k \in Nat |-> of(k)[k]]
<1>1. \A k \in Nat : AreTurns(of(k), k, h, precedes, n)
  BY SomeTurns
<1> HIDE DEF of
<1>2. \A k \in Nat : all[k] = IF k = 0 THEN Start(h, n) ELSE MergeTurn(all[k - 1], precedes)
  <2> SUFFICES ASSUME NEW k \in Nat
               PROVE all[k] = IF k = 0 THEN Start(h, n) ELSE MergeTurn(all[k - 1], precedes)
    OBVIOUS
  <2>1. of(k)[k] = IF k = 0 THEN Start(h, n) ELSE MergeTurn(of(k)[k - 1], precedes)
    BY <1>1 DEF AreTurns
  <2>2. CASE k # 0
    <3>1. k - 1 \in Nat /\ k - 1 \in 0..k /\ k - 1 \in 0..(k - 1)
      BY <2>2
    <3>2. of(k)[k - 1] = of(k - 1)[k - 1]
      BY <3>1, <1>1, SameTurns
    <3> QED
      BY <2>1, <2>2, <3>1, <3>2
  <2> QED
    BY <2>1, <2>2
<1>3. all = [k \in Nat |-> all[k]]
  OBVIOUS
<1> HIDE DEF all
<1>4. all = [k \in Nat |-> IF k = 0 THEN Start(h, n) ELSE MergeTurn(all[k - 1], precedes)]
  BY <1>2, <1>3
<1> QED
  BY <1>4 DEF Turns

\* mergePairs gives the result of the last turn, without a left neighbour.
LEMMA MergePairsTurns ==
    ASSUME NEW h, NEW precedes, NEW n
    PROVE  LET merged == Turns(h, precedes, n)[2 * Cardinality(DOMAIN h.elem)]
           IN  MergePairs(h, precedes, n) =
                   IF merged.top = None THEN merged ELSE [merged EXCEPT !.heap.prev[merged.top] = None]
BY DEF MergePairs, Turns, Start

-----------------------------------------------------------------------------
(* Melding in a heap *)

\* A heap, and the links over its nodes.
Fields(h) == DOMAIN h = {"root", "elem", "child", "next", "prev"}

\* The comparator puts the elements of the nodes D in the order Lt.
Compares(precedes, elem, D, Lt) ==
    /\ \A x \in D : <<x, x>> \notin Lt
    /\ \A x, y, z \in D : <<x, y>> \in Lt /\ <<y, z>> \in Lt => <<x, z>> \in Lt
    /\ \A x, y \in D : x # y => <<x, y>> \in Lt \/ <<y, x>> \in Lt
    /\ \A x, y \in D : <<elem[x], elem[y]>> \in precedes <=> <<x, y>> \in Lt

\* Parents precede their children, those of r excepted.
Ordered(D, R, par, Lt, r) == \A n \in D \ R : par[n] # r => <<par[n], n>> \in Lt

\* What melding the child q below p makes of h.
Melded(h, g, p, q) ==
    /\ Fields(g) /\ g.root = h.root /\ g.elem = h.elem
    /\ g.child = [h.child EXCEPT ![p] = q]
    /\ g.next = [h.next EXCEPT ![q] = h.child[p], ![p] = None]
    /\ g.prev = [(IF h.child[p] = None THEN h.prev ELSE [h.prev EXCEPT ![h.child[p]] = q])
                    EXCEPT ![q] = p, ![p] = None]

\* meld of two nodes puts one below the other, in order.
LEMMA MeldTwo ==
    ASSUME NEW h, Fields(h), NEW precedes, NEW D, NEW Lt, Compares(precedes, h.elem, D, Lt),
           NEW a \in D, NEW b \in D, a # b, None \notin D
    PROVE  LET m == Meld(h, precedes, a, b)
           IN  \E p \in {a, b}, q \in {a, b} :
                p # q /\ <<p, q>> \in Lt /\ m.top = p /\ Melded(h, m.heap, p, q)
<1> DEFINE p == IF <<h.elem[a], h.elem[b]>> \in precedes THEN a ELSE b
           q == IF p = a THEN b ELSE a
           prev == [(IF h.child[p] = None THEN h.prev ELSE [h.prev EXCEPT ![h.child[p]] = q])
                        EXCEPT ![q] = p, ![p] = None]
           next == [h.next EXCEPT ![q] = h.child[p], ![p] = None]
           child == [h.child EXCEPT ![p] = q]
           g == [h EXCEPT !.prev = prev, !.child = child, !.next = next]
           m == Meld(h, precedes, a, b)
<1>1. a # None /\ b # None
  OBVIOUS
<1>2. m = [heap |-> g, top |-> p]
  BY <1>1 DEF Meld
<1>3. p # q /\ p \in {a, b} /\ q \in {a, b}
  OBVIOUS
<1>4. <<p, q>> \in Lt
  <2>1. <<h.elem[a], h.elem[b]>> \in precedes <=> <<a, b>> \in Lt
    BY DEF Compares
  <2>2. <<a, b>> \in Lt \/ <<b, a>> \in Lt
    BY DEF Compares
  <2> QED
    BY <2>1, <2>2
<1> HIDE DEF p, q
<1>6. Fields(g) /\ g.root = h.root /\ g.elem = h.elem /\ g.child = child /\ g.next = next /\ g.prev = prev
  <2> HIDE DEF prev, next, child
  <2> QED
    BY DEF Fields
<1>7. m.top = p /\ m.heap = g
  <2> HIDE DEF g, m
  <2> QED
    BY <1>2
<1>8. Melded(h, m.heap, p, q)
  <2> HIDE DEF m, g
  <2> QED
    BY <1>6, <1>7 DEF Melded
<1> QED
  BY <1>3, <1>4, <1>7, <1>8

\* meld with nothing.
LEMMA MeldOne ==
    ASSUME NEW h, NEW precedes, NEW a, NEW b, a = None \/ b = None
    PROVE  Meld(h, precedes, a, b) = [heap |-> h, top |-> IF a = None THEN b ELSE a]
BY DEF Meld

\* What roots point to as neighbours does not matter.
LEMMA RootLinks ==
    ASSUME NEW D, NEW R, NEW f, NEW nx, NEW pv, NEW par, NEW pos, Forest(D, R, f, nx, pv, par, pos),
           NEW nx2 \in [D -> D \cup {None}], NEW pv2 \in [D -> D \cup {None}],
           \A n \in D \ R : nx2[n] = nx[n] /\ pv2[n] = pv[n]
    PROVE  Forest(D, R, f, nx2, pv2, par, pos)
BY DEF Forest

\* Trees that are melded are a forest, in order.
LEMMA MeldForest ==
    ASSUME NEW h, NEW g, NEW D, NEW R, NEW par, NEW pos, NEW p \in R, NEW q \in R, p # q,
           Forest(D, R, h.child, h.next, h.prev, par, pos), Melded(h, g, p, q),
           NEW Lt, <<p, q>> \in Lt, NEW r, r # q, Ordered(D, R, par, Lt, r)
    PROVE  \E par2, pos2 :
               /\ Forest(D, R \ {q}, g.child, g.next, g.prev, par2, pos2)
               /\ Ordered(D, R \ {q}, par2, Lt, r)
<1> DEFINE par2 == [par EXCEPT ![q] = p]
           pos2 == [pos EXCEPT ![q] = IF h.child[p] = None THEN 0 ELSE pos[h.child[p]] + 1]
<1>1. Forest(D, R \ {q}, g.child, g.next, g.prev, par2, pos2)
  BY LinkForest DEF Melded
<1>2. Ordered(D, R \ {q}, par2, Lt, r)
  BY DEF Ordered, Forest
<1> QED
  BY <1>1, <1>2

-----------------------------------------------------------------------------
(* mergePairs *)

\* In mergePairs the siblings from c on are the children of r still, as if c
\* were its first child.
Behind(prev, r, c) == IF c = None THEN prev ELSE [prev EXCEPT ![c] = r]
Merging(D, R, h, r, c, par, pos, Lt) ==
    /\ Forest(D, R, [h.child EXCEPT ![r] = c], h.next, Behind(h.prev, r, c), par, pos)
    /\ Ordered(D, R, par, Lt, r)
Children(D, R, par, r) == {n \in D \ R : par[n] = r}
\* Equality of sets, as one atom for the provers.
Same(A, B) == A = B

\* The links are functions on the nodes.
Linked(h, D) ==
    /\ h.child \in [D -> D \cup {None}] /\ h.next \in [D -> D \cup {None}] /\ h.prev \in [D -> D \cup {None}]

\* The first two siblings.
LEMMA TwoSiblings ==
    ASSUME NEW D, NEW R, NEW h, NEW r \in R, NEW c, NEW d, NEW par, NEW pos, NEW Lt,
           Merging(D, R, h, r, c, par, pos, Lt), Linked(h, D), c # None, d = h.next[c], d # None
    PROVE  /\ c \in D \ R /\ d \in D \ R /\ c # d /\ h.next[d] \in D \cup {None}
           /\ r \in D /\ par[c] = r /\ par[d] = r /\ {c, d} \subseteq Children(D, R, par, r)
<1> DEFINE f == [h.child EXCEPT ![r] = c]
           pv == [h.prev EXCEPT ![c] = r]
<1>1. Forest(D, R, f, h.next, pv, par, pos)
  BY DEF Merging, Behind
<1>2. f[r] = c /\ c \in D \ R /\ r \in D /\ par[c] = r
  BY <1>1 DEF Forest, Linked
<1>3. d \in D \ R /\ c # d /\ par[d] = r /\ h.next[d] \in D \cup {None}
  BY <1>1, <1>2 DEF Forest
<1> QED
  BY <1>2, <1>3 DEF Children

\* They are melded, q below p, which makes g of the heap h.
Paired(D, R, h, r, c, d, par, pos, Lt, g, p, q) ==
    /\ r \in R /\ Merging(D, R, h, r, c, par, pos, Lt) /\ Linked(h, D)
    /\ c # None /\ d = h.next[c] /\ d # None
    /\ p \in {c, d} /\ q \in {c, d} /\ p # q /\ <<p, q>> \in Lt /\ Melded(h, g, p, q)
LEMMA PairOfTwo ==
    ASSUME NEW D, NEW R, NEW h, NEW r, NEW c, NEW d, NEW par, NEW pos, NEW Lt, NEW g, NEW p, NEW q,
           Paired(D, R, h, r, c, d, par, pos, Lt, g, p, q)
    PROVE  \E par2, pos2 :
               /\ Merging(D, R \cup {p}, g, r, h.next[d], par2, pos2, Lt)
               /\ Same(Children(D, R \cup {p}, par2, r), Children(D, R, par, r) \ {c, d})
<1>0. /\ r \in R /\ Merging(D, R, h, r, c, par, pos, Lt) /\ Linked(h, D)
      /\ c # None /\ d = h.next[c] /\ d # None
      /\ p \in {c, d} /\ q \in {c, d} /\ p # q /\ <<p, q>> \in Lt /\ Melded(h, g, p, q)
  BY DEF Paired
<1> USE <1>0
<1> DEFINE f == [h.child EXCEPT ![r] = c]
           pv == [h.prev EXCEPT ![c] = r]
           nx == h.next
           f1 == [f EXCEPT ![r] = nx[c]]
           pv1 == [pv EXCEPT ![nx[c]] = r]
           f2 == [f1 EXCEPT ![r] = nx[d]]
           pv2 == IF nx[d] = None THEN pv1 ELSE [pv1 EXCEPT ![nx[d]] = r]
<1>1. Forest(D, R, f, nx, pv, par, pos)
  BY DEF Merging, Behind
<1>2. f[r] = c /\ c \in D \ R /\ r \in D /\ par[c] = r
  BY <1>1 DEF Forest, Linked
<1>3. d \in D \ R /\ c # d /\ par[d] = r /\ nx[d] \in D \cup {None}
  BY TwoSiblings
<1>4. Forest(D, R \cup {c}, f1, nx, pv1, par, pos)
  <2> HIDE DEF f, pv
  <2>1. Forest(D, R \cup {f[r]}, [f EXCEPT ![r] = nx[f[r]]], nx,
                  IF nx[f[r]] = None THEN pv ELSE [pv EXCEPT ![nx[f[r]]] = r], par, pos)
    BY <1>1, <1>2, CutFirstForest
  <2> QED
    BY <2>1, <1>2
<1>5. f1[r] = d
  BY <1>1, <1>2 DEF Forest
<1>6. Forest(D, R \cup {c, d}, f2, nx, pv2, par, pos)
  <2> HIDE DEF f1, pv1
  <2>1. Forest(D, (R \cup {c}) \cup {f1[r]}, [f1 EXCEPT ![r] = nx[f1[r]]], nx,
                  IF nx[f1[r]] = None THEN pv1 ELSE [pv1 EXCEPT ![nx[f1[r]]] = r], par, pos)
    <3>1. r \in R \cup {c} /\ f1[r] # None
      BY <1>5
    <3> QED
      BY ONLY <1>4, <3>1, CutFirstForest
  <2>2. (R \cup {c}) \cup {d} = R \cup {c, d}
    OBVIOUS
  <2> QED
    BY <2>1, <2>2, <1>5
<1> DEFINE par2 == [par EXCEPT ![q] = p]
           pos2 == [pos EXCEPT ![q] = IF f2[p] = None THEN 0 ELSE pos[f2[p]] + 1]
           f3 == [f2 EXCEPT ![p] = q]
           nx3 == [nx EXCEPT ![q] = f2[p], ![p] = None]
           pv3 == [(IF f2[p] = None THEN pv2 ELSE [pv2 EXCEPT ![f2[p]] = q]) EXCEPT ![q] = p, ![p] = None]
<1>10. p \in {c, d} /\ q \in {c, d}
  OBVIOUS
<1>11. (R \cup {c, d}) \ {q} = R \cup {p}
  BY <1>2, <1>3, <1>10
<1>12. Forest(D, R \cup {p}, f3, nx3, pv3, par2, pos2)
  <2> HIDE DEF f2, pv2
  <2>1. Forest(D, (R \cup {c, d}) \ {q}, f3, nx3, pv3, par2, pos2)
    BY <1>6, <1>10, LinkForest
  <2> QED
    BY <1>11, <2>1
<1>13. r # p /\ r # q
  BY <1>2, <1>3, <1>10
<1>14. f2[p] = h.child[p]
  BY <1>2, <1>3, <1>10, <1>13 DEF Linked
<1>15. nx3 = g.next
  BY <1>14 DEF Melded
<1>16. f3 = [g.child EXCEPT ![r] = nx[d]]
  BY <1>13, <1>2, <1>3, <1>10 DEF Melded, Linked
<1>17. pv3 = Behind(g.prev, r, nx[d])
  <2>1. h.child[p] # None => h.child[p] \notin {c, d, r, nx[d]}
    <3>1. h.child[p] # None => par[h.child[p]] = p
      BY <1>6, <1>14, <1>2, <1>3, <1>10 DEF Forest
    <3>2. nx[d] # None => par[nx[d]] = r
      BY <1>1, <1>3 DEF Forest
    <3>3. h.child[p] # None => h.child[p] \notin R
      BY <1>1, <1>2, <1>3, <1>10, <1>13 DEF Forest, Linked
    <3> QED
      BY <3>1, <3>2, <3>3, <1>2, <1>3, <1>13
  <2>2. nx[d] # None => nx[d] \notin {c, d, r}
    BY <1>1, <1>2, <1>3 DEF Forest
  <2>3. pv3 \in [D -> D \cup {None}] /\ Behind(g.prev, r, nx[d]) \in [D -> D \cup {None}]
    <3>1. pv3 \in [D -> D \cup {None}]
      <4> HIDE DEF pv3, f3, nx3, par2, pos2
      <4> QED
        BY <1>12 DEF Forest
    <3>2. g.prev \in [D -> D \cup {None}]
      BY <1>2, <1>3, <1>10 DEF Melded, Linked
    <3> QED
      BY <3>1, <3>2, <1>2 DEF Behind
  <2>4. ASSUME NEW x \in D PROVE pv3[x] = Behind(g.prev, r, nx[d])[x]
    BY <2>1, <2>2, <1>14, <1>2, <1>3, <1>10 DEF Melded, Linked, Behind
  <2> HIDE DEF pv3
  <2> QED
    BY <2>3, <2>4
<1>18. Ordered(D, R \cup {p}, par2, Lt, r)
  BY <1>1, <1>2, <1>3, <1>10, <1>11 DEF Ordered, Merging, Forest
<1>19. Children(D, R \cup {p}, par2, r) = Children(D, R, par, r) \ {c, d}
  BY <1>1, <1>2, <1>3, <1>10, <1>13 DEF Children, Forest
<1> HIDE DEF f3, nx3, pv3, par2, pos2
<1> QED
  BY <1>12, <1>15, <1>16, <1>17, <1>18, <1>19 DEF Merging, Same

\* The last sibling has none to be melded with.
LEMMA PairOfOne ==
    ASSUME NEW D, NEW R, NEW h, NEW r \in R, NEW c, NEW par, NEW pos, NEW Lt,
           Merging(D, R, h, r, c, par, pos, Lt), Linked(h, D), c # None, h.next[c] = None
    PROVE  /\ c \in D \ R
           /\ Merging(D, R \cup {c}, h, r, None, par, pos, Lt)
           /\ Same(Children(D, R \cup {c}, par, r), Children(D, R, par, r) \ {c})
           /\ c \in Children(D, R, par, r)
<1> DEFINE f == [h.child EXCEPT ![r] = c]
           pv == [h.prev EXCEPT ![c] = r]
<1>1. Forest(D, R, f, h.next, pv, par, pos)
  BY DEF Merging, Behind
<1>2. f[r] = c /\ c \in D \ R /\ r \in D /\ par[c] = r
  BY <1>1 DEF Forest, Linked
<1>3. Forest(D, R \cup {c}, [f EXCEPT ![r] = None], h.next, pv, par, pos)
  <2> HIDE DEF f, pv
  <2>1. Forest(D, R \cup {f[r]}, [f EXCEPT ![r] = h.next[f[r]]], h.next,
                  IF h.next[f[r]] = None THEN pv ELSE [pv EXCEPT ![h.next[f[r]]] = r], par, pos)
    BY <1>1, <1>2, CutFirstForest
  <2> QED
    BY <2>1, <1>2
<1>4. Forest(D, R \cup {c}, [f EXCEPT ![r] = None], h.next, h.prev, par, pos)
  BY <1>3, RootLinks DEF Linked
<1>5. [f EXCEPT ![r] = None] = [h.child EXCEPT ![r] = None]
  BY DEF Linked
<1>6. Ordered(D, R \cup {c}, par, Lt, r)
  BY DEF Ordered, Merging
<1> QED
  BY <1>2, <1>4, <1>5, <1>6 DEF Merging, Behind, Children, Same

\* Two pairs are melded.
LEMMA MeldPairs ==
    ASSUME NEW D, NEW R, NEW h, NEW g, NEW r \in R, NEW par, NEW pos, NEW Lt,
           Merging(D, R, h, r, None, par, pos, Lt), Linked(h, D),
           NEW p \in R \ {r}, NEW q \in R \ {r}, p # q, <<p, q>> \in Lt, Melded(h, g, p, q)
    PROVE  \E par2, pos2 :
               /\ Merging(D, R \ {q}, g, r, None, par2, pos2, Lt)
               /\ Same(Children(D, R \ {q}, par2, r), Children(D, R, par, r))
<1> DEFINE f == [h.child EXCEPT ![r] = None]
           par2 == [par EXCEPT ![q] = p]
           pos2 == [pos EXCEPT ![q] = IF f[p] = None THEN 0 ELSE pos[f[p]] + 1]
<1>1. Forest(D, R, f, h.next, h.prev, par, pos)
  BY DEF Merging, Behind
<1>2. Forest(D, R \ {q}, [f EXCEPT ![p] = q], [h.next EXCEPT ![q] = f[p], ![p] = None],
             [(IF f[p] = None THEN h.prev ELSE [h.prev EXCEPT ![f[p]] = q]) EXCEPT ![q] = p, ![p] = None], par2, pos2)
  <2> HIDE DEF f
  <2> QED
    BY <1>1, LinkForest
<1>3. f[p] = h.child[p]
  BY DEF Linked
<1>4. [f EXCEPT ![p] = q] = [g.child EXCEPT ![r] = None]
  BY <1>1 DEF Linked, Melded, Forest
<1>5. Forest(D, R \ {q}, [g.child EXCEPT ![r] = None], g.next, g.prev, par2, pos2)
  <2> HIDE DEF f
  <2> QED
    BY <1>2, <1>3, <1>4 DEF Melded
<1>6. Ordered(D, R \ {q}, par2, Lt, r)
  BY <1>1 DEF Ordered, Merging, Forest
<1>7. Children(D, R \ {q}, par2, r) = Children(D, R, par, r)
  BY <1>1 DEF Children, Forest
<1> HIDE DEF par2, pos2
<1> QED
  BY <1>5, <1>6, <1>7 DEF Merging, Behind, Same

\* The roots in the middle of mergePairs: those there were, the pairs, and what
\* some of them were melded to.
Tops(s, R0) == R0 \cup ToSet(s.pairs) \cup ({s.top} \ {None})

\* What s has of the heap h it began with.
Kept(s, h, D, R0) ==
    /\ DOMAIN s = {"heap", "rest", "pairs", "top"}
    /\ Fields(s.heap) /\ s.heap.root = h.root /\ s.heap.elem = h.elem /\ Linked(s.heap, D)
    /\ \A x \in R0 : s.heap.next[x] = h.next[x] /\ s.heap.prev[x] = h.prev[x]

\* The pairs and the top are different nodes without right neighbours.
Apart(s, D, R0) ==
    /\ s.rest \in D \cup {None} /\ s.pairs \in Seq(D) /\ s.top \in D \cup {None}
    /\ \A i, j \in DOMAIN s.pairs : i # j => s.pairs[i] # s.pairs[j]
    /\ \A i \in DOMAIN s.pairs :
        s.pairs[i] \notin R0 /\ s.pairs[i] # s.top /\ s.heap.next[s.pairs[i]] = None
    /\ s.top \notin R0 /\ (s.top # None => s.heap.next[s.top] = None)

\* There is work for so many turns only.
Left(s, k, D, R, par, r) ==
    \/ s.rest = None /\ s.pairs = <<>>
    \/ 2 * Cardinality(Children(D, R, par, r)) + Len(s.pairs) + k <= 2 * Cardinality(D)

MergeInv(s, k, h, D, R0, r, Lt) ==
    /\ Kept(s, h, D, R0) /\ Apart(s, D, R0)
    /\ \E par, pos :
        /\ Merging(D, Tops(s, R0), s.heap, r, s.rest, par, pos, Lt)
        /\ Left(s, k, D, Tops(s, R0), par, r)

\* The nodes and links of a heap that is melded.
LEMMA MeldedLinked ==
    ASSUME NEW h, NEW g, NEW D, Linked(h, D), NEW p \in D, NEW q \in D, p # q, Melded(h, g, p, q)
    PROVE  /\ Linked(g, D) /\ g.next[p] = None
           /\ \A x \in D : x # p /\ x # q => g.next[x] = h.next[x]
           /\ \A x \in D : x # p /\ x # q /\ x # h.child[p] => g.prev[x] = h.prev[x]
BY DEF Linked, Melded

\* The siblings are finitely many, and fewer without some of them.
LEMMA FewerChildren ==
    ASSUME NEW D, IsFiniteSet(D), NEW C \in SUBSET D, NEW B, B \subseteq C,
           NEW c \in C, c \notin B
    PROVE  /\ Cardinality(C) \in Nat /\ Cardinality(B) \in Nat /\ Cardinality(D) \in Nat
           /\ Cardinality(B) + 1 <= Cardinality(C) /\ Cardinality(C) <= Cardinality(D)
<1>1. IsFiniteSet(C) /\ Cardinality(C) <= Cardinality(D)
  BY FS_Subset
<1>2. IsFiniteSet(B) /\ Cardinality(B) <= Cardinality(C) /\ Cardinality(C) # Cardinality(B)
  BY <1>1, FS_Subset
<1>3. Cardinality(C) \in Nat /\ Cardinality(B) \in Nat /\ Cardinality(D) \in Nat
  BY <1>1, <1>2, FS_CardinalityType
<1> QED
  BY <1>1, <1>2, <1>3

LEMMA TwoFewer ==
    ASSUME NEW a \in Nat, NEW b \in Nat, NEW l \in Nat, NEW k \in Nat, NEW n \in Nat,
           b + 1 <= a, 2 * a + l + k <= 2 * n
    PROVE  2 * b + (l + 1) + (k + 1) <= 2 * n
OBVIOUS

\* A sequence with a new head has the head and its members.
LEMMA PushToSet ==
    ASSUME NEW S, NEW p \in S, NEW q \in Seq(S)
    PROVE  LET w == <<p>> \o q
           IN  /\ ToSet(w) = ToSet(q) \cup {p}
               /\ w \in Seq(S) /\ Len(w) = Len(q) + 1 /\ w[1] = p /\ 1 \in DOMAIN w
               /\ \A i \in DOMAIN w : i \in Nat /\ (i = 1 \/ (i - 1 \in DOMAIN q /\ w[i] = q[i - 1]))
<1> DEFINE w == <<p>> \o q
<1>1. w \in Seq(S) /\ Len(w) = Len(q) + 1 /\ w[1] = p /\ \A i \in 1..Len(q) : w[i + 1] = q[i]
  OBVIOUS
<1> HIDE DEF w
<1>2. DOMAIN w = 1..(Len(q) + 1) /\ DOMAIN q = 1..Len(q) /\ Len(q) \in Nat
  BY <1>1
<1>3. ASSUME NEW i \in DOMAIN w PROVE i \in Nat /\ (i = 1 \/ (i - 1 \in DOMAIN q /\ w[i] = q[i - 1]))
  <2>1. CASE i = 1
    BY <2>1
  <2>2. CASE i # 1
    <3>1. i - 1 \in 1..Len(q) /\ i = (i - 1) + 1
      BY <2>2, <1>2
    <3>2. w[i] = q[i - 1]
      BY <3>1, <1>1
    <3> QED
      BY <3>1, <3>2, <1>2
  <2> QED
    BY <2>1, <2>2, <1>2
<1>4. ASSUME NEW j \in DOMAIN q PROVE j + 1 \in DOMAIN w /\ w[j + 1] = q[j]
  BY <1>1, <1>2
<1>5. 1 \in DOMAIN w
  BY <1>2
<1>6. ToSet(w) = ToSet(q) \cup {p}
  <2>1. \A x \in ToSet(w) : x \in ToSet(q) \cup {p}
    BY <1>1, <1>3 DEF ToSet
  <2>2. \A x \in ToSet(q) : x \in ToSet(w)
    BY <1>4 DEF ToSet
  <2>3. p \in ToSet(w)
    BY <1>1, <1>5 DEF ToSet
  <2> QED
    BY <2>1, <2>2, <2>3
<1> QED
  BY <1>1, <1>3, <1>5, <1>6 DEF w

\* A node that was in the middle of a tree is put before the pairs.
LEMMA PushApart ==
    ASSUME NEW s, NEW u, NEW D, NEW R0, NEW p \in D, NEW e \in D \cup {None}, None \notin D,
           Apart(s, D, R0), p \notin Tops(s, R0),
           u.pairs = <<p>> \o s.pairs, u.top = s.top, u.rest = e, u.heap.next[p] = None,
           \A x \in Tops(s, R0) : u.heap.next[x] = s.heap.next[x]
    PROVE  Apart(u, D, R0) /\ Same(Tops(u, R0), Tops(s, R0) \cup {p}) /\ Len(u.pairs) = Len(s.pairs) + 1
<1> DEFINE R == Tops(s, R0)
<1>1. s.pairs \in Seq(D) /\ p \notin R
  BY DEF Apart
<1>2. \A i \in DOMAIN s.pairs : s.pairs[i] \notin R0 /\ s.pairs[i] # s.top /\ s.heap.next[s.pairs[i]] = None
  BY DEF Apart
<1>3. /\ ToSet(u.pairs) = ToSet(s.pairs) \cup {p}
      /\ u.pairs \in Seq(D) /\ Len(u.pairs) = Len(s.pairs) + 1 /\ u.pairs[1] = p
      /\ \A i \in DOMAIN u.pairs : i \in Nat /\ (i = 1 \/ (i - 1 \in DOMAIN s.pairs /\ u.pairs[i] = s.pairs[i - 1]))
  BY <1>1, PushToSet
<1>4. \A i \in DOMAIN s.pairs : s.pairs[i] \in R
  BY DEF Tops, ToSet
<1>5. \A i, j \in DOMAIN u.pairs : i # j => u.pairs[i] # u.pairs[j]
  <2>1. \A i, j \in DOMAIN s.pairs : i # j => s.pairs[i] # s.pairs[j]
    BY DEF Apart
  <2>2. ASSUME NEW i \in DOMAIN u.pairs, NEW j \in DOMAIN u.pairs, i # j PROVE u.pairs[i] # u.pairs[j]
    <3>1. CASE i # 1 /\ j # 1
      <4>1. i - 1 # j - 1
        BY <2>2, <1>3
      <4> QED
        BY <3>1, <4>1, <2>1, <2>2, <1>3
    <3>2. CASE i = 1 \/ j = 1
      BY <3>2, <2>2, <1>1, <1>3, <1>4
    <3> QED
      BY <3>1, <3>2
  <2> QED
    BY <2>2
<1>6. s.top # None => s.top \in R /\ s.top \in D
  BY DEF Tops, Apart
<1>7. \A i \in DOMAIN u.pairs : u.pairs[i] \notin R0 /\ u.pairs[i] # u.top /\ u.heap.next[u.pairs[i]] = None
  <2> SUFFICES ASSUME NEW i \in DOMAIN u.pairs
               PROVE u.pairs[i] \notin R0 /\ u.pairs[i] # u.top /\ u.heap.next[u.pairs[i]] = None
    OBVIOUS
  <2>1. CASE i = 1
    BY <2>1, <1>1, <1>3, <1>6 DEF Tops
  <2>2. CASE i # 1
    <3> DEFINE x == s.pairs[i - 1]
    <3>1. i - 1 \in DOMAIN s.pairs /\ u.pairs[i] = x
      BY <2>2, <1>3
    <3>2. x \notin R0 /\ x # s.top /\ s.heap.next[x] = None /\ x \in R
      BY <3>1, <1>2, <1>4
    <3> HIDE DEF x
    <3>3. u.heap.next[x] = None
      BY <3>2
    <3> QED
      BY <3>1, <3>2, <3>3
  <2> QED
    BY <2>1, <2>2
<1>8. s.top # None => u.heap.next[s.top] = None
  BY <1>6 DEF Apart
<1>9. Apart(u, D, R0)
  BY <1>3, <1>5, <1>7, <1>8 DEF Apart
<1>10. Tops(u, R0) = R \cup {p}
  <2> HIDE DEF R
  <2>1. R = R0 \cup ToSet(s.pairs) \cup ({s.top} \ {None})
    BY DEF R, Tops
  <2> QED
    BY <1>3, <2>1 DEF Tops
<1> QED
  BY <1>3, <1>9, <1>10 DEF Same

\* Then there is work for a turn less.
LEMMA PushLeft ==
    ASSUME NEW s, NEW u, NEW k \in Nat, NEW D, IsFiniteSet(D), NEW R, NEW R2, NEW par, NEW par2, NEW r, NEW c,
           Left(s, k, D, R, par, r), s.rest # None, s.pairs \in Seq(D), Len(u.pairs) = Len(s.pairs) + 1,
           Children(D, R2, par2, r) \subseteq Children(D, R, par, r),
           c \in Children(D, R, par, r), c \notin Children(D, R2, par2, r)
    PROVE  Left(u, k + 1, D, R2, par2, r)
<1> DEFINE A == Children(D, R, par, r)
           B == Children(D, R2, par2, r)
<1>1. A \in SUBSET D /\ B \subseteq A /\ c \in A /\ c \notin B
  BY DEF Children
<1>2. 2 * Cardinality(A) + Len(s.pairs) + k <= 2 * Cardinality(D)
  BY DEF Left
<1> HIDE DEF A, B
<1>3. Cardinality(A) \in Nat /\ Cardinality(B) \in Nat /\ Cardinality(D) \in Nat /\ Cardinality(B) + 1 <= Cardinality(A)
  BY <1>1, FewerChildren
<1>4. Len(s.pairs) \in Nat
  OBVIOUS
<1>5. 2 * Cardinality(B) + (Len(s.pairs) + 1) + (k + 1) <= 2 * Cardinality(D)
  BY <1>2, <1>3, <1>4, TwoFewer
<1> QED
  BY <1>5 DEF Left, B

\* A turn that melds two siblings.
LEMMA TurnOfTwo ==
    ASSUME NEW s, NEW k \in Nat, NEW h, NEW D, NEW R0, NEW r \in R0, NEW Lt, IsFiniteSet(D), None \notin D,
           MergeInv(s, k, h, D, R0, r, Lt), NEW precedes, Compares(precedes, h.elem, D, Lt),
           s.rest # None, s.heap.next[s.rest] # None
    PROVE  MergeInv(MergeTurn(s, precedes), k + 1, h, D, R0, r, Lt)
<1> DEFINE c == s.rest
           d == s.heap.next[c]
           R == Tops(s, R0)
           m == Meld(s.heap, precedes, c, d)
           e == s.heap.next[d]
           u == [s EXCEPT !.heap = m.heap, !.pairs = <<m.top>> \o s.pairs, !.rest = e]
<1>1. MergeTurn(s, precedes) = u
  BY DEF MergeTurn
<1>2. PICK par, pos : Merging(D, R, s.heap, r, c, par, pos, Lt) /\ Left(s, k, D, R, par, r)
  BY DEF MergeInv
<1>3. r \in R /\ Linked(s.heap, D) /\ Fields(s.heap) /\ s.heap.elem = h.elem
  BY DEF Tops, MergeInv, Kept
<1>0. c # None /\ d = s.heap.next[c] /\ d # None /\ e = s.heap.next[d]
  OBVIOUS
<1>21. m = Meld(s.heap, precedes, c, d)
  OBVIOUS
<1>22. u = [s EXCEPT !.heap = m.heap, !.pairs = <<m.top>> \o s.pairs, !.rest = e]
  OBVIOUS
<1> HIDE DEF u, m, R, c, d, e
<1>4. c \in D \ R /\ d \in D \ R /\ c # d /\ e \in D \cup {None} /\ {c, d} \subseteq Children(D, R, par, r)
  BY <1>0, <1>2, <1>3, TwoSiblings
<1>5. PICK p \in {c, d}, q \in {c, d} : p # q /\ <<p, q>> \in Lt /\ m.top = p /\ Melded(s.heap, m.heap, p, q)
  BY <1>3, <1>4, <1>21, MeldTwo
<1>7. PICK par2, pos2 :
        /\ Merging(D, R \cup {p}, m.heap, r, e, par2, pos2, Lt)
        /\ Children(D, R \cup {p}, par2, r) = Children(D, R, par, r) \ {c, d}
  <2>1. Merging(D, R, s.heap, r, c, par, pos, Lt) /\ Linked(s.heap, D) /\ r \in R
    BY <1>2, <1>3
  <2>2. p \in {c, d} /\ q \in {c, d} /\ p # q /\ <<p, q>> \in Lt /\ Melded(s.heap, m.heap, p, q)
    BY <1>5
  <2>3. Paired(D, R, s.heap, r, c, d, par, pos, Lt, m.heap, p, q)
    BY <1>0, <2>1, <2>2 DEF Paired
  <2>4. \E par2, pos2 :
            /\ Merging(D, R \cup {p}, m.heap, r, s.heap.next[d], par2, pos2, Lt)
            /\ Same(Children(D, R \cup {p}, par2, r), Children(D, R, par, r) \ {c, d})
    BY ONLY <2>3, PairOfTwo
  <2> QED
    BY <2>4, <1>0 DEF Same
<1>8. /\ DOMAIN u = {"heap", "rest", "pairs", "top"}
      /\ u.heap = m.heap /\ u.pairs = <<p>> \o s.pairs /\ u.rest = e /\ u.top = s.top
  BY <1>5, <1>22 DEF MergeInv, Kept
<1>9. /\ Linked(m.heap, D) /\ m.heap.next[p] = None
      /\ \A x \in D : x # p /\ x # q => m.heap.next[x] = s.heap.next[x]
      /\ \A x \in D : x # p /\ x # q /\ x # s.heap.child[p] => m.heap.prev[x] = s.heap.prev[x]
  <2>1. p \in D /\ q \in D
    BY <1>4, <1>5
  <2> QED
    BY <1>3, <1>5, <2>1, MeldedLinked
<1>10. R0 \subseteq R /\ R \subseteq D /\ (s.heap.child[p] # None => s.heap.child[p] \notin R)
  <2>1. Forest(D, R, [s.heap.child EXCEPT ![r] = c], s.heap.next, Behind(s.heap.prev, r, c), par, pos)
    BY <1>2 DEF Merging
  <2>2. p \in D /\ p # r
    BY <1>3, <1>4, <1>5
  <2>3. [s.heap.child EXCEPT ![r] = c][p] = s.heap.child[p]
    BY <1>3, <2>2 DEF Linked
  <2> QED
    BY <2>1, <2>2, <2>3 DEF Forest, R, Tops
<1>11. Kept(u, h, D, R0)
  <2>1. \A x \in R0 : x \in D /\ x # p /\ x # q /\ x # s.heap.child[p]
    BY <1>4, <1>5, <1>10
  <2>2. /\ s.heap.root = h.root
        /\ \A x \in R0 : s.heap.next[x] = h.next[x] /\ s.heap.prev[x] = h.prev[x]
    BY DEF MergeInv, Kept
  <2>3. Fields(m.heap) /\ m.heap.root = s.heap.root /\ m.heap.elem = s.heap.elem
    BY <1>5 DEF Melded
  <2> QED
    BY <1>3, <1>8, <1>9, <2>1, <2>2, <2>3 DEF Kept
<1>12. s.pairs \in Seq(D) /\ p \in D /\ p \notin R /\ Apart(s, D, R0)
  BY <1>4, <1>5 DEF MergeInv, Apart
<1>13. \A x \in R : m.heap.next[x] = s.heap.next[x]
  <2>1. \A x \in R : x \in D /\ x # p /\ x # q
    BY <1>4, <1>5, <1>10
  <2> QED
    BY <2>1, <1>9
<1>16. Apart(u, D, R0) /\ Tops(u, R0) = R \cup {p} /\ Len(u.pairs) = Len(s.pairs) + 1
  <2>1. Apart(u, D, R0) /\ Same(Tops(u, R0), Tops(s, R0) \cup {p}) /\ Len(u.pairs) = Len(s.pairs) + 1
    <3>1. p \in D /\ e \in D \cup {None} /\ None \notin D /\ Apart(s, D, R0) /\ p \notin Tops(s, R0)
      BY <1>4, <1>12 DEF R
    <3>2. u.pairs = <<p>> \o s.pairs /\ u.top = s.top /\ u.rest = e /\ u.heap.next[p] = None
      BY <1>8, <1>9
    <3>3. \A x \in Tops(s, R0) : u.heap.next[x] = s.heap.next[x]
      BY <1>8, <1>13 DEF R
    <3> QED
      BY ONLY <3>1, <3>2, <3>3, PushApart
  <2> QED
    BY <2>1 DEF R, Same
<1>18. Left(u, k + 1, D, R \cup {p}, par2, r)
  <2>1. c \in Children(D, R, par, r) /\ c \notin Children(D, R \cup {p}, par2, r)
        /\ Children(D, R \cup {p}, par2, r) \subseteq Children(D, R, par, r)
    BY <1>4, <1>7
  <2>2. s.rest # None
    BY DEF c
  <2> QED
    BY <2>1, <2>2, <1>2, <1>12, <1>16, PushLeft
<1> QED
  BY <1>1, <1>7, <1>8, <1>11, <1>16, <1>18 DEF MergeInv

\* A turn that finds one sibling without another.
LEMMA TurnOfOne ==
    ASSUME NEW s, NEW k \in Nat, NEW h, NEW D, NEW R0, NEW r \in R0, NEW Lt, IsFiniteSet(D), None \notin D,
           MergeInv(s, k, h, D, R0, r, Lt), NEW precedes,
           s.rest # None, s.heap.next[s.rest] = None
    PROVE  MergeInv(MergeTurn(s, precedes), k + 1, h, D, R0, r, Lt)
<1> DEFINE c == s.rest
           R == Tops(s, R0)
           u == [s EXCEPT !.heap = s.heap, !.pairs = <<c>> \o s.pairs, !.rest = None]
<1>1. MergeTurn(s, precedes) = u
  <2>1. Meld(s.heap, precedes, c, s.heap.next[c]) = [heap |-> s.heap, top |-> c]
    BY MeldOne
  <2> QED
    BY <2>1 DEF MergeTurn
<1>2. PICK par, pos : Merging(D, R, s.heap, r, c, par, pos, Lt) /\ Left(s, k, D, R, par, r)
  BY DEF MergeInv
<1>3. r \in R /\ Linked(s.heap, D) /\ c # None /\ s.heap.next[c] = None
  BY DEF Tops, MergeInv, Kept
<1>4. u = [s EXCEPT !.heap = s.heap, !.pairs = <<c>> \o s.pairs, !.rest = None] /\ c = s.rest
  OBVIOUS
<1> HIDE DEF u, R, c
<1>5. /\ c \in D \ R
      /\ Merging(D, R \cup {c}, s.heap, r, None, par, pos, Lt)
      /\ Children(D, R \cup {c}, par, r) = Children(D, R, par, r) \ {c}
      /\ c \in Children(D, R, par, r)
  <2>1. Same(Children(D, R \cup {c}, par, r), Children(D, R, par, r) \ {c})
        /\ c \in D \ R /\ Merging(D, R \cup {c}, s.heap, r, None, par, pos, Lt) /\ c \in Children(D, R, par, r)
    BY <1>2, <1>3, PairOfOne
  <2> QED
    BY <2>1 DEF Same
<1>6. /\ DOMAIN u = {"heap", "rest", "pairs", "top"}
      /\ u.heap = s.heap /\ u.pairs = <<c>> \o s.pairs /\ u.rest = None /\ u.top = s.top
  BY <1>4 DEF MergeInv, Kept
<1>7. Kept(u, h, D, R0)
  BY <1>6 DEF MergeInv, Kept
<1>8. Apart(s, D, R0) /\ s.pairs \in Seq(D)
  BY DEF MergeInv, Apart
<1>9. Apart(u, D, R0) /\ Tops(u, R0) = R \cup {c} /\ Len(u.pairs) = Len(s.pairs) + 1
  <2>1. Apart(u, D, R0) /\ Same(Tops(u, R0), Tops(s, R0) \cup {c}) /\ Len(u.pairs) = Len(s.pairs) + 1
    BY <1>3, <1>5, <1>6, <1>8, PushApart DEF R
  <2> QED
    BY <2>1 DEF R, Same
<1>10. Left(u, k + 1, D, R \cup {c}, par, r)
  <2>1. c \in Children(D, R, par, r) /\ c \notin Children(D, R \cup {c}, par, r)
        /\ Children(D, R \cup {c}, par, r) \subseteq Children(D, R, par, r)
    BY <1>5
  <2> QED
    BY <2>1, <1>2, <1>3, <1>4, <1>8, <1>9, PushLeft
<1> QED
  BY <1>1, <1>5, <1>6, <1>7, <1>9, <1>10 DEF MergeInv

\* The tail of a sequence has its members but the head.
LEMMA PopToSet ==
    ASSUME NEW S, NEW q \in Seq(S), q # <<>>
    PROVE  /\ Head(q) = q[1] /\ 1 \in DOMAIN q /\ q[1] \in S /\ Len(q) \in Nat
           /\ Tail(q) \in Seq(S) /\ Len(Tail(q)) = Len(q) - 1 /\ Len(q) - 1 \in Nat
           /\ \A i \in DOMAIN Tail(q) : i \in Nat /\ i # 0 /\ i + 1 \in DOMAIN q /\ Tail(q)[i] = q[i + 1]
           /\ Same(ToSet(q), ToSet(Tail(q)) \cup {q[1]})
<1> DEFINE w == Tail(q)
<1>1. Head(q) = q[1] /\ Len(q) \in Nat /\ Len(q) # 0 /\ DOMAIN q = 1..Len(q)
  OBVIOUS
<1>2. w \in Seq(S) /\ Len(w) = Len(q) - 1 /\ \A i \in 1..(Len(q) - 1) : w[i] = q[i + 1]
  OBVIOUS
<1>3. DOMAIN w = 1..(Len(q) - 1)
  BY <1>1, <1>2
<1> HIDE DEF w
<1>4. 1 \in DOMAIN q /\ q[1] \in S
  BY <1>1
<1>5. \A i \in DOMAIN w : i \in Nat /\ i # 0 /\ i + 1 \in DOMAIN q /\ w[i] = q[i + 1]
  BY <1>1, <1>2, <1>3
<1>6. ASSUME NEW i \in DOMAIN q, i # 1 PROVE i - 1 \in DOMAIN w /\ w[i - 1] = q[i]
  <2>1. i \in 1..Len(q) /\ i - 1 \in 1..(Len(q) - 1) /\ (i - 1) + 1 = i
    BY <1>1, <1>6
  <2>2. w[i - 1] = q[(i - 1) + 1]
    BY ONLY <2>1, <1>2
  <2> QED
    BY <2>1, <2>2, <1>3
<1>7. ToSet(q) = ToSet(w) \cup {q[1]}
  <2>1. \A x \in ToSet(q) : x \in ToSet(w) \cup {q[1]}
    BY <1>6 DEF ToSet
  <2>2. \A x \in ToSet(w) : x \in ToSet(q)
    BY <1>5 DEF ToSet
  <2>3. q[1] \in ToSet(q)
    BY <1>4 DEF ToSet
  <2> QED
    BY <2>1, <2>2, <2>3
<1> QED
  BY <1>1, <1>2, <1>4, <1>5, <1>7 DEF w, Same

\* The last of the pairs is melded to the top, if there is one: x is the top
\* then, and q, if it is a node, is below it.
Popped(s, u, D, R0, x, q) ==
    /\ Apart(s, D, R0) /\ s.pairs # <<>>
    /\ x # None /\ x # q /\ {x, q} = {s.top, Head(s.pairs)}
    /\ u.pairs = Tail(s.pairs) /\ u.top = x /\ u.rest = s.rest /\ u.heap.next[x] = None
    /\ \A y \in D : y # x /\ y # q => u.heap.next[y] = s.heap.next[y]
LEMMA PopApart ==
    ASSUME NEW s, NEW u, NEW D, NEW R0, None \notin D, NEW x, NEW q, Popped(s, u, D, R0, x, q)
    PROVE  /\ Apart(u, D, R0) /\ Same(Tops(u, R0), Tops(s, R0) \ {q}) /\ Len(u.pairs) = Len(s.pairs) - 1
           /\ Len(s.pairs) \in Nat /\ Len(u.pairs) \in Nat
           /\ Head(s.pairs) \in Tops(s, R0) \cap D /\ Head(s.pairs) \notin R0 /\ Head(s.pairs) # s.top
<1>0. /\ Apart(s, D, R0) /\ s.pairs # <<>>
      /\ x # None /\ x # q /\ {x, q} = {s.top, Head(s.pairs)}
      /\ u.pairs = Tail(s.pairs) /\ u.top = x /\ u.rest = s.rest /\ u.heap.next[x] = None
      /\ \A y \in D : y # x /\ y # q => u.heap.next[y] = s.heap.next[y]
  BY DEF Popped
<1> USE <1>0
<1> DEFINE a == Head(s.pairs)
           w == u.pairs
<1>1. s.pairs \in Seq(D) /\ s.rest \in D \cup {None} /\ s.top \in D \cup {None}
      /\ (\A i, j \in DOMAIN s.pairs : i # j => s.pairs[i] # s.pairs[j])
      /\ s.top \notin R0
  BY DEF Apart
<1>2. \A i \in DOMAIN s.pairs : s.pairs[i] \notin R0 /\ s.pairs[i] # s.top /\ s.heap.next[s.pairs[i]] = None
  BY DEF Apart
<1>3. /\ a = s.pairs[1] /\ 1 \in DOMAIN s.pairs /\ s.pairs[1] \in D /\ Len(s.pairs) \in Nat
      /\ w \in Seq(D) /\ Len(w) = Len(s.pairs) - 1 /\ Len(s.pairs) - 1 \in Nat
      /\ \A i \in DOMAIN w : i \in Nat /\ i # 0 /\ i + 1 \in DOMAIN s.pairs /\ w[i] = s.pairs[i + 1]
      /\ Same(ToSet(s.pairs), ToSet(w) \cup {s.pairs[1]})
  <2>1. s.pairs \in Seq(D) /\ s.pairs # <<>>
    BY <1>1
  <2>2. /\ a = s.pairs[1] /\ 1 \in DOMAIN s.pairs /\ s.pairs[1] \in D /\ Len(s.pairs) \in Nat
        /\ Tail(s.pairs) \in Seq(D) /\ Len(Tail(s.pairs)) = Len(s.pairs) - 1 /\ Len(s.pairs) - 1 \in Nat
        /\ \A i \in DOMAIN Tail(s.pairs) :
              i \in Nat /\ i # 0 /\ i + 1 \in DOMAIN s.pairs /\ Tail(s.pairs)[i] = s.pairs[i + 1]
        /\ Same(ToSet(s.pairs), ToSet(Tail(s.pairs)) \cup {s.pairs[1]})
    BY ONLY <2>1, PopToSet DEF a
  <2> QED
    BY <2>2
<1>4. a \in D /\ a \notin R0 /\ a # s.top /\ s.heap.next[a] = None
  BY <1>2, <1>3
<1> HIDE DEF a
<1>5. {x, q} = {s.top, a} /\ x # q
  BY DEF a
<1> HIDE DEF w
<1>6. \A i, j \in DOMAIN w : i # j => w[i] # w[j]
  <2> SUFFICES ASSUME NEW i \in DOMAIN w, NEW j \in DOMAIN w, i # j PROVE w[i] # w[j]
    OBVIOUS
  <2>1. i + 1 # j + 1
    BY <1>3
  <2> QED
    BY <2>1, <1>1, <1>3
<1>7. \A i \in DOMAIN w : /\ w[i] \in D /\ w[i] # a /\ w[i] # s.top /\ w[i] \notin R0 
                          /\ u.heap.next[w[i]] = None
  <2> SUFFICES ASSUME NEW i \in DOMAIN w
               PROVE w[i] \in D /\ w[i] # a /\ w[i] # s.top /\ w[i] \notin R0 /\ u.heap.next[w[i]] = None
    OBVIOUS
  <2>1. i + 1 \in DOMAIN s.pairs /\ i + 1 # 1 /\ w[i] = s.pairs[i + 1]
    BY <1>3
  <2>2. w[i] \in D /\ w[i] # a /\ w[i] # s.top /\ w[i] \notin R0 /\ s.heap.next[w[i]] = None
    BY <2>1, <1>1, <1>2, <1>3
  <2> DEFINE y == w[i]
  <2> HIDE DEF y
  <2>3. y \in D /\ y # x /\ y # q
    BY <2>2, <1>5 DEF y
  <2>4. u.heap.next[y] = s.heap.next[y]
    BY <2>3
  <2> QED
    BY <2>2, <2>4 DEF y
<1>8. ASSUME NEW i \in DOMAIN w PROVE w[i] # u.top
  BY <1>5, <1>7
<1>9. u.top \in D /\ u.top \notin R0 /\ u.heap.next[u.top] = None
  BY <1>1, <1>4, <1>5
<1>10. Apart(u, D, R0)
  BY <1>1, <1>3, <1>6, <1>7, <1>8, <1>9 DEF Apart, w
<1>11. Tops(u, R0) = Tops(s, R0) \ {q}
  <2>1. ToSet(s.pairs) = ToSet(w) \cup {a}
    BY <1>3 DEF Same
  <2>2. \A y \in ToSet(w) : y # a /\ y # s.top
    BY <1>7 DEF ToSet
  <2>3. Tops(s, R0) = R0 \cup ToSet(w) \cup {a} \cup ({s.top} \ {None})
    BY <2>1 DEF Tops
  <2>4. Tops(u, R0) = R0 \cup ToSet(w) \cup {x}
    BY DEF Tops, w
  <2>5. x # None /\ None # a
    BY <1>4
  <2> QED
    BY <2>2, <2>3, <2>4, <2>5, <1>1, <1>4, <1>5
<1>12. a \in Tops(s, R0)
  BY <1>3 DEF Tops, Same
<1> QED
  BY <1>3, <1>4, <1>10, <1>11, <1>12 DEF Same, a, w

LEMMA OnePairLess ==
    ASSUME NEW a \in Nat, NEW l \in Nat, NEW m \in Nat, NEW k \in Nat, NEW n \in Nat,
           m = l - 1, 2 * a + l + k <= 2 * n
    PROVE  2 * a + m + (k + 1) <= 2 * n
OBVIOUS

\* A pair less leaves work for a turn less.
LEMMA PopLeft ==
    ASSUME NEW s, NEW u, NEW k \in Nat, NEW D, IsFiniteSet(D), NEW R, NEW R2, NEW par, NEW par2, NEW r,
           Left(s, k, D, R, par, r), s.pairs # <<>>, Len(s.pairs) \in Nat, Len(u.pairs) \in Nat,
           Len(u.pairs) = Len(s.pairs) - 1,
           Same(Children(D, R2, par2, r), Children(D, R, par, r))
    PROVE  Left(u, k + 1, D, R2, par2, r)
<1>1. Children(D, R2, par2, r) = Children(D, R, par, r) /\ Children(D, R, par, r) \in SUBSET D
  BY DEF Same, Children
<1>2. Cardinality(Children(D, R, par, r)) \in Nat /\ Cardinality(D) \in Nat
  BY <1>1, FS_Subset, FS_CardinalityType
<1>3. 2 * Cardinality(Children(D, R, par, r)) + Len(s.pairs) + k <= 2 * Cardinality(D)
  BY DEF Left
<1>4. 2 * Cardinality(Children(D, R, par, r)) + Len(u.pairs) + (k + 1) <= 2 * Cardinality(D)
  BY <1>2, <1>3, OnePairLess
<1> QED
  BY <1>1, <1>4 DEF Left

\* The turn that takes the first of the pairs to be melded.
LEMMA TurnOfFirst ==
    ASSUME NEW s, NEW k \in Nat, NEW h, NEW D, NEW R0, NEW r \in R0, NEW Lt, IsFiniteSet(D), None \notin D,
           MergeInv(s, k, h, D, R0, r, Lt), NEW precedes,
           s.rest = None, s.pairs # <<>>, s.top = None
    PROVE  MergeInv(MergeTurn(s, precedes), k + 1, h, D, R0, r, Lt)
<1> DEFINE a == Head(s.pairs)
           R == Tops(s, R0)
           u == [s EXCEPT !.heap = s.heap, !.top = a, !.pairs = Tail(s.pairs)]
<1>1. MergeTurn(s, precedes) = u
  <2> DEFINE m == Meld(s.heap, precedes, s.top, a)
  <2>1. m = [heap |-> s.heap, top |-> a]
    BY MeldOne
  <2>2. MergeTurn(s, precedes) = [s EXCEPT !.heap = m.heap, !.top = m.top, !.pairs = Tail(s.pairs)]
    BY DEF MergeTurn
  <2> HIDE DEF m, a
  <2> QED
    BY <2>1, <2>2
<1>2. PICK par, pos : Merging(D, R, s.heap, r, None, par, pos, Lt) /\ Left(s, k, D, R, par, r)
  BY DEF MergeInv
<1>3. Kept(s, h, D, R0) /\ Apart(s, D, R0)
  BY DEF MergeInv
<1>4. /\ DOMAIN u = {"heap", "rest", "pairs", "top"}
      /\ u.heap = s.heap /\ u.pairs = Tail(s.pairs) /\ u.rest = s.rest /\ u.top = a
  BY <1>3 DEF Kept
<1> HIDE DEF u
<1>5. a \in D /\ s.heap.next[a] = None
  <2>1. a = s.pairs[1] /\ 1 \in DOMAIN s.pairs
    BY <1>3, PopToSet DEF Apart
  <2> QED
    BY <2>1, <1>3 DEF Apart
<1>6. /\ Apart(u, D, R0) /\ Same(Tops(u, R0), Tops(s, R0) \ {None}) /\ Len(u.pairs) = Len(s.pairs) - 1
      /\ Len(s.pairs) \in Nat /\ Len(u.pairs) \in Nat
  <2>1. a \in {s.top, Head(s.pairs)} \ {None} /\ {a, None} = {s.top, Head(s.pairs)} /\ a # None
    BY <1>5
  <2>2. u.heap.next[a] = None /\ \A y \in D : y # a /\ y # None => u.heap.next[y] = s.heap.next[y]
    BY <1>4, <1>5
  <2> HIDE DEF a
  <2>3. s.pairs # <<>> /\ None \notin D
    OBVIOUS
  <2>4. Popped(s, u, D, R0, a, None)
    BY ONLY <2>1, <2>2, <2>3, <1>3, <1>4 DEF Popped
  <2> QED
    BY ONLY <2>3, <2>4, PopApart
<1>7. Tops(u, R0) = R
  <2>1. None \notin R
    BY <1>2 DEF Merging, Forest
  <2> QED
    BY <2>1, <1>6 DEF Same
<1>8. Left(u, k + 1, D, R, par, r)
  BY <1>2, <1>6, PopLeft DEF Same
<1>9. Kept(u, h, D, R0)
  BY <1>3, <1>4 DEF Kept
<1> HIDE DEF R
<1> QED
  BY <1>1, <1>2, <1>4, <1>6, <1>7, <1>8, <1>9 DEF MergeInv

\* A turn that melds a pair to the top.
LEMMA TurnOfPair ==
    ASSUME NEW s, NEW k \in Nat, NEW h, NEW D, NEW R0, NEW r \in R0, NEW Lt, IsFiniteSet(D), None \notin D,
           MergeInv(s, k, h, D, R0, r, Lt), NEW precedes, Compares(precedes, h.elem, D, Lt),
           s.rest = None, s.pairs # <<>>, s.top # None
    PROVE  MergeInv(MergeTurn(s, precedes), k + 1, h, D, R0, r, Lt)
<1> DEFINE a == Head(s.pairs)
           t == s.top
           R == Tops(s, R0)
           m == Meld(s.heap, precedes, t, a)
           u == [s EXCEPT !.heap = m.heap, !.top = m.top, !.pairs = Tail(s.pairs)]
<1>1. MergeTurn(s, precedes) = u
  BY DEF MergeTurn
<1>2. PICK par, pos : Merging(D, R, s.heap, r, None, par, pos, Lt) /\ Left(s, k, D, R, par, r)
  BY DEF MergeInv
<1>3. Kept(s, h, D, R0) /\ Apart(s, D, R0)
  BY DEF MergeInv
<1>4. Linked(s.heap, D) /\ Fields(s.heap) /\ s.heap.elem = h.elem
  BY <1>3 DEF Kept
<1>5. a \in D \ R0 /\ a # t /\ t \in D \ R0 /\ a \in R /\ t \in R
  <2>1. a = s.pairs[1] /\ 1 \in DOMAIN s.pairs
    BY <1>3, PopToSet DEF Apart
  <2> QED
    BY <2>1, <1>3 DEF Apart, Tops, ToSet
<1>6. m = Meld(s.heap, precedes, t, a) /\ a = Head(s.pairs) /\ t = s.top
  OBVIOUS
<1>7. u = [s EXCEPT !.heap = m.heap, !.top = m.top, !.pairs = Tail(s.pairs)]
  OBVIOUS
<1> HIDE DEF m, a, t, u
<1>8. PICK p \in {t, a}, q \in {t, a} :
        p # q /\ <<p, q>> \in Lt /\ m.top = p /\ Melded(s.heap, m.heap, p, q)
  <2>1. Fields(s.heap) /\ Compares(precedes, s.heap.elem, D, Lt) /\ None \notin D
    BY <1>4
  <2>2. t \in D /\ a \in D /\ t # a
    BY <1>5
  <2>3. m = Meld(s.heap, precedes, t, a)
    BY <1>6
  <2> QED
    BY ONLY <2>1, <2>2, <2>3, MeldTwo
<1>9. /\ DOMAIN u = {"heap", "rest", "pairs", "top"}
      /\ u.heap = m.heap /\ u.pairs = Tail(s.pairs) /\ u.rest = s.rest /\ u.top = p
  BY <1>3, <1>7, <1>8 DEF Kept
<1>10. p \in D /\ q \in D /\ p \notin R0 /\ q \notin R0 /\ p \in R /\ q \in R /\ p # q
  BY <1>5, <1>8
<1>11. /\ Linked(m.heap, D) /\ m.heap.next[p] = None
       /\ \A x \in D : x # p /\ x # q => m.heap.next[x] = s.heap.next[x]
       /\ \A x \in D : x # p /\ x # q /\ x # s.heap.child[p] => m.heap.prev[x] = s.heap.prev[x]
  BY <1>4, <1>8, <1>10, MeldedLinked
<1>12. /\ Apart(u, D, R0) /\ Same(Tops(u, R0), Tops(s, R0) \ {q}) /\ Len(u.pairs) = Len(s.pairs) - 1
       /\ Len(s.pairs) \in Nat /\ Len(u.pairs) \in Nat
  <2>1. p \in {s.top, Head(s.pairs)} \ {None} /\ {p, q} = {s.top, Head(s.pairs)} /\ p # q
    BY <1>6, <1>8, <1>10
  <2>2. u.heap.next[p] = None /\ \A y \in D : y # p /\ y # q => u.heap.next[y] = s.heap.next[y]
    BY <1>9, <1>11
  <2>3. s.pairs # <<>> /\ None \notin D
    OBVIOUS
  <2>4. Popped(s, u, D, R0, p, q)
    BY ONLY <2>1, <2>2, <2>3, <1>3, <1>9 DEF Popped
  <2> QED
    BY ONLY <2>3, <2>4, PopApart
<1>13. PICK par2, pos2 :
        /\ Merging(D, R \ {q}, m.heap, r, None, par2, pos2, Lt)
        /\ Same(Children(D, R \ {q}, par2, r), Children(D, R, par, r))
  <2>1. r \in R /\ p \in R \ {r} /\ q \in R \ {r}
    BY <1>10 DEF Tops
  <2> HIDE DEF R
  <2> QED
    BY <2>1, <1>2, <1>4, <1>8, MeldPairs
<1>14. Tops(u, R0) = R \ {q}
  BY <1>12 DEF Same
<1> HIDE DEF R
<1>15. Left(u, k + 1, D, R \ {q}, par2, r)
  BY <1>2, <1>12, <1>13, PopLeft
<1>16. Kept(u, h, D, R0)
  <2>1. R0 \subseteq D /\ (s.heap.child[p] # None => s.heap.child[p] \notin R0)
    <3>1. Forest(D, R, [s.heap.child EXCEPT ![r] = None], s.heap.next, s.heap.prev, par, pos)
      BY <1>2 DEF Merging, Behind
    <3>2. [s.heap.child EXCEPT ![r] = None][p] = s.heap.child[p]
      BY <1>4, <1>10 DEF Linked
    <3> QED
      BY <3>1, <3>2, <1>10 DEF Forest, R, Tops
  <2>2. \A x \in R0 : x \in D /\ x # p /\ x # q /\ x # s.heap.child[p]
    BY <2>1, <1>10
  <2>3. /\ s.heap.root = h.root
        /\ \A x \in R0 : s.heap.next[x] = h.next[x] /\ s.heap.prev[x] = h.prev[x]
    BY <1>3 DEF Kept
  <2>4. Fields(m.heap) /\ m.heap.root = s.heap.root /\ m.heap.elem = s.heap.elem
    BY <1>8 DEF Melded
  <2> QED
    BY <1>4, <1>9, <1>11, <2>2, <2>3, <2>4 DEF Kept
<1> QED
  BY <1>1, <1>9, <1>12, <1>13, <1>14, <1>15, <1>16 DEF MergeInv

\* Every turn.
LEMMA TurnKeeps ==
    ASSUME NEW s, NEW k \in Nat, NEW h, NEW D, NEW R0, NEW r \in R0, NEW Lt, IsFiniteSet(D), None \notin D,
           MergeInv(s, k, h, D, R0, r, Lt), NEW precedes, Compares(precedes, h.elem, D, Lt)
    PROVE  MergeInv(MergeTurn(s, precedes), k + 1, h, D, R0, r, Lt)
<1>1. CASE s.rest # None /\ s.heap.next[s.rest] # None
  BY <1>1, TurnOfTwo
<1>2. CASE s.rest # None /\ s.heap.next[s.rest] = None
  BY <1>2, TurnOfOne
<1>3. CASE s.rest = None /\ s.pairs # <<>> /\ s.top = None
  BY <1>3, TurnOfFirst
<1>4. CASE s.rest = None /\ s.pairs # <<>> /\ s.top # None
  BY <1>4, TurnOfPair
<1>5. CASE s.rest = None /\ s.pairs = <<>>
  <2>1. MergeTurn(s, precedes) = s
    BY <1>5 DEF MergeTurn
  <2>2. \A par : Left(s, k + 1, D, Tops(s, R0), par, r)
    BY <1>5 DEF Left
  <2> QED
    BY <2>1, <2>2 DEF MergeInv
<1> QED
  BY <1>1, <1>2, <1>3, <1>4, <1>5

\* Before the first turn all children of r are left.
LEMMA StartKeeps ==
    ASSUME NEW h, NEW D, NEW R0, NEW r \in R0, NEW Lt, IsFiniteSet(D), Fields(h), Linked(h, D),
           NEW par, NEW pos, Forest(D, R0, h.child, h.next, h.prev, par, pos), Ordered(D, R0, par, Lt, r)
    PROVE  MergeInv(Start(h, h.child[r]), 0, h, D, R0, r, Lt)
<1> DEFINE c == h.child[r]
           s == Start(h, c)
<1>1. /\ DOMAIN s = {"heap", "rest", "pairs", "top"}
      /\ s.heap = h /\ s.rest = c /\ s.pairs = <<>> /\ s.top = None
  BY DEF Start
<1>2. None \notin D /\ R0 \subseteq D /\ c \in D \cup {None}
  BY DEF Forest
<1> HIDE DEF s, c
<1>3. Kept(s, h, D, R0)
  BY <1>1 DEF Kept
<1>4. Apart(s, D, R0)
  BY <1>1, <1>2 DEF Apart
<1>5. Tops(s, R0) = R0
  BY <1>1 DEF Tops, ToSet
<1>6. [h.child EXCEPT ![r] = c] = h.child /\ Behind(h.prev, r, c) = h.prev
  BY <1>2 DEF Forest, Behind, c
<1>7. Merging(D, Tops(s, R0), s.heap, r, s.rest, par, pos, Lt)
  BY <1>1, <1>5, <1>6 DEF Merging
<1>8. Left(s, 0, D, Tops(s, R0), par, r)
  <2> DEFINE A == Children(D, R0, par, r)
  <2>1. A \in SUBSET D
    BY DEF Children
  <2> HIDE DEF A
  <2>2. Cardinality(A) \in Nat /\ Cardinality(D) \in Nat /\ Cardinality(A) <= Cardinality(D)
    BY <2>1, FS_Subset, FS_CardinalityType
  <2>3. Len(s.pairs) = 0
    BY <1>1
  <2>4. 2 * Cardinality(A) + Len(s.pairs) + 0 <= 2 * Cardinality(D)
    BY <2>2, <2>3
  <2> QED
    BY <2>4, <1>5 DEF Left, A
<1> QED
  BY <1>3, <1>4, <1>7, <1>8 DEF MergeInv, s, c

\* All turns, however many.
LEMMA TurnsKeep ==
    ASSUME NEW h, NEW D, NEW R0, NEW r \in R0, NEW Lt, IsFiniteSet(D), None \notin D,
           NEW precedes, Compares(precedes, h.elem, D, Lt), NEW n,
           MergeInv(Start(h, n), 0, h, D, R0, r, Lt)
    PROVE  \A k \in Nat : MergeInv(Turns(h, precedes, n)[k], k, h, D, R0, r, Lt)
<1> DEFINE t == Turns(h, precedes, n)
           Bad == {k \in Nat : ~MergeInv(t[k], k, h, D, R0, r, Lt)}
<1>1. t = [k \in Nat |-> IF k = 0 THEN Start(h, n) ELSE MergeTurn(t[k - 1], precedes)]
  BY TurnsExist
<1> HIDE DEF t
<1>2. t[0] = Start(h, n) /\ \A k \in Nat : k # 0 => t[k] = MergeTurn(t[k - 1], precedes)
  BY <1>1
<1>3. ASSUME Bad # {} PROVE FALSE
  <2>1. PICK k \in Bad : \A j \in Bad : k <= j
    <3>1. Bad \in SUBSET Nat
      OBVIOUS
    <3> HIDE DEF Bad
    <3> QED
      BY <3>1, <1>3, LeastNat
  <2>2. k \in Nat /\ k # 0 /\ k - 1 \in Nat /\ k - 1 \notin Bad
    BY <2>1, <1>2
  <2>3. MergeInv(t[k - 1], k - 1, h, D, R0, r, Lt)
    BY <2>2
  <2>4. MergeInv(MergeTurn(t[k - 1], precedes), (k - 1) + 1, h, D, R0, r, Lt)
    BY <2>2, <2>3, TurnKeeps
  <2>5. (k - 1) + 1 = k /\ t[k] = MergeTurn(t[k - 1], precedes)
    BY <2>2, <1>2
  <2>6. MergeInv(t[k], k, h, D, R0, r, Lt)
    BY <2>4, <2>5
  <2> QED
    BY <2>1, <2>6
<1> QED
  BY <1>3 DEF t

\* What mergePairs of the children of r makes of h: g, with the node top over
\* all of them; r has no children left, only a stale link to its first.
Merged(h, g, top, D, R0, r, Lt) ==
    /\ Fields(g) /\ g.root = h.root /\ g.elem = h.elem /\ Linked(g, D)
    /\ top \in (D \ R0) \cup {None} /\ (top # None => g.next[top] = None /\ g.prev[top] = None)
    /\ \A x \in R0 : g.next[x] = h.next[x] /\ g.prev[x] = h.prev[x]
    /\ \E par, pos :
        /\ Forest(D, R0 \cup ({top} \ {None}), [g.child EXCEPT ![r] = None], g.next, g.prev, par, pos)
        /\ Ordered(D, R0 \cup ({top} \ {None}), par, Lt, None)
        /\ \A n \in D \ (R0 \cup ({top} \ {None})) : par[n] # r

LEMMA NothingLeft ==
    ASSUME NEW a \in Nat, NEW l \in Nat, NEW n \in Nat, 2 * a + l + 2 * n <= 2 * n
    PROVE  a = 0 /\ l = 0
OBVIOUS

LEMMA MergePairsMerges ==
    ASSUME NEW h, NEW D, NEW R0, NEW r \in R0, NEW Lt, IsFiniteSet(D), Fields(h), Linked(h, D),
           DOMAIN h.elem = D, NEW precedes, Compares(precedes, h.elem, D, Lt),
           NEW par0, NEW pos0, Forest(D, R0, h.child, h.next, h.prev, par0, pos0), Ordered(D, R0, par0, Lt, r)
    PROVE  LET m == MergePairs(h, precedes, h.child[r])
           IN  DOMAIN m = {"heap", "rest", "pairs", "top"} /\ Merged(h, m.heap, m.top, D, R0, r, Lt)
<1> DEFINE c == h.child[r]
           k == 2 * Cardinality(D)
           s == Turns(h, precedes, c)[k]
           m == MergePairs(h, precedes, c)
<1>1. None \notin D /\ R0 \subseteq D
  BY DEF Forest
<1>2. Cardinality(D) \in Nat /\ k \in Nat
  BY FS_CardinalityType
<1>3. m = IF s.top = None THEN s ELSE [s EXCEPT !.heap.prev[s.top] = None]
  BY MergePairsTurns
<1>4. MergeInv(s, k, h, D, R0, r, Lt)
  <2>1. MergeInv(Start(h, c), 0, h, D, R0, r, Lt)
    BY StartKeeps
  <2> HIDE DEF c, k
  <2> QED
    BY <2>1, <1>1, <1>2, TurnsKeep
<1> HIDE DEF s, m
<1>5. Kept(s, h, D, R0) /\ Apart(s, D, R0)
  BY <1>4 DEF MergeInv
<1>6. PICK par, pos : /\ Merging(D, Tops(s, R0), s.heap, r, s.rest, par, pos, Lt)
                      /\ Left(s, k, D, Tops(s, R0), par, r)
  BY <1>4 DEF MergeInv
<1>7. s.rest = None /\ s.pairs = <<>>
  <2> SUFFICES ASSUME ~(s.rest = None /\ s.pairs = <<>>) PROVE FALSE
    OBVIOUS
  <2> DEFINE A == Children(D, Tops(s, R0), par, r)
             l == Len(s.pairs)
  <2>1. 2 * Cardinality(A) + l + 2 * Cardinality(D) <= 2 * Cardinality(D)
    BY <1>6 DEF Left
  <2>2. A \in SUBSET D /\ l \in Nat /\ (l = 0 => s.pairs = <<>>)
    BY <1>5 DEF Children, Apart
  <2> HIDE DEF A, l
  <2>3. IsFiniteSet(A) /\ Cardinality(A) \in Nat
    BY <2>2, FS_Subset, FS_CardinalityType
  <2>4. Cardinality(A) = 0 /\ l = 0
    BY <2>1, <2>2, <2>3, <1>2, NothingLeft
  <2>5. A = {}
    BY <2>3, <2>4, FS_EmptySet
  <2>6. s.rest # None => s.rest \in A
    <3>1. Forest(D, Tops(s, R0), [s.heap.child EXCEPT ![r] = s.rest], s.heap.next,
                 Behind(s.heap.prev, r, s.rest), par, pos)
      BY <1>6 DEF Merging
    <3>2. [s.heap.child EXCEPT ![r] = s.rest][r] = s.rest /\ r \in D
      BY <1>1, <1>5 DEF Kept, Linked
    <3> QED
      BY <3>1, <3>2, <1>5 DEF Forest, A, Children, Apart
  <2> QED
    BY <2>2, <2>4, <2>5, <2>6
<1> DEFINE R == R0 \cup ({s.top} \ {None})
           f == [s.heap.child EXCEPT ![r] = None]
<1>8. Tops(s, R0) = R
  BY <1>7 DEF Tops, ToSet
<1>9. Forest(D, R, f, s.heap.next, s.heap.prev, par, pos) /\ Ordered(D, R, par, Lt, r)
  BY <1>6, <1>7, <1>8 DEF Merging, Behind
<1>10. \A n \in D \ R : par[n] # r
  <2>1. f[r] = None /\ r \in D
    BY <1>1, <1>5 DEF Kept, Linked
  <2> HIDE DEF R, f
  <2> QED
    BY <2>1, <1>9, Childless
<1>11. Ordered(D, R, par, Lt, None)
  BY <1>9, <1>10 DEF Ordered
<1>12. /\ s.heap.root = h.root /\ s.heap.elem = h.elem /\ Fields(s.heap) /\ Linked(s.heap, D)
       /\ s.top \in (D \ R0) \cup {None} /\ (s.top # None => s.heap.next[s.top] = None)
       /\ \A x \in R0 : s.heap.next[x] = h.next[x] /\ s.heap.prev[x] = h.prev[x]
       /\ DOMAIN s = {"heap", "rest", "pairs", "top"}
  BY <1>1, <1>5 DEF Kept, Apart
<1>13. CASE s.top = None
  <2>1. m = s
    BY <1>13, <1>3
  <2>2. Merged(h, s.heap, s.top, D, R0, r, Lt)
    BY <1>13, <1>9, <1>10, <1>11, <1>12 DEF Merged
  <2> QED
    BY <2>1, <2>2, <1>12 DEF m
<1>14. CASE s.top # None
  <2> DEFINE top == s.top
             pv == [s.heap.prev EXCEPT ![top] = None]
             g == [s.heap EXCEPT !.prev = pv]
  <2>1. m = [s EXCEPT !.heap = g]
    BY <1>14, <1>3
  <2>2. DOMAIN m = {"heap", "rest", "pairs", "top"} /\ m.heap = g /\ m.top = s.top
    BY <2>1, <1>12
  <2>3. /\ Fields(g) /\ g.root = s.heap.root /\ g.elem = s.heap.elem
        /\ g.child = s.heap.child /\ g.next = s.heap.next /\ g.prev = pv
    BY <1>12 DEF Fields
  <2> HIDE DEF g
  <2>4. top \in D \ R0 /\ pv \in [D -> D \cup {None}] /\ pv[top] = None /\ \A x \in D : x # top => pv[x] = s.heap.prev[x]
    BY <1>12, <1>14 DEF Linked
  <2> HIDE DEF pv
  <2>5. Linked(g, D)
    BY <2>3, <2>4, <1>12 DEF Linked
  <2>6. Forest(D, R, f, g.next, g.prev, par, pos)
    <3>1. s.heap.next \in [D -> D \cup {None}]
      BY <1>12 DEF Linked
    <3>2. \A n \in D \ R : pv[n] = s.heap.prev[n]
      BY <2>4, <1>14
    <3> HIDE DEF R, f
    <3> QED
      BY <3>1, <3>2, <2>3, <2>4, <1>9, RootLinks
  <2>7. \A x \in R0 : g.next[x] = h.next[x] /\ g.prev[x] = h.prev[x]
    BY <2>3, <2>4, <1>1, <1>12
  <2>8. Merged(h, g, top, D, R0, r, Lt)
    <3>1. [g.child EXCEPT ![r] = None] = f
      BY <2>3
    <3> QED
      BY <3>1, <2>3, <2>4, <2>5, <2>6, <2>7, <1>10, <1>11, <1>12 DEF Merged
  <2> QED
    BY <2>2, <2>8 DEF m
<1> QED
  BY <1>13, <1>14

-----------------------------------------------------------------------------
(* The operations *)

\* A heap of the nodes D, in the order Lt but for the children of x.
Sound(h, D, Lt, x) ==
    /\ Fields(h) /\ Linked(h, D) /\ DOMAIN h.elem = D
    /\ h.root \in D \cup {None} /\ (h.root # None => h.next[h.root] = None /\ h.prev[h.root] = None)
    /\ \E par, pos :
        /\ Forest(D, {h.root} \ {None}, h.child, h.next, h.prev, par, pos)
        /\ Ordered(D, {h.root} \ {None}, par, Lt, x)

\* Links that make two trees, with the roots a and b, or one, if a or b is None.
TwoTrees(g, a, b, D, Lt) ==
    /\ Fields(g) /\ Linked(g, D) /\ DOMAIN g.elem = D
    /\ a \in D \cup {None} /\ b \in D \cup {None} /\ (a = b => a = None)
    /\ a = None \/ b = None => \A x \in {a, b} \ {None} : g.next[x] = None /\ g.prev[x] = None
    /\ \E par, pos :
        /\ Forest(D, {a, b} \ {None}, g.child, g.next, g.prev, par, pos)
        /\ Ordered(D, {a, b} \ {None}, par, Lt, None)

\* Melded, they are a heap.
LEMMA MeldSound ==
    ASSUME NEW g, NEW a, NEW b, NEW D, NEW Lt, NEW precedes, TwoTrees(g, a, b, D, Lt),
           Compares(precedes, g.elem, D, Lt)
    PROVE  LET m == Meld(g, precedes, a, b)
           IN  Sound([m.heap EXCEPT !.root = m.top], D, Lt, None) /\ m.heap.elem = g.elem
<1> DEFINE m == Meld(g, precedes, a, b)
           R == {a, b} \ {None}
           u == [m.heap EXCEPT !.root = m.top]
<1>0. m = Meld(g, precedes, a, b) /\ u = [m.heap EXCEPT !.root = m.top]
  OBVIOUS
<1>1. /\ Fields(g) /\ Linked(g, D) /\ DOMAIN g.elem = D
      /\ a \in D \cup {None} /\ b \in D \cup {None} /\ (a = b => a = None)
      /\ a = None \/ b = None => \A x \in {a, b} \ {None} : g.next[x] = None /\ g.prev[x] = None
  BY DEF TwoTrees
<1>2. PICK par, pos : Forest(D, R, g.child, g.next, g.prev, par, pos) /\ Ordered(D, R, par, Lt, None)
  BY DEF TwoTrees
<1>3. None \notin D
  BY <1>2 DEF Forest
<1> HIDE DEF m, u
<1>4. CASE a = None \/ b = None
  <2> DEFINE t == IF a = None THEN b ELSE a
  <2>1. m = [heap |-> g, top |-> t]
    BY <1>4, MeldOne DEF m
  <2>2. R = {t} \ {None} /\ t \in D \cup {None} /\ (t # None => g.next[t] = None /\ g.prev[t] = None)
    BY <1>1, <1>4
  <2> HIDE DEF t, R
  <2>3. /\ Fields(u) /\ u.root = t /\ u.elem = g.elem
        /\ u.child = g.child /\ u.next = g.next /\ u.prev = g.prev
    BY <1>0, <1>1, <2>1 DEF Fields
  <2> QED
    BY <1>1, <1>2, <2>1, <2>2, <2>3 DEF Sound, Linked, m, u
<1>5. CASE a # None /\ b # None
  <2>1. a \in D /\ b \in D /\ a # b /\ R = {a, b}
    BY <1>1, <1>5
  <2>2. PICK p \in {a, b}, q \in {a, b} : p # q /\ <<p, q>> \in Lt /\ m.top = p /\ Melded(g, m.heap, p, q)
    BY <1>1, <1>3, <2>1, MeldTwo DEF m
  <2>3. p \in R /\ q \in R /\ p \in D /\ q \in D /\ R \ {q} = {p} /\ p # None /\ q # None
    BY <1>3, <2>1, <2>2
  <2> HIDE DEF R
  <2>4. \E par2, pos2 :
            /\ Forest(D, R \ {q}, m.heap.child, m.heap.next, m.heap.prev, par2, pos2)
            /\ Ordered(D, R \ {q}, par2, Lt, None)
    <3> DEFINE k == m.heap
    <3>1. Forest(D, R, g.child, g.next, g.prev, par, pos) /\ Ordered(D, R, par, Lt, None)
      BY <1>2
    <3>2. p \in R /\ q \in R /\ p # q /\ <<p, q>> \in Lt /\ None # q /\ Melded(g, k, p, q)
      BY <2>2, <2>3
    <3> HIDE DEF k
    <3>3. \E par2, pos2 :
            /\ Forest(D, R \ {q}, k.child, k.next, k.prev, par2, pos2)
            /\ Ordered(D, R \ {q}, par2, Lt, None)
      BY ONLY <3>1, <3>2, MeldForest
    <3> QED
      BY <3>3 DEF k
  <2>5. Linked(m.heap, D) /\ m.heap.next[p] = None
    BY <1>1, <2>2, <2>3, MeldedLinked
  <2>6. m.heap.prev[p] = None
    BY <1>1, <2>2, <2>3 DEF Melded, Linked
  <2>7. /\ Fields(u) /\ u.root = p /\ u.elem = g.elem /\ m.heap.elem = g.elem
        /\ u.child = m.heap.child /\ u.next = m.heap.next /\ u.prev = m.heap.prev
    BY <1>0, <2>2 DEF Fields, Melded
  <2>8. R \ {q} = {p} \ {None}
    BY <2>3
  <2>9. \E par2, pos2 :
            /\ Forest(D, {p} \ {None}, m.heap.child, m.heap.next, m.heap.prev, par2, pos2)
            /\ Ordered(D, {p} \ {None}, par2, Lt, None)
    BY <2>4, <2>8
  <2> QED
    BY <1>1, <2>3, <2>5, <2>6, <2>7, <2>9 DEF Sound, Linked, m, u
<1> QED
  BY <1>4, <1>5

\* add: the new node is melded with the root.
LEMMA AddSound ==
    ASSUME NEW h, NEW D, NEW Lt, Sound(h, D, Lt, None), NEW n, n \notin D, n # None, NEW e, NEW precedes,
           NEW elem, elem = [m \in D \cup {n} |-> IF m = n THEN e ELSE h.elem[m]],
           Compares(precedes, elem, D \cup {n}, Lt)
    PROVE  LET g == HeapAdd(h, precedes, n, e)
           IN  Sound(g, D \cup {n}, Lt, None) /\ g.elem = elem
<1> DEFINE plus(f, v) == [m \in D \cup {n} |-> IF m = n THEN v ELSE f[m]]
           with(f, v) == [m \in DOMAIN f \cup {n} |-> IF m = n THEN v ELSE f[m]]
           E == D \cup {n}
           k == [h EXCEPT !.elem = with(h.elem, e), !.child = with(h.child, None),
                          !.next = with(h.next, None), !.prev = with(h.prev, None)]
           R == {h.root} \ {None}
<1>1. /\ Fields(h) /\ Linked(h, D) /\ DOMAIN h.elem = D
      /\ h.root \in D \cup {None} /\ (h.root # None => h.next[h.root] = None /\ h.prev[h.root] = None)
  BY DEF Sound
<1>2. PICK par, pos : Forest(D, R, h.child, h.next, h.prev, par, pos) /\ Ordered(D, R, par, Lt, None)
  BY DEF Sound
<1>3. None \notin D /\ R \subseteq D
  BY <1>2 DEF Forest
<1>4. DOMAIN h.child = D /\ DOMAIN h.next = D /\ DOMAIN h.prev = D
  BY <1>1 DEF Linked
<1>5. /\ Fields(k) /\ k.root = h.root /\ k.elem = elem
      /\ k.child = plus(h.child, None) /\ k.next = plus(h.next, None) /\ k.prev = plus(h.prev, None)
  BY <1>1, <1>4 DEF Fields
<1> DEFINE m == Meld(k, precedes, h.root, n)
<1>6. HeapAdd(h, precedes, n, e) = [m.heap EXCEPT !.root = m.top]
  BY DEF HeapAdd
<1>7. Forest(E, R \cup {n}, plus(h.child, None), plus(h.next, None), plus(h.prev, None), plus(par, n), plus(pos, 0))
  <2> HIDE DEF R
  <2> QED
    BY <1>2, AddForest
<1>8. R \cup {n} = {h.root, n} \ {None}
  OBVIOUS
<1>9. Ordered(E, {h.root, n} \ {None}, plus(par, n), Lt, None)
  BY <1>2, <1>8 DEF Ordered
<1>10. TwoTrees(k, h.root, n, E, Lt)
  <2>1. Linked(k, E) /\ DOMAIN k.elem = E
    <3> HIDE DEF R, k
    <3> QED
      BY <1>5, <1>7 DEF Linked, Forest
  <2>2. h.root = None => k.next[n] = None /\ k.prev[n] = None
    BY <1>5
  <2>3. h.root \in E \cup {None} /\ n \in E /\ h.root # n /\ n # None
    BY <1>1
  <2>4. \E par2, pos2 :
            /\ Forest(E, {h.root, n} \ {None}, k.child, k.next, k.prev, par2, pos2)
            /\ Ordered(E, {h.root, n} \ {None}, par2, Lt, None)
    <3> HIDE DEF E, plus, k, R
    <3> QED
      BY <1>5, <1>7, <1>8, <1>9
  <2> HIDE DEF E, k, R, plus
  <2> QED
    BY <1>5, <2>1, <2>2, <2>3, <2>4 DEF TwoTrees
<1> HIDE DEF k, R, plus
<1>11. Sound([m.heap EXCEPT !.root = m.top], E, Lt, None) /\ m.heap.elem = k.elem
  BY <1>5, <1>10, MeldSound
<1>12. [m.heap EXCEPT !.root = m.top].elem = elem
  BY <1>5, <1>11 DEF Sound
<1> QED
  BY <1>6, <1>11, <1>12

\* pop: the children of the root are merged, and the root goes.
LEMMA PopSound ==
    ASSUME NEW h, NEW D, IsFiniteSet(D), NEW Lt, Sound(h, D, Lt, None), h.root # None,
           NEW precedes, Compares(precedes, h.elem, D, Lt)
    PROVE  LET g == HeapPop(h, precedes)
           IN  Sound(g, D \ {h.root}, Lt, None) /\ Alike(D \ {h.root}, g.elem, h.elem)
<1> DEFINE r == h.root
           E == D \ {r}
           on(f) == [m \in E |-> f[m]]
           m == MergePairs(h, precedes, h.child[r])
           g == m.heap
           t == m.top
           k == [g EXCEPT !.root = t]
           u == HeapPop(h, precedes)
<1>1. /\ Fields(h) /\ Linked(h, D) /\ DOMAIN h.elem = D /\ r \in D /\ {h.root} \ {None} = {r}
  BY DEF Sound
<1>2. PICK par0, pos0 : Forest(D, {r}, h.child, h.next, h.prev, par0, pos0) /\ Ordered(D, {r}, par0, Lt, None)
  BY <1>1 DEF Sound
<1>3. None \notin D
  BY <1>2 DEF Forest
<1>4. Merged(h, g, t, D, {r}, r, Lt)
  <2>1. Ordered(D, {r}, par0, Lt, r) /\ r \in {r}
    BY <1>2, <1>3 DEF Ordered, Forest
  <2> HIDE DEF r
  <2> QED
    BY <1>1, <1>2, <2>1, MergePairsMerges
<1>5. u = Unlink(k, r)
  BY DEF HeapPop
<1> HIDE DEF m, g, t, u, r
<1>6. /\ Fields(g) /\ g.elem = h.elem /\ Linked(g, D) /\ t \in E \cup {None}
      /\ (t # None => g.next[t] = None /\ g.prev[t] = None)
  BY <1>4 DEF Merged
<1> DEFINE R == {r} \cup ({t} \ {None})
           f == [g.child EXCEPT ![r] = None]
<1>7. PICK par, pos :
        /\ Forest(D, R, f, g.next, g.prev, par, pos)
        /\ Ordered(D, R, par, Lt, None)
        /\ \A n \in D \ R : par[n] # r
  BY <1>4 DEF Merged
<1>8. \E q, qos :
        /\ Forest(D \ {r}, R \ {r}, on(g.child), on(g.next), on(g.prev), q, qos)
        /\ Alike(D \ R, q, par)
  <2>1. r \in R /\ \A i \in R \ {r} : g.next[i] # r /\ g.prev[i] # r
    BY <1>1, <1>3, <1>6
  <2>2. Without(D, r, f, on(g.child)) /\ Without(D, r, g.next, on(g.next)) /\ Without(D, r, g.prev, on(g.prev))
    BY <1>6 DEF Linked, Without
  <2> HIDE DEF R, f, on
  <2> QED
    BY ONLY <1>7, <2>1, <2>2, RemoveForest
<1>9. /\ Fields(u) /\ u.root = t /\ u.elem = on(h.elem)
      /\ u.child = on(g.child) /\ u.next = on(g.next) /\ u.prev = on(g.prev)
  <2>1. Fields(k) /\ k.root = t /\ k.elem = h.elem /\ k.child = g.child /\ k.next = g.next /\ k.prev = g.prev
    BY <1>6 DEF Fields
  <2> HIDE DEF k
  <2>2. DOMAIN k.elem = D /\ DOMAIN k.child = D /\ DOMAIN k.next = D /\ DOMAIN k.prev = D
    BY <1>1, <1>6, <2>1 DEF Linked
  <2> QED
    BY <1>5, <2>1, <2>2 DEF Unlink, Restrict, Fields
<1>10. R \ {r} = {t} \ {None}
  BY <1>6
<1>11. PICK q, qos :
        /\ Forest(E, {t} \ {None}, on(g.child), on(g.next), on(g.prev), q, qos)
        /\ Alike(D \ R, q, par)
  <2> HIDE DEF R
  <2> QED
    BY <1>8, <1>10
<1>12. Ordered(E, {t} \ {None}, q, Lt, None)
  BY <1>7, <1>11 DEF Ordered, Alike
<1>13. Linked(u, E)
  BY <1>9, <1>11 DEF Linked, Forest
<1>14. t # None => u.next[t] = None /\ u.prev[t] = None
  BY <1>6, <1>9
<1>15. DOMAIN u.elem = E
  BY <1>9
<1>16. Sound(u, E, Lt, None)
  <2> HIDE DEF E, on
  <2> QED
    BY <1>6, <1>9, <1>11, <1>12, <1>13, <1>14, <1>15 DEF Sound
<1>17. Alike(E, u.elem, h.elem)
  BY <1>9 DEF Alike
<1> QED
  BY <1>16, <1>17 DEF u, r

\* A node that is not the root is cut off: the rest of the heap is a tree, and
\* what is below the node another one.
Cut(h, g, D, n, Lt, x) ==
    /\ Fields(g) /\ Linked(g, D) /\ g.elem = h.elem /\ g.root = h.root
    /\ h.root \in D \ {n} /\ g.next[h.root] = None /\ g.prev[h.root] = None
    /\ \E par, pos :
        /\ Forest(D, {h.root, n}, g.child, g.next, g.prev, par, pos)
        /\ Ordered(D, {h.root, n}, par, Lt, x)
LEMMA DetachCuts ==
    ASSUME NEW h, NEW D, NEW Lt, NEW n \in D, h.root \in D \ {n}, NEW x,
           Fields(h), Linked(h, D), h.next[h.root] = None, h.prev[h.root] = None,
           NEW par, NEW pos, Forest(D, {h.root}, h.child, h.next, h.prev, par, pos),
           Ordered(D, {h.root, n}, par, Lt, x)
    PROVE  Cut(h, Detach(h, n), D, n, Lt, x)
<1> DEFINE left == h.prev[n]
           right == h.next[n]
           f == IF h.child[left] = n THEN [h.child EXCEPT ![left] = right] ELSE h.child
           nx == IF h.child[left] = n THEN h.next ELSE [h.next EXCEPT ![left] = right]
           pv == IF right = None THEN h.prev ELSE [h.prev EXCEPT ![right] = left]
           g == Detach(h, n)
<1>1. n \in D \ {h.root}
  OBVIOUS
<1>2. left \in D /\ (h.child[left] # n => left # h.root) /\ (right # None => right # h.root)
  BY <1>1 DEF Forest
<1>3. Forest(D, {h.root} \cup {n}, f, nx, pv, par, pos)
  BY <1>1, DetachForest
<1>4. None \notin D
  BY DEF Forest
<1>5. /\ Fields(g) /\ g.elem = h.elem /\ g.root = h.root /\ g.child = f /\ g.next = nx /\ g.prev = pv
  BY <1>2, <1>4 DEF Fields, Detach
<1> HIDE DEF g
<1>6. nx[h.root] = None /\ pv[h.root] = None
  BY <1>2
<1>7. {h.root} \cup {n} = {h.root, n}
  OBVIOUS
<1> HIDE DEF f, nx, pv
<1>8. Linked(g, D)
  BY <1>3, <1>5 DEF Linked, Forest
<1> QED
  BY <1>3, <1>5, <1>6, <1>7, <1>8 DEF Cut, g

\* The node that was deleted loses its links; it is a tree of its own then.
Cleared(w, p, n) == [w EXCEPT !.root = p, !.child[n] = None, !.prev[n] = None, !.next[n] = None]
Clearable(w, p, n, D, par, pos, Lt) ==
    /\ n \in D /\ p \in D \cup {None} /\ p # n
    /\ Fields(w) /\ Linked(w, D) /\ DOMAIN w.elem = D
    /\ Forest(D, {p, n} \ {None}, [w.child EXCEPT ![n] = None], w.next, w.prev, par, pos)
    /\ Ordered(D, {p, n} \ {None}, par, Lt, None)
LEMMA ClearTwoTrees ==
    ASSUME NEW w, NEW p, NEW n, NEW D, NEW par, NEW pos, NEW Lt, Clearable(w, p, n, D, par, pos, Lt)
    PROVE  /\ TwoTrees(Cleared(w, p, n), p, n, D, Lt)
           /\ Cleared(w, p, n).root = p /\ Cleared(w, p, n).elem = w.elem
<1>0. /\ n \in D /\ p \in D \cup {None} /\ p # n
      /\ Fields(w) /\ Linked(w, D) /\ DOMAIN w.elem = D
      /\ Forest(D, {p, n} \ {None}, [w.child EXCEPT ![n] = None], w.next, w.prev, par, pos)
      /\ Ordered(D, {p, n} \ {None}, par, Lt, None)
  BY DEF Clearable
<1> USE <1>0
<1> DEFINE k == [w EXCEPT !.root = p, !.child[n] = None, !.prev[n] = None, !.next[n] = None]
           R == {p, n} \ {None}
           f == [w.child EXCEPT ![n] = None]
           nx == [w.next EXCEPT ![n] = None]
           pv == [w.prev EXCEPT ![n] = None]
<1>1. /\ Fields(k) /\ k.root = p /\ k.elem = w.elem
      /\ k.child = f /\ k.next = nx /\ k.prev = pv
  BY DEF Fields
<1>2. None \notin D /\ n \in R
  BY DEF Forest
<1>3. nx \in [D -> D \cup {None}] /\ pv \in [D -> D \cup {None}] /\ f \in [D -> D \cup {None}]
  BY DEF Linked
<1>4. \A i \in D \ R : nx[i] = w.next[i] /\ pv[i] = w.prev[i]
  BY <1>2
<1>5. nx[n] = None /\ pv[n] = None
  BY DEF Linked
<1> HIDE DEF k, R, f, nx, pv
<1>6. Forest(D, R, f, w.next, w.prev, par, pos)
  BY DEF R, f
<1>7. Forest(D, R, f, nx, pv, par, pos)
  BY <1>3, <1>4, <1>6, RootLinks
<1>8. Ordered(D, R, par, Lt, None)
  BY DEF R
<1>9. Linked(k, D) /\ DOMAIN k.elem = D
  BY <1>1, <1>3 DEF Linked
<1>10. p = None \/ n = None => \A x \in {p, n} \ {None} : k.next[x] = None /\ k.prev[x] = None
  BY <1>1, <1>2, <1>5
<1>11. TwoTrees(k, p, n, D, Lt)
  BY <1>1, <1>7, <1>8, <1>9, <1>10 DEF TwoTrees, R
<1> QED
  BY <1>1, <1>11 DEF k, Cleared

\* deleteNode of the root: its children are merged.
LEMMA DeleteRoot ==
    ASSUME NEW h, NEW D, IsFiniteSet(D), NEW Lt, NEW n \in D, Sound(h, D, Lt, n), n = h.root,
           NEW precedes, Compares(precedes, h.elem, D, Lt)
    PROVE  LET k == DeleteNode(h, precedes, n)
           IN  TwoTrees(k, k.root, n, D, Lt) /\ k.elem = h.elem
<1> DEFINE m == MergePairs(h, precedes, h.child[n])
           w == m.heap
           p == m.top
           k == [w EXCEPT !.root = p, !.child[n] = None, !.prev[n] = None, !.next[n] = None]
<1>1. DeleteNode(h, precedes, n) = k
  BY DEF DeleteNode
<1>2. Fields(h) /\ Linked(h, D) /\ DOMAIN h.elem = D /\ n \in {n}
  BY DEF Sound
<1>3. PICK par0, pos0 : Forest(D, {n} \ {None}, h.child, h.next, h.prev, par0, pos0) /\ Ordered(D, {n} \ {None}, par0, Lt, n)
  BY DEF Sound
<1>4. None \notin D /\ {n} \ {None} = {n}
  BY <1>3 DEF Forest
<1>5. Forest(D, {n}, h.child, h.next, h.prev, par0, pos0) /\ Ordered(D, {n}, par0, Lt, n)
  BY <1>3, <1>4
<1>6. Merged(h, w, p, D, {n}, n, Lt)
  BY <1>2, <1>5, MergePairsMerges
<1> HIDE DEF m, w, p
<1>7. Fields(w) /\ Linked(w, D) /\ w.elem = h.elem /\ p \in D \cup {None} /\ p # n
  BY <1>4, <1>6 DEF Merged
<1> DEFINE R == {n} \cup ({p} \ {None})
<1>8. PICK par, pos :
        /\ Forest(D, R, [w.child EXCEPT ![n] = None], w.next, w.prev, par, pos)
        /\ Ordered(D, R, par, Lt, None)
  BY <1>6 DEF Merged
<1>9. R = {p, n} \ {None}
  BY <1>4
<1> HIDE DEF R, k
<1>10. TwoTrees(k, p, n, D, Lt) /\ k.root = p /\ k.elem = w.elem
  <2>1. /\ Forest(D, {p, n} \ {None}, [w.child EXCEPT ![n] = None], w.next, w.prev, par, pos)
        /\ Ordered(D, {p, n} \ {None}, par, Lt, None) /\ DOMAIN w.elem = D
    BY <1>2, <1>7, <1>8, <1>9
  <2> QED
    <3>1. Clearable(w, p, n, D, par, pos, Lt)
      BY <2>1, <1>7 DEF Clearable
    <3>2. k = Cleared(w, p, n)
      BY DEF k, Cleared
    <3> QED
      BY ONLY <3>1, <3>2, ClearTwoTrees
<1> QED
  BY <1>1, <1>7, <1>10

\* deleteNode of another node: it is cut off, its children are merged and what
\* they become is melded with the root.
LEMMA DeleteOther ==
    ASSUME NEW h, NEW D, IsFiniteSet(D), NEW Lt, NEW n \in D, Sound(h, D, Lt, n), h.root \in D \ {n},
           NEW precedes, Compares(precedes, h.elem, D, Lt)
    PROVE  LET k == DeleteNode(h, precedes, n)
           IN  TwoTrees(k, k.root, n, D, Lt) /\ k.elem = h.elem
<1> DEFINE r == h.root
           d == Detach(h, n)
           m == MergePairs(d, precedes, d.child[n])
           g == m.heap
           t == m.top
           all == Meld(g, precedes, r, t)
           w == all.heap
           k == [w EXCEPT !.root = all.top, !.child[n] = None, !.prev[n] = None, !.next[n] = None]
<1>1. DeleteNode(h, precedes, n) = k
  BY DEF DeleteNode
<1>2. /\ Fields(h) /\ Linked(h, D) /\ DOMAIN h.elem = D
      /\ h.next[h.root] = None /\ h.prev[h.root] = None
  <2>1. \E par, pos : Forest(D, {h.root} \ {None}, h.child, h.next, h.prev, par, pos)
    BY DEF Sound
  <2> QED
    BY <2>1 DEF Sound, Forest
<1>3. PICK par0, pos0 : /\ Forest(D, {h.root} \ {None}, h.child, h.next, h.prev, par0, pos0)
                        /\ Ordered(D, {h.root} \ {None}, par0, Lt, n)
  BY DEF Sound
<1>4. None \notin D /\ {h.root} \ {None} = {h.root} /\ r # None /\ n # None
  BY <1>3 DEF Forest
<1>5. Cut(h, d, D, n, Lt, n)
  <2>1. Forest(D, {h.root}, h.child, h.next, h.prev, par0, pos0)
    BY <1>3, <1>4
  <2>2. Ordered(D, {h.root, n}, par0, Lt, n)
    BY <1>3, <1>4 DEF Ordered
  <2> HIDE DEF r
  <2> QED
    BY <1>2, <2>1, <2>2, DetachCuts
<1>6. Fields(d) /\ Linked(d, D) /\ DOMAIN d.elem = D /\ d.elem = h.elem
  BY <1>2, <1>5 DEF Cut
<1>7. PICK par1, pos1 : /\ Forest(D, {r, n}, d.child, d.next, d.prev, par1, pos1)
                        /\ Ordered(D, {r, n}, par1, Lt, n)
  BY <1>5 DEF Cut
<1>8. Merged(d, g, t, D, {r, n}, n, Lt)
  <2>1. n \in {r, n} /\ Compares(precedes, d.elem, D, Lt)
    BY <1>6
  <2> HIDE DEF d, r
  <2> QED
    BY <1>6, <1>7, <2>1, MergePairsMerges
<1>20. all = Meld(g, precedes, r, t)
  OBVIOUS
<1> HIDE DEF m, g, t, d, all
<1>9. Fields(g) /\ Linked(g, D) /\ g.elem = h.elem /\ t \in D \cup {None} /\ t # n /\ t # r /\ r \in D /\ r # n
  BY <1>4, <1>6, <1>8 DEF Merged
<1> DEFINE R == {r, n} \cup ({t} \ {None})
           f == [g.child EXCEPT ![n] = None]
<1>10. PICK par, pos :
        /\ Forest(D, R, f, g.next, g.prev, par, pos)
        /\ Ordered(D, R, par, Lt, None)
  BY <1>8 DEF Merged
<1> HIDE DEF r
<1>11. CASE t = None
  <2>1. all = [heap |-> g, top |-> r] /\ w = g
    BY <1>11, <1>4, <1>20, MeldOne
  <2>2. R = {r, n} \ {None}
    BY <1>4, <1>9, <1>11
  <2>3. Forest(D, {r, n} \ {None}, [w.child EXCEPT ![n] = None], w.next, w.prev, par, pos)
        /\ Ordered(D, {r, n} \ {None}, par, Lt, None)
    BY <1>10, <2>1, <2>2
  <2>4. Fields(w) /\ Linked(w, D) /\ DOMAIN w.elem = D /\ w.elem = h.elem /\ r \in D \cup {None}
    BY <1>2, <1>9, <2>1
  <2> DEFINE k2 == [w EXCEPT !.root = r, !.child[n] = None, !.prev[n] = None, !.next[n] = None]
  <2> HIDE DEF w
  <2>5. TwoTrees(k2, r, n, D, Lt) /\ k2.root = r /\ k2.elem = w.elem
    <3>1. Clearable(w, r, n, D, par, pos, Lt)
      BY <2>3, <2>4, <1>9 DEF Clearable
    <3>2. k2 = Cleared(w, r, n)
      BY DEF Cleared
    <3> HIDE DEF k2
    <3> QED
      BY ONLY <3>1, <3>2, ClearTwoTrees
  <2>6. k = k2
    BY <2>1
  <2> HIDE DEF k, k2
  <2> QED
    BY <1>1, <2>4, <2>5, <2>6
<1>12. CASE t # None
  <2>1. PICK p \in {r, t}, q \in {r, t} : p # q /\ <<p, q>> \in Lt /\ all.top = p /\ Melded(g, w, p, q)
    <3>1. Fields(g) /\ Compares(precedes, g.elem, D, Lt) /\ None \notin D /\ r \in D /\ t \in D /\ r # t
      BY <1>4, <1>9, <1>12
    <3> QED
      BY ONLY <3>1, <1>20, MeldTwo
  <2>2. p \in D /\ q \in D /\ p # n /\ q # n /\ p # None /\ q # None
    BY <1>4, <1>9, <1>12, <2>1
  <2>3. Linked(w, D)
    BY <1>9, <2>1, <2>2, MeldedLinked
  <2> HIDE DEF w
  <2> DEFINE gc == [g EXCEPT !.child = f]
             wc == [w EXCEPT !.child = [w.child EXCEPT ![n] = None]]
  <2>4. Fields(w) /\ w.elem = h.elem
    BY <1>9, <2>1 DEF Melded
  <2>5. /\ Fields(gc) /\ gc.root = g.root /\ gc.elem = g.elem
        /\ gc.child = f /\ gc.next = g.next /\ gc.prev = g.prev
    BY <1>9 DEF Fields
  <2>6. /\ Fields(wc) /\ wc.root = w.root /\ wc.elem = w.elem
        /\ wc.child = [w.child EXCEPT ![n] = None] /\ wc.next = w.next /\ wc.prev = w.prev
    BY <2>4 DEF Fields
  <2> HIDE DEF gc, wc
  <2>7. f[p] = g.child[p] /\ [w.child EXCEPT ![n] = None] = [f EXCEPT ![p] = q]
    BY <1>9, <2>1, <2>2 DEF Melded, Linked
  <2>8. Melded(gc, wc, p, q)
    <3> HIDE DEF f
    <3> QED
      BY <2>1, <2>5, <2>6, <2>7 DEF Melded
  <2>9. p \in R /\ q \in R /\ R \ {q} = {p, n} \ {None}
    BY <1>4, <1>9, <1>12, <2>1, <2>2
  <2> HIDE DEF R, f
  <2>10. \E par2, pos2 :
            /\ Forest(D, R \ {q}, wc.child, wc.next, wc.prev, par2, pos2)
            /\ Ordered(D, R \ {q}, par2, Lt, None)
    <3>1. Forest(D, R, gc.child, gc.next, gc.prev, par, pos) /\ Ordered(D, R, par, Lt, None)
      BY <1>10, <2>5
    <3>2. p \in R /\ q \in R /\ p # q /\ <<p, q>> \in Lt /\ None # q
      BY <2>1, <2>2, <2>9
    <3> QED
      BY ONLY <3>1, <3>2, <2>8, MeldForest
  <2>11. PICK par2, pos2 :
            /\ Forest(D, {p, n} \ {None}, [w.child EXCEPT ![n] = None], w.next, w.prev, par2, pos2)
            /\ Ordered(D, {p, n} \ {None}, par2, Lt, None)
    BY <2>6, <2>9, <2>10
  <2> DEFINE k2 == [w EXCEPT !.root = p, !.child[n] = None, !.prev[n] = None, !.next[n] = None]
  <2>12. TwoTrees(k2, p, n, D, Lt) /\ k2.root = p /\ k2.elem = w.elem
    <3>1. p \in D \cup {None} /\ p # n /\ DOMAIN w.elem = D
      BY <1>2, <2>2, <2>4
    <3>2. Clearable(w, p, n, D, par2, pos2, Lt)
      BY <3>1, <2>3, <2>4, <2>11 DEF Clearable
    <3>3. k2 = Cleared(w, p, n)
      BY DEF Cleared
    <3> HIDE DEF k2
    <3> QED
      BY ONLY <3>2, <3>3, ClearTwoTrees
  <2>13. k = k2
    BY <2>1
  <2> HIDE DEF k, k2
  <2> QED
    BY <1>1, <2>4, <2>12, <2>13
<1> QED
  BY <1>11, <1>12, <1>9

\* decreasePriority: the node is deleted and melded with the root again.
LEMMA DecreaseSound ==
    ASSUME NEW h, NEW D, IsFiniteSet(D), NEW Lt, NEW n \in D, Sound(h, D, Lt, n), h.root \in D,
           NEW precedes, Compares(precedes, h.elem, D, Lt)
    PROVE  LET g == DecreasePriority(h, precedes, n)
           IN  Sound(g, D, Lt, None) /\ g.elem = h.elem
<1> DEFINE k == DeleteNode(h, precedes, n)
           m == Meld(k, precedes, k.root, n)
           g == DecreasePriority(h, precedes, n)
<1>1. TwoTrees(k, k.root, n, D, Lt) /\ k.elem = h.elem
  BY DeleteRoot, DeleteOther
<1>2. g = [m.heap EXCEPT !.root = m.top]
  BY DEF DecreasePriority
<1> HIDE DEF k, g
<1>3. Sound([m.heap EXCEPT !.root = m.top], D, Lt, None) /\ m.heap.elem = k.elem
  BY <1>1, MeldSound
<1> HIDE DEF m
<1>4. g.elem = m.heap.elem
  BY <1>2, <1>3 DEF Sound, Fields
<1> QED
  BY <1>1, <1>2, <1>3, <1>4 DEF g

\* Only the node n may precede its parent.
Raised(h, D, n, Lt, par, pos) ==
    /\ n \in D /\ h.root \in D /\ Fields(h) /\ Linked(h, D) /\ DOMAIN h.elem = D
    /\ h.next[h.root] = None /\ h.prev[h.root] = None
    /\ Forest(D, {h.root}, h.child, h.next, h.prev, par, pos)
    /\ Ordered(D, {h.root, n}, par, Lt, None)
\* increasePriority: unless it is below its parent still, the node is cut off
\* and melded with the root.
LEMMA IncreaseSound ==
    ASSUME NEW h, NEW D, NEW Lt, NEW n, NEW par, NEW pos, Raised(h, D, n, Lt, par, pos),
           NEW precedes, Compares(precedes, h.elem, D, Lt)
    PROVE  LET g == IncreasePriority(h, precedes, n)
           IN  Sound(g, D, Lt, None) /\ g.elem = h.elem
<1> DEFINE parent == h.prev[n]
           stays == n = h.root \/ (h.child[parent] = n /\ <<h.elem[parent], h.elem[n]>> \in precedes)
           d == Detach(h, n)
           m == Meld(d, precedes, h.root, n)
           g == IncreasePriority(h, precedes, n)
<1>0. /\ n \in D /\ h.root \in D /\ Fields(h) /\ Linked(h, D) /\ DOMAIN h.elem = D
      /\ h.next[h.root] = None /\ h.prev[h.root] = None
      /\ Forest(D, {h.root}, h.child, h.next, h.prev, par, pos)
      /\ Ordered(D, {h.root, n}, par, Lt, None)
  BY DEF Raised
<1> USE <1>0
<1>1. None \notin D /\ {h.root} \ {None} = {h.root}
  BY DEF Forest
<1>2. CASE stays
  <2>1. g = h
    BY <1>2 DEF IncreasePriority
  <2>2. n # h.root => par[n] = parent /\ parent \in D /\ <<parent, n>> \in Lt
    <3> SUFFICES ASSUME n # h.root PROVE par[n] = parent /\ parent \in D /\ <<parent, n>> \in Lt
      OBVIOUS
    <3>1. h.child[parent] = n /\ <<h.elem[parent], h.elem[n]>> \in precedes
      BY <1>2
    <3>2. par[n] = parent /\ parent \in D
      BY <1>1, <3>1 DEF Forest
    <3>3. <<parent, n>> \in Lt
      BY <3>1, <3>2 DEF Compares
    <3> QED
      BY <3>2, <3>3
  <2>3. Ordered(D, {h.root}, par, Lt, None)
    BY <2>2 DEF Ordered
  <2>4. Sound(h, D, Lt, None)
    BY <2>3, <1>1 DEF Sound
  <2> QED
    BY <2>1, <2>4
<1>3. CASE ~stays
  <2>1. g = [m.heap EXCEPT !.root = m.top]
    BY <1>3 DEF IncreasePriority
  <2>2. Cut(h, d, D, n, Lt, None)
    <3>1. h.root \in D \ {n}
      BY <1>3
    <3> QED
      BY <3>1, DetachCuts
  <2>3. d.elem = h.elem
    BY <2>2 DEF Cut
  <2> HIDE DEF d, g
  <2>4. TwoTrees(d, h.root, n, D, Lt)
    <3>1. {h.root, n} \ {None} = {h.root, n} /\ h.root # None /\ n # None /\ h.root # n
      BY <1>1, <1>3
    <3> QED
      BY <3>1, <2>2 DEF TwoTrees, Cut
  <2>5. Sound([m.heap EXCEPT !.root = m.top], D, Lt, None) /\ m.heap.elem = d.elem
    BY <2>3, <2>4, MeldSound
  <2> HIDE DEF m
  <2>6. g.elem = m.heap.elem
    BY <2>1, <2>5 DEF Sound, Fields
  <2> QED
    BY <2>1, <2>3, <2>5, <2>6 DEF g
<1> QED
  BY <1>2, <1>3

-----------------------------------------------------------------------------
(* The queue *)

\* The comparator is a strict total order, since numbers differ.
LEMMA BeforeTotal ==
    ASSUME NEW s \in [Elements -> Nat], NEW e \in Elements, NEW f \in Elements, NEW g \in Elements
    PROVE  /\ <<e, f>> \in Before(s) <=> Precedes(s, e, f)
           /\ <<e, e>> \notin Before(s)
           /\ <<e, f>> \in Before(s) /\ <<f, g>> \in Before(s) => <<e, g>> \in Before(s)
           /\ e # f => <<e, f>> \in Before(s) \/ <<f, e>> \in Before(s)
<1>1. e \in Nat /\ f \in Nat /\ g \in Nat
  BY HeapQueueAssumption
<1>2. s[e] \in Nat /\ s[f] \in Nat /\ s[g] \in Nat
  OBVIOUS
<1>3. \A x, y \in Elements : <<x, y>> \in Before(s) <=> Precedes(s, x, y)
  BY DEF Before
<1>4. ~Precedes(s, e, e)
  BY <1>1, <1>2 DEF Precedes
<1>5. Precedes(s, e, f) /\ Precedes(s, f, g) => Precedes(s, e, g)
  BY <1>1, <1>2 DEF Precedes
<1>6. e # f => Precedes(s, e, f) \/ Precedes(s, f, e)
  BY <1>1, <1>2 DEF Precedes
<1> QED
  BY <1>3, <1>4, <1>5, <1>6

LEMMA BeforeCompares ==
    ASSUME NEW s \in [Elements -> Nat], NEW D \in SUBSET Elements, NEW elem, \A n \in D : elem[n] = n
    PROVE  Compares(Before(s), elem, D, Before(s))
<1>1. \A x, y, z \in D :
        /\ <<x, x>> \notin Before(s)
        /\ <<x, y>> \in Before(s) /\ <<y, z>> \in Before(s) => <<x, z>> \in Before(s)
        /\ x # y => <<x, y>> \in Before(s) \/ <<y, x>> \in Before(s)
  BY BeforeTotal
<1> QED
  BY <1>1 DEF Compares

\* The inductive invariant: the links make one tree, and every parent in it
\* precedes its children.
HeapInv ==
    /\ DOMAIN heap.elem \in SUBSET Elements /\ IsFiniteSet(DOMAIN heap.elem)
    /\ \A n \in DOMAIN heap.elem : heap.elem[n] = n
    /\ Sound(heap, DOMAIN heap.elem, Before(priority), None)
    /\ priority \in [Elements -> Priorities]

\* In such a heap the root precedes all other nodes.
LEMMA RootFirst ==
    ASSUME NEW h, NEW D, IsFiniteSet(D), NEW Lt, Sound(h, D, Lt, None), NEW precedes, NEW elem,
           Compares(precedes, elem, D, Lt)
    PROVE  /\ D # {} => h.root \in D
           /\ None \notin D
           /\ \A n \in D \ {h.root} : <<h.root, n>> \in Lt
<1>1. PICK par, pos : /\ Forest(D, {h.root} \ {None}, h.child, h.next, h.prev, par, pos)
                      /\ Ordered(D, {h.root} \ {None}, par, Lt, None)
  BY DEF Sound
<1>2. None \notin D /\ h.root \in D \cup {None} /\ par \in [D -> D]
  BY <1>1 DEF Forest, Sound
<1>3. Strict(Lt, D)
  BY DEF Compares, Strict
<1>4. CASE h.root = None
  <2>1. D \in SUBSET D /\ Orphans(D, par, Lt)
    BY <1>1, <1>2, <1>4 DEF Ordered, Orphans
  <2>2. D = {}
    BY <2>1, <1>3, NoOrphans
  <2> QED
    BY <2>2
<1>5. CASE h.root # None
  <2> DEFINE X == {n \in D \ {h.root} : <<h.root, n>> \notin Lt}
  <2>1. ASSUME NEW n \in X PROVE par[n] \in X /\ <<par[n], n>> \in Lt
    <3>1. <<par[n], n>> \in Lt /\ par[n] \in D
      BY <1>1, <1>2, <1>5 DEF Ordered
    <3>2. par[n] # h.root /\ h.root \in D /\ n \in D
      BY <3>1, <1>2, <1>5
    <3>3. <<h.root, par[n]>> \notin Lt
      BY <3>1, <3>2, <1>3 DEF Strict
    <3> QED
      BY <3>1, <3>2, <3>3
  <2>2. X \in SUBSET D /\ Orphans(X, par, Lt)
    BY <2>1 DEF Orphans
  <2> HIDE DEF X
  <2>3. X = {}
    BY <2>2, <1>3, NoOrphans
  <2> QED
    BY <2>3, <1>2, <1>5 DEF X
<1> QED
  BY <1>4, <1>5

\* And child and next lead to all of them.
LEMMA AllReached ==
    ASSUME NEW h, NEW D, IsFiniteSet(D), NEW Lt, Sound(h, D, Lt, None), NEW precedes, NEW elem,
           Compares(precedes, elem, D, Lt)
    PROVE  WellLinked(h) /\ HeapNodes(h) = D
<1> DEFINE R == {h.root} \ {None}
<1>1. PICK par, pos : Forest(D, R, h.child, h.next, h.prev, par, pos) /\ Ordered(D, R, par, Lt, None)
  BY DEF Sound
<1>2. /\ DOMAIN h.elem = D /\ h.root \in D \cup {None}
      /\ (h.root # None => h.next[h.root] = None /\ h.prev[h.root] = None)
  BY DEF Sound
<1>3. None \notin D
  BY <1>1 DEF Forest
<1>4. ASSUME NEW S \in SUBSET D, {h.root} \subseteq S \cup {None},
             \A n \in S : {h.child[n], h.next[n]} \subseteq S \cup {None}
      PROVE  S = D
  <2> DEFINE X == D \ S
  <2>1. R \cap X = {}
    BY <1>4
  <2>2. ASSUME NEW n \in X PROVE par[n] \in X /\ <<par[n], n>> \in Lt
    <3>1. n \in D \ R /\ <<par[n], n>> \in Lt /\ par[n] \in D
      BY <2>1, <1>1, <1>3 DEF Ordered, Forest
    <3>2. ASSUME par[n] \in S PROVE FALSE
      <4> DEFINE p == par[n]
                 C == {m \in X : par[m] = p}
      <4>1. C \in SUBSET (D \ R) /\ n \in C /\ \A m \in C : par[m] = p
        BY <2>1, <3>1
      <4>2. ASSUME NEW m \in C, h.prev[m] # par[m] \/ h.child[par[m]] # m PROVE h.prev[m] \in C
        <5>1. m \in D \ R /\ m \notin S /\ par[m] = p
          BY <4>1
        <5>2. h.prev[m] # None /\ h.prev[m] \notin R /\ h.next[h.prev[m]] = m /\ par[h.prev[m]] = p
          BY <5>1, <4>2, <1>1 DEF Forest
        <5>3. h.prev[m] \in D
          BY <5>1, <5>2, <1>1 DEF Forest
        <5>4. h.prev[m] \notin S
          BY <5>1, <5>2, <1>3, <1>4
        <5> QED
          BY <5>2, <5>3, <5>4
      <4>5. Siblings(C, p, h.child, h.prev, par)
        BY <4>1, <4>2 DEF Siblings
      <4> HIDE DEF C, R, X, p
      <4>3. h.child[p] \in C
        BY <4>1, <4>5, <1>1, Leftmost
      <4>4. h.child[p] \notin S /\ h.child[p] # None
        BY <4>1, <4>3, <1>3 DEF C, X
      <4> QED
        BY <4>4, <3>2, <1>4 DEF p
    <3> QED
      BY <3>1, <3>2
  <2>3. X \in SUBSET D /\ Orphans(X, par, Lt)
    BY <2>2 DEF Orphans
  <2> HIDE DEF X
  <2>4. X = {}
    <3>1. Strict(Lt, D)
      BY DEF Compares, Strict
    <3> QED
      BY <2>3, <3>1, NoOrphans
  <2> QED
    BY <2>4 DEF X
<1>5. HeapNodes(h) = D
  BY <1>2, <1>4 DEF HeapNodes
<1>6. WellLinked(h)
  BY <1>1, <1>2, <1>5 DEF WellLinked, Forest
<1> QED
  BY <1>5, <1>6

-----------------------------------------------------------------------------
(* The invariant *)

\* The order among elements whose priority stays is the same.
LEMMA SameOrder ==
    ASSUME NEW s \in [Elements -> Nat], NEW t \in [Elements -> Nat],
           NEW e \in Elements, NEW f \in Elements, s[e] = t[e], s[f] = t[f]
    PROVE  <<e, f>> \in Before(s) <=> <<e, f>> \in Before(t)
<1>1. <<e, f>> \in Before(s) <=> Precedes(s, e, f)
  BY BeforeTotal
<1>2. <<e, f>> \in Before(t) <=> Precedes(t, e, f)
  BY BeforeTotal
<1> QED
  BY <1>1, <1>2 DEF Precedes

LEMMA PrioritiesChange ==
    ASSUME NEW s \in [Elements -> Priorities], NEW e \in Elements, NEW p \in Priorities
    PROVE  /\ s \in [Elements -> Nat]
           /\ [s EXCEPT ![e] = p] \in [Elements -> Priorities] /\ [s EXCEPT ![e] = p] \in [Elements -> Nat]
           /\ [s EXCEPT ![e] = p][e] = p /\ \A f \in Elements : f # e => [s EXCEPT ![e] = p][f] = s[f]
BY HeapQueueAssumption

LEMMA HeapInitInv ==
    ASSUME HeapInit
    PROVE  HeapInv
<1>1. heap = EmptyHeap
  BY DEF HeapInit
<1>2. /\ DOMAIN heap.elem = {} /\ heap.root = None /\ Fields(heap)
      /\ heap.child \in [{} -> {None}] /\ heap.next \in [{} -> {None}] /\ heap.prev \in [{} -> {None}]
  BY <1>1 DEF EmptyHeap, Fields
<1>3. (CHOOSE p \in Priorities : TRUE) \in Priorities
  BY HeapQueueAssumption
<1>4. priority \in [Elements -> Priorities]
  BY <1>3 DEF HeapInit
<1>5. IsFiniteSet(DOMAIN heap.elem)
  BY <1>2, FS_EmptySet
<1>6. Sound(heap, {}, Before(priority), None)
  <2> DEFINE none == [n \in {} |-> None]
  <2>1. {} \cup {None} = {None} /\ {heap.root} \ {None} = {}
    BY <1>2
  <2>2. Forest({}, {}, heap.child, heap.next, heap.prev, none, none)
    BY <1>2, <2>1 DEF Forest
  <2>3. Ordered({}, {}, none, Before(priority), None)
    BY DEF Ordered
  <2>4. Linked(heap, {})
    BY <1>2, <2>1 DEF Linked
  <2>5. heap.root \in {} \cup {None} /\ heap.root = None
    BY <1>2
  <2> HIDE DEF none
  <2> QED
    BY <1>2, <2>1, <2>2, <2>3, <2>4, <2>5 DEF Sound
<1> QED
  BY <1>2, <1>4, <1>5, <1>6 DEF HeapInv

LEMMA AddKeeps ==
    ASSUME HeapInv, NEW e \in Elements, NEW p \in Priorities, AddElement(e, p)
    PROVE  HeapInv' /\ DOMAIN heap'.elem = DOMAIN heap.elem \cup {e}
<1> DEFINE D == DOMAIN heap.elem
           elem == [m \in D \cup {e} |-> IF m = e THEN e ELSE heap.elem[m]]
<1>1. e \notin D /\ priority' = [priority EXCEPT ![e] = p] /\ heap' = HeapAdd(heap, Before(priority'), e, e)
  BY DEF AddElement
<1>2. /\ D \in SUBSET Elements /\ IsFiniteSet(D) /\ \A n \in D : heap.elem[n] = n
      /\ Sound(heap, D, Before(priority), None) /\ priority \in [Elements -> Priorities]
  BY DEF HeapInv
<1>3. /\ priority \in [Elements -> Nat] /\ priority' \in [Elements -> Nat] /\ priority' \in [Elements -> Priorities]
      /\ \A f \in Elements : f # e => priority'[f] = priority[f]
  BY <1>1, <1>2, PrioritiesChange
<1> HIDE DEF D
<1>4. D \cup {e} \in SUBSET Elements /\ IsFiniteSet(D \cup {e}) /\ e # None
  BY <1>2, FS_AddElement, HeapQueueAssumption
<1>5. \A n \in D \cup {e} : elem[n] = n
  BY <1>2
<1>6. Compares(Before(priority'), elem, D \cup {e}, Before(priority'))
  <2> HIDE DEF elem
  <2> QED
    BY <1>3, <1>4, <1>5, BeforeCompares
<1>7. Sound(heap, D, Before(priority'), None)
  <2>1. \A x, y \in D : <<x, y>> \in Before(priority') <=> <<x, y>> \in Before(priority)
    <3> SUFFICES ASSUME NEW x \in D, NEW y \in D
                 PROVE <<x, y>> \in Before(priority') <=> <<x, y>> \in Before(priority)
      OBVIOUS
    <3>1. x \in Elements /\ y \in Elements /\ priority'[x] = priority[x] /\ priority'[y] = priority[y]
      BY <1>1, <1>2, <1>3 DEF D
    <3> QED
      BY <1>3, <3>1, SameOrder
  <2>2. PICK par, pos : /\ Forest(D, {heap.root} \ {None}, heap.child, heap.next, heap.prev, par, pos)
                        /\ Ordered(D, {heap.root} \ {None}, par, Before(priority), None)
    BY <1>2 DEF Sound
  <2>3. Ordered(D, {heap.root} \ {None}, par, Before(priority'), None)
    BY <2>1, <2>2 DEF Ordered, Forest
  <2> QED
    BY <1>2, <2>2, <2>3 DEF Sound
<1>8. Sound(heap', D \cup {e}, Before(priority'), None) /\ heap'.elem = elem
  <2>1. e \notin D
    BY <1>1
  <2>2. elem = [m \in D \cup {e} |-> IF m = e THEN e ELSE heap.elem[m]]
    OBVIOUS
  <2> HIDE DEF elem
  <2> QED
    BY <1>1, <1>4, <1>6, <1>7, <2>1, <2>2, AddSound
<1>9. DOMAIN heap'.elem = D \cup {e}
  BY <1>8
<1> HIDE DEF elem
<1> QED
  BY <1>3, <1>4, <1>5, <1>8, <1>9 DEF HeapInv, D

LEMMA PopKeeps ==
    ASSUME HeapInv, PopElement
    PROVE  /\ HeapInv' /\ heap.root \in DOMAIN heap.elem /\ popped' = heap.root
           /\ DOMAIN heap'.elem = DOMAIN heap.elem \ {heap.root}
<1> DEFINE D == DOMAIN heap.elem
           r == heap.root
<1>1. r # None /\ priority' = priority /\ heap' = HeapPop(heap, Before(priority)) /\ popped' = heap.elem[r]
  BY DEF PopElement, IsEmptyHeap, Peek
<1>2. /\ D \in SUBSET Elements /\ IsFiniteSet(D) /\ \A n \in D : heap.elem[n] = n
      /\ Sound(heap, D, Before(priority), None) /\ priority \in [Elements -> Priorities]
  BY DEF HeapInv
<1>3. r \in D
  BY <1>1, <1>2 DEF Sound
<1>4. priority \in [Elements -> Nat]
  BY <1>2, HeapQueueAssumption
<1> HIDE DEF D
<1>5. Compares(Before(priority), heap.elem, D, Before(priority))
  BY <1>2, <1>4, BeforeCompares
<1>6. Sound(heap', D \ {r}, Before(priority), None) /\ Alike(D \ {r}, heap'.elem, heap.elem)
  BY <1>1, <1>2, <1>5, PopSound
<1>7. DOMAIN heap'.elem = D \ {r} /\ \A n \in D \ {r} : heap'.elem[n] = n
  BY <1>2, <1>6 DEF Sound, Alike
<1>8. IsFiniteSet(D \ {r}) /\ D \ {r} \in SUBSET Elements
  BY <1>2, FS_RemoveElement
<1>9. HeapInv'
  BY <1>1, <1>2, <1>6, <1>7, <1>8 DEF HeapInv
<1> QED
  BY <1>1, <1>2, <1>3, <1>7, <1>9 DEF D

LEMMA ChangeKeeps ==
    ASSUME HeapInv, NEW e \in Elements, NEW p \in Priorities, ChangeScore(e, p)
    PROVE  HeapInv' /\ DOMAIN heap'.elem = DOMAIN heap.elem
<1> DEFINE D == DOMAIN heap.elem
           R == {heap.root} \ {None}
           Lt == Before(priority)
           Lt2 == Before(priority')
<1>1. /\ e \in D /\ p # priority[e] /\ priority' = [priority EXCEPT ![e] = p]
      /\ p < priority[e] => heap' = DecreasePriority(heap, Lt2, e)
      /\ ~(p < priority[e]) => heap' = IncreasePriority(heap, Lt2, e)
  BY DEF ChangeScore
<1>2. /\ D \in SUBSET Elements /\ IsFiniteSet(D) /\ \A n \in D : heap.elem[n] = n
      /\ Sound(heap, D, Lt, None) /\ priority \in [Elements -> Priorities]
  BY DEF HeapInv
<1>3. /\ priority \in [Elements -> Nat] /\ priority' \in [Elements -> Nat] /\ priority' \in [Elements -> Priorities]
      /\ priority'[e] = p /\ (\A f \in Elements : f # e => priority'[f] = priority[f])
  BY <1>1, <1>2, PrioritiesChange
<1> HIDE DEF D
<1>4. Compares(Lt, heap.elem, D, Lt) /\ Compares(Lt2, heap.elem, D, Lt2)
  BY <1>2, <1>3, BeforeCompares
<1>5. heap.root \in D /\ None \notin D
  BY <1>1, <1>2, <1>4, RootFirst
<1>6. PICK par, pos : /\ Forest(D, R, heap.child, heap.next, heap.prev, par, pos)
                      /\ Ordered(D, R, par, Lt, None)
  BY <1>2 DEF Sound
<1>7. ASSUME NEW x \in D, NEW y \in D, x # e, y # e
      PROVE  <<x, y>> \in Lt <=> <<x, y>> \in Lt2
  <2>1. x \in Elements /\ y \in Elements /\ priority'[x] = priority[x] /\ priority'[y] = priority[y]
    BY <1>2, <1>3, <1>7
  <2> QED
    BY <1>3, <2>1, SameOrder
<1>8. Sound(heap', D, Lt2, None) /\ heap'.elem = heap.elem
  <2>1. CASE p < priority[e]
    <3>1. ASSUME NEW x \in D, x # e, <<x, e>> \in Lt PROVE <<x, e>> \in Lt2
      <4>1. x \in Elements /\ x \in Nat /\ e \in Nat /\ priority[x] \in Nat /\ priority[e] \in Nat /\ p \in Nat
            /\ priority'[x] = priority[x]
        BY <1>2, <1>3, <3>1, HeapQueueAssumption
      <4>2. Precedes(priority, x, e)
        BY <1>3, <3>1, <4>1, BeforeTotal
      <4>3. Precedes(priority', x, e)
        BY <1>3, <4>1, <4>2, <2>1 DEF Precedes
      <4> QED
        BY <1>3, <4>1, <4>3, BeforeTotal
    <3>2. Ordered(D, R, par, Lt2, e)
      <4> SUFFICES ASSUME NEW n \in D \ R, par[n] # e PROVE <<par[n], n>> \in Lt2
        BY DEF Ordered
      <4>1. par[n] \in D /\ par[n] # None /\ par[n] # n
        BY <1>5, <1>6 DEF Forest
      <4>2. <<par[n], n>> \in Lt
        BY <1>6, <4>1 DEF Ordered
      <4>3. CASE n = e
        BY <4>1, <4>2, <4>3, <3>1
      <4>4. CASE n # e
        BY <4>1, <4>2, <4>4, <1>7
      <4> QED
        BY <4>3, <4>4
    <3>3. Sound(heap, D, Lt2, e)
      BY <1>2, <1>6, <3>2 DEF Sound
    <3> HIDE DEF Lt2
    <3> QED
      BY <1>1, <1>2, <1>4, <1>5, <2>1, <3>3, DecreaseSound
  <2>2. CASE ~(p < priority[e])
    <3>1. ASSUME NEW y \in D, y # e, <<e, y>> \in Lt PROVE <<e, y>> \in Lt2
      <4>1. y \in Elements /\ y \in Nat /\ e \in Nat /\ priority[y] \in Nat /\ priority[e] \in Nat /\ p \in Nat
            /\ priority'[y] = priority[y]
        BY <1>2, <1>3, <3>1, HeapQueueAssumption
      <4>2. Precedes(priority, e, y)
        BY <1>3, <3>1, <4>1, BeforeTotal
      <4>3. Precedes(priority', e, y)
        BY <1>3, <4>1, <4>2, <2>2 DEF Precedes
      <4> QED
        BY <1>3, <4>1, <4>3, BeforeTotal
    <3>2. Ordered(D, {heap.root, e}, par, Lt2, None)
      <4> SUFFICES ASSUME NEW n \in D \ {heap.root, e} PROVE <<par[n], n>> \in Lt2
        BY DEF Ordered
      <4>1. n \in D \ R /\ par[n] \in D /\ par[n] # None /\ par[n] # n /\ n # e
        BY <1>5, <1>6 DEF Forest
      <4>2. <<par[n], n>> \in Lt
        BY <1>6, <4>1 DEF Ordered
      <4>3. CASE par[n] = e
        BY <4>1, <4>2, <4>3, <3>1
      <4>4. CASE par[n] # e
        BY <4>1, <4>2, <4>4, <1>7
      <4> QED
        BY <4>3, <4>4
    <3>3. /\ Fields(heap) /\ Linked(heap, D) /\ DOMAIN heap.elem = D
          /\ heap.next[heap.root] = None /\ heap.prev[heap.root] = None /\ R = {heap.root}
      BY <1>2, <1>5 DEF Sound
    <3>4. Forest(D, {heap.root}, heap.child, heap.next, heap.prev, par, pos)
      BY <1>6, <3>3
    <3> HIDE DEF Lt2
    <3>5. e \in D /\ Compares(Lt2, heap.elem, D, Lt2) /\ heap' = IncreasePriority(heap, Lt2, e)
      BY <1>1, <1>4, <2>2
    <3>6. Raised(heap, D, e, Lt2, par, pos)
      BY <1>5, <3>2, <3>3, <3>4, <3>5 DEF Raised
    <3> QED
      BY ONLY <3>5, <3>6, IncreaseSound
  <2> QED
    BY <2>1, <2>2
<1>9. heap.elem' = heap.elem /\ DOMAIN heap.elem' = D
  BY <1>8 DEF D
<1> QED
  BY <1>2, <1>3, <1>8, <1>9 DEF HeapInv, D

LEMMA NextKeeps ==
    ASSUME HeapInv, [HeapNext]_heapVars
    PROVE  HeapInv'
<1>1. ASSUME NEW e \in Elements, NEW p \in Priorities, AddElement(e, p) PROVE HeapInv'
  BY <1>1, AddKeeps
<1>2. ASSUME NEW e \in Elements, NEW p \in Priorities, ChangeScore(e, p) PROVE HeapInv'
  BY <1>2, ChangeKeeps
<1>3. CASE PopElement
  BY <1>3, PopKeeps
<1>4. CASE UNCHANGED heapVars
  BY <1>4 DEF heapVars, HeapInv
<1> QED
  BY <1>1, <1>2, <1>3, <1>4 DEF HeapNext

LEMMA HeapInvAlways == HeapSpec => []HeapInv
<1>1. HeapInit => HeapInv
  BY HeapInitInv
<1>2. HeapInv /\ [HeapNext]_heapVars => HeapInv'
  BY NextKeeps
<1> QED
  BY <1>1, <1>2, PTL DEF HeapSpec

\* What the invariant says of the root, and of the nodes it leads to.
LEMMA InvFacts ==
    ASSUME HeapInv
    PROVE  /\ LinksAgree
           /\ \A n \in DOMAIN heap.elem \ {heap.root} : Precedes(priority, heap.root, n)
<1> DEFINE D == DOMAIN heap.elem
           Lt == Before(priority)
<1>1. /\ D \in SUBSET Elements /\ IsFiniteSet(D) /\ \A n \in D : heap.elem[n] = n
      /\ Sound(heap, D, Lt, None) /\ priority \in [Elements -> Nat]
  BY HeapQueueAssumption DEF HeapInv
<1> HIDE DEF D, Lt
<1>2. Compares(Lt, heap.elem, D, Lt)
  BY <1>1, BeforeCompares DEF Lt
<1>3. WellLinked(heap) /\ HeapNodes(heap) = D
  BY <1>1, <1>2, AllReached
<1>4. LinksAgree
  BY <1>3 DEF LinksAgree, Waiting, D
<1>5. (D # {} => heap.root \in D) /\ \A n \in D \ {heap.root} : <<heap.root, n>> \in Lt
  BY <1>1, <1>2, RootFirst
<1>6. ASSUME NEW n \in D \ {heap.root} PROVE Precedes(priority, heap.root, n)
  <2>1. n \in Elements /\ heap.root \in Elements /\ <<heap.root, n>> \in Lt
    BY <1>1, <1>5
  <2> QED
    BY <1>1, <2>1, BeforeTotal DEF Lt
<1> QED
  BY <1>4, <1>6 DEF D

\* Whatever is added, popped, cut off and melded again: the root leads to every
\* node of the heap, and every link leads back (pairing-heap.ts:57-171).
THEOREM LinksAgreeAlways == HeapSpec => []LinksAgree
<1>1. HeapInv => LinksAgree
  BY InvFacts
<1> QED
  BY <1>1, HeapInvAlways, PTL

\* The heap implements the queue: whatever the elements and their priorities do
\* meanwhile, pop gives the first one of those that wait, and every other step
\* of the heap is a step of the queue or none (pairing-heap.ts:57-171).
THEOREM ImplementsQueueAlways == HeapSpec => ImplementsQueue
<1>1. HeapInit /\ HeapInv => Queue!QueueInit
  BY DEF HeapInit, HeapInv, EmptyHeap, None, Queue!QueueInit
<1>2. HeapInv /\ [HeapNext]_heapVars => [Queue!QueueNext]_Queue!queueVars
  <2> SUFFICES ASSUME HeapInv, [HeapNext]_heapVars PROVE [Queue!QueueNext]_Queue!queueVars
    OBVIOUS
  <2>1. ASSUME NEW e \in Elements, NEW p \in Priorities, AddElement(e, p) PROVE Queue!QueueNext
    <3>1. Queue!QueueAdd(e, p)
      BY <2>1, AddKeeps DEF AddElement, Queue!QueueAdd
    <3> QED
      BY <3>1 DEF Queue!QueueNext
  <2>2. ASSUME NEW e \in Elements, NEW p \in Priorities, ChangeScore(e, p) PROVE Queue!QueueNext
    <3>1. Queue!QueueChange(e, p)
      BY <2>2, ChangeKeeps DEF ChangeScore, Queue!QueueChange
    <3> QED
      BY <3>1 DEF Queue!QueueNext
  <2>3. CASE PopElement
    <3>1. /\ heap.root \in DOMAIN heap.elem /\ popped' = heap.root /\ UNCHANGED priority
          /\ (DOMAIN heap.elem)' = DOMAIN heap.elem \ {heap.root}
      BY <2>3, PopKeeps DEF PopElement
    <3>2. \A n \in DOMAIN heap.elem \ {heap.root} : Queue!First(heap.root, n)
      BY InvFacts DEF Precedes, Queue!First
    <3>3. Queue!QueuePop
      BY <3>1, <3>2 DEF Queue!QueuePop
    <3> QED
      BY <3>3 DEF Queue!QueueNext
  <2>4. CASE UNCHANGED heapVars
    BY <2>4 DEF heapVars, Queue!queueVars
  <2> QED
    BY <2>1, <2>2, <2>3, <2>4 DEF HeapNext
<1> QED
  BY <1>1, <1>2, HeapInvAlways, PTL DEF HeapSpec, ImplementsQueue, Queue!QueueSpec
=============================================================================
