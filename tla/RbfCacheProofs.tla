--------------------------- MODULE RbfCacheProofs ---------------------------
(***************************************************************************)
(* That the clients are told of every change of a tree (ChangesAreTold) in *)
(* every behaviour, and that in an undisturbed one the maps and the trees  *)
(* tell one story (TreesAgree), add never throws (AddFindsTrees), newer    *)
(* versions are kept (NewerVersionKept) and no tree outlives its id        *)
(* (TreesGoWithTheirIds); for any transactions, conflicts and bounds.      *)
(*                                                                         *)
(* The facts about a cache are of one cache, or of one before and after an *)
(* operation: they say what add, evict, mined and remove do to any cache,  *)
(* and the state comes in only at the end.                                 *)
(***************************************************************************)
EXTENDS RbfCache, SequenceTheorems, FiniteSetTheorems, TLAPS

-----------------------------------------------------------------------------
(* Numbers, sequences and paths *)

\* A set of numbers has a least one.
LEMMA LeastNat ==
    ASSUME NEW S \in SUBSET Nat, S # {}
    PROVE  \E n \in S : \A m \in S : n <= m
<1>1. \E n \in S : \A m \in S : ~ (<<m, n>> \in OpToRel(<, Nat))
  BY NatLessThanWellFounded, WFMin
<1>2. PICK n \in S : \A m \in S : ~ (<<m, n>> \in OpToRel(<, Nat))
  BY <1>1
<1>3. ASSUME NEW m \in S PROVE n <= m
  <2>1. ~ (<<m, n>> \in OpToRel(<, Nat))
    BY <1>2
  <2>2. m \in Nat /\ n \in Nat
    OBVIOUS
  <2>3. ~ (m < n)
    BY <2>1, <2>2 DEF OpToRel
  <2> QED
    BY <2>2, <2>3
<1> QED
  BY <1>3

\* The path to what is at q in the i-th subtree.
Down(i, q) == <<i>> \o q

\* Front is a sequence, shorter by one, of the same members.
LEMMA FrontFacts ==
    ASSUME NEW S, NEW s \in Seq(S), s # <<>>
    PROVE  /\ Front(s) \in Seq(S)
           /\ Len(Front(s)) = Len(s) - 1
           /\ \A k \in 1..(Len(s) - 1) : Front(s)[k] = s[k]
<1> DEFINE n == Len(s) - 1
           f == SubSeq(s, 1, n)
<1>1. n \in Nat /\ \A k \in 1..n : s[k] \in S
  OBVIOUS
<1> HIDE DEF n
<1>2. /\ f \in Seq(S) /\ Len(f) = IF 1 <= n THEN n - 1 + 1 ELSE 0
      /\ \A k \in 1..(n - 1 + 1) : f[k] = s[1 + k - 1]
  BY <1>1, SubSeqProperties
<1> HIDE DEF f
<1>3. n - 1 + 1 = n /\ Len(f) = n
  BY <1>1, <1>2
<1>4. \A k \in 1..n : f[k] = s[k]
  BY <1>1, <1>2, <1>3
<1>5. Front(s) = f
  BY DEF Front, f, n
<1> QED
  BY <1>2, <1>3, <1>4, <1>5 DEF n

\* Head and Tail lead back, and Front goes to the parent in the subtree.
LEMMA DownFacts ==
    ASSUME NEW i \in Nat, NEW q \in Seq(Nat)
    PROVE  /\ Down(i, q) \in Seq(Nat)
           /\ Down(i, q) # <<>>
           /\ Head(Down(i, q)) = i
           /\ Tail(Down(i, q)) = q
           /\ q = <<>> => Front(Down(i, q)) = <<>>
           /\ q # <<>> => Front(Down(i, q)) = Down(i, Front(q)) /\ Front(q) \in Seq(Nat)
<1>1. <<i>> \in Seq(Nat) /\ Len(<<i>>) = 1 /\ <<i>>[1] = i
  OBVIOUS
<1> DEFINE d == <<i>> \o q
<1>2. /\ d \in Seq(Nat) /\ Len(d) = Len(q) + 1
      /\ \A k \in 1..(Len(q) + 1) : d[k] = IF k <= 1 THEN i ELSE q[k - 1]
  BY <1>1, ConcatProperties
<1>3. Len(q) \in Nat
  OBVIOUS
<1> HIDE DEF d
<1>4. d # <<>> /\ Head(d) = i
  BY <1>2, <1>3
<1>5. Tail(d) = q
  <2>1. Tail(d) \in Seq(Nat) /\ Len(Tail(d)) = Len(q)
        /\ \A k \in 1..Len(Tail(d)) : Tail(d)[k] = d[k + 1]
    BY <1>2, <1>3, <1>4, HeadTailProperties
  <2>2. ASSUME NEW k \in 1..Len(q) PROVE Tail(d)[k] = q[k]
    <3>1. k \in Nat /\ k + 1 \in 1..(Len(q) + 1) /\ ~(k + 1 <= 1) /\ (k + 1) - 1 = k
      BY <1>3
    <3>2. d[k + 1] = q[k]
      BY <3>1, <1>2
    <3> QED
      BY <2>1, <3>2
  <2> QED
    BY <2>1, <2>2, SeqEqual
<1>6. /\ Front(d) \in Seq(Nat) /\ Len(Front(d)) = Len(q)
      /\ \A k \in 1..Len(q) : Front(d)[k] = d[k]
  <2>1. \A k \in 1..Len(q) : d[k] \in Nat
    BY <1>2, <1>3
  <2>2. /\ SubSeq(d, 1, Len(q)) \in Seq(Nat)
        /\ Len(SubSeq(d, 1, Len(q))) = IF 1 <= Len(q) THEN Len(q) - 1 + 1 ELSE 0
        /\ \A k \in 1..(Len(q) - 1 + 1) : SubSeq(d, 1, Len(q))[k] = d[1 + k - 1]
    BY <2>1, <1>3, SubSeqProperties
  <2>3. Front(d) = SubSeq(d, 1, Len(q))
    BY <1>2, <1>3 DEF Front
  <2> QED
    BY <2>2, <2>3, <1>3
<1>7. q = <<>> => Front(d) = <<>>
  BY <1>6
<1>8. ASSUME q # <<>>
      PROVE  Front(d) = Down(i, Front(q)) /\ Front(q) \in Seq(Nat)
  <2>1. Len(q) > 0
    BY <1>8, <1>3
  <2>2. /\ Front(q) \in Seq(Nat) /\ Len(Front(q)) = Len(q) - 1
        /\ \A k \in 1..(Len(q) - 1) : Front(q)[k] = q[k]
    BY <1>8, FrontFacts
  <2> DEFINE e == <<i>> \o Front(q)
  <2>3. /\ e \in Seq(Nat) /\ Len(e) = Len(q)
        /\ \A k \in 1..Len(q) : e[k] = IF k <= 1 THEN i ELSE Front(q)[k - 1]
    BY <1>1, <1>3, <2>1, <2>2, ConcatProperties
  <2> HIDE DEF e
  <2>4. ASSUME NEW k \in 1..Len(q) PROVE Front(d)[k] = e[k]
    <3>1. k \in 1..(Len(q) + 1) /\ k \in Nat
      BY <1>3
    <3>2. Front(d)[k] = IF k <= 1 THEN i ELSE q[k - 1]
      BY <3>1, <1>2, <1>6
    <3>3. e[k] = IF k <= 1 THEN i ELSE Front(q)[k - 1]
      BY <2>3
    <3>4. k <= 1 \/ k - 1 \in 1..(Len(q) - 1)
      BY <3>1, <1>3
    <3>5. CASE k <= 1
      BY <3>2, <3>3, <3>5
    <3>6. CASE ~(k <= 1)
      BY <3>2, <3>3, <3>4, <3>6, <2>2
    <3> QED
      BY <3>5, <3>6
  <2>5. Front(d) = e
    BY <2>3, <2>4, <1>6, SeqEqual
  <2> QED
    BY <2>5, <2>2 DEF Down, e
<1> QED
  BY <1>2, <1>4, <1>5, <1>7, <1>8 DEF Down, d

\* What holds of the root, and of a node when of its parent, holds in the whole
\* tree: the shortest path to a counterexample would have a shorter one.
LEMMA ParentsFirst ==
    ASSUME NEW D \in SUBSET Seq(Nat), NEW G,
           \A p \in D : p # <<>> => Front(p) \in D /\ (Front(p) \in G => p \in G),
           <<>> \in G
    PROVE  D \subseteq G
<1> SUFFICES ASSUME ~(D \subseteq G) PROVE FALSE
  OBVIOUS
<1> DEFINE lens == {Len(p) : p \in D \ G}
<1>1. lens \in SUBSET Nat /\ lens # {}
  OBVIOUS
<1>2. PICK n \in lens : \A m \in lens : n <= m
  BY <1>1, LeastNat
<1>3. PICK p \in D \ G : n = Len(p)
  BY <1>2
<1>4. p # <<>>
  BY <1>3
<1>5. Front(p) \in D \ G
  BY <1>3, <1>4
<1>6. Len(p) \in Nat /\ Len(p) > 0
  BY <1>3, <1>4
<1>7. Len(Front(p)) = Len(p) - 1
  BY <1>4, FrontFacts
<1>8. Len(Front(p)) \in lens
  BY <1>5
<1> HIDE DEF lens
<1> QED
  BY <1>2, <1>3, <1>6, <1>7, <1>8

\* The k-th member of a finite set of numbers.
LEMMA Nth ==
    ASSUME NEW S \in SUBSET Nat, IsFiniteSet(S), NEW k \in 1..Cardinality(S)
    PROVE  \E i \in S : Cardinality({j \in S : j <= i}) = k
<1> DEFINE upTo(i) == {j \in S : j <= i}
           K == {n \in 1..Cardinality(S) : \A i \in S : Cardinality(upTo(i)) # n}
<1>1. Cardinality(S) \in Nat
  BY FS_CardinalityType
<1>2. \A i : IsFiniteSet(upTo(i)) /\ upTo(i) \subseteq S /\ Cardinality(upTo(i)) \in Nat
  BY FS_Subset, FS_CardinalityType
<1> SUFFICES ASSUME k \in K PROVE FALSE
  OBVIOUS
<1>3. K \in SUBSET Nat
  BY <1>1
<1>4. PICK n \in K : \A m \in K : n <= m
  BY <1>3, LeastNat
<1>5. n \in 1..Cardinality(S) /\ \A i \in S : Cardinality(upTo(i)) # n
  OBVIOUS
\* the least member above those counted so far
<1>6. \E L \in SUBSET S : /\ IsFiniteSet(L) /\ Cardinality(L) = n - 1
                          /\ \A i \in L : \A j \in S : j <= i => j \in L
  <2>1. CASE n = 1
    BY <2>1, FS_EmptySet
  <2>2. CASE n # 1
    <3>1. n - 1 \in 1..Cardinality(S) /\ ~(n <= n - 1)
      BY <2>2, <1>1, <1>5
    <3>2. n - 1 \notin K
      BY <3>1, <1>4
    <3>3. PICK i \in S : Cardinality(upTo(i)) = n - 1
      BY <3>1, <3>2
    <3>4. \A a \in upTo(i) : \A b \in S : b <= a => b \in upTo(i)
      OBVIOUS
    <3> QED
      BY <3>3, <3>4, <1>2
  <2> QED
    BY <2>1, <2>2
<1>7. PICK L \in SUBSET S : /\ IsFiniteSet(L) /\ Cardinality(L) = n - 1
                           /\ \A i \in L : \A j \in S : j <= i => j \in L
  BY <1>6
<1>8. S \ L # {}
  <2>1. S \ L = {} => S = L
    BY <1>7
  <2>2. Cardinality(L) # Cardinality(S)
    BY <1>1, <1>5, <1>7
  <2> QED
    BY <2>1, <2>2
<1>9. S \ L \in SUBSET Nat
  OBVIOUS
<1>10. PICK i \in S \ L : \A j \in S \ L : i <= j
  BY <1>8, <1>9, LeastNat
<1>11. upTo(i) = L \cup {i}
  <2>1. ASSUME NEW j \in S PROVE j <= i <=> j \in L \/ j = i
    <3>1. i \in Nat /\ j \in Nat
      OBVIOUS
    <3>2. j \in L => ~(i <= j)
      BY <1>7
    <3>3. j \notin L => i <= j
      BY <1>10
    <3> QED
      BY <3>1, <3>2, <3>3
  <2> QED
    BY <2>1
<1>12. Cardinality(L \cup {i}) = (n - 1) + 1
  BY <1>7, FS_AddElement
<1>13. (n - 1) + 1 = n
  BY <1>1, <1>5
<1> QED
  BY <1>5, <1>10, <1>11, <1>12, <1>13

\* Drop leaves members of the sequence, none of them dropped.
LEMMA DropFacts ==
    ASSUME NEW A, NEW s \in Seq(A), NEW S
    PROVE  Drop(s, S) \in Seq(A) /\ ToSet(Drop(s, S)) \subseteq ToSet(s) \ S
<1> DEFINE left == {i \in DOMAIN s : s[i] \notin S}
           at(k) == CHOOSE i \in left : Cardinality({j \in left : j <= i}) = k
           d == Drop(s, S)
<1>1. IsFiniteSet(left) /\ left \in SUBSET Nat /\ Cardinality(left) \in Nat
  <2>1. DOMAIN s = 1..Len(s) /\ Len(s) \in Nat
    OBVIOUS
  <2>2. IsFiniteSet(1..Len(s))
    BY <2>1, FS_Interval
  <2> QED
    BY <2>1, <2>2, FS_Subset, FS_CardinalityType
<1>2. DOMAIN d = 1..Cardinality(left) /\ \A k \in 1..Cardinality(left) : d[k] = s[at(k)]
  BY DEF Drop
<1> HIDE DEF d
<1>3. ASSUME NEW k \in 1..Cardinality(left) PROVE at(k) \in left
  <2>1. \E i \in left : Cardinality({j \in left : j <= i}) = k
    <3> HIDE DEF left
    <3> QED
      BY <1>1, Nth
  <2> QED
    BY <2>1
<1> HIDE DEF at
<1>4. ASSUME NEW k \in 1..Cardinality(left) PROVE d[k] \in ToSet(s) \ S /\ d[k] \in A
  <2>1. at(k) \in DOMAIN s /\ s[at(k)] \notin S
    BY <1>3
  <2>2. s[at(k)] \in A
    BY <2>1
  <2> QED
    BY <2>1, <2>2, <1>2 DEF ToSet
<1>5. d = [k \in 1..Cardinality(left) |-> s[at(k)]]
  BY DEF d, Drop, at
<1>6. d \in Seq(A)
  BY <1>1, <1>2, <1>4, <1>5
<1>7. ToSet(d) \subseteq ToSet(s) \ S
  BY <1>2, <1>4 DEF ToSet
<1> QED
  BY <1>6, <1>7 DEF d

-----------------------------------------------------------------------------
(* Trees *)

Nodes == [tx : Txs, txMined : BOOLEAN, mined : BOOLEAN]
IsTree(tree) ==
    /\ DOMAIN tree \in SUBSET Seq(Nat) /\ <<>> \in DOMAIN tree
    /\ \A p \in DOMAIN tree : tree[p] \in Nodes

\* A tree has its root and members of Txs.
LEMMA RootIn ==
    ASSUME NEW tree, IsTree(tree)
    PROVE  Root(tree) \in TxsIn(tree) /\ Root(tree) \in Txs /\ TxsIn(tree) \subseteq Txs
<1>1. <<>> \in DOMAIN tree /\ \A p \in DOMAIN tree : tree[p].tx \in Txs
  BY DEF IsTree, Nodes
<1> QED
  BY <1>1 DEF Root, TxsIn

\* Node makes a node.
LEMMA NodeType ==
    ASSUME NEW t \in Txs PROVE Node(t) \in Nodes /\ Node(t).tx = t
BY DEF Node, Nodes

\* A leaf is a tree of one transaction.
LEMMA LeafFacts ==
    ASSUME NEW t \in Txs
    PROVE  /\ IsTree(Leaf(t)) /\ Root(Leaf(t)) = t
           /\ DOMAIN Leaf(t) = {<<>>} /\ TxsIn(Leaf(t)) = {t}
<1>1. DOMAIN Leaf(t) = {<<>>} /\ Leaf(t)[<<>>] = Node(t)
  BY DEF Leaf
<1>2. <<>> \in Seq(Nat)
  OBVIOUS
<1> QED
  BY <1>1, <1>2, NodeType DEF IsTree, Root, TxsIn

\* Join makes a tree of trees: at <<>> the new node, below it the subtrees.
LEMMA JoinFacts ==
    ASSUME NEW node \in Nodes, NEW subtrees, DOMAIN subtrees \subseteq Nat,
           \A i \in DOMAIN subtrees : IsTree(subtrees[i])
    PROVE  /\ IsTree(Join(node, subtrees)) /\ Join(node, subtrees)[<<>>] = node
           /\ \A i \in DOMAIN subtrees : \A q \in DOMAIN subtrees[i] :
                /\ Down(i, q) \in DOMAIN Join(node, subtrees)
                /\ Join(node, subtrees)[Down(i, q)] = subtrees[i][q]
           /\ \A p \in DOMAIN Join(node, subtrees) :
                p # <<>> => \E i \in DOMAIN subtrees : \E q \in DOMAIN subtrees[i] : p = Down(i, q)
<1> DEFINE tree == Join(node, subtrees)
           paths == UNION {{<<i>> \o q : q \in DOMAIN subtrees[i]} : i \in DOMAIN subtrees}
<1>1. /\ DOMAIN tree = {<<>>} \cup paths
      /\ \A p \in {<<>>} \cup paths : tree[p] = IF p = <<>> THEN node ELSE subtrees[Head(p)][Tail(p)]
  BY DEF Join
<1>2. \A p : p \in paths <=> \E i \in DOMAIN subtrees : \E q \in DOMAIN subtrees[i] : p = Down(i, q)
  <2> DEFINE below(i) == {<<i>> \o q : q \in DOMAIN subtrees[i]}
  <2>1. \A i, p : p \in below(i) <=> \E q \in DOMAIN subtrees[i] : p = Down(i, q)
    BY DEF Down
  <2>2. paths = UNION {below(i) : i \in DOMAIN subtrees}
    OBVIOUS
  <2> HIDE DEF below, paths
  <2>3. \A p : p \in paths <=> \E i \in DOMAIN subtrees : p \in below(i)
    BY <2>2
  <2> QED
    BY <2>1, <2>3
<1> HIDE DEF paths, tree
<1>3. ASSUME NEW i \in DOMAIN subtrees, NEW q \in DOMAIN subtrees[i]
      PROVE  /\ i \in Nat /\ q \in Seq(Nat) /\ Down(i, q) \in Seq(Nat)
             /\ Down(i, q) \in DOMAIN tree /\ tree[Down(i, q)] = subtrees[i][q]
             /\ subtrees[i][q] \in Nodes
  <2>1. i \in Nat /\ q \in Seq(Nat) /\ subtrees[i][q] \in Nodes
    BY DEF IsTree
  <2>2. Down(i, q) \in paths
    BY <1>2
  <2>3. Down(i, q) # <<>> /\ Head(Down(i, q)) = i /\ Tail(Down(i, q)) = q /\ Down(i, q) \in Seq(Nat)
    BY <2>1, DownFacts
  <2> QED
    BY <1>1, <2>1, <2>2, <2>3
<1>4. tree[<<>>] = node /\ <<>> \in DOMAIN tree
  BY <1>1
<1>5. ASSUME NEW p \in DOMAIN tree, p # <<>>
      PROVE  \E i \in DOMAIN subtrees : \E q \in DOMAIN subtrees[i] : p = Down(i, q)
  BY <1>1, <1>2, <1>5
<1>6. ASSUME NEW p \in DOMAIN tree
      PROVE  p \in Seq(Nat) /\ tree[p] \in Nodes
  <2>1. CASE p = <<>>
    BY <2>1, <1>4
  <2>2. CASE p # <<>>
    <3>1. PICK i \in DOMAIN subtrees : \E q \in DOMAIN subtrees[i] : p = Down(i, q)
      BY <1>5, <2>2
    <3>2. PICK q \in DOMAIN subtrees[i] : p = Down(i, q)
      BY <3>1
    <3> QED
      BY <3>2, <1>3
  <2> QED
    BY <2>1, <2>2
<1>7. IsTree(tree)
  BY <1>4, <1>6 DEF IsTree
<1> QED
  BY <1>3, <1>4, <1>5, <1>7 DEF tree

\* It has the new transaction and those of the subtrees.
LEMMA JoinTxs ==
    ASSUME NEW node \in Nodes, NEW subtrees, DOMAIN subtrees \subseteq Nat,
           \A i \in DOMAIN subtrees : IsTree(subtrees[i])
    PROVE  \A x : x \in TxsIn(Join(node, subtrees)) <=>
                    x = node.tx \/ \E i \in DOMAIN subtrees : x \in TxsIn(subtrees[i])
<1> DEFINE tree == Join(node, subtrees)
<1>1. /\ IsTree(tree) /\ tree[<<>>] = node
      /\ \A i \in DOMAIN subtrees : \A q \in DOMAIN subtrees[i] :
           Down(i, q) \in DOMAIN tree /\ tree[Down(i, q)] = subtrees[i][q]
      /\ \A p \in DOMAIN tree :
           p # <<>> => \E i \in DOMAIN subtrees : \E q \in DOMAIN subtrees[i] : p = Down(i, q)
  BY JoinFacts
<1> HIDE DEF tree
<1>2. <<>> \in DOMAIN tree
  BY <1>1 DEF IsTree
<1>3. ASSUME NEW p \in DOMAIN tree
      PROVE  tree[p].tx = node.tx \/ \E i \in DOMAIN subtrees : tree[p].tx \in TxsIn(subtrees[i])
  <2>1. CASE p = <<>>
    BY <2>1, <1>1
  <2>2. CASE p # <<>>
    <3>1. PICK i \in DOMAIN subtrees : \E q \in DOMAIN subtrees[i] : p = Down(i, q)
      BY <1>1, <2>2
    <3>2. PICK q \in DOMAIN subtrees[i] : p = Down(i, q)
      BY <3>1
    <3>3. tree[p] = subtrees[i][q]
      BY <3>2, <1>1
    <3>4. tree[p].tx \in TxsIn(subtrees[i])
      BY <3>3 DEF TxsIn
    <3> QED
      BY <3>4
  <2> QED
    BY <2>1, <2>2
<1>4. ASSUME NEW i \in DOMAIN subtrees, NEW q \in DOMAIN subtrees[i]
      PROVE  subtrees[i][q].tx \in TxsIn(tree)
  BY <1>1 DEF TxsIn
<1>5. node.tx \in TxsIn(tree)
  BY <1>1, <1>2 DEF TxsIn
<1>6. ASSUME NEW x, x \in TxsIn(tree)
      PROVE  x = node.tx \/ \E i \in DOMAIN subtrees : x \in TxsIn(subtrees[i])
  BY <1>3, <1>6 DEF TxsIn
<1>7. ASSUME NEW x, NEW i \in DOMAIN subtrees, x \in TxsIn(subtrees[i])
      PROVE  x \in TxsIn(tree)
  <2>1. PICK q \in DOMAIN subtrees[i] : x = subtrees[i][q].tx
    BY <1>7 DEF TxsIn
  <2> QED
    BY <2>1, <1>4
<1> QED
  BY <1>5, <1>6, <1>7 DEF tree

\* Marking a transaction as mined moves none.
LEMMA WithMinedFacts ==
    ASSUME NEW tree, NEW t, IsTree(tree)
    PROVE  /\ IsTree(WithMined(tree, t)) /\ DOMAIN WithMined(tree, t) = DOMAIN tree
           /\ \A p \in DOMAIN tree : WithMined(tree, t)[p].tx = tree[p].tx
           /\ TxsIn(WithMined(tree, t)) = TxsIn(tree) /\ Root(WithMined(tree, t)) = Root(tree)
<1> DEFINE new == WithMined(tree, t)
<1>1. DOMAIN new = DOMAIN tree
  BY DEF WithMined
<1>2. ASSUME NEW p \in DOMAIN tree
      PROVE  new[p] \in Nodes /\ new[p].tx = tree[p].tx
  <2> DEFINE a == tree[p].tx = t /\ \A q \in DOMAIN tree : IsStrictPrefix(q, p) => tree[q].tx # t
             b == p = <<>>
  <2>1. new[p] = [tree[p] EXCEPT !.txMined = @ \/ a, !.mined = @ \/ b]
    BY DEF WithMined
  <2>2. tree[p] \in [tx : Txs, txMined : BOOLEAN, mined : BOOLEAN]
    BY DEF IsTree, Nodes
  <2> HIDE DEF a, b, new
  <2>3. (tree[p].txMined \/ a) \in BOOLEAN /\ (tree[p].mined \/ b) \in BOOLEAN
    OBVIOUS
  <2> DEFINE u == tree[p].txMined \/ a
             v == tree[p].mined \/ b
  <2>4. new[p] = [tree[p] EXCEPT !.txMined = u, !.mined = v] /\ u \in BOOLEAN /\ v \in BOOLEAN
    BY <2>1, <2>3
  <2> HIDE DEF u, v
  <2> QED
    BY <2>2, <2>4 DEF Nodes
<1> HIDE DEF new
<1>3. IsTree(new)
  BY <1>1, <1>2 DEF IsTree
<1>4. TxsIn(new) = TxsIn(tree) 
  BY <1>1, <1>2 DEF TxsIn
<1>5. Root(new) = Root(tree)
  BY <1>2 DEF Root, IsTree
<1> QED
  BY <1>1, <1>2, <1>3, <1>4, <1>5 DEF new

-----------------------------------------------------------------------------
(* What the operations do to a cache, field by field *)

Fields == {"replacedBy", "replaces", "trees", "treeMap", "txs", "expiring", "dirty", "thrown"}
IsCache(c) == DOMAIN c = Fields

\* What changes in the trees of a cache is marked.
Marks(c, d) ==
    /\ DOMAIN d.trees \ d.dirty \subseteq DOMAIN c.trees \ c.dirty
    /\ \A id \in DOMAIN d.trees \ d.dirty : d.trees[id] = c.trees[id]

\* Marks can be chained.
LEMMA MarksTwice ==
    ASSUME NEW c, NEW d, NEW e, Marks(c, d), Marks(d, e) PROVE Marks(c, e)
BY DEF Marks

\* The parts of Add: which of the replaced have a tree, which bring it, the
\* trees that are joined, the id of the new tree, and what stays of the others.
Known(c, replaced) == {i \in DOMAIN replaced : replaced[i] \in DOMAIN c.treeMap}
Found(c, replaced) ==
    {i \in Known(c, replaced) :
        /\ c.treeMap[replaced[i]] \in DOMAIN c.trees
        /\ \A j \in Known(c, replaced) : j < i => c.treeMap[replaced[j]] # c.treeMap[replaced[i]]}
Sources(c, replaced) ==
    [i \in Found(c, replaced) \cup (DOMAIN replaced \ Known(c, replaced)) |->
        IF i \in Found(c, replaced) THEN c.trees[c.treeMap[replaced[i]]] ELSE Leaf(replaced[i])]
First(c, replaced) ==
    CHOOSE i \in DOMAIN Sources(c, replaced) : \A j \in DOMAIN Sources(c, replaced) : i <= j
NewId(c, replaced) == Root(Sources(c, replaced)[First(c, replaced)])
NewTree(c, replaced, t) == Join(Node(t), Sources(c, replaced))
KeptTrees(c, replaced) == Without(c.trees, {c.treeMap[replaced[i]] : i \in Known(c, replaced)})

Added(c, replaced, t, d) ==
    /\ IsCache(d)
    /\ d.txs = c.txs \cup {t} \cup {replaced[i] : i \in DOMAIN replaced \ Known(c, replaced)}
    /\ d.replacedBy = With(c.replacedBy, ToSet(replaced), t)
    /\ d.expiring = c.expiring
    /\ DOMAIN Sources(c, replaced) = {} =>
         d.trees = KeptTrees(c, replaced) /\ d.dirty = c.dirty
    /\ DOMAIN Sources(c, replaced) # {} =>
        /\ d.trees = With(KeptTrees(c, replaced), {NewId(c, replaced)}, NewTree(c, replaced, t))
        /\ d.treeMap = With(c.treeMap, TxsIn(NewTree(c, replaced, t)), NewId(c, replaced))
        /\ d.replaces = With(c.replaces, {t}, {Root(Sources(c, replaced)[i]) : i \in DOMAIN Sources(c, replaced)})
        /\ d.dirty = c.dirty \cup {NewId(c, replaced)}
        /\ d.thrown = c.thrown

\* Add gives the fields these values.
LEMMA AddFields ==
    ASSUME NEW c, IsCache(c), NEW replaced, NEW t, NEW d, d = Add(c, replaced, t)
    PROVE  Added(c, replaced, t, d)
<1> DEFINE sources == Sources(c, replaced)
           id == NewId(c, replaced)
           tree == NewTree(c, replaced, t)
           roots == {Root(sources[i]) : i \in DOMAIN sources}
           txs == c.txs \cup {t} \cup {replaced[i] : i \in DOMAIN replaced \ Known(c, replaced)}
           replacedBy == With(c.replacedBy, ToSet(replaced), t)
           trees == KeptTrees(c, replaced)
           registered == [c EXCEPT !.txs = txs, !.replacedBy = replacedBy, !.trees = trees]
           none == DOMAIN sources = {}
<1>1. d =
        IF none THEN [registered EXCEPT !.thrown = TRUE]
        ELSE [registered EXCEPT !.trees = With(registered.trees, {id}, tree),
                                !.treeMap = With(registered.treeMap, TxsIn(tree), id),
                                !.replaces = With(registered.replaces, {t}, roots),
                                !.dirty = registered.dirty \cup {id}]
  BY DEF Add, Known, Found, Sources, First, NewId, NewTree, KeptTrees
<1>2. /\ IsCache(registered) /\ registered.replacedBy = replacedBy /\ registered.replaces = c.replaces
      /\ registered.trees = trees /\ registered.treeMap = c.treeMap /\ registered.txs = txs
      /\ registered.expiring = c.expiring /\ registered.dirty = c.dirty /\ registered.thrown = c.thrown
  <2> HIDE DEF txs, replacedBy, trees
  <2> QED
    BY DEF IsCache, Fields
<1> HIDE DEF registered
<1> DEFINE joined == With(trees, {id}, tree)
           treeMap == With(c.treeMap, TxsIn(tree), id)
           replaces == With(c.replaces, {t}, roots)
           dirty == c.dirty \cup {id}
<1>3. d = IF none THEN [registered EXCEPT !.thrown = TRUE]
          ELSE [registered EXCEPT !.trees = joined, !.treeMap = treeMap, !.replaces = replaces, !.dirty = dirty]
  BY <1>1, <1>2, Zenon
<1> HIDE DEF id, tree, roots, txs, replacedBy, trees, treeMap, replaces, none, joined, dirty
<1>4. /\ IsCache(d) /\ d.txs = txs /\ d.replacedBy = replacedBy /\ d.expiring = c.expiring
      /\ none => d.trees = trees /\ d.dirty = c.dirty
      /\ ~none => d.trees = joined /\ d.treeMap = treeMap /\ d.replaces = replaces /\ d.dirty = dirty
                  /\ d.thrown = c.thrown
  <2>1. CASE none
    <3>1. d = [registered EXCEPT !.thrown = TRUE]
      BY <1>3, <2>1
    <3> QED
      BY <3>1, <2>1, <1>2 DEF IsCache, Fields
  <2>2. CASE ~none
    <3>1. d = [registered EXCEPT !.trees = joined, !.treeMap = treeMap, !.replaces = replaces, !.dirty = dirty]
      BY <1>3, <2>2
    <3>2. IsCache(d) /\ d.txs = registered.txs /\ d.replacedBy = registered.replacedBy /\ d.expiring = registered.expiring
          /\ d.thrown = registered.thrown
      BY <3>1, <1>2 DEF IsCache, Fields
    <3>3. d.trees = joined /\ d.treeMap = treeMap /\ d.replaces = replaces /\ d.dirty = dirty
      BY <3>1, <1>2 DEF IsCache, Fields
    <3> QED
      BY <3>2, <3>3, <2>2, <1>2
  <2> QED
    BY <2>1, <2>2
<1> QED
  BY <1>4 DEF id, tree, roots, txs, replacedBy, trees, treeMap, replaces, none, joined, dirty, Added

\* Add marks the tree it makes.
LEMMA AddMarks ==
    ASSUME NEW c, IsCache(c), NEW replaced, NEW t, NEW d, d = Add(c, replaced, t)
    PROVE  IsCache(d) /\ Marks(c, d)
<1> DEFINE trees == KeptTrees(c, replaced)
           id == NewId(c, replaced)
<1>1. IsCache(d) /\ \/ d.trees = trees /\ d.dirty = c.dirty
                    \/ /\ d.trees = With(trees, {id}, NewTree(c, replaced, t))
                       /\ d.dirty = c.dirty \cup {id}
  <2>1. Added(c, replaced, t, d)
    BY AddFields
  <2> QED
    BY <2>1 DEF Added
<1>2. \A x \in DOMAIN trees : x \in DOMAIN c.trees /\ trees[x] = c.trees[x]
  BY DEF Without, KeptTrees
<1> HIDE DEF trees, id
<1>3. Marks(c, d)
  BY <1>1, <1>2 DEF With, Marks
<1> QED
  BY <1>1, <1>3

Evicted(c, t, d) ==
    /\ IsCache(d) /\ d.replacedBy = c.replacedBy /\ d.replaces = c.replaces /\ d.trees = c.trees
    /\ d.treeMap = c.treeMap /\ d.txs = c.txs /\ d.dirty = c.dirty /\ d.thrown = c.thrown
    /\ d.expiring = IF t \in c.txs /\ t \notin ToSet(c.expiring) THEN Append(c.expiring, t) ELSE c.expiring

\* Evict changes only what expires.
LEMMA EvictFields ==
    ASSUME NEW c, IsCache(c), NEW t, NEW d, d = Evict(c, t)
    PROVE  Evicted(c, t, d)
<1> DEFINE e == Append(c.expiring, t)
           a == t \in c.txs /\ t \notin ToSet(c.expiring)
<1>1. d = IF a THEN [c EXCEPT !.expiring = e] ELSE c
  BY DEF Evict
<1> HIDE DEF e, a
<1>2. /\ IsCache(d) /\ d.replacedBy = c.replacedBy /\ d.replaces = c.replaces /\ d.trees = c.trees
      /\ d.treeMap = c.treeMap /\ d.txs = c.txs /\ d.dirty = c.dirty /\ d.thrown = c.thrown
      /\ d.expiring = IF a THEN e ELSE c.expiring
  BY <1>1 DEF IsCache, Fields
<1> QED
  BY <1>2 DEF e, a, Evicted

\* So it has nothing to mark.
LEMMA EvictMarks ==
    ASSUME NEW c, IsCache(c), NEW t, NEW d, d = Evict(c, t)
    PROVE  IsCache(d) /\ Marks(c, d)
<1>1. Evicted(c, t, d)
  BY EvictFields
<1> QED
  BY <1>1 DEF Evicted, Marks

MarkMined(c, t) ==
    IF t \in c.txs /\ HasTree(c, t) THEN [c.trees EXCEPT ![c.treeMap[t]] = WithMined(c.trees[c.treeMap[t]], t)]
    ELSE c.trees

MarkedMined(c, t, d) ==
    /\ IsCache(d) /\ d.replacedBy = c.replacedBy /\ d.replaces = c.replaces
    /\ d.treeMap = c.treeMap /\ d.txs = c.txs /\ d.thrown = c.thrown
    /\ d.trees = MarkMined(c, t)
    /\ d.dirty = IF t \in c.txs /\ HasTree(c, t) THEN c.dirty \cup {c.treeMap[t]} ELSE c.dirty
    /\ d.expiring = IF t \in c.txs /\ t \notin ToSet(c.expiring) THEN Append(c.expiring, t) ELSE c.expiring

\* Mined marks a tree and has the transaction expire.
LEMMA MinedFields ==
    ASSUME NEW c, IsCache(c), NEW t, NEW d, d = Mined(c, t)
    PROVE  MarkedMined(c, t, d)
<1> DEFINE id == c.treeMap[t]
           trees == [c.trees EXCEPT ![id] = WithMined(c.trees[id], t)]
           dirty == c.dirty \cup {id}
           marked == [c EXCEPT !.trees = trees, !.dirty = dirty]
           has == HasTree(c, t)
           m == IF has THEN marked ELSE c
<1>1. d = IF t \notin c.txs THEN c ELSE Evict(m, t)
  BY DEF Mined
<1>2. /\ IsCache(m) /\ m.replacedBy = c.replacedBy /\ m.replaces = c.replaces
      /\ m.treeMap = c.treeMap /\ m.txs = c.txs /\ m.thrown = c.thrown /\ m.expiring = c.expiring
      /\ m.trees = IF has THEN trees ELSE c.trees
      /\ m.dirty = IF has THEN dirty ELSE c.dirty
  <2> HIDE DEF has, trees, dirty
  <2> QED
    BY DEF IsCache, Fields
<1>5. /\ MarkMined(c, t) = IF t \in c.txs /\ has THEN trees ELSE c.trees
      /\ (IF t \in c.txs /\ HasTree(c, t) THEN c.dirty \cup {c.treeMap[t]} ELSE c.dirty) =
           IF t \in c.txs /\ has THEN dirty ELSE c.dirty
  BY DEF MarkMined
<1> HIDE DEF m, trees, dirty, has, id, marked
<1>3. CASE t \notin c.txs
  BY <1>1, <1>3, <1>5 DEF MarkedMined
<1>4. CASE t \in c.txs
  <2>1. d = Evict(m, t)
    BY <1>1, <1>4
  <2>2. /\ IsCache(d) /\ d.replacedBy = m.replacedBy /\ d.replaces = m.replaces /\ d.trees = m.trees
        /\ d.treeMap = m.treeMap /\ d.txs = m.txs /\ d.dirty = m.dirty /\ d.thrown = m.thrown
        /\ d.expiring = IF t \in m.txs /\ t \notin ToSet(m.expiring) THEN Append(m.expiring, t) ELSE m.expiring
    <3>1. Evicted(m, t, d)
      BY <2>1, <1>2, EvictFields
    <3> QED
      BY <3>1 DEF Evicted
  <2> QED
    BY <2>2, <1>2, <1>4, <1>5 DEF MarkedMined
<1> QED
  BY <1>3, <1>4 DEF MarkedMined

\* The tree of a mined transaction is marked.
LEMMA MinedMarks ==
    ASSUME NEW c, IsCache(c), NEW t, NEW d, d = Mined(c, t)
    PROVE  IsCache(d) /\ Marks(c, d)
<1> DEFINE id == c.treeMap[t]
           trees == [c.trees EXCEPT ![id] = WithMined(c.trees[id], t)]
<1>1. IsCache(d) /\ \/ d.trees = trees /\ d.dirty = c.dirty \cup {id}
                    \/ d.trees = c.trees /\ d.dirty = c.dirty
  <2>1. MarkedMined(c, t, d)
    BY MinedFields
  <2> QED
    BY <2>1 DEF MarkedMined, MarkMined
<1>2. DOMAIN trees = DOMAIN c.trees /\ \A x \in DOMAIN trees \ {id} : trees[x] = c.trees[x]
  OBVIOUS
<1> HIDE DEF trees, id
<1>3. Marks(c, d)
  BY <1>1, <1>2 DEF Marks
<1> QED
  BY <1>1, <1>3

Removed(c, t, d) ==
    /\ IsCache(d) /\ d.replacedBy = Without(c.replacedBy, Versions(c, t))
    /\ d.replaces = Without(c.replaces, Versions(c, t))
    /\ d.trees = Without(c.trees, {p \in Versions(c, t) \ {t} : IsTreeId(c, p)})
    /\ d.treeMap = Without(c.treeMap, Versions(c, t))
    /\ d.txs = c.txs \ Versions(c, t)
    /\ d.expiring = Drop(c.expiring, Versions(c, t))
    /\ d.dirty = c.dirty /\ d.thrown = c.thrown

\* RemoveVersions, of the newest one, takes the versions out of every map.
LEMMA RemoveVersionsFields ==
    ASSUME NEW c, IsCache(c), NEW t, t \notin DOMAIN c.replacedBy, NEW d, d = RemoveVersions(c, t)
    PROVE  Removed(c, t, d)
<1> DEFINE gone == Versions(c, t)
           replacedBy == Without(c.replacedBy, gone)
           replaces == Without(c.replaces, gone)
           trees == Without(c.trees, {p \in gone \ {t} : IsTreeId(c, p)})
           treeMap == Without(c.treeMap, gone)
           txs == c.txs \ gone
           expiring == Drop(c.expiring, gone)
<1>1. d =
        [c EXCEPT !.replaces = replaces, !.treeMap = treeMap, !.txs = txs, !.expiring = expiring,
                  !.replacedBy = replacedBy, !.trees = trees]
  BY DEF RemoveVersions, HasNewerVersion
<1> HIDE DEF replacedBy, replaces, trees, treeMap, txs, expiring
<1>2. /\ IsCache(d) /\ d.replacedBy = replacedBy /\ d.replaces = replaces /\ d.trees = trees
      /\ d.treeMap = treeMap /\ d.txs = txs /\ d.expiring = expiring /\ d.dirty = c.dirty
      /\ d.thrown = c.thrown
  BY <1>1 DEF IsCache, Fields
<1> QED
  BY <1>2 DEF replacedBy, replaces, trees, treeMap, txs, expiring, Removed

\* A removal changes no tree that stays.
LEMMA RemoveVersionsMarks ==
    ASSUME NEW c, IsCache(c), NEW t, NEW d, d = RemoveVersions(c, t)
    PROVE  IsCache(d) /\ Marks(c, d)
<1> DEFINE prior == {p \in Versions(c, t) \ {t} : IsTreeId(c, p)}
<1>1. CASE t \in DOMAIN c.replacedBy
  BY <1>1 DEF RemoveVersions, HasNewerVersion, Marks
<1>2. CASE t \notin DOMAIN c.replacedBy
  <2>1. IsCache(d) /\ d.trees = Without(c.trees, prior) /\ d.dirty = c.dirty
    <3>1. Removed(c, t, d)
      BY <1>2, RemoveVersionsFields
    <3> QED
      BY <3>1 DEF Removed
  <2> HIDE DEF prior
  <2>2. Marks(c, d)
    BY <2>1 DEF Without, Marks
  <2> QED
    BY <2>1, <2>2
<1> QED
  BY <1>1, <1>2

-----------------------------------------------------------------------------
(* The clients are told: in every behaviour *)

ToldInv == IsCache(rbf) /\ ChangesAreTold

\* A step that marks its changes and tells nothing keeps the invariant.
LEMMA MarksTold ==
    ASSUME ToldInv, IsCache(rbf'), Marks(rbf, rbf'), told' = told
    PROVE  ToldInv'
<1>1. ASSUME NEW id \in DOMAIN rbf'.trees \ rbf'.dirty
      PROVE  id \in DOMAIN told' /\ told'[id] = rbf'.trees[id]
  <2>1. id \in DOMAIN rbf.trees \ rbf.dirty /\ rbf'.trees[id] = rbf.trees[id]
    BY DEF Marks
  <2> QED
    BY <2>1 DEF ToldInv, ChangesAreTold
<1> QED
  BY <1>1 DEF ToldInv, ChangesAreTold

\* An empty cache has no trees to tell of.
LEMMA EmptyCacheIsCache == IsCache(EmptyCache) /\ EmptyCache.trees = EmptyMap
BY DEF EmptyCache, IsCache, Fields

\* What is sent need not be marked any more.
LEMMA SendChangesTold ==
    ASSUME ToldInv, SendChanges PROVE ToldInv'
<1> DEFINE sent == RbfChanges(rbf)
           e(order) == rbf.expiring \o order
<1>1. /\ told' = [id \in DOMAIN told \cup DOMAIN sent |-> IF id \in DOMAIN sent THEN sent[id] ELSE told[id]]
      /\ \E order : rbf' = [rbf EXCEPT !.dirty = {}, !.expiring = e(order)]
  <2>1. PICK order \in SetToSeqs((change.deleted \cap rbf.txs) \ ToSet(rbf.expiring)) :
          rbf' = [rbf EXCEPT !.dirty = {}, !.expiring = @ \o order]
    BY DEF SendChanges
  <2> QED
    BY <2>1 DEF SendChanges
<1>2. IsCache(rbf') /\ rbf'.trees = rbf.trees /\ rbf'.dirty = {}
  <2> PICK order : rbf' = [rbf EXCEPT !.dirty = {}, !.expiring = e(order)]
    BY <1>1
  <2> HIDE DEF e
  <2> QED
    BY DEF IsCache, Fields, ToldInv
<1>3. DOMAIN sent = rbf.dirty \cap DOMAIN rbf.trees /\ \A id \in DOMAIN sent : sent[id] = rbf.trees[id]
  BY DEF RbfChanges
<1> HIDE DEF sent
<1>4. ASSUME NEW id \in DOMAIN rbf'.trees \ rbf'.dirty
      PROVE  id \in DOMAIN told' /\ told'[id] = rbf'.trees[id]
  <2>1. id \in DOMAIN rbf.trees /\ rbf'.trees[id] = rbf.trees[id]
    BY <1>2
  <2>2. CASE id \in rbf.dirty
    BY <2>1, <2>2, <1>1, <1>3
  <2>3. CASE id \notin rbf.dirty
    <3>1. id \in DOMAIN told /\ told[id] = rbf.trees[id]
      BY <2>1, <2>3 DEF ToldInv, ChangesAreTold
    <3> QED
      BY <2>1, <2>3, <3>1, <1>1, <1>3
  <2> QED
    BY <2>2, <2>3
<1> QED
  BY <1>2, <1>4 DEF ToldInv, ChangesAreTold

\* A new process has no trees at first.
LEMMA RestartTold ==
    ASSUME ToldInv, Restart PROVE ToldInv'
<1>1. rbf' = [EmptyCache EXCEPT !.txs = rbf.txs] /\ told' = told
  BY DEF Restart
<1>2. IsCache(rbf') /\ rbf'.trees = EmptyMap
  BY <1>1, EmptyCacheIsCache DEF IsCache, Fields
<1> QED
  BY <1>2 DEF ToldInv, ChangesAreTold, EmptyMap

\* A tree that a load completes is marked.
LEMMA ImportReturnsTold ==
    ASSUME ToldInv, ImportReturns, told' = told PROVE ToldInv'
<1> DEFINE call == Last(load.calls)
           tree == Join([tx |-> call.tx, txMined |-> call.txMined, mined |-> call.mined], call.done)
           parent == Last(Front(load.calls))
           replaces == With(rbf.replaces, {call.tx}, {Root(call.done[i]) : i \in DOMAIN call.done})
           treeMap == With(rbf.treeMap, {call.tx}, load.deflated.root)
           trees == With(rbf.trees, {call.tx}, tree)
           dirty == rbf.dirty \cup {call.tx}
           replacedBy == With(rbf.replacedBy, {call.tx}, parent.tx)
           replaced == [rbf EXCEPT !.replaces = replaces]
           mapped == [replaced EXCEPT !.treeMap = With(@, {call.tx}, load.deflated.root)]
<1>1. \/ rbf' = replaced
      \/ rbf' = [mapped EXCEPT !.trees = With(@, {call.tx}, tree), !.dirty = @ \cup {call.tx}]
      \/ rbf' = [mapped EXCEPT !.replacedBy = With(@, {call.tx}, parent.tx)]
  BY DEF ImportReturns
<1> HIDE DEF replaces
<1>2. /\ IsCache(replaced) /\ replaced.trees = rbf.trees /\ replaced.treeMap = rbf.treeMap
      /\ replaced.dirty = rbf.dirty /\ replaced.replacedBy = rbf.replacedBy
  BY DEF IsCache, Fields, ToldInv
<1> HIDE DEF replaced
<1>3. mapped = [replaced EXCEPT !.treeMap = treeMap]
  BY <1>2
<1> HIDE DEF treeMap, mapped
<1>4. /\ IsCache(mapped) /\ mapped.trees = rbf.trees
      /\ mapped.dirty = rbf.dirty /\ mapped.replacedBy = rbf.replacedBy
  BY <1>2, <1>3 DEF IsCache, Fields
<1>5. \/ rbf' = replaced
      \/ rbf' = [mapped EXCEPT !.trees = trees, !.dirty = dirty]
      \/ rbf' = [mapped EXCEPT !.replacedBy = replacedBy]
  BY <1>1, <1>4
<1> HIDE DEF trees, dirty, replacedBy
<1>6. /\ IsCache(rbf')
      /\ \/ rbf'.trees = rbf.trees /\ rbf'.dirty = rbf.dirty
         \/ rbf'.trees = trees /\ rbf'.dirty = dirty
  BY <1>2, <1>4, <1>5 DEF IsCache, Fields
<1>7. Marks(rbf, rbf')
  BY <1>6 DEF Marks, With, trees, dirty
<1> QED
  BY <1>6, <1>7, MarksTold

\* So are the changes of the other steps of a load.
LEMMA LoadStepTold ==
    ASSUME ToldInv, LoadStep PROVE ToldInv'
<1>1. told' = told
  BY DEF LoadStep
<1>2. CASE UNCHANGED rbf
  BY <1>1, <1>2 DEF ToldInv, ChangesAreTold
<1>3. CASE LoadEnds
  <2>1. \E e : rbf' = [rbf EXCEPT !.expiring = e]
    BY <1>3 DEF LoadEnds, Loaded
  <2>2. IsCache(rbf') /\ rbf'.trees = rbf.trees /\ rbf'.dirty = rbf.dirty
    BY <2>1 DEF IsCache, Fields, ToldInv
  <2> QED
    BY <2>2, <1>1, MarksTold DEF Marks
<1>4. CASE ImportReturns
  BY <1>1, <1>4, ImportReturnsTold
<1> QED
  BY <1>2, <1>3, <1>4 DEF LoadStep, ImportTree, ImportChild

\* What changes in a tree is marked until the clients are told: in every
\* behaviour, with replacements, blocks, expiries, exits and loads in any order
\* (rbf-cache.ts:131-161).
THEOREM ChangesAreToldAlways == Spec => []ChangesAreTold
<1>1. Init => ToldInv
  BY EmptyCacheIsCache DEF Init, ToldInv, ChangesAreTold, EmptyMap
<1>2. ToldInv /\ [Next]_vars => ToldInv'
  <2> SUFFICES ASSUME ToldInv, [Next]_vars PROVE ToldInv'
    OBVIOUS
  <2>1. CASE LoadRuns /\ LoadStep
    BY <2>1, LoadStepTold
  <2>2. CASE UpdateMempool
    BY <2>2 DEF UpdateMempool, ToldInv, ChangesAreTold
  <2>3. CASE HandleRbf
    <3>1. told' = told
      BY <2>3 DEF HandleRbf
    <3>2. IsCache(rbf') /\ Marks(rbf, rbf')
      <4>1. CASE UNCHANGED rbf
        BY <4>1 DEF ToldInv, Marks
      <4>2. CASE \E order : rbf' = Add(rbf, order, Head(change.new))
        <5>1. PICK order : rbf' = Add(rbf, order, Head(change.new))
          BY <4>2
        <5> QED
          BY <5>1, AddMarks DEF ToldInv
      <4>3. QED
        BY <4>1, <4>2, <2>3 DEF HandleRbf
    <3> QED
      BY <3>1, <3>2, MarksTold
  <2>4. CASE SendChanges
    BY <2>4, SendChangesTold
  <2>5. ASSUME NEW t \in Txs, TxMined(t) PROVE ToldInv'
    <3>1. rbf' = Mined(rbf, t) /\ told' = told
      BY <2>5 DEF TxMined
    <3>2. IsCache(rbf') /\ Marks(rbf, rbf')
      BY <3>1, MinedMarks DEF ToldInv
    <3> QED
      BY <3>1, <3>2, MarksTold
  <2>6. CASE Cleanup
    <3> DEFINE c == [rbf EXCEPT !.expiring = Tail(rbf.expiring)]
    <3>1. rbf' = RemoveVersions(c, Head(rbf.expiring)) /\ told' = told
      BY <2>6 DEF Cleanup
    <3>2. IsCache(c) /\ Marks(rbf, c)
      BY DEF IsCache, Fields, ToldInv, Marks
    <3> HIDE DEF c
    <3>3. IsCache(rbf') /\ Marks(c, rbf')
      BY <3>1, <3>2, RemoveVersionsMarks
    <3>4. Marks(rbf, rbf')
      BY <3>2, <3>3, MarksTwice
    <3> QED
      BY <3>1, <3>3, <3>4, MarksTold
  <2>7. CASE Restart
    BY <2>7, RestartTold
  <2>8. CASE ImportTx
    <3>1. told' = told /\ (rbf' = rbf \/ \E t : rbf' = Evict(rbf, t))
      BY <2>8 DEF ImportTx
    <3>2. CASE rbf' = rbf
      BY <3>1, <3>2 DEF ToldInv, ChangesAreTold
    <3>3. CASE \E t : rbf' = Evict(rbf, t)
      BY <3>1, <3>3, EvictMarks, MarksTold DEF ToldInv
    <3> QED
      BY <3>1, <3>2, <3>3
  <2>9. CASE UNCHANGED vars
    BY <2>9 DEF vars, ToldInv, ChangesAreTold
  <2> QED
    BY <2>1, <2>2, <2>3, <2>4, <2>5, <2>6, <2>7, <2>8, <2>9 DEF Next
<1>3. ToldInv => ChangesAreTold
  BY DEF ToldInv
<1> QED
  BY <1>1, <1>2, <1>3, PTL DEF Spec


-----------------------------------------------------------------------------
(* A cache whose maps and trees tell one story *)

\* The node at p is cached in this tree, was replaced unless it is the root, and
\* its parent knows that it replaced it.

InTree(c, id, p) ==
    LET tree == c.trees[id] IN
    /\ tree[p].tx \in c.txs /\ c.treeMap[tree[p].tx] = id
    /\ tree[p].tx \in DOMAIN c.replacedBy <=> p # <<>>
    /\ p # <<>> => /\ Front(p) \in DOMAIN tree
                   /\ tree[Front(p)].tx \in DOMAIN c.replaces
                   /\ tree[p].tx \in c.replaces[tree[Front(p)].tx]
\* A tree has its id from one of its older versions.
TreeOk(c, id) ==
    /\ IsTree(c.trees[id])
    /\ id \in c.txs /\ c.treeMap[id] = id /\ id # Root(c.trees[id])
    /\ \A p \in DOMAIN c.trees[id] : InTree(c, id, p)
\* Every cached transaction is in the one tree that treeMap names.
CacheOk(c) ==
    /\ IsCache(c) /\ c.thrown = FALSE
    /\ c.txs \subseteq Txs /\ DOMAIN c.treeMap = c.txs
    /\ DOMAIN c.replaces \subseteq c.txs /\ DOMAIN c.replacedBy \subseteq c.txs
    /\ \A id \in DOMAIN c.trees : TreeOk(c, id)
    /\ \A t \in c.txs : c.treeMap[t] \in DOMAIN c.trees /\ t \in TxsIn(c.trees[c.treeMap[t]])
    /\ \A x \in DOMAIN c.replaces : \A y \in c.replaces[x] : y \in c.txs /\ c.treeMap[y] = c.treeMap[x]

\* Only the maps and the trees matter.
LEMMA SameMaps ==
    ASSUME NEW c, CacheOk(c), NEW d, IsCache(d), d.replacedBy = c.replacedBy, d.replaces = c.replaces,
           d.trees = c.trees, d.treeMap = c.treeMap, d.txs = c.txs, d.thrown = c.thrown
    PROVE  CacheOk(d)
<1>1. \A id, p : InTree(c, id, p) => InTree(d, id, p)
  BY DEF InTree
<1>2. \A id : TreeOk(c, id) => TreeOk(d, id)
  BY <1>1 DEF TreeOk
<1> QED
  BY <1>2 DEF CacheOk

\* A tree has the transactions that treeMap gives to it.
LEMMA TxsInTree ==
    ASSUME NEW c, CacheOk(c), NEW id \in DOMAIN c.trees
    PROVE  \A x : x \in TxsIn(c.trees[id]) <=> x \in c.txs /\ c.treeMap[x] = id
<1>1. ASSUME NEW x, x \in TxsIn(c.trees[id]) PROVE x \in c.txs /\ c.treeMap[x] = id
  <2>1. PICK p \in DOMAIN c.trees[id] : x = c.trees[id][p].tx
    BY <1>1 DEF TxsIn
  <2> QED
    BY <2>1 DEF CacheOk, TreeOk, InTree
<1>2. ASSUME NEW x \in c.txs, c.treeMap[x] = id PROVE x \in TxsIn(c.trees[id])
  BY <1>2 DEF CacheOk
<1> QED
  BY <1>1, <1>2

\* The newest of a tree is its root.
LEMMA NewestIsRoot ==
    ASSUME NEW c, CacheOk(c), NEW t \in c.txs
    PROVE  t \notin DOMAIN c.replacedBy <=> Root(c.trees[c.treeMap[t]]) = t
<1> DEFINE id == c.treeMap[t]
<1>1. id \in DOMAIN c.trees /\ t \in TxsIn(c.trees[id])
  BY DEF CacheOk
<1>2. PICK p \in DOMAIN c.trees[id] : t = c.trees[id][p].tx
  BY <1>1 DEF TxsIn
<1>3. \A q \in DOMAIN c.trees[id] : InTree(c, id, q)
  BY <1>1 DEF CacheOk, TreeOk
<1>4. <<>> \in DOMAIN c.trees[id]
  BY <1>1 DEF CacheOk, TreeOk, IsTree
<1> HIDE DEF id
<1>5. ASSUME t \notin DOMAIN c.replacedBy PROVE Root(c.trees[id]) = t
  BY <1>2, <1>3, <1>5 DEF InTree, Root
<1>6. ASSUME Root(c.trees[id]) = t PROVE t \notin DOMAIN c.replacedBy
  BY <1>3, <1>4, <1>6 DEF InTree, Root
<1> QED
  BY <1>5, <1>6 DEF id
\* add

\* What handleRbfTransactions gives to add: a new transaction and, once each,
\* newest versions it replaces.
AddInput(c, replaced, t) ==
    /\ CacheOk(c) /\ t \in Txs /\ t \notin c.txs
    /\ replaced \in Seq(Txs) /\ replaced # <<>>
    /\ \A i, j \in DOMAIN replaced : i # j => replaced[i] # replaced[j]
    /\ \A i \in DOMAIN replaced : replaced[i] \notin DOMAIN c.replacedBy /\ replaced[i] # t

\* Every replaced transaction brings a tree of its own, of which it is the root.
LEMMA SourcesFacts ==
    ASSUME NEW c, NEW replaced, NEW t, AddInput(c, replaced, t)
    PROVE  /\ Found(c, replaced) = Known(c, replaced)
           /\ DOMAIN Sources(c, replaced) = DOMAIN replaced /\ DOMAIN replaced \subseteq Nat
           /\ First(c, replaced) \in DOMAIN replaced
           /\ \A i \in DOMAIN replaced :
                /\ IsTree(Sources(c, replaced)[i]) /\ Root(Sources(c, replaced)[i]) = replaced[i]
                /\ i \in Known(c, replaced) =>
                     /\ replaced[i] \in c.txs /\ c.treeMap[replaced[i]] \in DOMAIN c.trees
                     /\ Sources(c, replaced)[i] = c.trees[c.treeMap[replaced[i]]]
                /\ i \notin Known(c, replaced) =>
                     replaced[i] \notin c.txs /\ Sources(c, replaced)[i] = Leaf(replaced[i])
<1> USE DEF AddInput
<1>1. DOMAIN replaced \subseteq Nat /\ DOMAIN replaced # {} /\ \A i \in DOMAIN replaced : replaced[i] \in Txs
  OBVIOUS
<1>2. Known(c, replaced) = {i \in DOMAIN replaced : replaced[i] \in c.txs}
  BY DEF Known, CacheOk
<1>3. ASSUME NEW i \in Known(c, replaced)
      PROVE  /\ replaced[i] \in c.txs /\ c.treeMap[replaced[i]] \in DOMAIN c.trees
             /\ Root(c.trees[c.treeMap[replaced[i]]]) = replaced[i]
             /\ IsTree(c.trees[c.treeMap[replaced[i]]])
  <2>1. replaced[i] \in c.txs /\ replaced[i] \notin DOMAIN c.replacedBy /\ CacheOk(c)
    BY <1>2
  <2>2. c.treeMap[replaced[i]] \in DOMAIN c.trees
    BY <2>1 DEF CacheOk
  <2>3. Root(c.trees[c.treeMap[replaced[i]]]) = replaced[i]
    BY <2>1, NewestIsRoot
  <2>4. IsTree(c.trees[c.treeMap[replaced[i]]])
    BY <2>1, <2>2 DEF CacheOk, TreeOk
  <2> QED
    BY <2>1, <2>2, <2>3, <2>4
<1>4. ASSUME NEW i \in Known(c, replaced), NEW j \in Known(c, replaced), j < i
      PROVE  c.treeMap[replaced[j]] # c.treeMap[replaced[i]]
  <2>1. i # j /\ i \in DOMAIN replaced /\ j \in DOMAIN replaced
    BY <1>1, <1>4 DEF Known
  <2> QED
    BY <2>1, <1>3
<1>5. Found(c, replaced) = Known(c, replaced)
  BY <1>3, <1>4 DEF Found
<1>6. DOMAIN Sources(c, replaced) = DOMAIN replaced
  BY <1>5 DEF Sources, Known
<1>7. First(c, replaced) \in DOMAIN replaced
  <2>1. \E i \in DOMAIN replaced : \A j \in DOMAIN replaced : i <= j
    BY <1>1, LeastNat
  <2> QED
    BY <1>6, <2>1 DEF First
<1>8. ASSUME NEW i \in DOMAIN replaced
      PROVE  Sources(c, replaced)[i] = IF i \in Known(c, replaced) THEN c.trees[c.treeMap[replaced[i]]] ELSE Leaf(replaced[i])
  BY <1>5 DEF Sources, Known
<1>9. ASSUME NEW i \in DOMAIN replaced, i \notin Known(c, replaced)
      PROVE  replaced[i] \notin c.txs /\ IsTree(Leaf(replaced[i])) /\ Root(Leaf(replaced[i])) = replaced[i]
  BY <1>1, <1>2, <1>9, LeafFacts
<1> QED
  BY <1>1, <1>3, <1>5, <1>6, <1>7, <1>8, <1>9

\* The new tree holds the new transaction, the replaced ones and what the
\* cache held in their trees.
LEMMA NewTreeTxs ==
    ASSUME NEW c, NEW replaced, NEW t, AddInput(c, replaced, t)
    PROVE  /\ t \in TxsIn(NewTree(c, replaced, t))
           /\ ToSet(replaced) \subseteq TxsIn(NewTree(c, replaced, t))
           /\ TxsIn(NewTree(c, replaced, t)) \subseteq c.txs \cup {t} \cup ToSet(replaced)
           /\ \A x \in c.txs : x \in TxsIn(NewTree(c, replaced, t)) <=>
                \E i \in Known(c, replaced) : c.treeMap[x] = c.treeMap[replaced[i]]
<1> DEFINE sources == Sources(c, replaced)
           N == NewTree(c, replaced, t)
<1>1. /\ DOMAIN sources = DOMAIN replaced /\ DOMAIN replaced \subseteq Nat
      /\ \A i \in DOMAIN replaced :
           /\ IsTree(sources[i]) /\ Root(sources[i]) = replaced[i]
           /\ i \in Known(c, replaced) =>
                /\ replaced[i] \in c.txs /\ c.treeMap[replaced[i]] \in DOMAIN c.trees
                /\ sources[i] = c.trees[c.treeMap[replaced[i]]]
           /\ i \notin Known(c, replaced) =>
                replaced[i] \notin c.txs /\ sources[i] = Leaf(replaced[i])
  BY SourcesFacts
<1>2. CacheOk(c) /\ t \in Txs /\ t \notin c.txs /\ \A i \in DOMAIN replaced : replaced[i] \in Txs
  BY DEF AddInput
<1>3. \A x : x \in TxsIn(N) <=> x = t \/ \E i \in DOMAIN replaced : x \in TxsIn(sources[i])
  BY <1>1, <1>2, NodeType, JoinTxs DEF NewTree
<1> HIDE DEF N, sources
<1>4. \A i \in DOMAIN replaced : replaced[i] \in TxsIn(sources[i])
  BY <1>1, RootIn
<1>5. ASSUME NEW i \in Known(c, replaced)
      PROVE  \A x : x \in TxsIn(sources[i]) <=> x \in c.txs /\ c.treeMap[x] = c.treeMap[replaced[i]]
  <2>1. i \in DOMAIN replaced
    BY DEF Known
  <2>2. sources[i] = c.trees[c.treeMap[replaced[i]]] /\ c.treeMap[replaced[i]] \in DOMAIN c.trees
    BY <1>1, <2>1
  <2> QED
    BY <2>2, <1>2, TxsInTree
<1>6. ASSUME NEW i \in DOMAIN replaced, i \notin Known(c, replaced)
      PROVE  TxsIn(sources[i]) = {replaced[i]} /\ replaced[i] \notin c.txs
  BY <1>1, <1>2, <1>6, LeafFacts
<1>7. ToSet(replaced) \subseteq TxsIn(N)
  BY <1>3, <1>4 DEF ToSet
<1>8. ASSUME NEW x, x \in TxsIn(N) PROVE x \in c.txs \cup {t} \cup ToSet(replaced)
  <2>1. CASE x = t
    BY <2>1
  <2>2. ASSUME NEW i \in DOMAIN replaced, x \in TxsIn(sources[i])
        PROVE  x \in c.txs \/ x = replaced[i]
    <3>1. CASE i \in Known(c, replaced)
      BY <2>2, <3>1, <1>5
    <3>2. CASE i \notin Known(c, replaced)
      BY <2>2, <3>2, <1>6
    <3> QED
      BY <3>1, <3>2
  <2> QED
    BY <1>3, <1>8, <2>1, <2>2 DEF ToSet
<1>9. ASSUME NEW x \in c.txs
      PROVE  x \in TxsIn(N) <=> \E i \in Known(c, replaced) : c.treeMap[x] = c.treeMap[replaced[i]]
  <2>1. Known(c, replaced) \subseteq DOMAIN replaced
    BY DEF Known
  <2>2. ASSUME x \in TxsIn(N)
        PROVE  \E i \in Known(c, replaced) : c.treeMap[x] = c.treeMap[replaced[i]]
    <3>1. PICK i \in DOMAIN replaced : x \in TxsIn(sources[i])
      BY <2>2, <1>2, <1>3
    <3>2. i \in Known(c, replaced)
      BY <3>1, <1>6
    <3> QED
      BY <3>1, <3>2, <1>5
  <2>3. ASSUME NEW i \in Known(c, replaced), c.treeMap[x] = c.treeMap[replaced[i]]
        PROVE  x \in TxsIn(N)
    BY <2>1, <2>3, <1>3, <1>5
  <2> QED
    BY <2>2, <2>3
<1> QED
  BY <1>3, <1>7, <1>8, <1>9 DEF N


\* add keeps the story: the trees of the replaced ones become one, under an id
\* that no other tree has.
LEMMA AddOk ==
    ASSUME NEW c, NEW replaced, NEW t, AddInput(c, replaced, t), NEW d, d = Add(c, replaced, t)
    PROVE  /\ CacheOk(d) /\ d.expiring = c.expiring
           /\ d.txs = c.txs \cup {t} \cup ToSet(replaced)
           /\ DOMAIN d.replacedBy = DOMAIN c.replacedBy \cup ToSet(replaced)
<1> DEFINE sources == Sources(c, replaced)
           known == Known(c, replaced)
           N == NewTree(c, replaced, t)
           b == NewId(c, replaced)
           ours == TxsIn(N)
           kept == KeptTrees(c, replaced)
           olds == {c.treeMap[replaced[i]] : i \in known}
<1>1. /\ DOMAIN sources = DOMAIN replaced /\ DOMAIN replaced \subseteq Nat
      /\ First(c, replaced) \in DOMAIN replaced
      /\ \A i \in DOMAIN replaced :
           /\ IsTree(sources[i]) /\ Root(sources[i]) = replaced[i]
           /\ i \in known =>
                /\ replaced[i] \in c.txs /\ c.treeMap[replaced[i]] \in DOMAIN c.trees
                /\ sources[i] = c.trees[c.treeMap[replaced[i]]]
           /\ i \notin known =>
                replaced[i] \notin c.txs /\ sources[i] = Leaf(replaced[i])
  BY SourcesFacts
<1>2. /\ t \in ours /\ ToSet(replaced) \subseteq ours
      /\ ours \subseteq c.txs \cup {t} \cup ToSet(replaced)
      /\ \A x \in c.txs : x \in ours <=> \E i \in known : c.treeMap[x] = c.treeMap[replaced[i]]
  BY NewTreeTxs
<1>3. /\ CacheOk(c) /\ t \in Txs /\ t \notin c.txs /\ replaced # <<>>
      /\ \A i \in DOMAIN replaced : /\ replaced[i] \in Txs /\ replaced[i] \notin DOMAIN c.replacedBy
                                    /\ replaced[i] # t
  BY DEF AddInput
<1>0. Node(t) \in Nodes /\ Node(t).tx = t
  BY <1>3, NodeType
<1>4. IsTree(N) /\ N[<<>>] = Node(t) /\ Root(N) = t
      /\ \A p \in DOMAIN N : p # <<>> => \E i \in DOMAIN replaced : \E q \in DOMAIN sources[i] : p = Down(i, q)
  BY <1>0, <1>1, JoinFacts DEF NewTree, Root
<1>4a. ASSUME NEW i \in DOMAIN replaced, NEW q \in DOMAIN sources[i]
      PROVE  Down(i, q) \in DOMAIN N /\ N[Down(i, q)] = sources[i][q]
  BY <1>0, <1>1, JoinFacts DEF NewTree
<1>5. Added(c, replaced, t, d)
  BY AddFields DEF AddInput, CacheOk
<1>6. known \subseteq DOMAIN replaced /\ ToSet(replaced) \subseteq Txs /\ t \notin ToSet(replaced)
      /\ DOMAIN sources # {} /\ b \in ToSet(replaced)
      /\ \A i \in DOMAIN replaced : replaced[i] \in ToSet(replaced)
  <2>1. DOMAIN replaced # {}
    BY DEF AddInput
  <2>2. b = replaced[First(c, replaced)]
    BY <1>1 DEF NewId
  <2> QED
    BY <2>1, <2>2, <1>1, <1>3 DEF ToSet, Known
<1>7. /\ IsCache(d) /\ d.thrown = c.thrown /\ d.expiring = c.expiring
      /\ d.trees = With(kept, {b}, N) /\ d.treeMap = With(c.treeMap, ours, b)
      /\ d.replaces = With(c.replaces, {t}, {Root(sources[i]) : i \in DOMAIN sources})
      /\ d.replacedBy = With(c.replacedBy, ToSet(replaced), t)
      /\ d.txs = c.txs \cup {t} \cup {replaced[i] : i \in DOMAIN replaced \ known}
  BY <1>5, <1>6 DEF Added
<1>8. /\ DOMAIN kept = DOMAIN c.trees \ olds /\ \A id \in DOMAIN kept : kept[id] = c.trees[id]
      /\ \A x : x \in olds <=> \E i \in known : x = c.treeMap[replaced[i]]
  BY DEF KeptTrees, Without
<1>9. {Root(sources[i]) : i \in DOMAIN sources} = ToSet(replaced)
  BY <1>1 DEF ToSet
<1> HIDE DEF sources, known, N, b, ours, kept, olds
<1>10. d.txs = c.txs \cup {t} \cup ToSet(replaced)
  <2>1. \A i \in known : replaced[i] \in c.txs
    BY <1>1, <1>6
  <2> QED
    BY <2>1, <1>7 DEF ToSet
<1>11. /\ DOMAIN d.treeMap = c.txs \cup ours
       /\ \A x \in ours : d.treeMap[x] = b
       /\ \A x \in c.txs \ ours : d.treeMap[x] = c.treeMap[x]
  <2>1. DOMAIN c.treeMap = c.txs
    BY <1>3 DEF CacheOk
  <2>2. d.treeMap = With(c.treeMap, ours, b)
    BY <1>7
  <2> QED
    BY <2>1, <2>2 DEF With
<1>12. /\ DOMAIN d.trees = (DOMAIN c.trees \ olds) \cup {b} /\ d.trees[b] = N
       /\ \A id \in DOMAIN c.trees \ olds : id # b => d.trees[id] = c.trees[id]
  <2>1. d.trees = With(kept, {b}, N)
    BY <1>7
  <2>2. DOMAIN d.trees = DOMAIN kept \cup {b} /\ d.trees[b] = N /\ \A id \in DOMAIN kept : id # b => d.trees[id] = kept[id]
    BY <2>1 DEF With
  <2> QED
    BY <2>2, <1>8
<1>13. /\ DOMAIN d.replaces = DOMAIN c.replaces \cup {t} /\ d.replaces[t] = ToSet(replaced)
       /\ \A x \in DOMAIN c.replaces : x # t => d.replaces[x] = c.replaces[x]
  <2>1. d.replaces = With(c.replaces, {t}, ToSet(replaced))
    BY <1>7, <1>9
  <2> QED
    BY <2>1 DEF With
<1>14. DOMAIN d.replacedBy = DOMAIN c.replacedBy \cup ToSet(replaced)
  <2>1. d.replacedBy = With(c.replacedBy, ToSet(replaced), t)
    BY <1>7
  <2> QED
    BY <2>1 DEF With
<1>15. \A x \in c.txs : x \in ours <=> c.treeMap[x] \in olds
  BY <1>2, <1>8
<1>16. b \in DOMAIN c.trees => b \in olds
  <2>1. SUFFICES ASSUME b \in DOMAIN c.trees PROVE b \in olds
    OBVIOUS
  <2>2. b \in c.txs /\ c.treeMap[b] = b
    BY <2>1, <1>3 DEF CacheOk, TreeOk
  <2>3. b \in ours
    BY <1>2, <1>6
  <2> QED
    BY <2>2, <2>3, <1>15
<1>17. t # b /\ b \in d.txs /\ b \in ours
  BY <1>2, <1>6, <1>10
<1>18. ASSUME NEW id \in DOMAIN d.trees, id # b PROVE TreeOk(d, id)
  <2>1. id \in DOMAIN c.trees /\ id \notin olds /\ d.trees[id] = c.trees[id] /\ TreeOk(c, id)
    BY <1>3, <1>12, <1>18 DEF CacheOk
  <2>2. \A x \in c.txs : c.treeMap[x] = id => x \notin ours /\ d.treeMap[x] = id /\ x # t
    BY <2>1, <1>3, <1>11, <1>15
  <2>3. id \in d.txs /\ d.treeMap[id] = id /\ IsTree(d.trees[id]) /\ id # Root(d.trees[id])
    BY <2>1, <2>2, <1>10 DEF TreeOk
  <2>4. ASSUME NEW p \in DOMAIN d.trees[id] PROVE InTree(d, id, p)
    <3> DEFINE x == d.trees[id][p].tx
               y == d.trees[id][Front(p)].tx
    <3>1. /\ x \in c.txs /\ c.treeMap[x] = id /\ (x \in DOMAIN c.replacedBy <=> p # <<>>)
          /\ p # <<>> => Front(p) \in DOMAIN d.trees[id] /\ y \in DOMAIN c.replaces /\ x \in c.replaces[y]
      BY <2>1 DEF TreeOk, InTree
    <3>2. x \in d.txs /\ d.treeMap[x] = id
      BY <3>1, <2>2, <1>10
    <3>3. x \in DOMAIN d.replacedBy <=> p # <<>>
      BY <3>1, <2>2, <1>2, <1>14
    <3>4. p # <<>> => y \in DOMAIN d.replaces /\ x \in d.replaces[y]
      BY <3>1, <1>3, <1>13 DEF CacheOk
    <3> QED
      BY <3>1, <3>2, <3>3, <3>4 DEF InTree
  <2> QED
    BY <2>3, <2>4 DEF TreeOk
<1>19. TreeOk(d, b)
  <2>1. IsTree(d.trees[b]) /\ d.treeMap[b] = b /\ b # Root(d.trees[b])
    BY <1>4, <1>11, <1>12, <1>17
  <2>2. ASSUME NEW p \in DOMAIN N PROVE InTree(d, b, p)
    <3>1. N[p].tx \in ours
      BY DEF ours, TxsIn
    <3>2. N[p].tx \in d.txs /\ d.treeMap[N[p].tx] = b
      BY <3>1, <1>2, <1>10, <1>11
    <3>3. CASE p = <<>>
      <4>1. N[p].tx = t
        BY <3>3, <1>4 DEF Root
      <4>2. t \notin DOMAIN d.replacedBy
        BY <1>3, <1>6, <1>14 DEF CacheOk
      <4> QED
        BY <3>2, <3>3, <4>1, <4>2, <1>12 DEF InTree
    <3>4. CASE p # <<>>
      <4>1. PICK i \in DOMAIN replaced : \E q \in DOMAIN sources[i] : p = Down(i, q)
        BY <3>4, <1>4
      <4>2. PICK q \in DOMAIN sources[i] : p = Down(i, q)
        BY <4>1
      <4>3. i \in Nat /\ q \in Seq(Nat) /\ N[p].tx = sources[i][q].tx
        <5>1. N[p] = sources[i][q]
          BY <4>2, <1>4a
        <5>2. IsTree(sources[i]) /\ i \in Nat
          BY <1>1
        <5> QED
          BY <5>1, <5>2 DEF IsTree
      <4>4. CASE q = <<>>
        <5>1. N[p].tx = replaced[i] /\ Front(p) = <<>>
          BY <4>2, <4>3, <4>4, <1>1, DownFacts DEF Root
        <5>2. <<>> \in DOMAIN N /\ N[<<>>].tx = t
          BY <1>4 DEF IsTree, Root
        <5>3. N[p].tx \in ToSet(replaced)
          BY <5>1, <1>6
        <5>4. N[p].tx \in DOMAIN d.replacedBy /\ t \in DOMAIN d.replaces /\ N[p].tx \in d.replaces[t]
          BY <5>3, <1>13, <1>14
        <5> QED
          BY <3>2, <3>4, <5>1, <5>2, <5>4, <1>12 DEF InTree
      <4>5. CASE q # <<>>
        <5>1. i \in known
          <6>1. SUFFICES ASSUME i \notin known PROVE FALSE
            OBVIOUS
          <6>2. sources[i] = Leaf(replaced[i])
            BY <6>1, <1>1
          <6> QED
            BY <6>2, <4>5, <1>3, LeafFacts
        <5> DEFINE g == c.treeMap[replaced[i]]
        <5>2. g \in DOMAIN c.trees /\ sources[i] = c.trees[g]
          BY <5>1, <1>1
        <5> HIDE DEF g
        <5>3. InTree(c, g, q)
          BY <5>2, <1>3 DEF CacheOk, TreeOk
        <5>4. /\ Front(q) \in DOMAIN sources[i] /\ sources[i][Front(q)].tx \in DOMAIN c.replaces
              /\ sources[i][q].tx \in c.replaces[sources[i][Front(q)].tx]
              /\ sources[i][q].tx \in DOMAIN c.replacedBy
          BY <4>5, <5>2, <5>3 DEF InTree
        <5>5. Front(p) = Down(i, Front(q))
          BY <4>2, <4>3, <4>5, DownFacts
        <5>6. Front(p) \in DOMAIN N /\ N[Front(p)].tx = sources[i][Front(q)].tx
          <6>1. Down(i, Front(q)) \in DOMAIN N /\ N[Down(i, Front(q))] = sources[i][Front(q)]
            BY <5>4, <1>4a
          <6> QED
            BY <6>1, <5>5
        <5>7. /\ N[Front(p)].tx \in DOMAIN d.replaces /\ N[p].tx \in d.replaces[N[Front(p)].tx]
              /\ N[p].tx \in DOMAIN d.replacedBy
          BY <5>4, <5>6, <4>3, <1>3, <1>13, <1>14 DEF CacheOk
        <5> QED
          BY <3>2, <3>4, <5>6, <5>7, <1>12 DEF InTree
      <4> QED
        BY <4>4, <4>5
    <3> QED
      BY <3>3, <3>4
  <2> QED
    BY <2>1, <2>2, <1>12, <1>17 DEF TreeOk
<1>20. ASSUME NEW x \in d.txs
       PROVE  d.treeMap[x] \in DOMAIN d.trees /\ x \in TxsIn(d.trees[d.treeMap[x]])
  <2>1. CASE x \in ours
    BY <2>1, <1>11, <1>12 DEF ours
  <2>2. CASE x \notin ours
    <3>1. x \in c.txs
      BY <2>2, <1>2, <1>10
    <3>2. c.treeMap[x] \notin olds /\ d.treeMap[x] = c.treeMap[x]
      BY <2>2, <3>1, <1>11, <1>15
    <3>3. c.treeMap[x] \in DOMAIN c.trees /\ x \in TxsIn(c.trees[c.treeMap[x]])
      BY <3>1, <1>3 DEF CacheOk
    <3>4. c.treeMap[x] # b
      BY <3>2, <3>3, <1>16
    <3> QED
      BY <3>2, <3>3, <3>4, <1>12
  <2> QED
    BY <2>1, <2>2
<1>21. ASSUME NEW x \in DOMAIN d.replaces, NEW y \in d.replaces[x]
       PROVE  y \in d.txs /\ d.treeMap[y] = d.treeMap[x]
  <2>1. CASE x = t
    BY <2>1, <1>2, <1>10, <1>11, <1>13
  <2>2. CASE x # t
    <3>1. x \in DOMAIN c.replaces /\ y \in c.replaces[x]
      BY <2>2, <1>13
    <3>2. x \in c.txs /\ y \in c.txs /\ c.treeMap[y] = c.treeMap[x]
      BY <3>1, <1>3 DEF CacheOk
    <3> QED
      BY <3>2, <1>10, <1>11, <1>15
  <2> QED
    BY <2>1, <2>2
<1>22. /\ d.thrown = FALSE /\ d.txs \subseteq Txs /\ DOMAIN d.treeMap = d.txs
       /\ DOMAIN d.replaces \subseteq d.txs /\ DOMAIN d.replacedBy \subseteq d.txs
  <2>1. /\ c.thrown = FALSE /\ c.txs \subseteq Txs
        /\ DOMAIN c.replaces \subseteq c.txs /\ DOMAIN c.replacedBy \subseteq c.txs
    BY <1>3 DEF CacheOk
  <2>2. d.thrown = FALSE
    BY <2>1, <1>7
  <2>3. d.txs \subseteq Txs
    BY <2>1, <1>3, <1>6, <1>10
  <2>4. DOMAIN d.treeMap = d.txs
    BY <1>2, <1>10, <1>11
  <2> QED
    BY <2>1, <2>2, <2>3, <2>4, <1>10, <1>13, <1>14
<1>23. CacheOk(d)
  BY <1>7, <1>18, <1>19, <1>20, <1>21, <1>22 DEF CacheOk
<1> QED
  BY <1>7, <1>10, <1>14, <1>23


\* mined

\* mined keeps it: no transaction moves.
LEMMA MinedOk ==
    ASSUME NEW c, CacheOk(c), NEW t, NEW d, d = Mined(c, t)
    PROVE  /\ CacheOk(d) /\ d.txs = c.txs /\ d.replacedBy = c.replacedBy
           /\ d.expiring = IF t \in c.txs /\ t \notin ToSet(c.expiring) THEN Append(c.expiring, t) ELSE c.expiring
<1>1. IsCache(c)
  BY DEF CacheOk
<1>2. MarkedMined(c, t, d)
  BY <1>1, MinedFields
<1> DEFINE e == IF t \in c.txs /\ t \notin ToSet(c.expiring) THEN Append(c.expiring, t) ELSE c.expiring
           m == c.treeMap[t]
           marked == WithMined(c.trees[m], t)
<1>3. /\ IsCache(d) /\ d.replacedBy = c.replacedBy /\ d.replaces = c.replaces
      /\ d.treeMap = c.treeMap /\ d.txs = c.txs /\ d.thrown = c.thrown /\ d.expiring = e
  BY <1>2 DEF MarkedMined
<1>4. d.trees = c.trees \/ (m \in DOMAIN c.trees /\ d.trees = [c.trees EXCEPT ![m] = marked])
  BY <1>2 DEF MarkedMined, MarkMined, HasTree
<1> HIDE DEF e
<1>5. ASSUME NEW id \in DOMAIN c.trees
      PROVE  /\ DOMAIN d.trees = DOMAIN c.trees /\ IsTree(c.trees[id])
             /\ d.trees[id] = c.trees[id] \/ d.trees[id] = WithMined(c.trees[id], t)
  <2>1. IsTree(c.trees[id])
    BY DEF CacheOk, TreeOk
  <2> HIDE DEF m
  <2>2. d.trees = c.trees \/ (m \in DOMAIN c.trees /\ d.trees = [c.trees EXCEPT ![m] = WithMined(c.trees[m], t)])
    BY <1>4
  <2> QED
    BY <2>1, <2>2
<1>6. DOMAIN d.trees = DOMAIN c.trees
  BY <1>4
<1>7. ASSUME NEW id \in DOMAIN c.trees
      PROVE  /\ IsTree(d.trees[id]) /\ DOMAIN d.trees[id] = DOMAIN c.trees[id]
             /\ \A p \in DOMAIN c.trees[id] : d.trees[id][p].tx = c.trees[id][p].tx
             /\ TxsIn(d.trees[id]) = TxsIn(c.trees[id]) /\ Root(d.trees[id]) = Root(c.trees[id])
  <2>1. CASE d.trees[id] = c.trees[id]
    BY <2>1, <1>5
  <2>2. CASE d.trees[id] = WithMined(c.trees[id], t)
    BY <2>2, <1>5, WithMinedFacts
  <2> QED
    BY <2>1, <2>2, <1>5
<1>8. ASSUME NEW id \in DOMAIN d.trees PROVE TreeOk(d, id)
  <2>1. id \in DOMAIN c.trees /\ TreeOk(c, id)
    BY <1>6 DEF CacheOk
  <2>2. ASSUME NEW p \in DOMAIN d.trees[id] PROVE InTree(d, id, p)
    <3>1. p \in DOMAIN c.trees[id] /\ InTree(c, id, p) /\ d.trees[id][p].tx = c.trees[id][p].tx
      BY <2>1, <1>7 DEF TreeOk
    <3>2. p # <<>> => Front(p) \in DOMAIN c.trees[id] /\ d.trees[id][Front(p)].tx = c.trees[id][Front(p)].tx
      BY <3>1, <2>1, <1>7 DEF InTree
    <3>3. Front(p) \in DOMAIN c.trees[id] => Front(p) \in DOMAIN d.trees[id]
      BY <2>1, <1>7
    <3> QED
      BY <3>1, <3>2, <3>3, <1>3 DEF InTree
  <2> QED
    BY <2>1, <2>2, <1>3, <1>7 DEF TreeOk
<1>9. CacheOk(d)
  BY <1>3, <1>6, <1>7, <1>8 DEF CacheOk
<1> QED
  BY <1>3, <1>9 DEF e

\* remove

Closed(c, t, S) == t \in S /\ \A x \in S \cap DOMAIN c.replaces : c.replaces[x] \subseteq S
Reach(c, t) == {t} \cup UNION {c.replaces[x] : x \in DOMAIN c.replaces}

\* Versions in these words.
LEMMA VersionsClosed ==
    ASSUME NEW c, NEW t
    PROVE  Versions(c, t) = {v \in Reach(c, t) : \A S \in SUBSET Reach(c, t) : Closed(c, t, S) => v \in S}
BY DEF Versions, Closed, Reach

\* One that is not cached, or no longer, has no versions to remove.
LEMMA NoVersions ==
    ASSUME NEW c, NEW t, t \notin DOMAIN c.replaces
    PROVE  Versions(c, t) = {t}
<1>1. {t} \in SUBSET Reach(c, t) /\ Closed(c, t, {t})
  BY DEF Reach, Closed
<1>2. t \in Reach(c, t)
  BY DEF Reach
<1> QED
  BY <1>1, <1>2, VersionsClosed DEF Closed

\* The newest of a payment takes its whole tree along.
LEMMA VersionsAreTheTree ==
    ASSUME NEW c, CacheOk(c), NEW t \in c.txs, t \notin DOMAIN c.replacedBy
    PROVE  Versions(c, t) = TxsIn(c.trees[c.treeMap[t]])
<1> DEFINE g == c.treeMap[t]
           T == c.trees[g]
<1>1. g \in DOMAIN c.trees /\ Root(T) = t
  BY NewestIsRoot DEF CacheOk
<1>2. \A x : x \in TxsIn(T) <=> x \in c.txs /\ c.treeMap[x] = g
  BY <1>1, TxsInTree
<1>3. IsTree(T) /\ \A p \in DOMAIN T : InTree(c, g, p)
  BY <1>1 DEF CacheOk, TreeOk
<1>4. t \in TxsIn(T)
  BY <1>1, <1>3, RootIn
<1>5. \A y : y \in Reach(c, t) <=> y = t \/ \E x \in DOMAIN c.replaces : y \in c.replaces[x]
  BY DEF Reach
<1>6. Versions(c, t) \subseteq TxsIn(T)
  <2> DEFINE S == TxsIn(T) \cap Reach(c, t)
  <2>1. t \in S
    BY <1>4, <1>5
  <2>2. ASSUME NEW x \in S \cap DOMAIN c.replaces, NEW y \in c.replaces[x] PROVE y \in S
    <3>1. y \in c.txs /\ c.treeMap[y] = c.treeMap[x] /\ c.treeMap[x] = g
      BY <1>2 DEF CacheOk
    <3> QED
      BY <3>1, <1>2, <1>5
  <2>3. Closed(c, t, S) /\ S \in SUBSET Reach(c, t)
    BY <2>1, <2>2 DEF Closed
  <2> QED
    BY <2>3, VersionsClosed
<1> HIDE DEF g
<1>7. ASSUME NEW S, S \in SUBSET Reach(c, t), Closed(c, t, S) PROVE TxsIn(T) \subseteq S
  <2> DEFINE G == {p \in DOMAIN T : T[p].tx \in S}
  <2>1. <<>> \in G
    BY <1>1, <1>3, <1>7 DEF Root, IsTree, Closed
  <2>2. ASSUME NEW p \in DOMAIN T, p # <<>>
        PROVE  Front(p) \in DOMAIN T /\ (Front(p) \in G => p \in G)
    BY <2>2, <1>3, <1>7 DEF InTree, Closed
  <2>3. DOMAIN T \in SUBSET Seq(Nat)
    BY <1>3 DEF IsTree
  <2> HIDE DEF G, T
  <2>4. DOMAIN T \subseteq G
    BY <2>1, <2>2, <2>3, ParentsFirst
  <2> QED
    BY <2>4 DEF G, TxsIn
<1>8. TxsIn(T) \subseteq Reach(c, t)
  <2>1. ASSUME NEW p \in DOMAIN T PROVE T[p].tx \in Reach(c, t)
    <3>1. CASE p = <<>>
      BY <3>1, <1>1, <1>5 DEF Root
    <3>2. CASE p # <<>>
      BY <3>2, <1>3, <1>5 DEF InTree
    <3> QED
      BY <3>1, <3>2
  <2> QED
    BY <2>1 DEF TxsIn
<1> QED
  BY <1>6, <1>7, <1>8, VersionsClosed DEF g

\* remove keeps it, and takes out one whole tree or nothing.
LEMMA RemoveOk ==
    ASSUME NEW c, CacheOk(c), NEW t, NEW d, d = RemoveVersions(c, t)
    PROVE  /\ CacheOk(d) /\ d.txs \subseteq c.txs /\ DOMAIN d.replacedBy \subseteq DOMAIN c.replacedBy
           /\ \A id \in DOMAIN c.trees \cap c.txs : id \notin d.txs => id \notin DOMAIN d.trees
           /\ d.expiring = c.expiring \/ d.expiring = Drop(c.expiring, Versions(c, t))
           /\ c.txs \ d.txs # {} =>
                /\ t \in c.txs /\ t \notin DOMAIN c.replacedBy
                /\ \A x \in c.txs \ d.txs : c.treeMap[x] = c.treeMap[t]
<1>1. CASE t \in DOMAIN c.replacedBy
  BY <1>1 DEF RemoveVersions, HasNewerVersion
<1>2. CASE t \notin DOMAIN c.replacedBy
  <2> DEFINE V == Versions(c, t)
             olds == {p \in V \ {t} : IsTreeId(c, p)}
  <2>1. Removed(c, t, d)
    BY <1>2, RemoveVersionsFields DEF CacheOk
  <2>2. /\ IsCache(d) /\ d.thrown = c.thrown /\ d.txs = c.txs \ V
        /\ d.replacedBy = Without(c.replacedBy, V) /\ d.replaces = Without(c.replaces, V)
        /\ d.treeMap = Without(c.treeMap, V) /\ d.trees = Without(c.trees, olds)
        /\ d.expiring = Drop(c.expiring, V)
    BY <2>1 DEF Removed
  \* the transactions that go, and the trees
  <2>3. \/ t \notin c.txs /\ V = {t} /\ DOMAIN c.trees \cap olds = {}
        \/ /\ t \in c.txs /\ c.treeMap[t] \in DOMAIN c.trees
           /\ olds = {c.treeMap[t]}
           /\ \A x : x \in V <=> x \in c.txs /\ c.treeMap[x] = c.treeMap[t]
    <3>1. CASE t \notin c.txs
      <4>1. t \notin DOMAIN c.replaces
        BY <3>1 DEF CacheOk
      <4>2. V = {t}
        BY <4>1, NoVersions
      <4> QED
        BY <3>1, <4>2
    <3>2. CASE t \in c.txs
      <4> DEFINE g == c.treeMap[t]
      <4>1. g \in DOMAIN c.trees /\ Root(c.trees[g]) = t
        BY <1>2, <3>2, NewestIsRoot DEF CacheOk
      <4>2. V = TxsIn(c.trees[g])
        BY <1>2, <3>2, VersionsAreTheTree
      <4>3. \A x : x \in V <=> x \in c.txs /\ c.treeMap[x] = g
        BY <4>1, <4>2, TxsInTree
      <4>4. g \in c.txs /\ c.treeMap[g] = g /\ g # t
        BY <4>1 DEF CacheOk, TreeOk
      <4>5. DOMAIN c.treeMap = c.txs
        BY DEF CacheOk
      <4> HIDE DEF V, g
      <4>6. olds = {g}
        BY <4>3, <4>4, <4>5 DEF IsTreeId
      <4> QED
        BY <3>2, <4>1, <4>3, <4>6 DEF g
    <3> QED
      BY <3>1, <3>2
  <2> HIDE DEF V, olds
  <2>4. /\ DOMAIN d.replacedBy = DOMAIN c.replacedBy \ V
        /\ DOMAIN d.replaces = DOMAIN c.replaces \ V
        /\ \A x \in DOMAIN d.replaces : d.replaces[x] = c.replaces[x]
    BY <2>2 DEF Without
  <2>5. /\ DOMAIN d.treeMap = c.txs \ V
        /\ \A x \in d.txs : d.treeMap[x] = c.treeMap[x]
    <3>1. DOMAIN c.treeMap = c.txs
      BY DEF CacheOk
    <3> QED
      BY <2>2, <3>1 DEF Without
  <2>6. /\ DOMAIN d.trees = DOMAIN c.trees \ olds
        /\ \A id \in DOMAIN d.trees : d.trees[id] = c.trees[id]
    BY <2>2 DEF Without
  <2>7. \A x \in c.txs : c.treeMap[x] \in DOMAIN d.trees <=> x \notin V
    <3>1. \A x \in c.txs : c.treeMap[x] \in DOMAIN c.trees
      BY DEF CacheOk
    <3> QED
      BY <3>1, <2>3, <2>6
  <2>8. ASSUME NEW id \in DOMAIN d.trees PROVE TreeOk(d, id)
    <3>1. id \in DOMAIN c.trees /\ d.trees[id] = c.trees[id] /\ TreeOk(c, id)
      BY <2>6 DEF CacheOk
    <3>2. \A x \in c.txs : c.treeMap[x] = id => x \in d.txs /\ x \notin V /\ d.treeMap[x] = id
      BY <2>2, <2>5, <2>7
    <3>3. id \in d.txs /\ d.treeMap[id] = id
      BY <3>1, <3>2 DEF TreeOk
    <3>4. ASSUME NEW p \in DOMAIN d.trees[id] PROVE InTree(d, id, p)
      <4>1. InTree(c, id, p) /\ p \in DOMAIN c.trees[id]
        BY <3>1 DEF TreeOk
      <4> DEFINE x == d.trees[id][p].tx
                 y == d.trees[id][Front(p)].tx
      <4>2. x \in d.txs /\ d.treeMap[x] = id /\ (x \in DOMAIN d.replacedBy <=> p # <<>>)
        BY <4>1, <3>1, <3>2, <2>4 DEF InTree
      <4>3. ASSUME p # <<>>
            PROVE  Front(p) \in DOMAIN d.trees[id] /\ y \in DOMAIN d.replaces /\ x \in d.replaces[y]
        <5>1. Front(p) \in DOMAIN d.trees[id] /\ y \in DOMAIN c.replaces /\ x \in c.replaces[y]
          BY <4>1, <4>3, <3>1 DEF InTree
        <5>2. y \in c.txs /\ c.treeMap[y] = id
          BY <5>1, <3>1 DEF TreeOk, InTree
        <5> QED
          BY <5>1, <5>2, <3>2, <2>4
      <4> QED
        BY <4>2, <4>3 DEF InTree
    <3> QED
      BY <3>1, <3>3, <3>4 DEF TreeOk
  <2>9. ASSUME NEW x \in d.txs
        PROVE  d.treeMap[x] \in DOMAIN d.trees /\ x \in TxsIn(d.trees[d.treeMap[x]])
    <3>1. x \in c.txs /\ x \notin V /\ d.treeMap[x] = c.treeMap[x]
      BY <2>2, <2>5
    <3>2. x \in TxsIn(c.trees[c.treeMap[x]])
      BY <3>1 DEF CacheOk
    <3> QED
      BY <3>1, <3>2, <2>6, <2>7
  <2>10. ASSUME NEW x \in DOMAIN d.replaces, NEW y \in d.replaces[x]
         PROVE  y \in d.txs /\ d.treeMap[y] = d.treeMap[x]
    <3>1. x \in c.txs /\ x \notin V /\ y \in c.txs /\ c.treeMap[y] = c.treeMap[x]
      BY <2>4 DEF CacheOk
    <3>2. y \notin V
      BY <3>1, <2>7
    <3> QED
      BY <3>1, <3>2, <2>2, <2>5
  <2>11. /\ d.thrown = FALSE /\ d.txs \subseteq Txs /\ DOMAIN d.treeMap = d.txs
         /\ DOMAIN d.replaces \subseteq d.txs /\ DOMAIN d.replacedBy \subseteq d.txs
    BY <2>2, <2>4, <2>5 DEF CacheOk
  <2>12. CacheOk(d)
    BY <2>2, <2>8, <2>9, <2>10, <2>11 DEF CacheOk
  <2>13. ASSUME c.txs \ d.txs # {}
         PROVE  t \in c.txs /\ \A x \in c.txs \ d.txs : c.treeMap[x] = c.treeMap[t]
    BY <2>13, <2>2, <2>3
  <2>14. ASSUME NEW id \in DOMAIN c.trees \cap c.txs, id \notin d.txs PROVE id \notin DOMAIN d.trees
    <3>1. id \in V /\ c.treeMap[id] = id
      BY <2>14, <2>2 DEF CacheOk, TreeOk
    <3> QED
      BY <3>1, <2>7
  <2>15. d.expiring = Drop(c.expiring, Versions(c, t))
    BY <2>2 DEF V
  <2> QED
    BY <1>2, <2>2, <2>4, <2>12, <2>13, <2>14, <2>15
<1> QED
  BY <1>1, <1>2


-----------------------------------------------------------------------------
(* The invariant of an undisturbed process *)

\* The new transactions of a change are new to the cache too, and compete with
\* one another for no input.
NewOnes ==
    /\ DOMAIN change = {"new", "deleted", "running"}
    /\ change.new \in Seq(Txs)
    /\ \A i, j \in DOMAIN change.new :
        i # j => change.new[i] # change.new[j] /\ ~InConflict(change.new[i], change.new[j])
    /\ ToSet(change.new) \cap (rbf.txs \cup change.deleted) = {}
    /\ seen \subseteq Txs
    /\ ToSet(change.new) \cup rbf.txs \cup change.deleted \cup mempool \cup ToSet(rbf.expiring) \subseteq seen
\* What was replaced, deleted or mined is gone from the mempool, and what the
\* change deleted was not replaced by one of an earlier change.
Gone ==
    /\ mempool \cap (change.deleted \cup DOMAIN rbf.replacedBy \cup ToSet(rbf.expiring)) = {}
    /\ \A i \in DOMAIN change.new : Replaced(change.new[i]) \cap DOMAIN rbf.replacedBy = {}
Orderly ==
    /\ CacheOk(rbf) /\ rbf.expiring \in Seq(Txs)
    /\ NewOnes /\ Gone
    /\ load = NoLoad /\ missed = {}
RbfInv ==
    /\ returns \in Nat /\ restarts \in Nat
    /\ Undisturbed => Orderly

\* An order of a set of transactions has each of them once.
LEMMA OrderFacts ==
    ASSUME NEW S \in SUBSET Txs, NEW s \in SetToSeqs(S)
    PROVE  /\ s \in Seq(S) /\ ToSet(s) \subseteq S
           /\ \A i, j \in DOMAIN s : i # j => s[i] # s[j]
           /\ S # {} => s # <<>>
<1>1. IsFiniteSet(S) /\ Cardinality(S) \in Nat
  BY RbfAssumption, FS_Subset, FS_CardinalityType
<1>2. s \in [1..Cardinality(S) -> S] /\ \A i, j \in 1..Cardinality(S) : i # j => s[i] # s[j]
  BY DEF SetToSeqs
<1>3. S # {} => Cardinality(S) # 0
  BY <1>1, FS_EmptySet
<1>4. s \in Seq(S) /\ Len(s) = Cardinality(S)
  BY <1>1, <1>2
<1> QED
  BY <1>1, <1>2, <1>3, <1>4 DEF ToSet

\* So has an order of some of them.
LEMMA PermutationFacts ==
    ASSUME NEW S \in SUBSET Txs, NEW s \in SetToAllKPermutations(S)
    PROVE  /\ s \in Seq(S) /\ s \in Seq(Txs) /\ ToSet(s) \subseteq S
           /\ \A i, j \in DOMAIN s : i # j => s[i] # s[j]
<1>1. PICK R \in SUBSET S : s \in SetToSeqs(R)
  <2>1. SetToAllKPermutations(S) = UNION {SetToSeqs(R) : R \in SUBSET S}
    BY DEF SetToAllKPermutations
  <2> QED
    BY <2>1
<1>2. s \in Seq(R) /\ ToSet(s) \subseteq R /\ \A i, j \in DOMAIN s : i # j => s[i] # s[j]
  BY <1>1, OrderFacts
<1> QED
  BY <1>1, <1>2

\* What disturbs a process has disturbed it for good.
LEMMA Disturbances ==
    ASSUME RbfInv, Next
    PROVE  returns' \in Nat /\ restarts' \in Nat /\ (Undisturbed' => Undisturbed /\ restarts' = restarts)
<1>1. returns \in Nat /\ restarts \in Nat
  BY DEF RbfInv
<1>2. CASE UpdateMempool
  <2>1. PICK list \in {S \in SUBSET (Txs \ confirmed) : Compatible(S \cup confirmed)}, held \in BOOLEAN :
          \E new \in SetToAllKPermutations(list \ mempool) :
            returns' = returns + Cardinality(ToSet(new) \cap seen)
    BY <1>2 DEF UpdateMempool
  <2>2. PICK new \in SetToAllKPermutations(list \ mempool) :
          returns' = returns + Cardinality(ToSet(new) \cap seen)
    BY <2>1
  <2>3. ToSet(new) \subseteq Txs
    BY <2>1, <2>2, PermutationFacts
  <2>4. Cardinality(ToSet(new) \cap seen) \in Nat
    BY <2>3, RbfAssumption, FS_Subset, FS_CardinalityType
  <2>5. restarts' = restarts
    BY <1>2 DEF UpdateMempool, loadVars
  <2> HIDE DEF Undisturbed
  <2>6. returns' = 0 => returns = 0
    BY <2>2, <2>4, <1>1
  <2> QED
    BY <2>2, <2>4, <2>5, <2>6, <1>1 DEF Undisturbed
<1>3. CASE Restart
  BY <1>1, <1>3 DEF Restart, Undisturbed
<1>4. CASE UNCHANGED <<returns, restarts>>
  BY <1>1, <1>4 DEF Undisturbed
<1> QED
  BY <1>2, <1>3, <1>4
     DEF Next, LoadStep, HandleRbf, SendChanges, TxMined, Cleanup, ImportTx, loadVars


\* $updateMempool: the new transactions were never seen, the deleted ones were
\* in the mempool and so not replaced.
LEMMA UpdateMempoolOrderly ==
    ASSUME Orderly, returns = 0, returns' = 0, UpdateMempool PROVE Orderly'
<1>1. PICK list \in {S \in SUBSET (Txs \ confirmed) : Compatible(S \cup confirmed)}, held \in BOOLEAN :
        \E new \in SetToAllKPermutations(list \ mempool) :
          /\ returns' = returns + Cardinality(ToSet(new) \cap seen)
          /\ change' = [new |-> new, deleted |-> IF held THEN {} ELSE mempool \ list, running |-> FALSE]
          /\ mempool' = (mempool \ change'.deleted) \cup ToSet(new)
          /\ seen' = seen \cup ToSet(new)
  BY DEF UpdateMempool
<1>2. PICK new \in SetToAllKPermutations(list \ mempool) :
          /\ returns' = returns + Cardinality(ToSet(new) \cap seen)
          /\ change' = [new |-> new, deleted |-> IF held THEN {} ELSE mempool \ list, running |-> FALSE]
          /\ mempool' = (mempool \ change'.deleted) \cup ToSet(new)
          /\ seen' = seen \cup ToSet(new)
  BY <1>1
<1>3. rbf' = rbf /\ load' = load /\ missed' = missed
  BY DEF UpdateMempool, loadVars
<1>4. /\ new \in Seq(Txs) /\ ToSet(new) \subseteq list \ mempool /\ list \subseteq Txs
      /\ \A i, j \in DOMAIN new : i # j => new[i] # new[j]
  BY PermutationFacts
<1>5. \A i, j \in DOMAIN new : ~InConflict(new[i], new[j])
  BY <1>4 DEF Compatible, ToSet
<1>6. ToSet(new) \cap seen = {}
  <2>1. IsFiniteSet(ToSet(new) \cap seen)
    BY <1>4, RbfAssumption, FS_Subset
  <2>2. Cardinality(ToSet(new) \cap seen) = 0
    BY <2>1, <1>2, FS_CardinalityType
  <2> QED
    BY <2>1, <2>2, FS_EmptySet
<1>7. /\ DOMAIN change' = {"new", "deleted", "running"} /\ change'.new = new
      /\ change'.deleted \subseteq mempool /\ change'.deleted \cap ToSet(new) = {}
  BY <1>2, <1>4
<1>8. NewOnes'
  BY <1>2, <1>3, <1>4, <1>5, <1>6, <1>7 DEF NewOnes, Orderly
<1>9. mempool' \cap (change'.deleted \cup DOMAIN rbf'.replacedBy \cup ToSet(rbf'.expiring)) = {}
  <2>1. DOMAIN rbf.replacedBy \subseteq seen /\ ToSet(rbf.expiring) \subseteq seen
    BY DEF Orderly, NewOnes, CacheOk
  <2>2. mempool \cap (DOMAIN rbf.replacedBy \cup ToSet(rbf.expiring)) = {}
    BY DEF Orderly, Gone
  <2> QED
    BY <2>1, <2>2, <1>2, <1>3, <1>6, <1>7
<1>10. ASSUME NEW t PROVE Replaced(t)' \cap DOMAIN rbf'.replacedBy = {}
  BY <1>3, <1>7 DEF Orderly, Gone, Replaced
<1> QED
  BY <1>3, <1>8, <1>9, <1>10 DEF Orderly, Gone

\* $handleMempoolChange, one new transaction: those after it replace none that
\* it replaced, or the two would compete.
LEMMA HandleRbfOrderly ==
    ASSUME Orderly, VersionsCompete, HandleRbf PROVE Orderly'
<1> DEFINE t == Head(change.new)
           rest == Tail(change.new)
<1>1. /\ change.new # <<>> /\ change.new \in Seq(Txs) /\ DOMAIN change = {"new", "deleted", "running"}
      /\ \A i, j \in DOMAIN change.new :
           i # j => change.new[i] # change.new[j] /\ ~InConflict(change.new[i], change.new[j])
      /\ ToSet(change.new) \cap (rbf.txs \cup change.deleted) = {} /\ seen \subseteq Txs
      /\ ToSet(change.new) \cup rbf.txs \cup change.deleted \cup mempool \cup ToSet(rbf.expiring) \subseteq seen
  BY DEF HandleRbf, Orderly, NewOnes
<1>2. /\ t \in ToSet(change.new) /\ t \in Txs /\ rest \in Seq(Txs) /\ ToSet(rest) \subseteq ToSet(change.new)
      /\ \A i \in DOMAIN rest : rest[i] \in ToSet(change.new) /\ rest[i] # t /\ ~InConflict(rest[i], t)
      /\ \A i, j \in DOMAIN rest : i # j => rest[i] # rest[j] /\ ~InConflict(rest[i], rest[j])
  <2> DEFINE s == change.new
  <2>1. s \in Seq(Txs) /\ s # <<>> /\ 1 \in DOMAIN s /\ t = s[1]
    BY <1>1
  <2>2. rest \in Seq(Txs) /\ \A i \in DOMAIN rest : i \in Nat /\ i + 1 \in DOMAIN s /\ i + 1 # 1 /\ rest[i] = s[i + 1]
    BY <1>1
  <2>3. \A i, j \in DOMAIN rest : i # j => i + 1 # j + 1
    BY <2>2
  <2> HIDE DEF t, rest
  <2>4. t \in ToSet(s) /\ t \in Txs
    BY <2>1 DEF ToSet
  <2>5. \A i \in DOMAIN rest : rest[i] \in ToSet(s)
    BY <2>2 DEF ToSet
  <2>6. \A i \in DOMAIN rest : rest[i] # t /\ ~InConflict(rest[i], t)
    BY <2>1, <2>2, <1>1
  <2>7. \A i, j \in DOMAIN rest : i # j => rest[i] # rest[j] /\ ~InConflict(rest[i], rest[j])
    BY <2>2, <2>3, <1>1
  <2>8. ToSet(rest) \subseteq ToSet(s)
    BY <2>5 DEF ToSet
  <2> QED
    BY <2>2, <2>4, <2>5, <2>6, <2>7, <2>8
<1>3. /\ CacheOk(rbf) /\ rbf.expiring \in Seq(Txs) /\ load = NoLoad /\ missed = {}
      /\ mempool \cap (change.deleted \cup DOMAIN rbf.replacedBy \cup ToSet(rbf.expiring)) = {}
      /\ \A i \in DOMAIN change.new : Replaced(change.new[i]) \cap DOMAIN rbf.replacedBy = {}
  BY DEF Orderly, Gone
<1>4. mempool' = mempool /\ seen' = seen /\ load' = load /\ missed' = missed
  BY DEF HandleRbf, loadVars
<1>5. Replaced(t) \subseteq change.deleted /\ Replaced(t) \subseteq Txs
      /\ Replaced(t) \cap DOMAIN rbf.replacedBy = {} /\ t \notin Replaced(t)
  <2>1. \E i \in DOMAIN change.new : t = change.new[i]
    BY <1>2 DEF ToSet
  <2>2. Replaced(t) \subseteq change.deleted
    BY DEF Replaced
  <2>3. change.deleted \subseteq Txs /\ t \notin change.deleted
    BY <1>1, <1>2
  <2> QED
    BY <2>1, <2>2, <2>3, <1>3
<1> HIDE DEF t, rest
<1>6. /\ CacheOk(rbf') /\ rbf'.expiring = rbf.expiring
      /\ rbf.txs \subseteq rbf'.txs /\ rbf'.txs \subseteq rbf.txs \cup {t} \cup Replaced(t)
      /\ DOMAIN rbf'.replacedBy \subseteq DOMAIN rbf.replacedBy \cup Replaced(t)
  <2>1. CASE UNCHANGED rbf
    BY <2>1, <1>3
  <2>2. ASSUME Replaced(t) # {}, NEW order \in SetToSeqs(Replaced(t)), rbf' = Add(rbf, order, t)
        PROVE  /\ CacheOk(rbf') /\ rbf'.expiring = rbf.expiring
               /\ rbf.txs \subseteq rbf'.txs /\ rbf'.txs \subseteq rbf.txs \cup {t} \cup Replaced(t)
               /\ DOMAIN rbf'.replacedBy \subseteq DOMAIN rbf.replacedBy \cup Replaced(t)
    <3>1. /\ order \in Seq(Replaced(t)) /\ ToSet(order) \subseteq Replaced(t) /\ order # <<>>
          /\ \A i, j \in DOMAIN order : i # j => order[i] # order[j]
      BY <2>2, <1>5, OrderFacts
    <3>2. order \in Seq(Txs) /\ \A i \in DOMAIN order : order[i] \in Replaced(t)
      BY <3>1, <1>5
    <3>3. t \notin rbf.txs
      BY <1>1, <1>2
    <3>4. AddInput(rbf, order, t)
      BY <3>1, <3>2, <3>3, <1>2, <1>3, <1>5 DEF AddInput
    <3>5. /\ CacheOk(rbf') /\ rbf'.expiring = rbf.expiring
          /\ rbf'.txs = rbf.txs \cup {t} \cup ToSet(order)
          /\ DOMAIN rbf'.replacedBy = DOMAIN rbf.replacedBy \cup ToSet(order)
      BY <2>2, <3>4, AddOk
    <3> QED
      BY <3>1, <3>5
  <2> QED
    BY <2>1, <2>2 DEF HandleRbf, t
<1>7. /\ DOMAIN change' = DOMAIN change /\ change'.new = rest /\ change'.deleted = change.deleted
  <2>1. ~rbf'.thrown
    BY <1>6 DEF CacheOk
  <2>2. change' = [change EXCEPT !.new = rest, !.running = TRUE]
    BY <2>1 DEF HandleRbf, rest
  <2> QED
    BY <2>2, <1>1
<1>8. NewOnes'
  <2>1. ToSet(rest) \cap (rbf'.txs \cup change.deleted) = {}
    <3>1. t \notin ToSet(rest)
      BY <1>2 DEF ToSet
    <3> QED
      BY <3>1, <1>1, <1>2, <1>5, <1>6
  <2>2. ToSet(rest) \cup rbf'.txs \cup change.deleted \cup mempool \cup ToSet(rbf'.expiring) \subseteq seen
    BY <1>1, <1>2, <1>5, <1>6
  <2> QED
    BY <2>1, <2>2, <1>1, <1>2, <1>4, <1>7 DEF NewOnes
<1> DEFINE replaced(n) == {d \in change.deleted : d < n /\ InConflict(n, d)}
<1>9. ASSUME NEW i \in DOMAIN rest PROVE replaced(rest[i]) \cap DOMAIN rbf'.replacedBy = {}
  <2>1. PICK j \in DOMAIN change.new : rest[i] = change.new[j]
    BY <1>2 DEF ToSet
  <2>2. replaced(rest[i]) \cap DOMAIN rbf.replacedBy = {}
    BY <2>1, <1>3 DEF Replaced
  <2>3. ASSUME NEW d \in replaced(rest[i]), d \in Replaced(t) PROVE FALSE
    <3>1. /\ d \in Txs /\ d < rest[i] /\ InConflict(d, rest[i]) /\ d < t /\ InConflict(d, t)
      BY <2>3, <1>5 DEF Replaced, InConflict
    <3>2. rest[i] \in Txs /\ t \in Txs /\ rest[i] # t /\ ~InConflict(rest[i], t)
      BY <1>1, <1>2
    <3> QED
      BY <3>1, <3>2 DEF VersionsCompete
  <2> HIDE DEF replaced
  <2> QED
    BY <2>2, <2>3, <1>6
<1>10. Gone'
  <2>1. mempool \cap (change.deleted \cup DOMAIN rbf'.replacedBy \cup ToSet(rbf'.expiring)) = {}
    BY <1>3, <1>5, <1>6
  <2> QED
    BY <2>1, <1>4, <1>7, <1>9 DEF Gone, Replaced
<1> QED
  BY <1>3, <1>4, <1>6, <1>8, <1>10 DEF Orderly


\* The end of $handleMempoolChange: only deleted ones expire.
LEMMA SendChangesOrderly ==
    ASSUME Orderly, SendChanges PROVE Orderly'
<1>1. /\ NewOnes /\ Gone /\ CacheOk(rbf) /\ rbf.expiring \in Seq(Txs) /\ load = NoLoad /\ missed = {}
      /\ change.deleted \subseteq seen /\ seen \subseteq Txs
      /\ mempool \cap (change.deleted \cup DOMAIN rbf.replacedBy \cup ToSet(rbf.expiring)) = {}
      /\ rbf.txs \cup mempool \cup ToSet(rbf.expiring) \subseteq seen
  BY DEF Orderly, Gone, NewOnes
<1>2. PICK order \in SetToSeqs((change.deleted \cap rbf.txs) \ ToSet(rbf.expiring)) :
        rbf' = [rbf EXCEPT !.dirty = {}, !.expiring = @ \o order]
  BY DEF SendChanges
<1>3. change' = NoChange /\ mempool' = mempool /\ seen' = seen /\ load' = load /\ missed' = missed
  BY DEF SendChanges, loadVars
<1>4. order \in Seq(Txs) /\ ToSet(order) \subseteq change.deleted
  <2>1. (change.deleted \cap rbf.txs) \ ToSet(rbf.expiring) \in SUBSET Txs
    BY <1>1
  <2>2. order \in Seq((change.deleted \cap rbf.txs) \ ToSet(rbf.expiring))
        /\ ToSet(order) \subseteq (change.deleted \cap rbf.txs) \ ToSet(rbf.expiring)
    BY <2>1, OrderFacts
  <2> QED
    BY <2>1, <2>2
<1> DEFINE e == rbf.expiring \o order
<1>5. e \in Seq(Txs) /\ ToSet(e) \subseteq ToSet(rbf.expiring) \cup change.deleted
  <2>1. /\ e \in Seq(Txs) /\ Len(e) = Len(rbf.expiring) + Len(order)
        /\ \A k \in 1..(Len(rbf.expiring) + Len(order)) :
             e[k] = IF k <= Len(rbf.expiring) THEN rbf.expiring[k] ELSE order[k - Len(rbf.expiring)]
    BY <1>1, <1>4, ConcatProperties
  <2> HIDE DEF e
  <2>2. DOMAIN e = 1..Len(e) /\ Len(rbf.expiring) \in Nat /\ Len(order) \in Nat
        /\ DOMAIN rbf.expiring = 1..Len(rbf.expiring) /\ DOMAIN order = 1..Len(order)
    BY <2>1, <1>1, <1>4
  <2>3. ASSUME NEW k \in DOMAIN e PROVE e[k] \in ToSet(rbf.expiring) \cup ToSet(order)
    <3>1. CASE k <= Len(rbf.expiring)
      <4>1. k \in DOMAIN rbf.expiring /\ e[k] = rbf.expiring[k]
        BY <3>1, <2>1, <2>2
      <4> QED
        BY <4>1 DEF ToSet
    <3>2. CASE ~(k <= Len(rbf.expiring))
      <4>1. k - Len(rbf.expiring) \in DOMAIN order /\ e[k] = order[k - Len(rbf.expiring)]
        BY <3>2, <2>1, <2>2
      <4> QED
        BY <4>1 DEF ToSet
    <3> QED
      BY <3>1, <3>2
  <2>4. ToSet(e) = {e[k] : k \in DOMAIN e}
    BY DEF ToSet
  <2> QED
    BY <2>1, <2>3, <2>4, <1>4
<1> HIDE DEF e
<1>6. /\ IsCache(rbf') /\ rbf'.expiring = e /\ rbf'.replacedBy = rbf.replacedBy
      /\ rbf'.replaces = rbf.replaces /\ rbf'.trees = rbf.trees /\ rbf'.treeMap = rbf.treeMap
      /\ rbf'.txs = rbf.txs /\ rbf'.thrown = rbf.thrown
  <2>1. rbf' = [rbf EXCEPT !.dirty = {}, !.expiring = e]
    BY <1>2 DEF e
  <2> QED
    BY <2>1, <1>1 DEF CacheOk, IsCache, Fields
<1>7. CacheOk(rbf')
  BY <1>1, <1>6, SameMaps
<1>8. /\ DOMAIN change' = {"new", "deleted", "running"} /\ change'.new = <<>> /\ change'.deleted = {}
      /\ <<>> \in Seq(Txs) /\ ToSet(<<>>) = {} /\ DOMAIN <<>> = {}
  BY <1>3 DEF NoChange, ToSet
<1>9. NewOnes'
  <2>1. rbf'.txs \cup mempool \cup ToSet(rbf'.expiring) \subseteq seen
    BY <1>1, <1>5, <1>6
  <2> QED
    BY <2>1, <1>1, <1>3, <1>8 DEF NewOnes
<1>10. Gone'
  <2>1. mempool \cap (DOMAIN rbf'.replacedBy \cup ToSet(rbf'.expiring)) = {}
    BY <1>1, <1>5, <1>6
  <2> QED
    BY <2>1, <1>3, <1>8 DEF Gone
<1> QED
  BY <1>1, <1>3, <1>5, <1>6, <1>7, <1>9, <1>10 DEF Orderly

\* handleNewBlock: a mined transaction leaves the mempool as it expires.
LEMMA TxMinedOrderly ==
    ASSUME Orderly, NEW t \in Txs, TxMined(t) PROVE Orderly'
<1>1. /\ NewOnes /\ Gone /\ CacheOk(rbf) /\ rbf.expiring \in Seq(Txs) /\ load = NoLoad /\ missed = {}
      /\ mempool \cap (change.deleted \cup DOMAIN rbf.replacedBy \cup ToSet(rbf.expiring)) = {}
      /\ rbf.txs \subseteq seen /\ ToSet(rbf.expiring) \subseteq seen /\ mempool \subseteq seen
  BY DEF Orderly, Gone, NewOnes
<1>2. /\ rbf' = Mined(rbf, t) /\ mempool' = mempool \ {t} /\ change' = change /\ seen' = seen
      /\ load' = load /\ missed' = missed \ {t}
  BY DEF TxMined
<1>3. /\ CacheOk(rbf') /\ rbf'.txs = rbf.txs /\ rbf'.replacedBy = rbf.replacedBy
      /\ rbf'.expiring = IF t \in rbf.txs /\ t \notin ToSet(rbf.expiring) THEN Append(rbf.expiring, t) ELSE rbf.expiring
  BY <1>1, <1>2, MinedOk
<1>4. rbf'.expiring \in Seq(Txs) /\ ToSet(rbf'.expiring) \subseteq ToSet(rbf.expiring) \cup ({t} \cap rbf.txs)
  <2>1. CASE rbf'.expiring = rbf.expiring
    BY <2>1, <1>1
  <2>2. CASE t \in rbf.txs /\ rbf'.expiring = Append(rbf.expiring, t)
    <3> DEFINE e == Append(rbf.expiring, t)
    <3>1. /\ e \in Seq(Txs) /\ DOMAIN rbf.expiring = 1..Len(rbf.expiring) /\ Len(rbf.expiring) \in Nat
          /\ DOMAIN e = 1..(Len(rbf.expiring) + 1)
          /\ \A k \in DOMAIN rbf.expiring : e[k] = rbf.expiring[k]
          /\ e[Len(rbf.expiring) + 1] = t
      BY <1>1
    <3> HIDE DEF e
    <3>2. ASSUME NEW k \in DOMAIN e PROVE e[k] \in ToSet(rbf.expiring) \cup {t}
      <4>1. k \in DOMAIN rbf.expiring \/ k = Len(rbf.expiring) + 1
        BY <3>1
      <4> QED
        BY <4>1, <3>1 DEF ToSet
    <3>3. ToSet(e) = {e[k] : k \in DOMAIN e}
      BY DEF ToSet
    <3>4. rbf'.expiring = e
      BY <2>2 DEF e
    <3> QED
      BY <2>2, <3>1, <3>2, <3>3, <3>4
  <2> QED
    BY <2>1, <2>2, <1>3
<1>5. NewOnes'
  <2>1. ToSet(rbf'.expiring) \subseteq seen /\ mempool' \subseteq seen
    BY <1>1, <1>2, <1>4
  <2> QED
    BY <2>1, <1>1, <1>2, <1>3 DEF NewOnes
<1>6. Gone'
  <2>1. mempool' \cap (change.deleted \cup DOMAIN rbf.replacedBy \cup ToSet(rbf'.expiring)) = {}
    BY <1>1, <1>2, <1>4
  <2> QED
    BY <2>1, <1>1, <1>2, <1>3 DEF Gone, Replaced
<1> QED
  BY <1>1, <1>2, <1>3, <1>4, <1>5, <1>6 DEF Orderly

\* cleanup, and what it forgets: the tree of a newest version that left the
\* mempool.
LEMMA CleanupOrderly ==
    ASSUME Orderly, Cleanup
    PROVE  /\ Orderly'
           /\ \A id \in DOMAIN rbf.trees \cap rbf.txs : id \notin rbf'.txs => id \notin DOMAIN rbf'.trees
           /\ \A t \in rbf.txs \ rbf'.txs : \A n \in Newer(t) : n \notin mempool
<1> DEFINE h == Head(rbf.expiring)
           e == Tail(rbf.expiring)
           c == [rbf EXCEPT !.expiring = e]
<1>1. /\ NewOnes /\ Gone /\ CacheOk(rbf) /\ rbf.expiring \in Seq(Txs) /\ load = NoLoad /\ missed = {}
      /\ mempool \cap (change.deleted \cup DOMAIN rbf.replacedBy \cup ToSet(rbf.expiring)) = {}
      /\ rbf.txs \subseteq seen /\ ToSet(rbf.expiring) \subseteq seen
      /\ \A i \in DOMAIN change.new : Replaced(change.new[i]) \cap DOMAIN rbf.replacedBy = {}
  BY DEF Orderly, Gone, NewOnes
<1>2. /\ rbf' = RemoveVersions(c, h) /\ mempool' = mempool /\ change' = change /\ seen' = seen
      /\ load' = load /\ missed' = missed /\ rbf.expiring # <<>>
  BY DEF Cleanup, loadVars
<1>3. h \in ToSet(rbf.expiring) /\ e \in Seq(Txs) /\ ToSet(e) \subseteq ToSet(rbf.expiring)
  <2> DEFINE s == rbf.expiring
  <2>1. s \in Seq(Txs) /\ s # <<>> /\ 1 \in DOMAIN s /\ h = s[1]
    BY <1>1, <1>2
  <2>2. e \in Seq(Txs) /\ \A i \in DOMAIN e : i + 1 \in DOMAIN s /\ e[i] = s[i + 1]
    BY <1>1, <1>2
  <2> HIDE DEF h, e
  <2> QED
    BY <2>1, <2>2 DEF ToSet
<1> HIDE DEF h, e
<1>4. /\ IsCache(c) /\ c.expiring = e /\ c.replacedBy = rbf.replacedBy
      /\ c.replaces = rbf.replaces /\ c.trees = rbf.trees /\ c.treeMap = rbf.treeMap
      /\ c.txs = rbf.txs /\ c.thrown = rbf.thrown
  BY <1>1 DEF CacheOk, IsCache, Fields
<1> HIDE DEF c
<1>5. CacheOk(c)
  BY <1>1, <1>4, SameMaps
<1>6. /\ CacheOk(rbf') /\ rbf'.txs \subseteq c.txs /\ DOMAIN rbf'.replacedBy \subseteq DOMAIN c.replacedBy
      /\ \A id \in DOMAIN c.trees \cap c.txs : id \notin rbf'.txs => id \notin DOMAIN rbf'.trees
      /\ rbf'.expiring = c.expiring \/ rbf'.expiring = Drop(c.expiring, Versions(c, h))
      /\ c.txs \ rbf'.txs # {} =>
           /\ h \in c.txs /\ h \notin DOMAIN c.replacedBy
           /\ \A x \in c.txs \ rbf'.txs : c.treeMap[x] = c.treeMap[h]
  BY <1>2, <1>5, RemoveOk
<1>7. rbf'.expiring \in Seq(Txs) /\ ToSet(rbf'.expiring) \subseteq ToSet(rbf.expiring)
  <2>1. CASE rbf'.expiring = e
    BY <2>1, <1>3
  <2>2. CASE rbf'.expiring = Drop(e, Versions(c, h))
    BY <2>2, <1>3, DropFacts
  <2> QED
    BY <2>1, <2>2, <1>4, <1>6
<1>8. NewOnes'
  <2>1. /\ rbf'.txs \subseteq rbf.txs
    BY <1>4, <1>6
  <2> QED
    BY <2>1, <1>1, <1>2, <1>7 DEF NewOnes
<1>9. Gone'
  <2>1. DOMAIN rbf'.replacedBy \subseteq DOMAIN rbf.replacedBy
    BY <1>4, <1>6
  <2>2. mempool \cap (change.deleted \cup DOMAIN rbf'.replacedBy \cup ToSet(rbf'.expiring)) = {}
    BY <2>1, <1>1, <1>7
  <2>3. \A i \in DOMAIN change.new : Replaced(change.new[i]) \cap DOMAIN rbf'.replacedBy = {}
    BY <2>1, <1>1
  <2> QED
    BY <2>2, <2>3, <1>2 DEF Gone, Replaced
<1>10. ASSUME NEW t \in rbf.txs \ rbf'.txs, NEW n \in Newer(t) PROVE n \notin mempool
  <2>1. h \in rbf.txs /\ rbf.treeMap[t] = rbf.treeMap[h] /\ h \notin DOMAIN rbf.replacedBy
    BY <1>4, <1>6
  <2>2. PICK id \in DOMAIN rbf.trees : t \in TxsIn(rbf.trees[id]) /\ n \in TxsIn(rbf.trees[id])
    BY DEF Newer
  <2>3. n \in rbf.txs /\ rbf.treeMap[n] = rbf.treeMap[h]
    BY <2>1, <2>2, <1>1, TxsInTree
  <2>4. CASE n = h
    BY <2>4, <1>1, <1>3
  <2>5. CASE n # h
    <3>1. n \in DOMAIN rbf.replacedBy
      BY <2>1, <2>3, <2>5, <1>1, NewestIsRoot
    <3> QED
      BY <3>1, <1>1
  <2> QED
    BY <2>4, <2>5
<1> QED
  BY <1>1, <1>2, <1>4, <1>6, <1>7, <1>8, <1>9, <1>10 DEF Orderly

\* An empty cache and an empty mempool.
LEMMA InitOrderly ==
    ASSUME Init PROVE RbfInv
<1>1. /\ rbf = EmptyCache /\ mempool = {} /\ seen = {} /\ returns = 0 /\ restarts = 0
      /\ change = NoChange /\ load = NoLoad /\ missed = {}
  BY DEF Init
<1>2. DOMAIN EmptyMap = {}
  BY DEF EmptyMap
<1>3. CacheOk(rbf)
  BY <1>1, <1>2, EmptyCacheIsCache DEF CacheOk, EmptyCache
<1>4. /\ rbf.expiring = <<>> /\ rbf.txs = {} /\ <<>> \in Seq(Txs) /\ ToSet(<<>>) = {} /\ DOMAIN <<>> = {}
  BY <1>1 DEF EmptyCache, ToSet
<1>5. NewOnes /\ Gone
  BY <1>1, <1>4 DEF NewOnes, Gone, NoChange
<1> QED
  BY <1>1, <1>3, <1>4, <1>5 DEF RbfInv, Orderly

\* No other step is taken before the process is disturbed.
LEMMA StepOrderly ==
    ASSUME RbfInv, [Next]_vars PROVE RbfInv'
<1>1. CASE UNCHANGED vars
  BY <1>1 DEF vars, loadVars, RbfInv, Undisturbed, Orderly, CacheOk, TreeOk, InTree, NewOnes, Gone, Replaced
<1>2. CASE Next
  <2>1. returns' \in Nat /\ restarts' \in Nat /\ (Undisturbed' => Undisturbed /\ restarts' = restarts)
    BY <1>2, Disturbances
  <2> SUFFICES ASSUME Undisturbed' PROVE Orderly'
    BY <2>1 DEF RbfInv
  <2>2. Orderly /\ restarts' = restarts /\ restarts = 0 /\ returns = 0 /\ returns' = 0 /\ VersionsCompete
    BY <2>1 DEF RbfInv, Undisturbed
  <2>3. ~load.running /\ load.calls = <<>>
    BY <2>2 DEF Orderly, NoLoad
  <2>4. CASE UpdateMempool
    BY <2>2, <2>4, UpdateMempoolOrderly
  <2>5. CASE HandleRbf
    BY <2>2, <2>5, HandleRbfOrderly
  <2>6. CASE SendChanges
    BY <2>2, <2>6, SendChangesOrderly
  <2>7. CASE \E t \in Txs : TxMined(t)
    BY <2>2, <2>7, TxMinedOrderly
  <2>8. CASE Cleanup
    BY <2>2, <2>8, CleanupOrderly
  <2>9. ~Restart
    BY <2>2 DEF Restart
  <2> QED
    BY <1>2, <2>3, <2>4, <2>5, <2>6, <2>7, <2>8, <2>9 DEF Next, LoadRuns, ImportTx
<1> QED
  BY <1>1, <1>2

\* RbfInv is inductive.
LEMMA RbfInvAlways == Spec => []RbfInv
BY InitOrderly, StepOrderly, PTL DEF Spec

\* What it says of the cache.
LEMMA OrderlyAgrees == ASSUME RbfInv PROVE TreesAgree /\ AddFindsTrees
<1>1. SUFFICES ASSUME Undisturbed PROVE TreesAgree /\ AddFindsTrees
  BY DEF TreesAgree, AddFindsTrees
<1>2. CacheOk(rbf)
  BY <1>1 DEF RbfInv, Orderly
<1>3. AddFindsTrees
  BY <1>2 DEF AddFindsTrees, CacheOk
<1>4. ASSUME NEW t \in rbf.txs
      PROVE  /\ rbf.treeMap[t] \in DOMAIN rbf.trees
             /\ t \in TxsIn(rbf.trees[rbf.treeMap[t]])
             /\ t \in DOMAIN rbf.replacedBy <=> t # Root(rbf.trees[rbf.treeMap[t]])
  BY <1>2, NewestIsRoot DEF CacheOk
<1>5. ASSUME NEW id \in DOMAIN rbf.trees, NEW t \in TxsIn(rbf.trees[id])
      PROVE  t \in rbf.txs /\ rbf.treeMap[t] = id
  BY <1>2, TxsInTree
<1>6. DOMAIN rbf.treeMap = rbf.txs
  BY <1>2 DEF CacheOk
<1> QED
  BY <1>3, <1>4, <1>5, <1>6 DEF TreesAgree

\* add finds a tree or makes a leaf for every replacement, in every behaviour
\* of an undisturbed process: the throw of rbf-cache.ts:74 is out of reach.
THEOREM AddFindsTreesAlways == Spec => []AddFindsTrees
BY RbfInvAlways, OrderlyAgrees, PTL

\* The maps and the trees of an undisturbed process tell one story, whatever
\* the order of replacements, blocks and expiries (rbf-cache.ts:33-85, 184-209).
THEOREM TreesAgreeAlways == Spec => []TreesAgree
BY RbfInvAlways, OrderlyAgrees, PTL

\* Only cleanup takes a transaction out of the cache.
LEMMA OnlyCleanupForgets ==
    ASSUME RbfInv, Undisturbed, Undisturbed', [Next]_vars, ~Cleanup PROVE rbf.txs \subseteq rbf'.txs
<1>1. ~load.running /\ load.calls = <<>> /\ CacheOk(rbf)
  BY DEF RbfInv, Orderly, NoLoad
<1>2. CASE HandleRbf
  <2>1. CASE UNCHANGED rbf
    BY <2>1
  <2>2. CASE \E order : rbf' = Add(rbf, order, Head(change.new))
    <3>1. PICK order : rbf' = Add(rbf, order, Head(change.new))
      BY <2>2
    <3>2. Added(rbf, order, Head(change.new), rbf')
      BY <3>1, <1>1, AddFields DEF CacheOk
    <3> QED
      BY <3>2 DEF Added
  <2> QED
    BY <2>1, <2>2, <1>2 DEF HandleRbf
<1>3. CASE SendChanges
  <2>1. PICK order : rbf' = [rbf EXCEPT !.dirty = {}, !.expiring = rbf.expiring \o order]
    BY <1>3 DEF SendChanges
  <2> DEFINE e == rbf.expiring \o order
  <2>2. rbf' = [rbf EXCEPT !.dirty = {}, !.expiring = e]
    BY <2>1
  <2> HIDE DEF e
  <2> QED
    BY <2>2, <1>1 DEF CacheOk, IsCache, Fields
<1>4. ASSUME NEW t \in Txs, TxMined(t) PROVE rbf.txs \subseteq rbf'.txs
  <2>1. rbf' = Mined(rbf, t)
    BY <1>4 DEF TxMined
  <2>2. MarkedMined(rbf, t, rbf')
    BY <2>1, <1>1, MinedFields DEF CacheOk
  <2> QED
    BY <2>2 DEF MarkedMined
<1>5. CASE UNCHANGED rbf
  BY <1>5
<1>6. ~Restart
  <2>1. restarts = 0 /\ restarts' = 0
    BY DEF Undisturbed
  <2> QED
    BY <2>1 DEF Restart
<1> QED
  BY <1>1, <1>2, <1>3, <1>4, <1>5, <1>6 DEF Next, LoadRuns, UpdateMempool, ImportTx, vars

\* A replacement leaves the cache of an undisturbed process only once no newer
\* version of it is in the mempool (rbf-cache.ts:185).
THEOREM NewerVersionKeptAlways == Spec /\ []Undisturbed => NewerVersionKept
<1> DEFINE kept == \A t \in rbf.txs \ rbf'.txs : \A n \in Newer(t) : n < t \/ n \notin mempool
<1>1. RbfInv /\ Undisturbed /\ Undisturbed' /\ [Next]_vars => [kept]_vars
  <2> SUFFICES ASSUME RbfInv, Undisturbed, Undisturbed', [Next]_vars PROVE kept
    OBVIOUS
  <2>1. CASE Cleanup
    BY <2>1, CleanupOrderly DEF RbfInv
  <2>2. CASE ~Cleanup
    BY <2>2, OnlyCleanupForgets
  <2> QED
    BY <2>1, <2>2
<1> QED
  BY <1>1, RbfInvAlways, PTL DEF Spec, NewerVersionKept

\* In an undisturbed process no tree outlives the transaction that gives it its
\* id (rbf-cache.ts:195).
THEOREM TreesGoWithTheirIdsAlways == Spec /\ []Undisturbed => TreesGoWithTheirIds
<1> DEFINE gone == \A id \in DOMAIN rbf.trees \cap rbf.txs : id \notin rbf'.txs => id \notin DOMAIN rbf'.trees
<1>1. RbfInv /\ Undisturbed /\ Undisturbed' /\ [Next]_vars => [gone]_vars
  <2> SUFFICES ASSUME RbfInv, Undisturbed, Undisturbed', [Next]_vars PROVE gone
    OBVIOUS
  <2>1. CASE Cleanup
    BY <2>1, CleanupOrderly DEF RbfInv
  <2>2. CASE ~Cleanup
    BY <2>2, OnlyCleanupForgets
  <2> QED
    BY <2>1, <2>2
<1> QED
  BY <1>1, RbfInvAlways, PTL DEF Spec, TreesGoWithTheirIds
=============================================================================
