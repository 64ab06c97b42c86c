-------------------------- MODULE TemplatesProofs --------------------------
(***************************************************************************)
(* The worker is in step (WorkerInStep), the projected blocks are of the   *)
(* mempool (BlocksAreOfMempool) and a client's block follows (ViewFollows),*)
(* for any transactions and bounds.                                        *)
(*                                                                         *)
(* What is in flight is accounted for: a worker that lives comes, when it  *)
(* has read its requests one after the other, to hold the numbers of what  *)
(* the main thread has told (WorkerWillBeInStep).  A dead one is not       *)
(* forgotten only while its error is under way (DeathIsTold).  From that,  *)
(* a call that is made alone finds its worker at rest, and all the answers *)
(* it can get are known (CallsAlone).                                      *)
(***************************************************************************)
EXTENDS Templates, FiniteSetTheorems, TLAPS

(***************************************************************************)
(* Numbers.  setUid gives a finite set of transactions the numbers of an   *)
(* interval, each to one.                                                  *)
(***************************************************************************)
LEMMA Ranks ==
    ASSUME NEW txs \in SUBSET PoolTxs, IsFiniteSet(txs), NEW first \in Nat
    PROVE  /\ Cardinality(txs) \in Nat
           /\ \A t \in txs : UidOf(first, txs, t) \in first .. first + Cardinality(txs) - 1
           /\ \A s, t \in txs : UidOf(first, txs, s) = UidOf(first, txs, t) => s = t
           /\ \A u \in first .. first + Cardinality(txs) - 1 : \E t \in txs : UidOf(first, txs, t) = u
<1> DEFINE Below(t) == {s \in txs : s < t}
           last == first + Cardinality(txs) - 1
           f == [t \in txs |-> UidOf(first, txs, t)]
<1>1. Cardinality(txs) \in Nat /\ \A t \in txs : t \in Nat
  BY FS_CardinalityType, TemplatesAssumption
<1>2. ASSUME NEW t \in txs
      PROVE  IsFiniteSet(Below(t)) /\ Cardinality(Below(t)) \in Nat /\ Cardinality(Below(t)) < Cardinality(txs)
  <2>1. Below(t) \in SUBSET txs /\ t \notin Below(t)
    BY <1>1
  <2> HIDE DEF Below
  <2>2. IsFiniteSet(Below(t)) /\ Cardinality(Below(t)) <= Cardinality(txs)
        /\ (Cardinality(txs) = Cardinality(Below(t)) => txs = Below(t))
    BY <2>1, FS_Subset
  <2>3. Cardinality(Below(t)) \in Nat
    BY <2>2, FS_CardinalityType
  <2>4. txs # Below(t)
    BY <2>1
  <2> QED
    BY <1>1, <2>2, <2>3, <2>4
<1>3. ASSUME NEW s \in txs, NEW t \in txs, s < t PROVE Cardinality(Below(s)) < Cardinality(Below(t))
  <2>1. Below(s) \in SUBSET Below(t) /\ s \in Below(t) /\ s \notin Below(s)
    BY <1>1, <1>3
  <2>2. IsFiniteSet(Below(t)) /\ Cardinality(Below(s)) \in Nat /\ Cardinality(Below(t)) \in Nat
    BY <1>2
  <2> HIDE DEF Below
  <2>3. Cardinality(Below(s)) <= Cardinality(Below(t)) /\ (Cardinality(Below(t)) = Cardinality(Below(s)) => Below(t) = Below(s))
    BY <2>1, <2>2, FS_Subset
  <2>4. Below(t) # Below(s)
    BY <2>1
  <2> QED
    BY <2>2, <2>3, <2>4
<1>4. \A t \in txs : UidOf(first, txs, t) = first + Cardinality(Below(t))
  BY DEF UidOf
<1>5. \A t \in txs : UidOf(first, txs, t) \in first .. last
  <2> HIDE DEF Below
  <2> QED
    BY <1>1, <1>2, <1>4
<1>6. ASSUME NEW s \in txs, NEW t \in txs, UidOf(first, txs, s) = UidOf(first, txs, t) PROVE s = t
  <2>1. Cardinality(Below(s)) = Cardinality(Below(t))
    <3> HIDE DEF Below
    <3> QED
      BY <1>2, <1>4, <1>6
  <2> HIDE DEF Below
  <2>2. ~(s < t) /\ ~(t < s)
    BY <1>2, <1>3, <2>1
  <2> QED
    BY <1>1, <2>2
<1>7. f \in Injection(txs, first .. last)
  <2>1. f \in [txs -> first .. last]
    BY <1>5
  <2>2. IsInjective(f)
    BY <1>6 DEF IsInjective
  <2> HIDE DEF f, last
  <2> QED
    BY <2>1, <2>2 DEF Injection
<1>8. IsFiniteSet(first .. last) /\ Cardinality(first .. last) = Cardinality(txs)
  <2>1. first \in Int /\ last \in Int
    BY <1>1
  <2>2. IsFiniteSet(first .. last) /\ Cardinality(first .. last) = IF first > last THEN 0 ELSE last - first + 1
    BY <2>1, FS_Interval
  <2> QED
    BY <1>1, <2>2
<1>9. f \in Surjection(txs, first .. last)
  <2> HIDE DEF f, last
  <2> QED
    BY <1>7, <1>8, FS_Injection
<1>10. ASSUME NEW u \in first .. last PROVE \E t \in txs : UidOf(first, txs, t) = u
  <2>1. \E t \in txs : f[t] = u
    <3> HIDE DEF f, last
    <3> QED
      BY <1>9 DEF Surjection
  <2> QED
    BY <2>1
<1> QED
  BY <1>1, <1>5, <1>6, <1>10

LEMMA NumberedFacts ==
    ASSUME NEW txs \in SUBSET PoolTxs, IsFiniteSet(txs), NEW first \in Nat
    PROVE  /\ DOMAIN Numbered(first, txs) = first .. first + Cardinality(txs) - 1
           /\ DOMAIN Numbered(first, txs) = {UidOf(first, txs, t) : t \in txs}
           /\ \A t \in txs : Numbered(first, txs)[UidOf(first, txs, t)] = t
<1> DEFINE U == first .. first + Cardinality(txs) - 1
<1>1. /\ \A t \in txs : UidOf(first, txs, t) \in U
      /\ \A s, t \in txs : UidOf(first, txs, s) = UidOf(first, txs, t) => s = t
      /\ \A u \in U : \E t \in txs : UidOf(first, txs, t) = u
  BY Ranks
<1>2. Numbered(first, txs) = [u \in U |-> CHOOSE t \in txs : UidOf(first, txs, t) = u]
  BY DEF Numbered
<1> HIDE DEF U
<1>3. ASSUME NEW t \in txs PROVE Numbered(first, txs)[UidOf(first, txs, t)] = t
  <2>1. (CHOOSE s \in txs : UidOf(first, txs, s) = UidOf(first, txs, t)) = t
    BY <1>1
  <2> QED
    BY <1>1, <1>2, <2>1
<1>4. DOMAIN Numbered(first, txs) = U
  BY <1>2
<1>5. U = {UidOf(first, txs, t) : t \in txs}
  BY <1>1
<1> QED
  BY <1>3, <1>4, <1>5 DEF U

(***************************************************************************)
(* The types, and what the worker comes to hold.                           *)
(***************************************************************************)

\* What the worker holds after a request.
Apply(before, request) ==
    ((IF request.type = "set" THEN {} ELSE before) \cup request.added) \ request.removed

\* A worker that holds `before` and has these requests to read comes to hold `after`.
Reaches(before, requests, after) ==
    \E h \in [0 .. Len(requests) -> SUBSET Nat] :
        /\ h[0] = before
        /\ \A i \in 1 .. Len(requests) : h[i] = Apply(h[i - 1], requests[i])
        /\ h[Len(requests)] = after

\* The transactions that the worker has been told, and their numbers.
Told == pool \ fetched
Numbers == {uid[t] : t \in Told}

Request == [type : {"set", "update"}, added : SUBSET Nat, removed : SUBSET Nat]
EventSet == [type : {"message", "error", "exit"}, uids : SUBSET Nat]
ThreadSet == [alive : BOOLEAN, mempool : SUBSET Nat, inbox : Seq(Request), events : Seq(EventSet)]
CallSet == [no : 1 .. made, worker : DOMAIN threads, removed : SUBSET Nat]

TemplatesTyped ==
    /\ pool \subseteq PoolTxs /\ IsFiniteSet(pool) /\ fetched \subseteq pool
    /\ uid \in [PoolTxs -> Nat] /\ nextUid \in Nat \ {0}
    /\ DOMAIN uidMap \subseteq 1 .. nextUid - 1
    /\ threads \in Seq(ThreadSet) /\ worker \in 0 .. Len(threads)
    /\ made \in Nat /\ calls \subseteq CallSet
    /\ awaited \in 0 .. made

\* What was told is numbered, what was fetched since is not.
NumbersMean ==
    /\ \A t \in Told : uid[t] \in DOMAIN uidMap /\ uidMap[uid[t]] = t
    /\ \A t \in fetched : uid[t] = 0

\* Only the call that the loop waits for has numbers to forget, and they are of
\* transactions that have left the mempool.
CallsForget ==
    /\ \A c, d \in calls : c.no = d.no => c = d
    /\ \A c \in calls : c.removed # {} => c.no = awaited /\ c.removed \cap Numbers = {}

\* The worker, when it has read its requests, holds what it was told.
WorkerWillBeInStep ==
    worker # 0 /\ threads[worker].alive =>
        Reaches(threads[worker].mempool, threads[worker].inbox, Numbers)

\* A dead worker is not forgotten only while its error has not been heard.
DeathIsTold ==
    worker # 0 /\ ~threads[worker].alive =>
        \E i \in DOMAIN threads[worker].events : threads[worker].events[i].type = "error"

TemplatesInv == TemplatesTyped /\ NumbersMean /\ CallsForget /\ WorkerWillBeInStep /\ DeathIsTold

LEMMA ReachesNothing ==
    /\ \A m \in SUBSET Nat : Reaches(m, <<>>, m)
    /\ \A m, n : Reaches(m, <<>>, n) => n = m
<1>1. ASSUME NEW m \in SUBSET Nat PROVE Reaches(m, <<>>, m)
  <2> DEFINE h == [i \in 0 .. 0 |-> m]
             none == <<>>
  <2>1. Len(none) = 0
    OBVIOUS
  <2>2. h \in [0 .. 0 -> SUBSET Nat]
    OBVIOUS
  <2>0. h[0] = m
    <3>1. 0 \in 0 .. 0
      OBVIOUS
    <3> QED
      BY <3>1
  <2>3. \A i \in 1 .. 0 : h[i] = Apply(h[i - 1], none[i])
    <3> HIDE DEF h, none
    <3> QED
      OBVIOUS
  <2> HIDE DEF h, none
  <2>4. Reaches(m, none, m)
    BY <2>0, <2>1, <2>2, <2>3 DEF Reaches
  <2> QED
    BY <2>4 DEF none
<1>2. ASSUME NEW m, NEW n, Reaches(m, <<>>, n) PROVE n = m
  BY <1>2 DEF Reaches
<1> QED
  BY <1>1, <1>2

LEMMA ReachesOne ==
    ASSUME NEW m, NEW n, NEW q \in Seq(Request), Len(q) = 1, Reaches(m, q, n)
    PROVE  Apply(m, Head(q)) = n
<1>1. PICK h \in [0 .. Len(q) -> SUBSET Nat] :
        h[0] = m /\ (\A i \in 1 .. Len(q) : h[i] = Apply(h[i - 1], q[i])) /\ h[Len(q)] = n
  BY DEF Reaches
<1>2. h[1] = Apply(h[0], q[1])
  <2>1. 1 \in 1 .. Len(q) /\ 1 - 1 = 0
    OBVIOUS
  <2> QED
    BY <1>1, <2>1
<1>3. Head(q) = q[1]
  OBVIOUS
<1> QED
  BY <1>1, <1>2, <1>3

LEMMA ReachesFurther ==
    ASSUME NEW m, NEW n \in SUBSET Nat, NEW q \in Seq(Request), NEW r \in Request, Reaches(m, q, n)
    PROVE  Reaches(m, Append(q, r), Apply(n, r))
<1> DEFINE k == Len(q)
           p == Append(q, r)
<1>1. PICK h \in [0 .. k -> SUBSET Nat] :
        h[0] = m /\ (\A i \in 1 .. k : h[i] = Apply(h[i - 1], q[i])) /\ h[k] = n
  BY DEF Reaches
<1>2. k \in Nat /\ Len(p) = k + 1 /\ p[k + 1] = r /\ \A i \in 1 .. k : p[i] = q[i]
  OBVIOUS
<1>3. Apply(n, r) \in SUBSET Nat
  BY DEF Apply, Request
<1> DEFINE g == [i \in 0 .. k + 1 |-> IF i = k + 1 THEN Apply(n, r) ELSE h[i]]
<1> HIDE DEF p, k
<1>4. g \in [0 .. k + 1 -> SUBSET Nat]
  <2>1. \A i \in 0 .. k + 1 : i # k + 1 => i \in 0 .. k
    BY <1>2
  <2> QED
    BY <1>3, <2>1
<1>5. g[0] = m /\ g[k + 1] = Apply(n, r)
  BY <1>1, <1>2
<1>6. ASSUME NEW i \in 1 .. k + 1 PROVE g[i] = Apply(g[i - 1], p[i])
  <2>1. CASE i = k + 1
    <3>1. g[i - 1] = n /\ g[i] = Apply(n, r)
      BY <1>1, <1>2, <2>1
    <3> HIDE DEF g
    <3> QED
      BY <1>2, <2>1, <3>1
  <2>2. CASE i # k + 1
    <3>1. i \in 1 .. k /\ g[i] = h[i] /\ g[i - 1] = h[i - 1]
      BY <1>2, <2>2
    <3> HIDE DEF g
    <3> QED
      BY <1>1, <1>2, <3>1
  <2> QED
    BY <2>1, <2>2
<1> HIDE DEF g
<1> QED
  BY <1>2, <1>4, <1>5, <1>6 DEF Reaches, p

LEMMA ReachesSooner ==
    ASSUME NEW m, NEW n, NEW q \in Seq(Request), q # <<>>, Reaches(m, q, n)
    PROVE  Reaches(Apply(m, Head(q)), Tail(q), n)
<1> DEFINE k == Len(q)
           p == Tail(q)
<1>1. PICK h \in [0 .. k -> SUBSET Nat] :
        h[0] = m /\ (\A i \in 1 .. k : h[i] = Apply(h[i - 1], q[i])) /\ h[k] = n
  BY DEF Reaches
<1>2. k \in Nat /\ k # 0 /\ Len(p) = k - 1 /\ Head(q) = q[1] /\ \A i \in 1 .. k - 1 : p[i] = q[i + 1]
  OBVIOUS
<1> DEFINE g == [i \in 0 .. k - 1 |-> h[i + 1]]
<1> HIDE DEF p, k
<1>3. g \in [0 .. k - 1 -> SUBSET Nat]
  BY <1>1, <1>2
<1>4. g[0] = Apply(m, Head(q))
  <2>1. 1 \in 1 .. k /\ 0 \in 0 .. k - 1
    BY <1>2
  <2>2. g[0] = h[1]
    BY <2>1
  <2>3. h[1] = Apply(h[1 - 1], q[1]) /\ h[1 - 1] = m
    BY <1>1, <2>1
  <2> QED
    BY <1>2, <2>2, <2>3
<1>5. g[k - 1] = n
  BY <1>1, <1>2
<1>6. ASSUME NEW i \in 1 .. k - 1 PROVE g[i] = Apply(g[i - 1], p[i])
  <2>1. i + 1 \in 1 .. k /\ (i + 1) - 1 = i
    BY <1>2
  <2>2. g[i] = h[i + 1] /\ g[i - 1] = h[i]
    BY <1>2
  <2>3. h[i + 1] = Apply(h[(i + 1) - 1], q[i + 1])
    BY <1>1, <2>1
  <2> HIDE DEF g
  <2> QED
    BY <1>2, <2>1, <2>2, <2>3
<1> HIDE DEF g
<1> QED
  BY <1>2, <1>3, <1>4, <1>5, <1>6 DEF Reaches, p

(***************************************************************************)
(* Numbering keeps the numbers' meaning.                                   *)
(***************************************************************************)
LEMMA MakeNumbers ==
    ASSUME TemplatesTyped, pool' \in SUBSET pool, fetched' = {}, SetUids(pool')
    PROVE  /\ IsFiniteSet(pool') /\ uid' \in [PoolTxs -> Nat] /\ nextUid' \in Nat \ {0}
           /\ DOMAIN uidMap' \subseteq 1 .. nextUid' - 1
           /\ NumbersMean'
           /\ Numbers' = DOMAIN uidMap'
<1> DEFINE n == Cardinality(pool')
<1>1. pool' \in SUBSET PoolTxs /\ IsFiniteSet(pool')
  <2>1. pool' \in SUBSET pool /\ IsFiniteSet(pool) /\ pool \subseteq PoolTxs
    BY DEF TemplatesTyped
  <2> QED
    BY <2>1, FS_Subset
<1>2. n \in Nat /\ \A t \in pool' : UidOf(1, pool', t) \in 1 .. 1 + n - 1
  BY <1>1, Ranks
<1>3. /\ DOMAIN Numbered(1, pool') = 1 .. 1 + n - 1
      /\ DOMAIN Numbered(1, pool') = {UidOf(1, pool', t) : t \in pool'}
      /\ \A t \in pool' : Numbered(1, pool')[UidOf(1, pool', t)] = t
  BY <1>1, NumberedFacts
<1>4. /\ nextUid' = 1 + n /\ uidMap' = Numbered(1, pool')
      /\ uid' = [t \in PoolTxs |-> IF t \in pool' THEN UidOf(1, pool', t) ELSE uid[t]]
  BY DEF SetUids
<1>5. uid \in [PoolTxs -> Nat]
  BY DEF TemplatesTyped
<1> HIDE DEF n
<1>6. \A t \in pool' : UidOf(1, pool', t) \in Nat
  BY <1>2
<1>7. uid' \in [PoolTxs -> Nat]
  BY <1>4, <1>5, <1>6
<1>8. \A t \in pool' : uid'[t] = UidOf(1, pool', t)
  BY <1>1, <1>4
<1>9. Told' = pool'
  BY DEF Told
<1>10. Numbers' = {uid'[t] : t \in pool'}
  BY <1>9 DEF Numbers
<1>11. Numbers' = DOMAIN uidMap'
  <2>1. {uid'[t] : t \in pool'} = {UidOf(1, pool', t) : t \in pool'}
    BY <1>8
  <2> QED
    BY <1>3, <1>4, <1>10, <2>1
<1>12. NumbersMean'
  BY <1>3, <1>4, <1>8, <1>9 DEF NumbersMean
<1> QED
  BY <1>1, <1>2, <1>3, <1>4, <1>7, <1>11, <1>12

LEMMA SendNumbers ==
    ASSUME TemplatesTyped, NumbersMean, NEW removed \in SUBSET (pool \ fetched),
           pool' = pool \ removed, fetched' = {}, SendChanges(fetched, removed)
    PROVE  /\ IsFiniteSet(pool') /\ uid' \in [PoolTxs -> Nat] /\ nextUid' \in Nat \ {0}
           /\ DOMAIN uidMap' \subseteq 1 .. nextUid' - 1
           /\ NumbersMean'
           /\ Numbers' = (Numbers \cup DOMAIN Numbered(nextUid, fetched)) \ KnownUids(removed)
           /\ KnownUids(removed) \cap Numbers' = {}
           /\ DOMAIN Numbered(nextUid, fetched) \subseteq Nat
<1> DEFINE n == Cardinality(fetched)
           new == Numbered(nextUid, fetched)
           Gone == KnownUids(removed)
<1>1. /\ fetched \in SUBSET PoolTxs /\ IsFiniteSet(fetched) /\ IsFiniteSet(pool') /\ pool' \subseteq PoolTxs
      /\ uid \in [PoolTxs -> Nat] /\ nextUid \in Nat \ {0}
      /\ DOMAIN uidMap \subseteq 1 .. nextUid - 1
  <2>1. fetched \in SUBSET pool /\ IsFiniteSet(pool) /\ pool \subseteq PoolTxs /\ pool' \in SUBSET pool
    BY DEF TemplatesTyped
  <2> QED
    BY <2>1, FS_Subset DEF TemplatesTyped
<1>2. n \in Nat /\ \A t \in fetched : UidOf(nextUid, fetched, t) \in nextUid .. nextUid + n - 1
  BY <1>1, Ranks
<1>3. /\ DOMAIN new = nextUid .. nextUid + n - 1
      /\ DOMAIN new = {UidOf(nextUid, fetched, t) : t \in fetched}
      /\ \A t \in fetched : new[UidOf(nextUid, fetched, t)] = t
  BY <1>1, NumberedFacts
<1>4. /\ nextUid' = nextUid + n
      /\ uidMap' = [u \in DOMAIN new \cup DOMAIN uidMap |-> IF u \in DOMAIN new THEN new[u] ELSE uidMap[u]]
      /\ uid' = [t \in PoolTxs |-> IF t \in fetched THEN UidOf(nextUid, fetched, t) ELSE uid[t]]
  BY DEF SendChanges
<1> HIDE DEF n, new
<1>5. \A t \in fetched : UidOf(nextUid, fetched, t) \in Nat
  BY <1>1, <1>2
<1>6. uid' \in [PoolTxs -> Nat]
  BY <1>1, <1>4, <1>5
<1>7. nextUid' \in Nat \ {0} /\ DOMAIN uidMap' \subseteq 1 .. nextUid' - 1
  <2>1. DOMAIN uidMap' = DOMAIN new \cup DOMAIN uidMap
    BY <1>4
  <2> QED
    BY <1>1, <1>2, <1>3, <1>4, <2>1
<1>8. DOMAIN new \cap DOMAIN uidMap = {}
  BY <1>1, <1>2, <1>3
<1>9. Told' = (Told \ removed) \cup fetched
  <2>1. fetched \subseteq pool
    BY DEF TemplatesTyped
  <2> QED
    BY <2>1 DEF Told
<1>10. \A t \in Told : t \in PoolTxs /\ t \notin fetched /\ uid[t] \in DOMAIN uidMap /\ uidMap[uid[t]] = t
  BY DEF Told, NumbersMean, TemplatesTyped
<1>11. \A t \in Told : uid'[t] = uid[t]
  BY <1>4, <1>10
<1>12. \A t \in fetched : uid'[t] = UidOf(nextUid, fetched, t) /\ uid'[t] \in DOMAIN new /\ new[uid'[t]] = t
  BY <1>1, <1>3, <1>4
<1>13. NumbersMean'
  <2>1. ASSUME NEW t \in Told' PROVE uid'[t] \in DOMAIN uidMap' /\ uidMap'[uid'[t]] = t
    <3>1. CASE t \in fetched
      BY <1>4, <1>12, <3>1
    <3>2. CASE t \in Told
      <4>1. uid'[t] \in DOMAIN uidMap /\ uidMap[uid'[t]] = t /\ uid'[t] \notin DOMAIN new
        BY <1>8, <1>10, <1>11, <3>2
      <4> QED
        BY <1>4, <4>1
    <3> QED
      BY <1>9, <3>1, <3>2
  <2> QED
    BY <2>1 DEF NumbersMean
<1>14. removed \subseteq Told /\ Gone = {uid[t] : t \in removed}
  <2>1. removed \subseteq Told
    BY DEF Told
  <2> QED
    BY <1>10, <2>1 DEF KnownUids
<1>15. Gone \subseteq DOMAIN uidMap
  BY <1>10, <1>14
<1>16. \A s, t \in Told : uid[s] = uid[t] => s = t
  BY <1>10
<1> HIDE DEF Gone
<1>17. Numbers' = {uid'[t] : t \in Told'}
  BY DEF Numbers
<1>18. Numbers' = {uid[t] : t \in Told \ removed} \cup DOMAIN new
  <2>1. DOMAIN new = {uid'[t] : t \in fetched}
    <3>1. \A t \in fetched : uid'[t] = UidOf(nextUid, fetched, t)
      BY <1>12
    <3>2. {uid'[t] : t \in fetched} = {UidOf(nextUid, fetched, t) : t \in fetched}
      BY <3>1
    <3> QED
      BY <1>3, <3>2
  <2>2. {uid'[t] : t \in Told \ removed} = {uid[t] : t \in Told \ removed}
    BY <1>11
  <2>3. {uid'[t] : t \in Told'} = {uid'[t] : t \in Told \ removed} \cup {uid'[t] : t \in fetched}
    BY <1>9
  <2> QED
    BY <1>17, <2>1, <2>2, <2>3
<1>19. {uid[t] : t \in Told \ removed} = Numbers \ Gone
  BY <1>14, <1>16 DEF Numbers
<1>20. Numbers' = (Numbers \cup DOMAIN new) \ Gone /\ Gone \cap Numbers' = {}
  BY <1>8, <1>15, <1>18, <1>19
<1>21. DOMAIN new \subseteq Nat
  BY <1>1, <1>2, <1>3
<1> QED
  BY <1>1, <1>6, <1>7, <1>13, <1>20, <1>21 DEF new, Gone

(***************************************************************************)
(* A call: what every request does, made or sent.                          *)
(***************************************************************************)
Asks(request) ==
    /\ made' = made + 1 /\ awaited' = made + 1
    /\ calls' = calls \cup {[no |-> made + 1, worker |-> worker', removed |-> request.removed]}
    /\ IF worker = 0
       THEN worker' = Len(threads) + 1 /\ threads' = Append(threads, Thread(<<request>>))
       ELSE worker' = worker /\ threads' = [threads EXCEPT ![worker].inbox = Append(@, request)]

\* The thread that gets the request, before it does.
Held == IF worker = 0 THEN Thread(<<>>) ELSE threads[worker]

LEMMA Replaced ==
    ASSUME NEW S, NEW s \in Seq(S), NEW i \in DOMAIN s, NEW x \in S
    PROVE  /\ [s EXCEPT ![i] = x] \in Seq(S) /\ Len([s EXCEPT ![i] = x]) = Len(s)
           /\ DOMAIN [s EXCEPT ![i] = x] = DOMAIN s
           /\ [s EXCEPT ![i] = x][i] = x
           /\ \A j \in DOMAIN s : j # i => [s EXCEPT ![i] = x][j] = s[j]
  OBVIOUS

LEMMA AsksThreads ==
    ASSUME threads \in Seq(ThreadSet), worker \in 0 .. Len(threads), NEW request \in Request, Asks(request)
    PROVE  /\ threads' \in Seq(ThreadSet) /\ worker' \in 1 .. Len(threads')
           /\ DOMAIN threads' = DOMAIN threads \cup {worker'}
           /\ worker = 0 => worker' \notin DOMAIN threads
           /\ Held \in ThreadSet
           /\ threads'[worker'].inbox = Append(Held.inbox, request)
           /\ threads'[worker'].mempool = Held.mempool /\ threads'[worker'].alive = Held.alive
           /\ threads'[worker'].events = Held.events
           /\ \A w \in DOMAIN threads : w # worker' => threads'[w] = threads[w]
<1>1. CASE worker = 0
  <2>1. worker' = Len(threads) + 1 /\ threads' = Append(threads, Thread(<<request>>)) /\ Held = Thread(<<>>)
    BY <1>1 DEF Asks, Held
  <2>2. Thread(<<request>>) \in ThreadSet
    BY DEF Thread, ThreadSet
  <2>3. Thread(<<>>) \in ThreadSet
    <3>1. <<>> \in Seq(Request) /\ <<>> \in Seq(EventSet)
      OBVIOUS
    <3> QED
      BY <3>1 DEF Thread, ThreadSet
  <2>4. /\ Thread(<<request>>).inbox = Append(Thread(<<>>).inbox, request)
        /\ Thread(<<request>>).mempool = Thread(<<>>).mempool
        /\ Thread(<<request>>).alive = Thread(<<>>).alive
        /\ Thread(<<request>>).events = Thread(<<>>).events
    <3>1. Append(<<>>, request) = <<request>>
      OBVIOUS
    <3>2. Thread(<<>>).inbox = <<>> /\ Thread(<<request>>).inbox = <<request>>
      BY DEF Thread
    <3> QED
      BY <3>1, <3>2 DEF Thread
  <2>5. DOMAIN threads = 1 .. Len(threads) /\ Len(threads) \in Nat
    OBVIOUS
  <2> QED
    BY <1>1, <2>1, <2>2, <2>3, <2>4, <2>5
<1>2. CASE worker # 0
  <2>1. worker' = worker /\ threads' = [threads EXCEPT ![worker].inbox = Append(@, request)] /\ Held = threads[worker]
    BY <1>2 DEF Asks, Held
  <2>2. worker \in 1 .. Len(threads) /\ DOMAIN threads = 1 .. Len(threads)
    BY <1>2
  <2>3. threads[worker] \in ThreadSet
    BY <2>2
  <2> DEFINE after == [threads[worker] EXCEPT !.inbox = Append(@, request)]
  <2>4. /\ after \in ThreadSet
        /\ after.inbox = Append(threads[worker].inbox, request)
        /\ after.mempool = threads[worker].mempool /\ after.alive = threads[worker].alive
        /\ after.events = threads[worker].events
    <3>1. ASSUME NEW t \in ThreadSet, NEW q \in Seq(Request)
          PROVE  /\ [t EXCEPT !.inbox = q] \in ThreadSet
                 /\ [t EXCEPT !.inbox = q].inbox = q
                 /\ [t EXCEPT !.inbox = q].mempool = t.mempool
                 /\ [t EXCEPT !.inbox = q].alive = t.alive
                 /\ [t EXCEPT !.inbox = q].events = t.events
      BY DEF ThreadSet
    <3>2. Append(threads[worker].inbox, request) \in Seq(Request)
      BY <2>3 DEF ThreadSet
    <3> QED
      BY <2>3, <3>1, <3>2
  <2>5. threads' = [threads EXCEPT ![worker] = after]
    BY <2>1
  <2> HIDE DEF after
  <2>6. /\ threads' \in Seq(ThreadSet) /\ Len(threads') = Len(threads) /\ DOMAIN threads' = DOMAIN threads
        /\ threads'[worker] = after /\ \A w \in DOMAIN threads : w # worker => threads'[w] = threads[w]
    BY <2>2, <2>4, <2>5, Replaced
  <2> QED
    BY <1>2, <2>1, <2>2, <2>3, <2>4, <2>6
<1> QED
  BY <1>1, <1>2

LEMMA AskKeeps ==
    ASSUME TemplatesInv, LoopIsFree, NEW request \in Request, Asks(request),
           worker = 0 => request.type = "set",
           Numbers \in SUBSET Nat, Apply(Numbers, request) = Numbers', request.removed \cap Numbers' = {}
    PROVE  /\ threads' \in Seq(ThreadSet) /\ worker' \in 0 .. Len(threads')
           /\ made' \in Nat /\ calls' \subseteq CallSet' /\ awaited' \in 0 .. made'
           /\ CallsForget' /\ WorkerWillBeInStep' /\ DeathIsTold'
<1> DEFINE new == [no |-> made + 1, worker |-> worker', removed |-> request.removed]
<1>1. /\ threads' \in Seq(ThreadSet) /\ worker' \in 1 .. Len(threads')
      /\ DOMAIN threads' = DOMAIN threads \cup {worker'}
      /\ Held \in ThreadSet
      /\ threads'[worker'].inbox = Append(Held.inbox, request)
      /\ threads'[worker'].mempool = Held.mempool /\ threads'[worker'].alive = Held.alive
      /\ threads'[worker'].events = Held.events
  BY AsksThreads DEF TemplatesInv, TemplatesTyped
<1>2. /\ made \in Nat /\ made' = made + 1 /\ awaited' = made + 1 /\ awaited = 0
      /\ calls' = calls \cup {new} /\ calls \subseteq CallSet
  BY DEF Asks, TemplatesInv, TemplatesTyped, LoopIsFree
<1>3. CallsForget
  BY DEF TemplatesInv
<1>4. \A c \in calls : c.no \in 1 .. made /\ c.worker \in DOMAIN threads /\ c.removed = {}
  BY <1>2, <1>3 DEF CallSet, CallsForget
<1>5. calls' \subseteq CallSet'
  <2>1. new \in CallSet'
    BY <1>1, <1>2 DEF CallSet, Request
  <2>2. CallSet \subseteq CallSet'
    BY <1>1, <1>2 DEF CallSet
  <2> QED
    BY <1>2, <2>1, <2>2
<1>6. CallsForget'
  <2>1. new.no = made + 1 /\ new.removed = request.removed
    OBVIOUS
  <2> HIDE DEF new
  <2>2. \A c, d \in calls' : c.no = d.no => c = d
    BY <1>2, <1>3, <1>4, <2>1 DEF CallsForget
  <2>3. \A c \in calls' : c.removed # {} => c.no = awaited' /\ c.removed \cap Numbers' = {}
    BY <1>2, <1>4, <2>1
  <2> QED
    BY <2>2, <2>3 DEF CallsForget
<1>7. /\ Held.inbox \in Seq(Request) /\ threads'[worker'].inbox = Append(Held.inbox, request)
      /\ threads'[worker'].mempool = Held.mempool /\ threads'[worker'].alive = Held.alive
      /\ threads'[worker'].events = Held.events
  BY <1>1 DEF ThreadSet
<1>8. WorkerWillBeInStep'
  <2>1. SUFFICES ASSUME Held.alive PROVE Reaches(Held.mempool, Append(Held.inbox, request), Numbers')
    BY <1>7 DEF WorkerWillBeInStep
  <2>2. CASE worker = 0
    <3>1. Held.mempool = {} /\ Held.inbox = <<>>
      BY <2>2 DEF Held, Thread
    <3>2. Apply({}, request) = Numbers'
      BY <2>2 DEF Apply
    <3>3. Reaches({}, <<>>, {})
      BY ReachesNothing
    <3>4. {} \in SUBSET Nat /\ <<>> \in Seq(Request)
      OBVIOUS
    <3>5. Reaches({}, Append(<<>>, request), Apply({}, request))
      BY <3>3, <3>4, ReachesFurther
    <3> QED
      BY <3>1, <3>2, <3>5
  <2>3. CASE worker # 0
    <3>1. Reaches(Held.mempool, Held.inbox, Numbers)
      BY <2>1, <2>3 DEF Held, TemplatesInv, WorkerWillBeInStep
    <3>2. Reaches(Held.mempool, Append(Held.inbox, request), Apply(Numbers, request))
      BY <1>7, <3>1, ReachesFurther
    <3> QED
      BY <3>2
  <2> QED
    BY <2>2, <2>3
<1>9. DeathIsTold'
  <2>1. CASE worker = 0
    <3>1. threads'[worker'].alive
      BY <1>7, <2>1 DEF Held, Thread
    <3> QED
      BY <3>1 DEF DeathIsTold
  <2>2. CASE worker # 0
    <3>1. threads'[worker'].alive = threads[worker].alive /\ threads'[worker'].events = threads[worker].events
      BY <1>7, <2>2 DEF Held
    <3> QED
      BY <2>2, <3>1 DEF DeathIsTold, TemplatesInv
  <2> QED
    BY <2>1, <2>2
<1> QED
  BY <1>1, <1>2, <1>5, <1>6, <1>8, <1>9

LEMMA MakeKeeps ==
    ASSUME TemplatesInv, LoopIsFree, pool' \in SUBSET pool, fetched' = {}, MakeTemplates(pool')
    PROVE  TemplatesInv' /\ \E request \in Request : Asks(request)
<1> DEFINE request == [type |-> "set", added |-> DOMAIN uidMap', removed |-> {}]
<1>1. /\ IsFiniteSet(pool') /\ uid' \in [PoolTxs -> Nat] /\ nextUid' \in Nat \ {0}
      /\ DOMAIN uidMap' \subseteq 1 .. nextUid' - 1
      /\ NumbersMean' /\ Numbers' = DOMAIN uidMap'
  BY MakeNumbers DEF TemplatesInv, MakeTemplates
<1>2. DOMAIN uidMap' \in SUBSET Nat
  BY <1>1
<1>3. request \in Request
  BY <1>2 DEF Request
<1>4. request.type = "set" /\ request.added = DOMAIN uidMap' /\ request.removed = {}
  OBVIOUS
<1>5. Asks(request)
  BY DEF Asks, MakeTemplates, Wait
<1> HIDE DEF request
<1>6. Apply(Numbers, request) = Numbers' /\ request.removed \cap Numbers' = {}
  BY <1>1, <1>4 DEF Apply
<1>7. Numbers \in SUBSET Nat
  BY DEF Numbers, Told, TemplatesInv, TemplatesTyped
<1>8. /\ threads' \in Seq(ThreadSet) /\ worker' \in 0 .. Len(threads')
      /\ made' \in Nat /\ calls' \subseteq CallSet' /\ awaited' \in 0 .. made'
      /\ CallsForget' /\ WorkerWillBeInStep' /\ DeathIsTold'
  BY <1>3, <1>4, <1>5, <1>6, <1>7, AskKeeps
<1>9. pool' \subseteq PoolTxs /\ fetched' \subseteq pool'
  BY DEF TemplatesInv, TemplatesTyped
<1> QED
  BY <1>1, <1>3, <1>5, <1>8, <1>9 DEF TemplatesInv, TemplatesTyped

LEMMA SendKeeps ==
    ASSUME TemplatesInv, LoopIsFree, worker # 0, NEW removed \in SUBSET (pool \ fetched),
           pool' = pool \ removed, fetched' = {}, SendChanges(fetched, removed)
    PROVE  TemplatesInv' /\ \E request \in Request : Asks(request)
<1> DEFINE new == Numbered(nextUid, fetched)
           gone == KnownUids(removed)
           request == [type |-> "update", added |-> DOMAIN new, removed |-> gone]
<1>1. /\ IsFiniteSet(pool') /\ uid' \in [PoolTxs -> Nat] /\ nextUid' \in Nat \ {0}
      /\ DOMAIN uidMap' \subseteq 1 .. nextUid' - 1
      /\ NumbersMean' /\ Numbers' = (Numbers \cup DOMAIN new) \ gone
      /\ gone \cap Numbers' = {} /\ DOMAIN new \in SUBSET Nat
  BY SendNumbers DEF TemplatesInv
<1>2. gone \in SUBSET Nat
  BY DEF KnownUids, TemplatesInv, TemplatesTyped
<1>3. request \in Request
  BY <1>1, <1>2 DEF Request
<1>4. request.type = "update" /\ request.added = DOMAIN new /\ request.removed = gone
  OBVIOUS
<1>5. Asks(request)
  BY DEF Asks, SendChanges, Wait
<1> HIDE DEF request, new, gone
<1>6. Apply(Numbers, request) = Numbers' /\ request.removed \cap Numbers' = {}
  BY <1>1, <1>4 DEF Apply
<1>7. Numbers \in SUBSET Nat
  BY DEF Numbers, Told, TemplatesInv, TemplatesTyped
<1>8. /\ threads' \in Seq(ThreadSet) /\ worker' \in 0 .. Len(threads')
      /\ made' \in Nat /\ calls' \subseteq CallSet' /\ awaited' \in 0 .. made'
      /\ CallsForget' /\ WorkerWillBeInStep' /\ DeathIsTold'
  BY <1>3, <1>5, <1>6, <1>7, AskKeeps
<1>9. pool' \subseteq PoolTxs /\ fetched' \subseteq pool'
  BY DEF TemplatesInv, TemplatesTyped
<1> QED
  BY <1>1, <1>3, <1>5, <1>8, <1>9 DEF TemplatesInv, TemplatesTyped

(***************************************************************************)
(* The other steps.                                                        *)
(***************************************************************************)
LEMMA FetchKeeps ==
    ASSUME TemplatesInv, NEW t \in PoolTxs, FetchTransaction(t)
    PROVE  TemplatesInv'
<1>1. /\ pool' = pool \cup {t} /\ fetched' = fetched \cup {t} /\ t \notin pool
      /\ uid' = [uid EXCEPT ![t] = 0] /\ UNCHANGED <<nextUid, uidMap, threads, worker, made, calls, awaited>>
  BY DEF FetchTransaction, workerVars
<1>2. /\ pool \subseteq PoolTxs /\ IsFiniteSet(pool) /\ fetched \subseteq pool /\ uid \in [PoolTxs -> Nat]
  BY DEF TemplatesInv, TemplatesTyped
<1>3. IsFiniteSet(pool')
  BY <1>1, <1>2, FS_AddElement
<1>4. TemplatesTyped'
  BY <1>1, <1>2, <1>3 DEF TemplatesInv, TemplatesTyped, CallSet
<1>5. Told' = Told /\ \A s \in Told : uid'[s] = uid[s]
  BY <1>1, <1>2 DEF Told
<1>6. Numbers' = Numbers
  BY <1>5 DEF Numbers
<1>7. NumbersMean'
  BY <1>1, <1>2, <1>5 DEF TemplatesInv, NumbersMean
<1>8. CallsForget' /\ WorkerWillBeInStep' /\ DeathIsTold'
  BY <1>1, <1>6 DEF TemplatesInv, CallsForget, WorkerWillBeInStep, DeathIsTold
<1> QED
  BY <1>4, <1>7, <1>8 DEF TemplatesInv

\* A step that changes neither the mempool nor the numbers that are told.
LEMMA NumbersStay ==
    ASSUME UNCHANGED <<pool, fetched, uid>>
    PROVE  Told' = Told /\ Numbers' = Numbers
  BY DEF Told, Numbers

LEMMA LeaveKeeps ==
    ASSUME TemplatesInv, LeaveBehind
    PROVE  TemplatesInv'
<1>1. /\ UNCHANGED <<pool, fetched, uid, nextUid, uidMap, threads, worker, made, calls>> /\ awaited' = 0
      /\ \E c \in calls : c.no = awaited /\ c.removed = {}
  BY DEF LeaveBehind, uidVars, workerVars
<1>2. Told' = Told /\ Numbers' = Numbers
  BY <1>1, NumbersStay
<1>3. TemplatesTyped'
  BY <1>1 DEF TemplatesInv, TemplatesTyped, CallSet
<1>4. NumbersMean' /\ WorkerWillBeInStep' /\ DeathIsTold'
  BY <1>1, <1>2 DEF TemplatesInv, NumbersMean, WorkerWillBeInStep, DeathIsTold
<1>5. CallsForget'
  BY <1>1, <1>2 DEF TemplatesInv, CallsForget
<1> QED
  BY <1>3, <1>4, <1>5 DEF TemplatesInv

\* A thread after a step.
After(t, alive, mempool, inbox, events) ==
    [t EXCEPT !.alive = alive, !.mempool = mempool, !.inbox = inbox, !.events = events]

LEMMA AfterFields ==
    ASSUME NEW t \in ThreadSet, NEW a \in BOOLEAN, NEW m \in SUBSET Nat, NEW q \in Seq(Request),
           NEW e \in Seq(EventSet)
    PROVE  /\ After(t, a, m, q, e) \in ThreadSet /\ After(t, a, m, q, e).alive = a
           /\ After(t, a, m, q, e).mempool = m /\ After(t, a, m, q, e).inbox = q
           /\ After(t, a, m, q, e).events = e
  BY DEF After, ThreadSet

LEMMA AnswerKeeps ==
    ASSUME TemplatesInv, NEW w \in DOMAIN threads, WorkerAnswers(w)
    PROVE  TemplatesInv'
<1> DEFINE t == threads[w]
           request == Head(t.inbox)
           rest == Tail(t.inbox)
           after == Apply(t.mempool, request)
           next == [t EXCEPT !.mempool = after, !.inbox = Tail(@),
                             !.events = Append(@, [type |-> "message", uids |-> after])]
<1>1. /\ UNCHANGED <<pool, fetched, uid, nextUid, uidMap, worker, made, calls, awaited>>
      /\ t.alive /\ t.inbox # <<>> /\ threads' = [threads EXCEPT ![w] = next]
  BY DEF WorkerAnswers, uidVars, Apply
<1>2. threads \in Seq(ThreadSet) /\ t \in ThreadSet
  BY DEF TemplatesInv, TemplatesTyped
<1>3. /\ t.inbox \in Seq(Request) /\ t.mempool \in SUBSET Nat /\ t.events \in Seq(EventSet)
      /\ request \in Request /\ Tail(t.inbox) \in Seq(Request)
  BY <1>1, <1>2 DEF ThreadSet
<1>4. after \in SUBSET Nat
  BY <1>3 DEF Apply, Request
<1> DEFINE events == Append(t.events, [type |-> "message", uids |-> after])
<1>5. /\ events \in Seq(EventSet)
      /\ \A i \in DOMAIN t.events : i \in DOMAIN events /\ events[i] = t.events[i]
  <2>1. [type |-> "message", uids |-> after] \in EventSet
    BY <1>4 DEF EventSet
  <2> HIDE DEF after, t
  <2> QED
    BY <1>3, <2>1
<1>6. /\ next \in ThreadSet /\ next.alive = t.alive
      /\ next.mempool = after /\ next.inbox = rest /\ next.events = events
  <2>1. next = After(t, t.alive, after, rest, events)
    BY <1>2 DEF After, ThreadSet
  <2>2. /\ after \in SUBSET Nat /\ rest \in Seq(Request) /\ events \in Seq(EventSet)
        /\ t \in ThreadSet /\ t.alive \in BOOLEAN
    BY <1>2, <1>3, <1>4, <1>5 DEF ThreadSet
  <2> HIDE DEF after, t, events, next, request, rest
  <2> QED
    BY <2>1, <2>2, AfterFields
<1> HIDE DEF next
<1>7. /\ threads' \in Seq(ThreadSet) /\ Len(threads') = Len(threads) /\ DOMAIN threads' = DOMAIN threads
      /\ threads'[w] = next /\ \A v \in DOMAIN threads : v # w => threads'[v] = threads[v]
  BY <1>1, <1>2, <1>6, Replaced
<1>8. Told' = Told /\ Numbers' = Numbers
  BY <1>1, NumbersStay
<1>9. TemplatesTyped' /\ NumbersMean' /\ CallsForget'
  BY <1>1, <1>7, <1>8 DEF TemplatesInv, TemplatesTyped, CallSet, NumbersMean, CallsForget
<1>10. worker' = worker /\ (worker # 0 => worker \in DOMAIN threads)
  BY <1>1 DEF TemplatesInv, TemplatesTyped
<1> HIDE DEF t, request, rest, after, events
<1>11. WorkerWillBeInStep'
  <2>1. CASE worker = w
    <3>1. worker # 0 => Reaches(t.mempool, t.inbox, Numbers)
      BY <1>1, <2>1 DEF TemplatesInv, WorkerWillBeInStep, t
    <3>2. worker # 0 => Reaches(after, rest, Numbers)
      BY <1>1, <1>3, <3>1, ReachesSooner DEF after, request, rest
    <3> QED
      BY <1>6, <1>7, <1>8, <1>10, <2>1, <3>2 DEF WorkerWillBeInStep
  <2>2. CASE worker # w
    BY <1>7, <1>8, <1>10, <2>2 DEF TemplatesInv, WorkerWillBeInStep
  <2> QED
    BY <2>1, <2>2
<1>12. DeathIsTold'
  <2>1. CASE worker = w
    BY <1>1, <1>6, <1>7, <1>10, <2>1 DEF DeathIsTold
  <2>2. CASE worker # w
    BY <1>7, <1>10, <2>2 DEF TemplatesInv, DeathIsTold
  <2> QED
    BY <2>1, <2>2
<1> QED
  BY <1>9, <1>11, <1>12 DEF TemplatesInv

LEMMA ThrowKeeps ==
    ASSUME TemplatesInv, NEW w \in DOMAIN threads, WorkerThrows(w)
    PROVE  TemplatesInv'
<1> DEFINE t == threads[w]
           events == t.events \o <<[type |-> "error", uids |-> {}], [type |-> "exit", uids |-> {}]>>
           none == <<>>
           next == [t EXCEPT !.alive = FALSE, !.inbox = none, !.events = events]
<1>1. /\ UNCHANGED <<pool, fetched, uid, nextUid, uidMap, worker, made, calls, awaited>>
      /\ threads' = [threads EXCEPT ![w] = next]
  BY DEF WorkerThrows, uidVars
<1>2. threads \in Seq(ThreadSet) /\ t \in ThreadSet
  BY DEF TemplatesInv, TemplatesTyped
<1>3. t.mempool \in SUBSET Nat /\ t.events \in Seq(EventSet) /\ none \in Seq(Request)
  BY <1>2 DEF ThreadSet
<1>4. events \in Seq(EventSet) /\ \E i \in DOMAIN events : events[i].type = "error"
  <2> DEFINE error == [type |-> "error", uids |-> {}]
             exit == [type |-> "exit", uids |-> {}]
  <2>1. error \in EventSet /\ exit \in EventSet /\ error.type = "error"
    BY DEF EventSet
  <2> HIDE DEF t, error, exit
  <2>2. events = t.events \o <<error, exit>>
    BY DEF error, exit
  <2> HIDE DEF events
  <2>3. Len(t.events) \in Nat /\ Len(events) = Len(t.events) + 2 /\ events[Len(t.events) + 1] = error
        /\ events \in Seq(EventSet)
    BY <1>3, <2>1, <2>2
  <2>4. Len(t.events) + 1 \in DOMAIN events
    BY <2>3
  <2> QED
    BY <2>1, <2>3, <2>4
<1>5. next \in ThreadSet /\ next.alive = FALSE /\ next.events = events
  <2> DEFINE alive == FALSE
  <2>1. next = After(t, alive, t.mempool, none, events)
    BY <1>2 DEF After, ThreadSet
  <2>2. alive \in BOOLEAN
    OBVIOUS
  <2> HIDE DEF t, events, none, next, alive
  <2>3. next \in ThreadSet /\ next.alive = alive /\ next.events = events
    BY <1>2, <1>3, <1>4, <2>1, <2>2, AfterFields
  <2> QED
    BY <2>3 DEF alive
<1> HIDE DEF next, events, t
<1>6. /\ threads' \in Seq(ThreadSet) /\ Len(threads') = Len(threads) /\ DOMAIN threads' = DOMAIN threads
      /\ threads'[w] = next /\ \A v \in DOMAIN threads : v # w => threads'[v] = threads[v]
  BY <1>1, <1>2, <1>5, Replaced
<1>7. Told' = Told /\ Numbers' = Numbers
  BY <1>1, NumbersStay
<1>8. TemplatesTyped' /\ NumbersMean' /\ CallsForget'
  BY <1>1, <1>6, <1>7 DEF TemplatesInv, TemplatesTyped, CallSet, NumbersMean, CallsForget
<1>9. worker' = worker /\ (worker # 0 => worker \in DOMAIN threads)
  BY <1>1 DEF TemplatesInv, TemplatesTyped
<1>10. WorkerWillBeInStep'
  <2>1. CASE worker = w
    BY <1>5, <1>6, <1>9, <2>1 DEF WorkerWillBeInStep
  <2>2. CASE worker # w
    BY <1>6, <1>7, <1>9, <2>2 DEF TemplatesInv, WorkerWillBeInStep
  <2> QED
    BY <2>1, <2>2
<1>11. DeathIsTold'
  <2>1. CASE worker = w
    BY <1>4, <1>5, <1>6, <1>9, <2>1 DEF DeathIsTold
  <2>2. CASE worker # w
    BY <1>6, <1>9, <2>2 DEF TemplatesInv, DeathIsTold
  <2> QED
    BY <2>1, <2>2
<1> QED
  BY <1>8, <1>10, <1>11 DEF TemplatesInv

\* An event is delivered.
LEMMA Delivered ==
    ASSUME threads \in Seq(ThreadSet), NEW w \in DOMAIN threads, threads[w].events # <<>>,
           threads' = [threads EXCEPT ![w].events = Tail(@)]
    PROVE  /\ threads' \in Seq(ThreadSet) /\ Len(threads') = Len(threads) /\ DOMAIN threads' = DOMAIN threads
           /\ \A v \in DOMAIN threads : v # w => threads'[v] = threads[v]
           /\ threads'[w].alive = threads[w].alive /\ threads'[w].mempool = threads[w].mempool
           /\ threads'[w].inbox = threads[w].inbox
           /\ threads[w].events \in Seq(EventSet) /\ threads'[w].events = Tail(threads[w].events)
<1> DEFINE t == threads[w]
           events == Tail(t.events)
           next == [t EXCEPT !.events = events]
<1>1. threads' = [threads EXCEPT ![w] = next]
  OBVIOUS
<1>2. /\ t \in ThreadSet /\ t.alive \in BOOLEAN /\ t.mempool \in SUBSET Nat /\ t.inbox \in Seq(Request)
      /\ t.events \in Seq(EventSet)
  <2>1. t \in ThreadSet
    OBVIOUS
  <2> HIDE DEF t
  <2> QED
    BY <2>1 DEF ThreadSet
<1>3. events \in Seq(EventSet)
  BY <1>2
<1>4. /\ next \in ThreadSet /\ next.alive = t.alive /\ next.mempool = t.mempool
      /\ next.inbox = t.inbox /\ next.events = events
  <2>1. next = After(t, t.alive, t.mempool, t.inbox, events)
    BY <1>2 DEF After, ThreadSet
  <2> HIDE DEF t, events, next
  <2> QED
    BY <1>2, <1>3, <2>1, AfterFields
<1>5. /\ threads' \in Seq(ThreadSet) /\ Len(threads') = Len(threads) /\ DOMAIN threads' = DOMAIN threads
      /\ threads'[w] = next /\ \A v \in DOMAIN threads : v # w => threads'[v] = threads[v]
  <2> HIDE DEF next, t, events
  <2>1. next \in ThreadSet
    BY <1>4
  <2> DEFINE after == [threads EXCEPT ![w] = next]
  <2>2. after \in Seq(ThreadSet) /\ Len(after) = Len(threads) /\ DOMAIN after = DOMAIN threads
        /\ after[w] = next /\ \A v \in DOMAIN threads : v # w => after[v] = threads[v]
    BY <2>1, Replaced
  <2>3. threads' = after
    BY <1>1
  <2> HIDE DEF after
  <2> QED
    BY <2>2, <2>3
<1> HIDE DEF next
<1> QED
  BY <1>2, <1>4, <1>5

\* The calls that listen are over: those that wait still are calls of before.
LEMMA ReturnKeeps ==
    ASSUME CallsForget, calls \subseteq CallSet, made \in Nat, awaited \in 0 .. made,
           UNCHANGED <<pool, fetched, uid, made>>, DOMAIN threads' = DOMAIN threads,
           NEW w, CallsReturn(w)
    PROVE  calls' \subseteq CallSet' /\ awaited' \in 0 .. made' /\ CallsForget'
<1>1. /\ calls' = calls \ Listening(w)
      /\ awaited' = IF \E c \in Listening(w) : c.no = awaited THEN 0 ELSE awaited
  BY DEF CallsReturn
<1>2. Numbers' = Numbers
  BY NumbersStay
<1>3. CallsForget'
  BY <1>1, <1>2 DEF CallsForget, Listening
<1> QED
  BY <1>1, <1>3 DEF CallSet

LEMMA MessageKeeps ==
    ASSUME TemplatesInv, NEW w \in DOMAIN threads, ReceiveMessage(w)
    PROVE  TemplatesInv'
<1> DEFINE gone == UNION {c.removed : c \in Listening(w)}
<1>1. /\ UNCHANGED <<pool, fetched, uid, nextUid, worker, made>>
      /\ threads' = [threads EXCEPT ![w].events = Tail(@)]
      /\ threads[w].events # <<>> /\ Head(threads[w].events).type = "message"
      /\ uidMap' = Restrict(uidMap, DOMAIN uidMap \ gone)
      /\ CallsReturn(w)
  BY DEF ReceiveMessage, Event
<1>2. threads \in Seq(ThreadSet)
  BY DEF TemplatesInv, TemplatesTyped
<1>3. /\ threads' \in Seq(ThreadSet) /\ Len(threads') = Len(threads) /\ DOMAIN threads' = DOMAIN threads
      /\ \A v \in DOMAIN threads : v # w => threads'[v] = threads[v]
      /\ threads'[w].alive = threads[w].alive /\ threads'[w].mempool = threads[w].mempool
      /\ threads'[w].inbox = threads[w].inbox
      /\ threads[w].events \in Seq(EventSet) /\ threads'[w].events = Tail(threads[w].events)
  BY <1>1, <1>2, Delivered
<1>4. Told' = Told /\ Numbers' = Numbers
  BY <1>1, NumbersStay
<1>5. calls' \subseteq CallSet' /\ awaited' \in 0 .. made' /\ CallsForget'
  BY <1>1, <1>3, ReturnKeeps DEF TemplatesInv, TemplatesTyped
<1>6. gone \cap Numbers = {}
  BY DEF TemplatesInv, CallsForget, Listening
<1>7. /\ DOMAIN uidMap' = DOMAIN uidMap \ gone
      /\ \A u \in DOMAIN uidMap \ gone : uidMap'[u] = uidMap[u]
  BY <1>1 DEF Restrict
<1>8. NumbersMean'
  <2>1. \A t \in Told : uid[t] \notin gone
    BY <1>6 DEF Numbers
  <2> HIDE DEF gone
  <2> QED
    BY <1>1, <1>4, <1>7, <2>1 DEF NumbersMean, TemplatesInv
<1>9. TemplatesTyped'
  <2> HIDE DEF gone
  <2> QED
    BY <1>1, <1>3, <1>5, <1>7 DEF TemplatesInv, TemplatesTyped
<1>10. worker' = worker /\ (worker # 0 => worker \in DOMAIN threads)
  BY <1>1 DEF TemplatesInv, TemplatesTyped
<1>11. WorkerWillBeInStep'
  BY <1>3, <1>4, <1>10 DEF TemplatesInv, WorkerWillBeInStep
<1>12. DeathIsTold'
  <2>1. CASE worker = w
    <3> DEFINE events == threads[w].events
    <3>1. ASSUME NEW i \in DOMAIN events, events[i].type = "error"
          PROVE  \E j \in DOMAIN Tail(events) : Tail(events)[j].type = "error"
      <4>1. events \in Seq(EventSet) /\ events # <<>> /\ events[1].type = "message"
        BY <1>1, <1>3
      <4> HIDE DEF events
      <4>2. i # 1 /\ i \in 1 .. Len(events)
        BY <3>1, <4>1
      <4>3. i - 1 \in DOMAIN Tail(events) /\ Tail(events)[i - 1] = events[i]
        BY <4>1, <4>2
      <4> QED
        BY <3>1, <4>3
    <3> QED
      BY <1>3, <1>10, <2>1, <3>1 DEF TemplatesInv, DeathIsTold
  <2>2. CASE worker # w
    BY <1>3, <1>10, <2>2 DEF TemplatesInv, DeathIsTold
  <2> QED
    BY <2>1, <2>2
<1> QED
  BY <1>5, <1>8, <1>9, <1>11, <1>12 DEF TemplatesInv

LEMMA DeathKeeps ==
    ASSUME TemplatesInv, NEW w \in DOMAIN threads, ReceiveError(w) \/ ReceiveExit(w)
    PROVE  TemplatesInv'
<1>1. /\ UNCHANGED <<pool, fetched, uid, nextUid, uidMap, made>> /\ worker' = 0
      /\ threads' = [threads EXCEPT ![w].events = Tail(@)] /\ threads[w].events # <<>>
      /\ CallsReturn(w) \/ UNCHANGED <<calls, awaited>>
  BY DEF ReceiveError, ReceiveExit, Event, uidVars
<1>2. threads \in Seq(ThreadSet)
  BY DEF TemplatesInv, TemplatesTyped
<1>3. threads' \in Seq(ThreadSet) /\ Len(threads') = Len(threads) /\ DOMAIN threads' = DOMAIN threads
  BY <1>1, <1>2, Delivered
<1>4. Told' = Told /\ Numbers' = Numbers
  BY <1>1, NumbersStay
<1>5. calls' \subseteq CallSet' /\ awaited' \in 0 .. made' /\ CallsForget'
  <2>1. CASE CallsReturn(w)
    BY <1>1, <1>3, <2>1, ReturnKeeps DEF TemplatesInv, TemplatesTyped
  <2>2. CASE UNCHANGED <<calls, awaited>>
    BY <1>1, <1>3, <1>4, <2>2 DEF TemplatesInv, TemplatesTyped, CallSet, CallsForget
  <2> QED
    BY <1>1, <2>1, <2>2
<1>6. TemplatesTyped'
  BY <1>1, <1>3, <1>5 DEF TemplatesInv, TemplatesTyped
<1> QED
  BY <1>1, <1>4, <1>5, <1>6 DEF TemplatesInv, NumbersMean, WorkerWillBeInStep, DeathIsTold

(***************************************************************************)
(* The inductive invariant.                                                *)
(***************************************************************************)
LEMMA TemplatesInvInit == TemplatesInit => TemplatesInv
<1> SUFFICES ASSUME TemplatesInit PROVE TemplatesInv
  OBVIOUS
<1>1. IsFiniteSet(pool)
  BY FS_EmptySet DEF TemplatesInit
<1>2. DOMAIN uidMap = {} /\ threads \in Seq(ThreadSet) /\ worker \in 0 .. Len(threads) /\ worker = 0
  BY DEF TemplatesInit
<1>3. TemplatesTyped
  BY <1>1, <1>2 DEF TemplatesInit, TemplatesTyped
<1> QED
  BY <1>3 DEF TemplatesInit, TemplatesInv, NumbersMean, Told, CallsForget, WorkerWillBeInStep, DeathIsTold

LEMMA UpdateKeeps ==
    ASSUME TemplatesInv, NEW removed \in SUBSET pool, FinishUpdate(removed)
    PROVE  TemplatesInv' /\ \E request \in Request : Asks(request)
<1>1. LoopIsFree /\ removed \subseteq pool \ fetched /\ pool' = pool \ removed /\ fetched' = {}
      /\ UpdateTemplates(pool', fetched, removed)
  BY DEF FinishUpdate
<1>2. CASE worker = 0
  <2>1. MakeTemplates(pool') /\ pool' \in SUBSET pool
    BY <1>1, <1>2 DEF UpdateTemplates
  <2> QED
    BY <1>1, <2>1, MakeKeeps
<1>3. CASE worker # 0
  <2>1. SendChanges(fetched, removed) /\ removed \in SUBSET (pool \ fetched)
    BY <1>1, <1>3 DEF UpdateTemplates
  <2> QED
    BY <1>1, <1>3, <2>1, SendKeeps
<1> QED
  BY <1>2, <1>3

LEMMA MineKeeps ==
    ASSUME TemplatesInv, NEW txs \in SUBSET pool, MineBlock(txs)
    PROVE  TemplatesInv' /\ \E request \in Request : Asks(request)
<1>1. LoopIsFree /\ pool' \in SUBSET pool /\ fetched' = {} /\ MakeTemplates(pool')
  BY DEF MineBlock
<1> QED
  BY <1>1, MakeKeeps

LEMMA TemplatesInvNext == TemplatesInv /\ [TemplatesNext]_templateVars => TemplatesInv'
<1> SUFFICES ASSUME TemplatesInv, [TemplatesNext]_templateVars PROVE TemplatesInv'
  OBVIOUS
<1>1. ASSUME NEW t \in PoolTxs, FetchTransaction(t) PROVE TemplatesInv'
  BY <1>1, FetchKeeps
<1>2. ASSUME NEW txs \in SUBSET pool, FinishUpdate(txs) PROVE TemplatesInv'
  BY <1>2, UpdateKeeps
<1>3. ASSUME NEW txs \in SUBSET pool, MineBlock(txs) PROVE TemplatesInv'
  BY <1>3, MineKeeps
<1>4. CASE LeaveBehind
  BY <1>4, LeaveKeeps
<1>5. ASSUME NEW w \in DOMAIN threads, WorkerAnswers(w) PROVE TemplatesInv'
  BY <1>5, AnswerKeeps
<1>6. ASSUME NEW w \in DOMAIN threads, ReceiveMessage(w) PROVE TemplatesInv'
  BY <1>6, MessageKeeps
<1>7. ASSUME NEW w \in DOMAIN threads, ReceiveError(w) \/ ReceiveExit(w) PROVE TemplatesInv'
  BY <1>7, DeathKeeps
<1>8. ASSUME NEW w \in DOMAIN threads, WorkerThrows(w) PROVE TemplatesInv'
  BY <1>8, ThrowKeeps
<1>9. ASSUME UNCHANGED <<pool, fetched, uidVars, workerVars, calls, awaited, made>> PROVE TemplatesInv'
  <2>1. Told' = Told /\ Numbers' = Numbers
    BY <1>9, NumbersStay DEF uidVars
  <2> QED
    BY <1>9, <2>1 DEF TemplatesInv, TemplatesTyped, CallSet, NumbersMean, CallsForget, WorkerWillBeInStep,
                      DeathIsTold, uidVars, workerVars
<1>10. ASSUME NEW i \in 0 .. 2, TrackBlock(i) PROVE TemplatesInv'
  BY <1>9, <1>10 DEF TrackBlock
<1>11. CASE UNCHANGED templateVars
  BY <1>9, <1>11 DEF templateVars
<1> QED
  BY <1>1, <1>2, <1>3, <1>4, <1>5, <1>6, <1>7, <1>8, <1>10, <1>11 DEF TemplatesNext, ThreadStep, ReceiveStep

LEMMA TemplatesInvAlways == TemplatesSpec => []TemplatesInv
  BY TemplatesInvInit, TemplatesInvNext, PTL DEF TemplatesSpec

LEMMA InStep == TemplatesInv => WorkerInStep
<1> SUFFICES ASSUME TemplatesInv, Quiet, worker # 0, threads[worker].alive, threads[worker].inbox = <<>>
             PROVE  LET uids == threads[worker].mempool IN
                    /\ uids \subseteq DOMAIN uidMap
                    /\ {uidMap[u] : u \in uids} = pool /\ Cardinality(uids) = Cardinality(pool)
                    /\ KnownUids(pool) = uids
  BY DEF WorkerInStep
<1>1. threads[worker].mempool = Numbers
  BY ReachesNothing DEF TemplatesInv, WorkerWillBeInStep
<1>2. Told = pool /\ Numbers = {uid[t] : t \in pool}
  BY DEF Quiet, Told, Numbers
<1>3. \A t \in pool : uid[t] \in DOMAIN uidMap /\ uidMap[uid[t]] = t
  BY <1>2 DEF TemplatesInv, NumbersMean
<1>4. Numbers \subseteq DOMAIN uidMap /\ KnownUids(pool) = Numbers
  BY <1>2, <1>3 DEF KnownUids
<1>5. {uidMap[u] : u \in Numbers} = pool
  BY <1>2, <1>3
<1>6. Cardinality(Numbers) = Cardinality(pool)
  <2> DEFINE f == [t \in pool |-> uid[t]]
  <2>1. f \in Bijection(pool, Numbers)
    <3>1. f \in [pool -> Numbers] /\ \A u \in Numbers : \E t \in pool : f[t] = u
      BY <1>2
    <3>2. \A s, t \in pool : f[s] = f[t] => s = t
      BY <1>3
    <3> HIDE DEF f
    <3> QED
      BY <3>1, <3>2 DEF Bijection, Injection, Surjection, IsInjective
  <2>2. IsFiniteSet(pool)
    BY DEF TemplatesInv, TemplatesTyped
  <2> HIDE DEF f
  <2> QED
    BY <2>1, <2>2, FS_Bijection DEF ExistsBijection
<1> QED
  BY <1>1, <1>4, <1>5, <1>6

\* A worker that will be sent changes only, and has read its requests, holds the
\* mempool under numbers that mean its transactions, whatever calls overlap and
\* threads die (mempool-blocks.ts:280-310, 445-468).
THEOREM WorkerInStepAlways == TemplatesSpec => []WorkerInStep
  BY TemplatesInvAlways, InStep, PTL

(***************************************************************************)
(* Calls alone: what is under way between the threads and the main loop.   *)
(***************************************************************************)
Message(numbers) == [type |-> "message", uids |-> numbers]
Error == [type |-> "error", uids |-> {}]
Exit == [type |-> "exit", uids |-> {}]

\* The thread has nothing to read, and at most the end of its death to tell.
NoWork(t) == t.inbox = <<>> /\ (t.events = <<>> \/ (t.events = <<Exit>> /\ ~t.alive))

\* The thread has one request to read, or has answered it, or died of it.
Answering(t) ==
    \/ t.alive /\ Len(t.inbox) = 1 /\ Apply(t.mempool, Head(t.inbox)) = Numbers /\ t.events = <<>>
    \/ t.inbox = <<>> /\ t.events = <<Message(Numbers)>>
    \/ t.inbox = <<>> /\ t.events = <<Error, Exit>> /\ ~t.alive

\* Calls that do not overlap: one at most, whose worker has its request, and
\* without one the projected blocks are of what the worker was told.
CallsAlone ==
    overlapped # "yes" =>
        /\ \A c, d \in calls : c = d
        /\ \A c \in calls : Answering(threads[c.worker])
        /\ \A w \in DOMAIN threads : (\A c \in calls : c.worker # w) => NoWork(threads[w])
        /\ calls = {} /\ worker # 0 => projected = Projection(Told)

LEMMA Events ==
    /\ Message(Numbers).type = "message" /\ Message(Numbers).uids = Numbers
    /\ Error.type = "error" /\ Exit.type = "exit"
    /\ Head(<<Message(Numbers)>>) = Message(Numbers) /\ Tail(<<Message(Numbers)>>) = <<>>
    /\ Head(<<Error, Exit>>) = Error /\ Tail(<<Error, Exit>>) = <<Exit>>
    /\ Head(<<Exit>>) = Exit /\ Tail(<<Exit>>) = <<>>
<1>1. /\ Message(Numbers).type = "message" /\ Message(Numbers).uids = Numbers
      /\ Error.type = "error" /\ Exit.type = "exit"
  BY DEF Message, Error, Exit
<1>2. ASSUME NEW a, NEW b PROVE Head(<<a>>) = a /\ Tail(<<a>>) = <<>> /\ Head(<<a, b>>) = a /\ Tail(<<a, b>>) = <<b>>
  OBVIOUS
<1> QED
  BY <1>1, <1>2

\* A request, of a call that is alone.
LEMMA AskAlone ==
    ASSUME TemplatesInv, TemplatesInv', CallsAlone, NEW request \in Request, Asks(request),
           overlapped' = IF calls # {} THEN "yes"
                         ELSE IF overlapped = "yes" /\ AtRest THEN "past" ELSE overlapped
    PROVE  CallsAlone'
<1> SUFFICES ASSUME overlapped' # "yes"
             PROVE  /\ \A c, d \in calls' : c = d
                    /\ \A c \in calls' : Answering(threads[c.worker])'
                    /\ \A w \in DOMAIN threads' : (\A c \in calls' : c.worker # w) => NoWork(threads'[w])
                    /\ calls' # {}
  BY DEF CallsAlone, NoWork
<1> DEFINE new == [no |-> made + 1, worker |-> worker', removed |-> request.removed]
<1>1. calls = {} /\ (overlapped # "yes" \/ AtRest)
  OBVIOUS
<1>2. calls' = {new} /\ new.worker = worker'
  BY <1>1 DEF Asks
<1> HIDE DEF new
<1>3. /\ worker' \in 1 .. Len(threads') /\ DOMAIN threads' = DOMAIN threads \cup {worker'}
      /\ Held \in ThreadSet
      /\ threads'[worker'].inbox = Append(Held.inbox, request)
      /\ threads'[worker'].mempool = Held.mempool /\ threads'[worker'].alive = Held.alive
      /\ threads'[worker'].events = Held.events
      /\ \A w \in DOMAIN threads : w # worker' => threads'[w] = threads[w]
  BY AsksThreads DEF TemplatesInv, TemplatesTyped
<1>4. \A w \in DOMAIN threads : NoWork(threads[w])
  <2>1. CASE overlapped # "yes"
    BY <1>1, <2>1 DEF CallsAlone
  <2>2. CASE AtRest
    BY <2>2 DEF AtRest, NoWork
  <2> QED
    BY <1>1, <2>1, <2>2
<1>5. Held.inbox = <<>> /\ Held.events = <<>> /\ Held.alive
  <2>1. CASE worker = 0
    BY <2>1 DEF Held, Thread
  <2>2. CASE worker # 0
    <3>1. worker \in DOMAIN threads /\ Held = threads[worker]
      BY <2>2 DEF Held, TemplatesInv, TemplatesTyped
    <3>2. Held.alive
      <4> SUFFICES ASSUME ~Held.alive PROVE FALSE
        OBVIOUS
      <4>1. PICK i \in DOMAIN Held.events : Held.events[i].type = "error"
        BY <2>2, <3>1 DEF TemplatesInv, DeathIsTold
      <4>2. Held.events = <<>> \/ Held.events = <<Exit>>
        BY <1>4, <3>1 DEF NoWork
      <4>3. Held.events[i] = Exit
        BY <4>1, <4>2
      <4> QED
        BY <4>1, <4>3, Events
    <3> QED
      BY <1>4, <3>1, <3>2 DEF NoWork
  <2> QED
    BY <2>1, <2>2
<1>6. Answering(threads[worker])'
  <2>1. threads'[worker'].inbox = <<request>> /\ Len(<<request>>) = 1 /\ <<request>> \in Seq(Request)
    <3>1. Append(<<>>, request) = <<request>> /\ Len(<<request>>) = 1 /\ <<request>> \in Seq(Request)
      OBVIOUS
    <3> QED
      BY <1>3, <1>5, <3>1
  <2>2. Reaches(threads'[worker'].mempool, <<request>>, Numbers')
    BY <1>3, <1>5, <2>1 DEF TemplatesInv, WorkerWillBeInStep
  <2>3. Apply(threads'[worker'].mempool, Head(<<request>>)) = Numbers'
    BY <2>1, <2>2, ReachesOne
  <2> QED
    BY <1>3, <1>5, <2>1, <2>3 DEF Answering
<1>7. \A c \in calls' : Answering(threads[c.worker])'
  BY <1>2, <1>6
<1> QED
  BY <1>2, <1>3, <1>4, <1>7

\* A thread at work has a call that waits for it.
LEMMA AtWork ==
    ASSUME CallsAlone, overlapped # "yes", TemplatesInv, NEW w \in DOMAIN threads, ~NoWork(threads[w])
    PROVE  \E c \in calls : c.worker = w /\ calls = {c} /\ Answering(threads[w])
  BY DEF CallsAlone

LEMMA AnswerAlone ==
    ASSUME TemplatesInv, CallsAlone, NEW w \in DOMAIN threads, WorkerAnswers(w)
    PROVE  CallsAlone'
<1> SUFFICES ASSUME overlapped # "yes" PROVE CallsAlone'
  BY DEF WorkerAnswers, CallsAlone
<1> DEFINE t == threads[w]
           request == Head(t.inbox)
           after == Apply(t.mempool, request)
           rest == Tail(t.inbox)
           events == Append(t.events, Message(after))
           next == [t EXCEPT !.mempool = after, !.inbox = rest, !.events = events]
<1>1. /\ UNCHANGED <<pool, fetched, uid, calls, overlapped>>
      /\ t.alive /\ t.inbox # <<>> /\ threads' = [threads EXCEPT ![w] = next]
  BY DEF WorkerAnswers, uidVars, Apply, Message
<1>2. threads \in Seq(ThreadSet) /\ t \in ThreadSet
  BY DEF TemplatesInv, TemplatesTyped
<1>3. Numbers' = Numbers
  BY <1>1, NumbersStay
<1>4. PICK c \in calls : c.worker = w /\ calls = {c} /\ Answering(t)
  BY <1>1, AtWork DEF NoWork
<1>5. t.inbox \in Seq(Request) /\ Len(t.inbox) = 1 /\ after = Numbers /\ t.events = <<>>
  BY <1>1, <1>2, <1>4 DEF Answering, ThreadSet
<1>6. rest = <<>> /\ events = <<Message(Numbers)>>
  <2>1. ASSUME NEW q \in Seq(Request), Len(q) = 1 PROVE Tail(q) = <<>>
    <3>1. Tail(q) \in Seq(Request) /\ Len(Tail(q)) = 0
      BY <2>1
    <3>2. ASSUME NEW p \in Seq(Request), Len(p) = 0 PROVE p = <<>>
      BY <3>2
    <3> QED
      BY <3>1, <3>2
  <2>2. rest = <<>>
    BY <1>5, <2>1
  <2>3. events = Append(<<>>, Message(Numbers))
    BY <1>5
  <2>4. Append(<<>>, Message(Numbers)) = <<Message(Numbers)>>
    OBVIOUS
  <2> QED
    BY <2>2, <2>3, <2>4
<1>7. threads'[w].inbox = <<>> /\ threads'[w].events = <<Message(Numbers)>>
  <2>1. threads'[w] = next
    BY <1>1
  <2>2. next.inbox = rest /\ next.events = events
    BY <1>2 DEF ThreadSet
  <2> HIDE DEF next, rest, events
  <2> QED
    BY <1>6, <2>1, <2>2
<1>8. DOMAIN threads' = DOMAIN threads /\ \A v \in DOMAIN threads : v # w => threads'[v] = threads[v]
  BY <1>1
<1>9. Answering(threads[w])'
  BY <1>3, <1>7 DEF Answering
<1> HIDE DEF t, request, after, rest, events, next
<1> QED
  BY <1>1, <1>4, <1>8, <1>9 DEF CallsAlone

LEMMA ThrowAlone ==
    ASSUME TemplatesInv, CallsAlone, NEW w \in DOMAIN threads, WorkerThrows(w)
    PROVE  CallsAlone'
<1> SUFFICES ASSUME overlapped # "yes" PROVE CallsAlone'
  BY DEF WorkerThrows, CallsAlone
<1> DEFINE t == threads[w]
           none == <<>>
           events == t.events \o <<Error, Exit>>
           next == [t EXCEPT !.alive = FALSE, !.inbox = none, !.events = events]
<1>1. /\ UNCHANGED <<calls, overlapped>>
      /\ t.alive /\ t.inbox # <<>> /\ threads' = [threads EXCEPT ![w] = next]
  BY DEF WorkerThrows, Error, Exit
<1>2. threads \in Seq(ThreadSet) /\ t \in ThreadSet
  BY DEF TemplatesInv, TemplatesTyped
<1>4. PICK c \in calls : c.worker = w /\ calls = {c} /\ Answering(t)
  BY <1>1, AtWork DEF NoWork
<1>5. t.events = <<>>
  BY <1>1, <1>4 DEF Answering
<1>6. events = <<Error, Exit>>
  BY <1>5
<1>7. threads'[w].inbox = <<>> /\ threads'[w].events = <<Error, Exit>> /\ ~threads'[w].alive
  <2>1. threads'[w] = next
    BY <1>1
  <2>2. next.inbox = none /\ next.events = events /\ ~next.alive
    BY <1>2 DEF ThreadSet
  <2> HIDE DEF next, events
  <2> QED
    BY <1>6, <2>1, <2>2
<1>8. DOMAIN threads' = DOMAIN threads /\ \A v \in DOMAIN threads : v # w => threads'[v] = threads[v]
  BY <1>1
<1>9. Answering(threads[w])'
  BY <1>7 DEF Answering
<1> HIDE DEF t, events, next
<1> QED
  BY <1>1, <1>4, <1>8, <1>9 DEF CallsAlone

LEMMA ErrorAlone ==
    ASSUME TemplatesInv, CallsAlone, NEW w \in DOMAIN threads, ReceiveError(w)
    PROVE  CallsAlone'
<1> SUFFICES ASSUME overlapped # "yes" PROVE CallsAlone'
  BY DEF ReceiveError, CallsAlone
<1>1. /\ overlapped' = overlapped /\ worker' = 0 /\ calls' = calls \ Listening(w)
      /\ threads' = [threads EXCEPT ![w].events = Tail(@)]
      /\ threads[w].events # <<>> /\ Head(threads[w].events).type = "error"
  BY DEF ReceiveError, Event, CallsReturn
<1>2. threads \in Seq(ThreadSet)
  BY DEF TemplatesInv, TemplatesTyped
<1>3. /\ DOMAIN threads' = DOMAIN threads
      /\ \A v \in DOMAIN threads : v # w => threads'[v] = threads[v]
      /\ threads'[w].alive = threads[w].alive /\ threads'[w].inbox = threads[w].inbox
      /\ threads'[w].events = Tail(threads[w].events)
  BY <1>1, <1>2, Delivered
<1>4. ~NoWork(threads[w])
  BY <1>1, Events DEF NoWork
<1>5. PICK c \in calls : c.worker = w /\ calls = {c} /\ Answering(threads[w])
  BY <1>4, AtWork
<1>6. threads[w].inbox = <<>> /\ threads[w].events = <<Error, Exit>> /\ ~threads[w].alive
  BY <1>1, <1>5, Events DEF Answering
<1>7. NoWork(threads'[w])
  BY <1>3, <1>6, Events DEF NoWork
<1>8. calls' = {}
  BY <1>1, <1>5 DEF Listening
<1>9. \A v \in DOMAIN threads' : NoWork(threads'[v])
  BY <1>3, <1>5, <1>7 DEF CallsAlone
<1> QED
  BY <1>1, <1>8, <1>9 DEF CallsAlone, NoWork

LEMMA ExitAlone ==
    ASSUME TemplatesInv, CallsAlone, NEW w \in DOMAIN threads, ReceiveExit(w)
    PROVE  CallsAlone'
<1> SUFFICES ASSUME overlapped # "yes" PROVE CallsAlone'
  BY DEF ReceiveExit, CallsAlone
<1>1. /\ UNCHANGED <<pool, fetched, uid, calls, overlapped>> /\ worker' = 0
      /\ threads' = [threads EXCEPT ![w].events = Tail(@)]
      /\ threads[w].events # <<>> /\ Head(threads[w].events).type = "exit"
  BY DEF ReceiveExit, Event, uidVars
<1>2. threads \in Seq(ThreadSet)
  BY DEF TemplatesInv, TemplatesTyped
<1>3. /\ DOMAIN threads' = DOMAIN threads
      /\ \A v \in DOMAIN threads : v # w => threads'[v] = threads[v]
      /\ threads'[w].alive = threads[w].alive /\ threads'[w].inbox = threads[w].inbox
      /\ threads'[w].events = Tail(threads[w].events)
  BY <1>1, <1>2, Delivered
<1>4. NoWork(threads[w])
  <2> SUFFICES ASSUME ~NoWork(threads[w]) PROVE FALSE
    OBVIOUS
  <2>1. Answering(threads[w])
    BY AtWork
  <2> QED
    BY <1>1, <2>1, Events DEF Answering
<1>5. NoWork(threads'[w])
  BY <1>1, <1>3, <1>4, Events DEF NoWork
<1>6. Numbers' = Numbers
  BY <1>1, NumbersStay
<1>7. \A c \in calls : c.worker # w
  <2>1. ~Answering(threads[w])
    BY <1>1, Events DEF Answering
  <2> QED
    BY <2>1 DEF CallsAlone
<1>8. \A c \in calls : c.worker \in DOMAIN threads
  BY DEF TemplatesInv, TemplatesTyped, CallSet
<1>9. \A c \in calls : Answering(threads[c.worker])'
  <2>1. \A c \in calls : threads'[c.worker] = threads[c.worker] /\ Answering(threads[c.worker])
    BY <1>3, <1>7, <1>8 DEF CallsAlone
  <2> QED
    BY <1>6, <2>1 DEF Answering
<1> QED
  BY <1>1, <1>3, <1>5, <1>9 DEF CallsAlone

LEMMA MessageAlone ==
    ASSUME TemplatesInv, CallsAlone, NEW w \in DOMAIN threads, ReceiveMessage(w), overlapped # "yes"
    PROVE  /\ CallsAlone' /\ Told' = Told /\ Told \subseteq pool
           /\ projected' = Projection(Told)
<1>1. /\ overlapped' = overlapped /\ calls' = calls \ Listening(w)
      /\ UNCHANGED <<pool, fetched, uid>>
      /\ threads' = [threads EXCEPT ![w].events = Tail(@)]
      /\ threads[w].events # <<>> /\ Head(threads[w].events).type = "message"
  BY DEF ReceiveMessage, Event, CallsReturn
<1>2. threads \in Seq(ThreadSet)
  BY DEF TemplatesInv, TemplatesTyped
<1>3. /\ DOMAIN threads' = DOMAIN threads
      /\ \A v \in DOMAIN threads : v # w => threads'[v] = threads[v]
      /\ threads'[w].alive = threads[w].alive /\ threads'[w].inbox = threads[w].inbox
      /\ threads'[w].events = Tail(threads[w].events)
  BY <1>1, <1>2, Delivered
<1>4. ~NoWork(threads[w])
  BY <1>1, Events DEF NoWork
<1>5. PICK c \in calls : c.worker = w /\ calls = {c} /\ Answering(threads[w])
  BY <1>4, AtWork
<1>6. threads[w].inbox = <<>> /\ threads[w].events = <<Message(Numbers)>>
  BY <1>1, <1>5, Events DEF Answering
<1>7. NoWork(threads'[w])
  BY <1>3, <1>6, Events DEF NoWork
<1>8. calls' = {} /\ Listening(w) = {c}
  BY <1>1, <1>5 DEF Listening
<1>9. \A v \in DOMAIN threads' : NoWork(threads'[v])
  BY <1>3, <1>5, <1>7 DEF CallsAlone
<1>10. Told' = Told /\ Told \subseteq pool
  BY <1>1, NumbersStay DEF Told
<1>11. /\ Numbers \subseteq DOMAIN uidMap
       /\ {uidMap[u] : u \in Numbers} = Told
  BY DEF TemplatesInv, NumbersMean, Numbers
<1>12. Head(threads[w].events).uids \cap DOMAIN uidMap = Numbers
  BY <1>6, <1>11, Events
<1>13. Cardinality(Listening(w)) = 1
  BY <1>8, FS_Singleton
<1>14. ProcessTemplates(Told, 1)
  <2>1. ProcessTemplates({uidMap[u] : u \in Numbers}, Cardinality(Listening(w)))
    BY <1>12 DEF ReceiveMessage
  <2> QED
    BY <1>11, <1>13, <2>1
<1>15. projected' = Projection(Told)
  BY <1>10, <1>14 DEF ProcessTemplates
<1>16. CallsAlone'
  BY <1>1, <1>8, <1>9, <1>10, <1>15 DEF CallsAlone, NoWork
<1> QED
  BY <1>10, <1>15, <1>16

LEMMA CallsAloneNext == TemplatesInv /\ TemplatesInv' /\ CallsAlone /\ [TemplatesNext]_templateVars => CallsAlone'
<1> SUFFICES ASSUME TemplatesInv, TemplatesInv', CallsAlone, [TemplatesNext]_templateVars PROVE CallsAlone'
  OBVIOUS
<1>1. ASSUME UNCHANGED <<workerVars, calls, projected, overlapped>>, Told' = Told, Numbers' = Numbers
      PROVE  CallsAlone'
  BY <1>1 DEF CallsAlone, Answering, NoWork, workerVars
<1>2. ASSUME NEW t \in PoolTxs, FetchTransaction(t) PROVE CallsAlone'
  <2>1. /\ UNCHANGED <<workerVars, calls, projected, overlapped>> /\ t \notin pool /\ fetched \subseteq pool
        /\ pool' = pool \cup {t} /\ fetched' = fetched \cup {t} /\ uid' = [uid EXCEPT ![t] = 0]
        /\ uid \in [PoolTxs -> Nat] /\ pool \subseteq PoolTxs
    BY <1>2 DEF FetchTransaction, TemplatesInv, TemplatesTyped
  <2>2. Told' = Told /\ \A s \in Told : uid'[s] = uid[s]
    BY <2>1 DEF Told
  <2>3. Numbers' = Numbers
    BY <2>2 DEF Numbers
  <2> QED
    BY <1>1, <2>1, <2>2, <2>3
<1>3. ASSUME NEW txs \in SUBSET pool, FinishUpdate(txs) \/ MineBlock(txs) PROVE CallsAlone'
  <2>1. \E request \in Request : Asks(request)
    BY <1>3, UpdateKeeps, MineKeeps
  <2>2. overlapped' = IF calls # {} THEN "yes"
                      ELSE IF overlapped = "yes" /\ AtRest THEN "past" ELSE overlapped
    BY <1>3 DEF FinishUpdate, MineBlock, UpdateTemplates, MakeTemplates, SendChanges, Wait
  <2> QED
    BY <2>1, <2>2, AskAlone
<1>4. ASSUME UNCHANGED <<pool, fetched, uid, workerVars, calls, projected, overlapped>> PROVE CallsAlone'
  BY <1>1, <1>4, NumbersStay
<1>5. CASE LeaveBehind
  BY <1>4, <1>5 DEF LeaveBehind, uidVars
<1>6. ASSUME NEW i \in 0 .. 2, TrackBlock(i) PROVE CallsAlone'
  BY <1>4, <1>6 DEF TrackBlock, uidVars
<1>7. CASE UNCHANGED templateVars
  BY <1>4, <1>7 DEF templateVars, uidVars
<1>8. ASSUME NEW w \in DOMAIN threads, WorkerAnswers(w) PROVE CallsAlone'
  BY <1>8, AnswerAlone
<1>9. ASSUME NEW w \in DOMAIN threads, WorkerThrows(w) PROVE CallsAlone'
  BY <1>9, ThrowAlone
<1>10. ASSUME NEW w \in DOMAIN threads, ReceiveMessage(w) PROVE CallsAlone'
  <2>1. CASE overlapped = "yes"
    BY <1>10, <2>1 DEF ReceiveMessage, CallsAlone
  <2> QED
    BY <1>10, <2>1, MessageAlone
<1>11. ASSUME NEW w \in DOMAIN threads, ReceiveError(w) \/ ReceiveExit(w) PROVE CallsAlone'
  BY <1>11, ErrorAlone, ExitAlone
<1> QED
  BY <1>2, <1>3, <1>5, <1>6, <1>7, <1>8, <1>9, <1>10, <1>11 DEF TemplatesNext, ThreadStep, ReceiveStep

LEMMA CallsAloneInit == TemplatesInit => CallsAlone
<1>1. TemplatesInit => calls = {} /\ DOMAIN threads = {} /\ worker = 0
  BY DEF TemplatesInit
<1> QED
  BY <1>1 DEF CallsAlone

LEMMA CallsAloneAlways == TemplatesSpec => []CallsAlone
  BY CallsAloneInit, CallsAloneNext, TemplatesInvAlways, PTL DEF TemplatesSpec

LEMMA ProjectionParts ==
    ASSUME NEW txs
    PROVE  /\ UNION Range(Projection(txs)) = txs
           /\ \A i, j \in DOMAIN Projection(txs) : i # j => Projection(txs)[i] \cap Projection(txs)[j] = {}
           /\ DOMAIN Projection(txs) = 1 .. Len(Projection(txs)) /\ Len(Projection(txs)) \in Nat
<1> DEFINE first == {t \in txs : Cardinality({s \in txs : s > t}) < FirstBlock}
<1>1. Projection(txs) = IF txs = {} THEN <<>> ELSE IF first = txs THEN <<txs>> ELSE <<first, txs \ first>>
  BY DEF Projection
<1>2. first \subseteq txs
  OBVIOUS
<1> HIDE DEF first
<1>3. CASE txs = {}
  <2>1. Projection(txs) = <<>>
    BY <1>1, <1>3
  <2>2. DOMAIN Projection(txs) = {} /\ Len(Projection(txs)) = 0 /\ 1 .. 0 = {}
    BY <2>1
  <2> QED
    BY <1>3, <2>2 DEF Range
<1>4. CASE txs # {} /\ first = txs
  <2>1. Projection(txs) = <<txs>>
    BY <1>1, <1>4
  <2>2. DOMAIN Projection(txs) = {1} /\ Projection(txs)[1] = txs /\ Len(Projection(txs)) = 1 /\ 1 .. 1 = {1}
    BY <2>1
  <2> QED
    BY <2>2 DEF Range
<1>5. CASE txs # {} /\ first # txs
  <2>1. Projection(txs) = <<first, txs \ first>>
    BY <1>1, <1>5
  <2>2. /\ DOMAIN Projection(txs) = {1, 2} /\ Projection(txs)[1] = first /\ Projection(txs)[2] = txs \ first
        /\ Len(Projection(txs)) = 2 /\ 1 .. 2 = {1, 2}
    BY <2>1
  <2> QED
    BY <1>2, <2>2 DEF Range
<1> QED
  BY <1>3, <1>4, <1>5

\* With no call under way the projected blocks hold each transaction of the
\* mempool once, when there is a worker and calls have not overlapped since one
\* was made with the worker at rest (mempool-blocks.ts:302-326).
THEOREM BlocksAreOfMempoolAlways == TemplatesSpec => []BlocksAreOfMempool
<1>1. CallsAlone => BlocksAreOfMempool
  <2> SUFFICES ASSUME CallsAlone, Quiet, overlapped # "yes", worker # 0
               PROVE  /\ UNION Range(projected) = pool
                      /\ \A i, j \in DOMAIN projected : i # j => projected[i] \cap projected[j] = {}
    BY DEF BlocksAreOfMempool
  <2>1. projected = Projection(pool)
    BY DEF CallsAlone, Quiet, Told
  <2> QED
    BY <2>1, ProjectionParts
<1> QED
  BY <1>1, CallsAloneAlways, PTL

(***************************************************************************)
(* The client.                                                             *)
(***************************************************************************)

\* The last changes fit the blocks: told once more, they change nothing.
DeltasFit ==
    \A i \in DOMAIN deltas : /\ deltas[i].added \subseteq Block(projected, i)
                             /\ deltas[i].removed \cap Block(projected, i) = {}

ViewInv ==
    /\ track \in Nat
    /\ DOMAIN projected = 1 .. Len(projected) /\ Len(projected) \in Nat
    /\ DeltasFit /\ ViewFollows

LEMMA DeltasFacts ==
    ASSUME NEW prev, NEW next, Len(prev) \in Nat, Len(next) \in Nat,
           DOMAIN prev = 1 .. Len(prev), DOMAIN next = 1 .. Len(next)
    PROVE  /\ \A i \in DOMAIN Deltas(prev, next) :
                  /\ Deltas(prev, next)[i].added = Block(next, i) \ Block(prev, i)
                  /\ Deltas(prev, next)[i].removed = Block(prev, i) \ Block(next, i)
           /\ \A i \in Nat \ {0} : i \notin DOMAIN Deltas(prev, next) => Block(prev, i) = {} /\ Block(next, i) = {}
<1> DEFINE longest == Max({Len(prev), Len(next)})
<1>1. longest \in Nat /\ Len(prev) <= longest /\ Len(next) <= longest
  <2>1. \E x \in {Len(prev), Len(next)} : \A y \in {Len(prev), Len(next)} : x >= y
    OBVIOUS
  <2>2. longest \in {Len(prev), Len(next)} /\ \A y \in {Len(prev), Len(next)} : longest >= y
    BY <2>1 DEF Max
  <2> HIDE DEF longest
  <2> QED
    BY <2>2
<1>2. Deltas(prev, next) = [i \in 1 .. longest |->
          [added |-> Block(next, i) \ Block(prev, i), removed |-> Block(prev, i) \ Block(next, i)]]
  BY DEF Deltas
<1> HIDE DEF longest
<1>3. ASSUME NEW i \in Nat \ {0}, i \notin 1 .. longest PROVE Block(prev, i) = {} /\ Block(next, i) = {}
  BY <1>1, <1>3 DEF Block
<1> QED
  BY <1>2, <1>3

\* The calls return with the blocks and the deltas as they were.
LEMMA ToldAgain ==
    ASSUME ViewInv, UNCHANGED <<projected, deltas, track>>, NEW w, CallsReturn(w)
    PROVE  ViewInv'
<1>1. untold => untold'
  BY DEF CallsReturn
<1>2. view' = view \/ (track \in DOMAIN deltas /\ view' = (view \ deltas[track].removed) \cup deltas[track].added)
  BY DEF CallsReturn, Tell
<1>3. DeltasFit'
  BY DEF ViewInv, DeltasFit, Block
<1>4. Block(projected, track)' = Block(projected, track)
  BY DEF Block
<1>5. ViewFollows'
  BY <1>1, <1>2, <1>4 DEF ViewInv, DeltasFit, ViewFollows
<1> QED
  BY <1>3, <1>5 DEF ViewInv

\* New blocks: their deltas are told, unless another call's follow at once or
\* the handler throws, and then the history says so.
LEMMA BlocksTold ==
    ASSUME ViewInv, UNCHANGED track, NEW txs, NEW w, CallsReturn(w), Listening(w) # {},
           projected' = Projection(txs),
           deltas' = Deltas(IF Cardinality(Listening(w)) = 1 THEN projected ELSE projected', projected')
    PROVE  ViewInv'
<1>1. DOMAIN projected' = 1 .. Len(projected') /\ Len(projected') \in Nat
  BY ProjectionParts
<1>2. DOMAIN projected = 1 .. Len(projected) /\ Len(projected) \in Nat /\ track \in Nat /\ track' = track
      /\ (track # 0 /\ ~untold => view = Block(projected, track))
  BY DEF ViewInv, ViewFollows
<1> DEFINE prev == IF Cardinality(Listening(w)) = 1 THEN projected ELSE projected'
<1>3. DOMAIN prev = 1 .. Len(prev) /\ Len(prev) \in Nat
  BY <1>1, <1>2
<1>4. deltas' = Deltas(prev, projected')
  OBVIOUS
<1>5. projected' = projected \/ Cardinality(Listening(w)) = 1 => prev = projected
  OBVIOUS
<1> HIDE DEF prev
<1>6. /\ \A i \in DOMAIN deltas' : /\ deltas'[i].added = Block(projected', i) \ Block(prev, i)
                                   /\ deltas'[i].removed = Block(prev, i) \ Block(projected', i)
      /\ \A i \in Nat \ {0} : i \notin DOMAIN deltas' => Block(prev, i) = {} /\ Block(projected', i) = {}
  BY <1>1, <1>3, <1>4, DeltasFacts
<1>7. DeltasFit'
  <2>1. \A i \in DOMAIN deltas' : /\ deltas'[i].added \subseteq Block(projected', i)
                                  /\ deltas'[i].removed \cap Block(projected', i) = {}
    BY <1>6
  <2> QED
    BY <2>1 DEF DeltasFit, Block
<1>8. ASSUME track # 0, ~untold' PROVE view' = Block(projected', track)
  <2>1. ~untold
    BY <1>8 DEF CallsReturn
  <2>2. view = Block(projected, track) /\ track \in Nat \ {0}
    BY <1>2, <1>8, <2>1
  <2>3. CASE Tell /\ (Cardinality(Listening(w)) = 1 \/ projected' = projected)
    <3>1. prev = projected
      BY <1>5, <2>3
    <3>2. view' = IF track \in DOMAIN deltas' THEN (view \ deltas'[track].removed) \cup deltas'[track].added ELSE view
      BY <2>3 DEF Tell
    <3> QED
      BY <1>6, <2>2, <3>1, <3>2
  <2>4. CASE view' = view /\ projected' = projected
    BY <2>2, <2>4
  <2> QED
    BY <1>8, <2>3, <2>4 DEF CallsReturn
<1>9. ViewFollows'
  <2>1. Block(projected, track)' = Block(projected', track)
    BY <1>2 DEF Block
  <2> QED
    BY <1>2, <1>8, <2>1 DEF ViewFollows
<1> QED
  BY <1>1, <1>2, <1>7, <1>9 DEF ViewInv

LEMMA ViewInvNext == ViewInv /\ [TemplatesNext]_templateVars => ViewInv'
<1> SUFFICES ASSUME ViewInv, [TemplatesNext]_templateVars PROVE ViewInv'
  OBVIOUS
<1>1. ASSUME UNCHANGED <<projected, deltas, viewVars>> PROVE ViewInv'
  BY <1>1 DEF ViewInv, DeltasFit, ViewFollows, Block, viewVars
<1>2. ASSUME NEW t \in PoolTxs, FetchTransaction(t) PROVE ViewInv'
  BY <1>1, <1>2 DEF FetchTransaction
<1>3. ASSUME NEW txs \in SUBSET pool, FinishUpdate(txs) \/ MineBlock(txs) PROVE ViewInv'
  BY <1>1, <1>3 DEF FinishUpdate, MineBlock
<1>4. CASE LeaveBehind
  BY <1>1, <1>4 DEF LeaveBehind
<1>5. ASSUME NEW w \in DOMAIN threads, WorkerAnswers(w) \/ WorkerThrows(w) PROVE ViewInv'
  BY <1>1, <1>5 DEF WorkerAnswers, WorkerThrows
<1>6. ASSUME NEW w \in DOMAIN threads, ReceiveMessage(w) PROVE ViewInv'
  <2> DEFINE txs == {uidMap[u] : u \in Head(threads[w].events).uids \cap DOMAIN uidMap}
             times == Cardinality(Listening(w))
  <2>1. track' = track /\ CallsReturn(w) /\ ProcessTemplates(txs, times)
    BY <1>6 DEF ReceiveMessage
  <2> HIDE DEF txs
  <2>2. CASE txs \subseteq pool /\ times > 0
    <3>1. /\ projected' = Projection(txs)
          /\ deltas' = Deltas(IF times = 1 THEN projected ELSE projected', projected')
      BY <2>1, <2>2 DEF ProcessTemplates
    <3>2. Listening(w) # {}
      <4>1. Cardinality({}) = 0
        BY FS_EmptySet
      <4> QED
        BY <2>2, <4>1
    <3> QED
      BY <2>1, <3>1, <3>2, BlocksTold
  <2>3. CASE ~(txs \subseteq pool /\ times > 0)
    <3>1. UNCHANGED <<projected, deltas>>
      BY <2>1, <2>3 DEF ProcessTemplates
    <3> QED
      BY <2>1, <3>1, ToldAgain
  <2> QED
    BY <2>2, <2>3
<1>7. ASSUME NEW w \in DOMAIN threads, ReceiveError(w) PROVE ViewInv'
  BY <1>7, ToldAgain DEF ReceiveError
<1>8. ASSUME NEW w \in DOMAIN threads, ReceiveExit(w) PROVE ViewInv'
  BY <1>1, <1>8 DEF ReceiveExit
<1>9. ASSUME NEW i \in 0 .. 2, TrackBlock(i) PROVE ViewInv'
  <2>1. UNCHANGED <<projected, deltas>> /\ track' = i /\ view' = Block(projected, i) /\ i \in Nat
    BY <1>9 DEF TrackBlock
  <2> QED
    BY <2>1 DEF ViewInv, DeltasFit, ViewFollows, Block
<1>10. CASE UNCHANGED templateVars
  BY <1>1, <1>10 DEF templateVars
<1> QED
  BY <1>2, <1>3, <1>4, <1>5, <1>6, <1>7, <1>8, <1>9, <1>10 DEF TemplatesNext, ThreadStep, ReceiveStep

\* The block a client has put together from the changes it was told is the
\* projected block, whatever calls overlap, whatever workers die, also when a
\* failed call has the last changes told again; except from a change on that
\* nobody told, until the client asks again
\* (mempool-blocks.ts:167-206, websocket-handler.ts:300-316, 500-508).
THEOREM ViewFollowsAlways == TemplatesSpec => []ViewFollows
<1>1. TemplatesInit => ViewInv
  <2>1. DOMAIN <<>> = {} /\ Len(<<>>) = 0 /\ 1 .. 0 = {}
    OBVIOUS
  <2> QED
    BY <2>1 DEF TemplatesInit, ViewInv, DeltasFit, ViewFollows
<1>2. ViewInv => ViewFollows
  BY DEF ViewInv
<1>3. TemplatesSpec => []ViewInv
  BY <1>1, ViewInvNext, PTL DEF TemplatesSpec
<1> QED
  BY <1>2, <1>3, PTL
=============================================================================
