--------------------------- MODULE ServicesProofs ---------------------------
(***************************************************************************)
(* Three components that share no state.  That the page has one            *)
(* subscription or one retry due (SubscribedOnce), for any bounds, topics  *)
(* and blocks; that no job of the unfurler is without a free page          *)
(* (PagesNeverRunOut) and that a job has its page for itself               *)
(* (PageIsOfOneJob), for any number of workers, pages and failures; that a *)
(* channel found closed stays closed (ClosedStaysClosed), for any          *)
(* channels, ways of closing and bounds.                                   *)
(***************************************************************************)
EXTENDS SocketClient, PagePool, Lightning, FiniteSetTheorems, TLAPS

-----------------------------------------------------------------------------
(* The browser client: one subscription or one retry due *)

\* The numbers are naturals.
Counted ==
    /\ subscriptions \in Nat /\ retries \in Nat /\ breaks \in Nat
    /\ goneOffline \in BOOLEAN /\ switchedOffline \in BOOLEAN

\* Without a connection a retry is due and the page knows that it is offline;
\* with one, of whatever state, no retry is due.  That is what lets a pong
\* timeout, a broken link and a timer meet in any order.
OneOrTheOther ==
    /\ subscriptions + retries = 1
    /\ link = "none" <=> retries = 1
    /\ link = "none" => goneOffline

SubscriptionInv == Counted /\ (~switchedOffline => OneOrTheOther)

LEMMA InitiallySubscribed == ClientInit => SubscriptionInv
<1> SUFFICES ASSUME ClientInit PROVE SubscriptionInv
  OBVIOUS
<1>1. Counted
  BY DEF ClientInit, Counted
<1>2. OneOrTheOther
  BY DEF ClientInit, OneOrTheOther
<1> QED
  BY <1>1, <1>2 DEF SubscriptionInv

LEMMA SubscriptionInvInductive == SubscriptionInv /\ [ClientNext]_clientVars => SubscriptionInv'
<1> SUFFICES ASSUME SubscriptionInv, [ClientNext]_clientVars PROVE SubscriptionInv'
  OBVIOUS
<1> USE SocketClientAssumption DEF SubscriptionInv, Counted, OneOrTheOther
<1>1. CASE PageAsks
  BY <1>1 DEF PageAsks, Want, StartTrackTransaction, StopTrackingTransaction, TrackMempoolBlock,
              Follow, Unfollow, Asked, Ask, retryVars
<1>2. CASE SwitchNetwork
  BY <1>2 DEF SwitchNetwork
<1>3. CASE Connected
  BY <1>3 DEF Connected, retryVars, countVars
<1>4. CASE ServerHandles
  BY <1>4 DEF ServerHandles, retryVars, countVars
<1>5. CASE ReceiveAnswer
  BY <1>5 DEF ReceiveAnswer, countVars
<1>6. CASE LinkBreaks
  BY <1>6 DEF LinkBreaks, LinkFails
<1>7. CASE LinkGoesSilent
  BY <1>7 DEF LinkGoesSilent, retryVars
<1>8. CASE BrowserGivesUp
  BY <1>8 DEF BrowserGivesUp, LinkFails, countVars
<1>9. CASE RetryFires
  BY <1>9 DEF RetryFires, countVars
<1>10. CASE PingFires
  BY <1>10 DEF PingFires, countVars
<1>11. CASE PongTimeout
  <2>1. CASE goneOffline
    BY <1>11, <2>1 DEF PongTimeout, linkVars, countVars
  <2>2. CASE ~goneOffline
    <3>1. ForceClose
      BY <1>11, <2>2 DEF PongTimeout
    <3>2. /\ link' = "none" /\ goneOffline' = TRUE /\ subscriptions' = 0
          /\ breaks' \in Nat
          /\ switchedOffline' = switchedOffline
      BY <3>1 DEF ForceClose
    <3>3. PICK failed \in {n \in {0, subscriptions - 1} : n >= 0} : retries' = retries + 1 + failed
      BY <3>1 DEF ForceClose
    <3>4. failed \in Nat /\ (subscriptions = 1 => failed = 0)
      BY <3>3
    <3>5. ~switchedOffline => retries = 0 /\ subscriptions = 1
      BY <2>2
    <3> QED
      BY <3>2, <3>3, <3>4, <3>5
  <2> QED
    BY <2>1, <2>2
<1>12. CASE ServerPushes
  BY <1>12 DEF ServerPushes, retryVars, countVars
<1>13. CASE FetchEnds
  BY <1>13 DEF FetchEnds, AskAgain, AskAgainFails, retryVars, linkVars, countVars
<1>14. CASE UNCHANGED clientVars
  BY <1>14 DEF clientVars, retryVars, linkVars, countVars
<1> QED
  BY <1>1, <1>2, <1>3, <1>4, <1>5, <1>6, <1>7, <1>8, <1>9, <1>10, <1>11, <1>12, <1>13,
     <1>14 DEF ClientNext, LinkStep, CheckStep

\* However errors, silent connections, pings and retries meet, the page has one
\* subscription or one retry due, but for a change of the network while a retry
\* is due (websocket.service.ts:63-80, 92-121, 199-223).
THEOREM SubscribedOnceAlways == ClientSpec => []SubscribedOnce
<1>1. SubscriptionInv => SubscribedOnce
  BY DEF SubscriptionInv, OneOrTheOther, SubscribedOnce
<1> QED
  BY InitiallySubscribed, SubscriptionInvInductive, <1>1, PTL DEF ClientSpec

-----------------------------------------------------------------------------
(* The page pool: no job without a free page, none with another's page *)

N == Cardinality(Workers)
M == Cardinality(Made)
Stages == {"idle", "working", "closing", "repairing", "lost"}

\* The pages made are numbered without gaps, and each index has the page that
\* is for it.
PagesAreNumbered ==
    /\ M \in Nat /\ Made = 1..M
    /\ index \in [Made -> 1..N]
    /\ pages \in [1..N -> Made]
    /\ \A i \in 1..N : index[pages[i]] = i
    /\ free \subseteq Made /\ overdue \subseteq Made
    /\ stage \in [Workers -> Stages]
    /\ DOMAIN resource = Workers
    /\ \A w \in Busy : resource[w] \in Made

\* A page at an index that is not free is the page of a worker that cannot take
\* a job; the old page of a replacement is at no index any more.
TakenIsHeld ==
    /\ replaced \subseteq {w \in Workers : Replacing(w)}
    /\ \A w \in replaced : \A i \in 1..N : pages[i] # resource[w]
    /\ \A i \in 1..N : pages[i] \notin free => \E w \in Workers \ Idle : resource[w] = pages[i]

\* What a job or a replacement has is not free, and the page of a job is nobody
\* else's.
HeldIsNotFree ==
    /\ \A w \in Busy : resource[w] \notin free
    /\ overdue \cap free = {}
    /\ PageIsOfOneJob

PagesInv == PagesAreNumbered /\ TakenIsHeld /\ HeldIsNotFree

LEMMA CountOfWorkers == N \in Nat
BY PagePoolAssumption, FS_CardinalityType DEF N

LEMMA InitialPages == PagesInit => PagesInv
<1> SUFFICES ASSUME PagesInit PROVE PagesInv
  OBVIOUS
<1>1. N \in Nat /\ IsFiniteSet(1..N) /\ Cardinality(1..N) = N
  BY CountOfWorkers, FS_Interval
<1>2. Made = 1..N /\ M = N
  BY <1>1 DEF PagesInit, Made, M, N
<1>3. /\ pages = [i \in 1..N |-> i] /\ index = [p \in 1..N |-> p] /\ free = 1..N
      /\ stage = [w \in Workers |-> "idle"] /\ DOMAIN resource = Workers
      /\ replaced = {} /\ overdue = {}
  BY DEF PagesInit, N
<1>4. Busy = {}
  BY <1>3 DEF Busy
<1>5. PagesAreNumbered
  BY <1>1, <1>2, <1>3, <1>4 DEF PagesAreNumbered, Stages
<1>6. TakenIsHeld
  BY <1>3 DEF TakenIsHeld
<1>7. HeldIsNotFree
  BY <1>3, <1>4 DEF HeldIsNotFree, PageIsOfOneJob
<1> QED
  BY <1>5, <1>6, <1>7 DEF PagesInv

\* A replacement makes a page that nobody has and puts it, free, in the place
\* of the old one.
LEMMA ReplaceMakesPage ==
    ASSUME PagesAreNumbered, NEW old \in Made, Replace(old)
    PROVE  /\ M + 1 \notin Made /\ Made' = Made \cup {M + 1}
           /\ M \in Nat /\ M' = M + 1 /\ Made' = 1..(M + 1)
           /\ index[old] \in 1..N
           /\ pages' = [pages EXCEPT ![index[old]] = M + 1]
           /\ index' \in [Made' -> 1..N]
           /\ index'[M + 1] = index[old]
           /\ \A p \in Made : index'[p] = index[p]
           /\ free' = free \cup {M + 1}
<1>1. M \in Nat /\ Made = 1..M /\ M + 1 \notin Made
  BY DEF PagesAreNumbered
<1>2. /\ index' = [p \in Made \cup {M + 1} |-> IF p = M + 1 THEN index[old] ELSE index[p]]
      /\ pages' = [pages EXCEPT ![index[old]] = M + 1]
      /\ free' = free \cup {M + 1}
  BY DEF Replace, M
<1>3. Made' = Made \cup {M + 1}
  BY <1>2 DEF Made
<1>4. M' = M + 1 /\ Made' = 1..(M + 1)
  <2>1. Made' = 1..(M + 1)
    BY <1>1, <1>3
  <2> QED
    BY <1>1, <2>1, FS_Interval DEF M
<1>5. index[old] \in 1..N /\ \A p \in Made : index[p] \in 1..N
  BY DEF PagesAreNumbered
<1> QED
  BY <1>1, <1>2, <1>3, <1>4, <1>5

\* The numbering survives, with a fact about whoever does the replacing.
LEMMA ReplaceKeepsNumbers ==
    ASSUME PagesAreNumbered, NEW old \in Made, Replace(old),
           UNCHANGED <<stage, resource>>, overdue' \subseteq overdue
    PROVE  PagesAreNumbered'
<1> USE DEF PagesAreNumbered
<1>0. N' = N /\ N \in Nat
  BY CountOfWorkers DEF N
<1>1. Made' = 1..M' /\ M' \in Nat
  <2>1. M \in Nat /\ M' = M + 1 /\ Made' = 1..(M + 1)
    BY ReplaceMakesPage
  <2> QED
    BY <2>1
<1>r. /\ Made' = Made \cup {M + 1} /\ index[old] \in 1..N
      /\ pages' = [pages EXCEPT ![index[old]] = M + 1]
      /\ index'[M + 1] = index[old]
      /\ \A p \in Made : index'[p] = index[p]
      /\ free' = free \cup {M + 1}
  BY ReplaceMakesPage
<1>2. index' \in [Made' -> 1..N] /\ pages' \in [1..N -> Made']
  <2>1. index' \in [Made' -> 1..N]
    BY ReplaceMakesPage
  <2>2. pages \in [1..N -> Made'] /\ M + 1 \in Made'
    BY <1>r
  <2> QED
    BY <1>r, <2>1, <2>2
<1>3. \A i \in 1..N : index'[pages'[i]] = i
  <2> TAKE i \in 1..N
  <2>1. CASE i = index[old]
    <3>1. pages'[i] = M + 1
      BY <2>1, <1>r
    <3> QED
      BY <2>1, <3>1, <1>r
  <2>2. CASE i # index[old]
    <3>1. pages'[i] = pages[i] /\ pages[i] \in Made
      BY <2>2, <1>r
    <3>2. index'[pages[i]] = index[pages[i]]
      BY <3>1, <1>r
    <3> QED
      BY <3>1, <3>2
  <2> QED
    BY <2>1, <2>2
<1>4. free' \subseteq Made' /\ overdue' \subseteq Made'
  BY <1>r
<1>5. stage' \in [Workers -> Stages] /\ DOMAIN resource' = Workers
  OBVIOUS
<1>6. \A w \in Busy' : resource'[w] \in Made'
  BY <1>r DEF Busy
<1> QED
  BY <1>0, <1>1, <1>2, <1>3, <1>4, <1>5, <1>6

\* After a replacement each other index is as it was, and this one is free.
LEMMA ReplaceKeepsHolders ==
    ASSUME PagesInv, NEW old \in Made, Replace(old), UNCHANGED <<stage, resource>>,
           NEW ws \in SUBSET replaced
    PROVE  /\ ws \subseteq {w \in Workers : Replacing(w)}'
           /\ \A w \in ws : \A i \in 1..N : pages'[i] # resource'[w]
           /\ \A i \in 1..N : pages'[i] \notin free' => \E w \in Workers \ Idle : resource'[w] = pages'[i]
           /\ \A w \in Busy' : resource'[w] \notin free'
           /\ \A i \in 1..N : pages'[i] # old
<1> USE DEF PagesInv, TakenIsHeld, HeldIsNotFree
<1>1. \A i \in 1..N : pages'[i] = IF i = index[old] THEN M + 1 ELSE pages[i]
  <2>1. index[old] \in 1..N /\ pages' = [pages EXCEPT ![index[old]] = M + 1]
    BY ReplaceMakesPage
  <2>2. DOMAIN pages = 1..N
    BY DEF PagesAreNumbered
  <2> QED
    BY <2>1, <2>2
<1>2. free' = free \cup {M + 1} /\ M + 1 \notin Made
  BY ReplaceMakesPage
<1>3. \A w \in Busy : resource[w] \in Made
  BY DEF PagesAreNumbered
<1>4. ws \subseteq {w \in Workers : Replacing(w)}' /\ Busy' = Busy /\ Idle' = Idle
  BY DEF Replacing, Busy, Idle
<1>5. {w \in Workers : Replacing(w)} \subseteq Busy
  BY DEF Replacing, Busy
<1>6. \A w \in ws : \A i \in 1..N : pages'[i] # resource'[w]
  BY <1>1, <1>2, <1>3, <1>5
<1>7. ASSUME NEW i \in 1..N, pages'[i] \notin free'
      PROVE  \E w \in Workers \ Idle : resource'[w] = pages'[i]
  <2>1. pages'[i] = pages[i] /\ pages[i] \notin free
    BY <1>1, <1>2, <1>7
  <2>2. PICK w \in Workers \ Idle : resource[w] = pages[i]
    BY <2>1
  <2>3. resource' = resource
    OBVIOUS
  <2> QED
    BY <2>1, <2>2, <2>3
<1>8. \A w \in Busy' : resource'[w] \notin free'
  BY <1>2, <1>3, <1>4
<1>9. \A i \in 1..N : pages'[i] # old
  BY <1>1, <1>2 DEF PagesAreNumbered
<1> QED
  BY <1>4, <1>6, <1>7, <1>8, <1>9

LEMMA PagesInvInductive == PagesInv /\ [PagesNext]_pageVars => PagesInv'
<1> SUFFICES ASSUME PagesInv, [PagesNext]_pageVars PROVE PagesInv'
  OBVIOUS
<1> USE DEF PagesInv
<1>0. N' = N /\ N \in Nat
  BY CountOfWorkers DEF N
<1>1. ASSUME NEW w \in Workers, JobStarts(w) PROVE PagesInv'
  <2>1. PICK i \in 1..N : /\ pages[i] \in free
                          /\ resource' = [resource EXCEPT ![w] = pages[i]]
                          /\ free' = free \ {pages[i]}
    BY <1>1 DEF JobStarts, FreeIndexes, Indexes, PagesAreNumbered
  <2>2. /\ stage[w] = "idle" /\ stage' = [stage EXCEPT ![w] = "working"]
        /\ UNCHANGED <<pages, index, replaced, overdue>>
    BY <1>1 DEF JobStarts
  <2>3. Busy' = Busy \cup {w} /\ w \notin Busy /\ Idle' = Idle \ {w}
        /\ {v \in Workers : Replacing(v)}' = {v \in Workers : Replacing(v)}
        /\ w \notin {v \in Workers : Replacing(v)}
    BY <2>2 DEF Busy, Idle, Replacing, PagesAreNumbered, Stages
  <2>4. PagesAreNumbered'
    BY <1>0, <2>1, <2>2, <2>3 DEF PagesAreNumbered, Made, M, Stages
  <2>5. resource'[w] = pages[i] /\ \A v \in Workers \ {w} : resource'[v] = resource[v]
    BY <2>1 DEF PagesAreNumbered
  <2>6. \A j \in 1..N : pages[j] = pages[i] => j = i
    BY <2>1 DEF PagesAreNumbered
  <2>7. TakenIsHeld'
    <3>1. replaced' \subseteq {v \in Workers : Replacing(v)}'
      BY <2>2, <2>3 DEF TakenIsHeld
    <3>2. \A v \in replaced : v \in Workers \ {w}
      BY <2>3 DEF TakenIsHeld
    <3>3. \A v \in replaced' : \A j \in 1..N : pages'[j] # resource'[v]
      BY <2>2, <2>5, <3>2 DEF TakenIsHeld
    <3>4. \A j \in 1..N : pages'[j] \notin free' => \E v \in (Workers \ Idle)' : resource'[v] = pages'[j]
      <4> SUFFICES ASSUME NEW j \in 1..N, pages'[j] \notin free'
                   PROVE  \E v \in (Workers \ Idle)' : resource'[v] = pages'[j]
        OBVIOUS
      <4>1. CASE pages[j] = pages[i]
        BY <4>1, <2>2, <2>3, <2>5
      <4>2. CASE pages[j] # pages[i]
        <5>1. PICK v \in Workers \ Idle : resource[v] = pages[j]
          BY <4>2, <2>1, <2>2 DEF TakenIsHeld
        <5>2. v # w
          BY <2>2, <5>1 DEF Idle
        <5> QED
          BY <5>1, <5>2, <2>2, <2>3, <2>5
      <4> QED
        BY <4>1, <4>2
    <3> QED
      BY <1>0, <3>1, <3>3, <3>4 DEF TakenIsHeld
  <2>8. HeldIsNotFree'
    <3>1. \A v \in Busy' : resource'[v] \notin free'
      BY <2>1, <2>3, <2>5 DEF HeldIsNotFree, Busy
    <3>2. overdue' \cap free' = {} /\ pages[i] \notin overdue
      BY <2>1, <2>2 DEF HeldIsNotFree
    <3>3. \A v \in Busy : resource'[v] = resource[v] /\ resource[v] # pages[i]
      BY <2>1, <2>3, <2>5 DEF HeldIsNotFree, Busy
    <3>4. PageIsOfOneJob'
      <4> SUFFICES ASSUME NEW v \in Workers, stage'[v] = "working"
                   PROVE  /\ resource'[v] \notin free'
                          /\ \A u \in Busy' \ {v} : resource'[u] # resource'[v]
                          /\ resource'[v] \notin overdue'
        BY DEF PageIsOfOneJob
      <4>1. CASE v = w
        BY <4>1, <2>1, <2>2, <2>3, <2>5, <3>2, <3>3
      <4>2. CASE v # w
        <5>1. stage[v] = "working" /\ v \in Busy
          BY <4>2, <2>2 DEF PagesAreNumbered, Busy
        <5> QED
          BY <5>1, <4>2, <2>1, <2>2, <2>3, <2>5, <3>3 DEF HeldIsNotFree, PageIsOfOneJob
      <4> QED
        BY <4>1, <4>2
    <3> QED
      BY <3>1, <3>2, <3>4 DEF HeldIsNotFree
  <2> QED
    BY <2>4, <2>7, <2>8
<1>2. ASSUME NEW w \in Workers, JobEnds(w) PROVE PagesInv'
  <2>1. /\ stage[w] = "working" /\ stage' = [stage EXCEPT ![w] = "idle"]
        /\ free' = free \cup {resource[w]}
        /\ UNCHANGED <<pages, index, resource, replaced, overdue>>
    BY <1>2 DEF JobEnds
  <2>2. Busy' = Busy \ {w} /\ w \in Busy /\ Idle' = Idle \cup {w}
        /\ {v \in Workers : Replacing(v)}' = {v \in Workers : Replacing(v)}
    BY <2>1 DEF Busy, Idle, Replacing, PagesAreNumbered, Stages
  <2>3. PagesAreNumbered'
    BY <1>0, <2>1, <2>2 DEF PagesAreNumbered, Made, M, Stages
  <2>4. TakenIsHeld'
    <3>1. \A j \in 1..N : pages'[j] \notin free' => \E v \in (Workers \ Idle)' : resource'[v] = pages'[j]
      <4> SUFFICES ASSUME NEW j \in 1..N, pages'[j] \notin free'
                   PROVE  \E v \in (Workers \ Idle)' : resource'[v] = pages'[j]
        OBVIOUS
      <4>1. PICK v \in Workers \ Idle : resource[v] = pages[j]
        BY <2>1 DEF TakenIsHeld
      <4>2. v # w
        BY <4>1, <2>1
      <4> QED
        BY <4>1, <4>2, <2>1, <2>2
    <3> QED
      BY <1>0, <2>1, <2>2, <3>1 DEF TakenIsHeld
  <2>5. HeldIsNotFree'
    <3>1. \A v \in Busy \ {w} : resource[v] # resource[w]
      BY <2>1 DEF HeldIsNotFree, PageIsOfOneJob
    <3>2. resource[w] \notin overdue
      BY <2>1 DEF HeldIsNotFree, PageIsOfOneJob
    <3>3. \A v \in Workers : stage'[v] = "working" => v # w /\ stage[v] = "working"
      BY <2>1 DEF PagesAreNumbered
    <3>4. PageIsOfOneJob'
      BY <2>1, <2>2, <3>1, <3>3 DEF HeldIsNotFree, PageIsOfOneJob, Busy
    <3> QED
      BY <2>1, <2>2, <3>1, <3>2, <3>4 DEF HeldIsNotFree
  <2> QED
    BY <2>3, <2>4, <2>5
<1>3. ASSUME NEW w \in Workers, CloseToRepair(w) PROVE PagesInv'
  <2>1. /\ stage[w] = "working" /\ stage' = [stage EXCEPT ![w] = "closing"]
        /\ UNCHANGED <<pages, free, index, resource, replaced, overdue>>
    BY <1>3 DEF CloseToRepair
  <2>2. Busy' = Busy /\ Idle' = Idle
        /\ {v \in Workers : Replacing(v)} \subseteq {v \in Workers : Replacing(v)}'
    BY <2>1 DEF Busy, Idle, Replacing, PagesAreNumbered, Stages
  <2>3. \A v \in Workers : stage'[v] = "working" => stage[v] = "working"
    BY <2>1 DEF PagesAreNumbered
  <2>4. PagesAreNumbered'
    BY <1>0, <2>1, <2>2 DEF PagesAreNumbered, Made, M, Stages
  <2>5. TakenIsHeld'
    BY <1>0, <2>1, <2>2 DEF TakenIsHeld
  <2>6. HeldIsNotFree'
    BY <2>1, <2>2, <2>3 DEF HeldIsNotFree, PageIsOfOneJob
  <2> QED
    BY <2>4, <2>5, <2>6
<1>4. ASSUME NEW w \in Workers, PageIsReplaced(w) PROVE PagesInv'
  <2>1. /\ Replacing(w) /\ w \notin replaced /\ Replace(resource[w])
        /\ replaced' = replaced \cup {w} /\ UNCHANGED <<stage, resource, overdue>>
    BY <1>4 DEF PageIsReplaced
  <2>2. w \in Busy /\ resource[w] \in Made /\ w \in {v \in Workers : Replacing(v)}'
    BY <2>1 DEF Replacing, Busy, PagesAreNumbered
  <2>3. PagesAreNumbered'
    BY <2>1, <2>2, ReplaceKeepsNumbers
  <2>4. TakenIsHeld' /\ \A v \in Busy' : resource'[v] \notin free'
    <3>1. /\ replaced \subseteq {v \in Workers : Replacing(v)}'
          /\ \A v \in replaced : \A i \in 1..N : pages'[i] # resource'[v]
          /\ \A i \in 1..N : pages'[i] \notin free' => \E v \in Workers \ Idle : resource'[v] = pages'[i]
          /\ \A v \in Busy' : resource'[v] \notin free'
          /\ \A i \in 1..N : pages'[i] # resource[w]
      BY <2>1, <2>2, ReplaceKeepsHolders
    <3>2. Idle' = Idle
      BY <2>1 DEF Idle
    <3> QED
      BY <1>0, <2>1, <2>2, <3>1, <3>2 DEF TakenIsHeld
  <2>5. HeldIsNotFree'
    <3>1. free' = free \cup {M + 1} /\ M + 1 \notin overdue /\ overdue' = overdue
      BY <2>1, <2>2, ReplaceMakesPage DEF PagesAreNumbered
    <3>2. Busy' = Busy /\ {v \in Workers : stage[v] = "working"} \subseteq Busy
      BY <2>1 DEF Busy
    <3> QED
      BY <2>1, <2>4, <3>1, <3>2 DEF HeldIsNotFree, PageIsOfOneJob, Busy
  <2> QED
    BY <2>3, <2>4, <2>5
<1>5. ASSUME NEW w \in Workers, OldPageCloses(w) PROVE PagesInv'
  <2>1. /\ Replacing(w) /\ w \in replaced /\ replaced' = replaced \ {w}
        /\ stage' = [stage EXCEPT ![w] = "idle"]
        /\ UNCHANGED <<pages, free, index, resource, overdue>>
    BY <1>5 DEF OldPageCloses
  <2>2. Busy' = Busy \ {w} /\ Idle' = Idle \cup {w}
        /\ {v \in Workers : Replacing(v)}' = {v \in Workers : Replacing(v)} \ {w}
    BY <2>1 DEF Busy, Idle, Replacing, PagesAreNumbered, Stages
  <2>3. \A v \in Workers : stage'[v] = "working" => stage[v] = "working"
    BY <2>1 DEF PagesAreNumbered
  <2>4. PagesAreNumbered'
    BY <1>0, <2>1, <2>2 DEF PagesAreNumbered, Made, M, Stages
  <2>5. TakenIsHeld'
    <3>1. \A i \in 1..N : pages[i] # resource[w]
      BY <2>1 DEF TakenIsHeld
    <3>2. \A i \in 1..N : pages'[i] \notin free' => \E v \in (Workers \ Idle)' : resource'[v] = pages'[i]
      BY <2>1, <2>2, <3>1 DEF TakenIsHeld
    <3> QED
      BY <1>0, <2>1, <2>2, <3>2 DEF TakenIsHeld
  <2>6. HeldIsNotFree'
    BY <2>1, <2>2, <2>3 DEF HeldIsNotFree, PageIsOfOneJob
  <2> QED
    BY <2>4, <2>5, <2>6
<1>6. ASSUME NEW w \in Workers, ReplacementFails(w) PROVE PagesInv'
  <2>1. /\ Replacing(w) /\ replaced' = replaced \ {w}
        /\ stage' = [stage EXCEPT ![w] = IF @ = "closing" THEN "repairing" ELSE "lost"]
        /\ UNCHANGED <<pages, free, index, resource, overdue>>
    BY <1>6 DEF ReplacementFails
  <2>2. Busy' \subseteq Busy /\ Idle' = Idle
        /\ {v \in Workers : Replacing(v)} \ {w} \subseteq {v \in Workers : Replacing(v)}'
    BY <2>1 DEF Busy, Idle, Replacing, PagesAreNumbered, Stages
  <2>3. \A v \in Workers : stage'[v] = "working" => stage[v] = "working"
    BY <2>1 DEF PagesAreNumbered
  <2>4. PagesAreNumbered'
    BY <1>0, <2>1, <2>2 DEF PagesAreNumbered, Made, M, Stages
  <2>5. TakenIsHeld'
    BY <1>0, <2>1, <2>2 DEF TakenIsHeld
  <2>6. HeldIsNotFree'
    BY <2>1, <2>2, <2>3 DEF HeldIsNotFree, PageIsOfOneJob
  <2> QED
    BY <2>4, <2>5, <2>6
<1>7. ASSUME NEW w \in Workers, CloseTimesOut(w) PROVE PagesInv'
  <2>1. /\ stage[w] = "closing" /\ stage' = [stage EXCEPT ![w] = "repairing"]
        /\ overdue' \subseteq overdue \cup {resource[w]} /\ replaced' = replaced \ {w}
        /\ UNCHANGED <<pages, free, index, resource>>
    BY <1>7 DEF CloseTimesOut
  <2>2. Busy' = Busy /\ Idle' = Idle /\ w \in Busy
        /\ {v \in Workers : Replacing(v)}' = {v \in Workers : Replacing(v)}
    BY <2>1 DEF Busy, Idle, Replacing, PagesAreNumbered, Stages
  <2>3. \A v \in Workers : stage'[v] = "working" => stage[v] = "working" /\ v # w
    BY <2>1 DEF PagesAreNumbered
  <2>4. PagesAreNumbered'
    BY <1>0, <2>1, <2>2 DEF PagesAreNumbered, Made, M, Stages
  <2>5. TakenIsHeld'
    BY <1>0, <2>1, <2>2 DEF TakenIsHeld
  <2>6. HeldIsNotFree'
    <3>1. resource[w] \notin free
      BY <2>2 DEF HeldIsNotFree
    <3> QED
      BY <2>1, <2>2, <2>3, <3>1 DEF HeldIsNotFree, PageIsOfOneJob
  <2> QED
    BY <2>4, <2>5, <2>6
<1>8. CASE OverduePageIsReplaced
  <2>1. PICK old \in overdue : /\ Replace(old) /\ overdue' = overdue \ {old}
                               /\ UNCHANGED <<stage, resource, replaced>>
    BY <1>8 DEF OverduePageIsReplaced
  <2>2. old \in Made
    BY <2>1 DEF PagesAreNumbered
  <2>3. PagesAreNumbered'
    BY <2>1, <2>2, ReplaceKeepsNumbers
  <2>4. TakenIsHeld' /\ \A v \in Busy' : resource'[v] \notin free'
    <3>1. /\ replaced \subseteq {v \in Workers : Replacing(v)}'
          /\ \A v \in replaced : \A i \in 1..N : pages'[i] # resource'[v]
          /\ \A i \in 1..N : pages'[i] \notin free' => \E v \in Workers \ Idle : resource'[v] = pages'[i]
          /\ \A v \in Busy' : resource'[v] \notin free'
      BY <2>1, <2>2, ReplaceKeepsHolders
    <3>2. Idle' = Idle
      BY <2>1 DEF Idle
    <3> QED
      BY <1>0, <2>1, <3>1, <3>2 DEF TakenIsHeld
  <2>5. HeldIsNotFree'
    <3>1. free' = free \cup {M + 1} /\ M + 1 \notin overdue
      BY <2>1, <2>2, ReplaceMakesPage DEF PagesAreNumbered
    <3>2. Busy' = Busy /\ {v \in Workers : stage[v] = "working"} \subseteq Busy
      BY <2>1 DEF Busy
    <3> QED
      BY <2>1, <2>4, <3>1, <3>2 DEF HeldIsNotFree, PageIsOfOneJob, Busy
  <2> QED
    BY <2>3, <2>4, <2>5
<1>9. CASE UNCHANGED pageVars
  <2>1. Busy' = Busy /\ Idle' = Idle /\ {v \in Workers : Replacing(v)}' = {v \in Workers : Replacing(v)}
    BY <1>9 DEF pageVars, Busy, Idle, Replacing
  <2>2. PagesAreNumbered'
    BY <1>0, <1>9, <2>1 DEF pageVars, PagesAreNumbered, Made, M
  <2>3. TakenIsHeld'
    BY <1>0, <1>9, <2>1 DEF pageVars, TakenIsHeld
  <2>4. HeldIsNotFree'
    BY <1>9, <2>1 DEF pageVars, HeldIsNotFree, PageIsOfOneJob
  <2> QED
    BY <2>2, <2>3, <2>4
<1> QED
  BY <1>1, <1>2, <1>3, <1>4, <1>5, <1>6, <1>7, <1>8, <1>9 DEF PagesNext

\* The indexes that are not free are held by different workers, so there are no
\* more of them than workers that cannot take a job.
LEMMA EnoughFree == PagesInv => PagesNeverRunOut
<1> SUFFICES ASSUME PagesInv PROVE Cardinality(Idle) <= Cardinality(FreeIndexes)
  BY DEF PagesNeverRunOut
<1> DEFINE Taken == (1..N) \ FreeIndexes
           Bound == Workers \ Idle
           holder == [i \in Taken |-> CHOOSE w \in Bound : resource[w] = pages[i]]
<1>1. N \in Nat /\ IsFiniteSet(1..N) /\ Cardinality(1..N) = N /\ IsFiniteSet(Workers)
  BY CountOfWorkers, FS_Interval, PagePoolAssumption
<1>2. FreeIndexes \subseteq 1..N /\ Idle \subseteq Workers
  BY DEF FreeIndexes, Indexes, Idle, PagesInv, PagesAreNumbered
<1>3. \A i \in Taken : \E w \in Bound : resource[w] = pages[i]
  BY DEF FreeIndexes, Indexes, PagesInv, TakenIsHeld, PagesAreNumbered
<1>4. \A i \in Taken : holder[i] \in Bound /\ resource[holder[i]] = pages[i]
  BY <1>3
<1>5. \A i, j \in Taken : holder[i] = holder[j] => i = j
  BY <1>4 DEF PagesInv, PagesAreNumbered
<1>6. holder \in Injection(Taken, Bound)
  <2>1. holder \in [Taken -> Bound]
    BY <1>4
  <2>2. IsInjective(holder)
    BY <1>5 DEF IsInjective
  <2> QED
    BY <2>1, <2>2 DEF Injection
<1>7. IsFiniteSet(Bound) /\ Cardinality(Bound) = N - Cardinality(Idle)
  <2>1. Workers \cap Idle = Idle
    BY <1>2
  <2>2. IsFiniteSet(Workers \ Idle) /\ Cardinality(Workers \ Idle) = Cardinality(Workers) - Cardinality(Workers \cap Idle)
    BY <1>1, FS_Difference
  <2> QED
    BY <2>1, <2>2 DEF N
<1>8. Cardinality(Taken) = N - Cardinality(FreeIndexes)
  <2>1. (1..N) \cap FreeIndexes = FreeIndexes
    BY <1>2
  <2>2. IsFiniteSet(1..N) /\ Cardinality(1..N) = N
    BY <1>1
  <2>3. Cardinality((1..N) \ FreeIndexes) = Cardinality(1..N) - Cardinality((1..N) \cap FreeIndexes)
    BY <2>2, FS_Difference
  <2> QED
    BY <2>1, <2>2, <2>3
<1>9. Cardinality(Taken) <= Cardinality(Bound)
  <2> HIDE DEF Taken, Bound, holder
  <2>1. IsFiniteSet(Bound) /\ \E f : f \in Injection(Taken, Bound)
    BY <1>6, <1>7
  <2> QED
    BY <2>1, FS_Injection
<1>10. Cardinality(Idle) \in Nat /\ Cardinality(FreeIndexes) \in Nat
  BY <1>1, <1>2, FS_Subset, FS_CardinalityType
<1> HIDE DEF Taken, Bound, holder
<1> QED
  BY <1>1, <1>7, <1>8, <1>9, <1>10

\* There is a free page for each worker that may be handed a job, whatever
\* fails or takes too long (ReusablePage.ts:122-151).
THEOREM PagesNeverRunOutAlways == PagesSpec => []PagesNeverRunOut
BY InitialPages, PagesInvInductive, EnoughFree, PTL DEF PagesSpec

\* No two workers hold one page while a job runs on it, and it is not free
\* (ReusablePage.ts:134-183).
THEOREM PageIsOfOneJobAlways == PagesSpec => []PageIsOfOneJob
<1>1. PagesInv => PageIsOfOneJob
  BY DEF PagesInv, HeldIsNotFree
<1> QED
  BY InitialPages, PagesInvInductive, <1>1, PTL DEF PagesSpec

-----------------------------------------------------------------------------
(* The Lightning tables: a channel found closed stays closed *)

StatusIsFunction == status \in [Channels -> {"absent", "inactive", "active", "closed"}]

\* What $updateChannelsList read at its start stays true while it saves: only a
\* scan finds channels closed, and scans come after the saving.
NoneClosedIsSaved == step = "save" => todo \subseteq {c \in Channels : status[c] # "closed"}

ClosedInv == StatusIsFunction /\ NoneClosedIsSaved

LEMMA InitiallyClosedInv == LightningInit => ClosedInv
BY DEF LightningInit, ClosedInv, StatusIsFunction, NoneClosedIsSaved

\* What $setChannelsInactive does to one channel.
LEMMA NowInactiveKeepsClosed ==
    ASSUME StatusIsFunction, NEW offline
    PROVE  /\ NowInactive(offline) \in [Channels -> {"absent", "inactive", "active", "closed"}]
           /\ \A c \in Channels : NowInactive(offline)[c] = "closed" <=> status[c] = "closed"
BY DEF NowInactive, StatusIsFunction

StaysClosed == \A c \in Channels : status[c] = "closed" /\ c \notin importing => status'[c] = "closed"

LEMMA StepKeepsClosed == ClosedInv /\ [LightningNext]_lightningVars => ClosedInv' /\ StaysClosed
<1> SUFFICES ASSUME ClosedInv, [LightningNext]_lightningVars PROVE ClosedInv' /\ StaysClosed
  OBVIOUS
<1> USE DEF ClosedInv, StatusIsFunction, NoneClosedIsSaved, StaysClosed
<1>1. CASE NewBlock
  BY <1>1 DEF NewBlock, rowVars
<1>2. CASE SyncStarts
  BY <1>2 DEF SyncStarts, rowVars
<1>3. ASSUME NEW c \in Channels, SaveChannel(c) PROVE ClosedInv' /\ StaysClosed
  BY <1>3 DEF SaveChannel
<1>4. CASE ChannelsSaved
  <2>1. PICK offline \in SUBSET Channels : status' = NowInactive(offline)
    BY <1>4 DEF ChannelsSaved
  <2>2. step' \in {"scan", "examine"}
    BY <1>4 DEF ChannelsSaved
  <2> QED
    BY <2>1, <2>2, NowInactiveKeepsClosed
<1>5. ASSUME NEW c \in Channels, ScanChannel(c) PROVE ClosedInv' /\ StaysClosed
  BY <1>5 DEF ScanChannel, rowVars
<1>6. CASE ScanEnds
  BY <1>6 DEF ScanEnds, rowVars
<1>7. ASSUME NEW c \in Channels, ExamineNew(c) PROVE ClosedInv' /\ StaysClosed
  BY <1>7 DEF ExamineNew, Examined, Judged
<1>8. CASE SyncEnds
  BY <1>8 DEF SyncEnds, rowVars
<1>9. CASE ForensicsStart
  BY <1>9 DEF ForensicsStart, rowVars, syncVars
<1>10. ASSUME NEW c \in Channels, Reexamine(c) PROVE ClosedInv' /\ StaysClosed
  BY <1>10 DEF Reexamine, Examined, Judged, syncVars
<1>11. CASE ScanFails
  BY <1>11 DEF ScanFails, rowVars
<1>12. CASE ScanIsCut
  <2>1. PICK c \in (todo \cap spent) \ closingTx : status' = [status EXCEPT ![c] = "closed"]
    BY <1>12 DEF ScanIsCut
  <2>2. step' = "examine"
    BY <1>12 DEF ScanIsCut
  <2> QED
    BY <2>1, <2>2
<1>13. CASE RestartLightning
  BY <1>13 DEF RestartLightning, rowVars
<1>14. ASSUME NEW c \in Channels, ExamineSkips(c) PROVE ClosedInv' /\ StaysClosed
  BY <1>14 DEF ExamineSkips, rowVars
<1>15. ASSUME NEW c \in Channels, ImportSaves(c) PROVE ClosedInv' /\ StaysClosed
  BY <1>15 DEF ImportSaves, syncVars
<1>16. CASE ImportStarts
  BY <1>16 DEF ImportStarts, rowVars, syncVars
<1>17. CASE UNCHANGED lightningVars
  BY <1>17 DEF lightningVars, rowVars, syncVars
<1> QED
  BY <1>1, <1>2, <1>3, <1>4, <1>5, <1>6, <1>7, <1>8, <1>9, <1>10, <1>11, <1>12, <1>13, <1>14,
     <1>15, <1>16, <1>17 DEF LightningNext, SyncStep, ForensicsStep

\* A channel that was found closed is not opened again by a graph that still
\* shows it or no longer does, nor by forensics, scans, failures and restarts;
\* only by the import of what was unknown when it began
\* (network-sync.service.ts:136-171, channels.api.ts:669-690).
THEOREM ClosedStaysClosedAlways == LightningSpec => ClosedStaysClosed
<1>1. ClosedInv /\ [LightningNext]_lightningVars => [StaysClosed]_lightningVars
  BY StepKeepsClosed
<1>2. LightningSpec => [][StaysClosed]_lightningVars
  BY InitiallyClosedInv, StepKeepsClosed, <1>1, PTL DEF LightningSpec
<1> QED
  BY <1>2 DEF ClosedStaysClosed, StaysClosed
=============================================================================
