------------------------------ MODULE PagePool ------------------------------
(***************************************************************************)
(* The preview renderer's pool of browser pages:                           *)
(* src/unfurler/src/concurrency/ReusablePage.ts, and the task of           *)
(* src/unfurler/src/index.ts that runs on a page.                          *)
(*                                                                         *)
(* There are as many pages as workers.  A job takes the first free page;   *)
(* at its end the page is free again, or replaced by a new one when the    *)
(* render failed or the page is old.  Replacing takes time and may fail,   *)
(* and the worker then replaces the page once more.                        *)
(*                                                                         *)
(* Abstracted: what is rendered, how a page becomes unusable, and a task   *)
(* that still drives its page after its job timed out.  The cluster that   *)
(* hands jobs to workers, closes them within BROWSER_TIMEOUT and repairs a *)
(* worker whose close failed is puppeteer-cluster, which is not part of    *)
(* the repository.                                                         *)
(***************************************************************************)
EXTENDS Naturals, FiniteSets

CONSTANTS
    Workers,       \* as many as CLUSTER_SIZE
    MaxPages,      \* bound: pages made in all
    MaxPageFaults  \* bound: calls of the browser that fail, and closes that time out

ASSUME PagePoolAssumption ==
    /\ IsFiniteSet(Workers) /\ Workers # {}
    /\ MaxPages \in Nat /\ MaxPageFaults \in Nat

VARIABLES
    pages,      \* the page at each index
    free,       \* the pages that are free
    index,      \* the index of each page made
    stage,      \* of each worker: "idle", "working", "closing", "repairing", "lost"
    resource,   \* the page of each worker's job
    replaced,   \* workers whose replacement is in `pages`; the old page is being closed
    overdue,    \* of a close that timed out and goes on: the old pages, to replace
    pageFaults  \* counter for the bound

pageVars == <<pages, free, index, stage, resource, replaced, overdue, pageFaults>>

Indexes == DOMAIN pages
Made == DOMAIN index
NoPage == 0

\* init(): the pages are 1..n.
PagesInit ==
    /\ pages = [i \in 1..Cardinality(Workers) |-> i]
    /\ index = [p \in 1..Cardinality(Workers) |-> p]
    /\ free = 1..Cardinality(Workers)
    /\ stage = [w \in Workers |-> "idle"]
    /\ resource = [w \in Workers |-> NoPage]
    /\ replaced = {} /\ overdue = {}
    /\ pageFaults = 0

FreeIndexes == {i \in Indexes : pages[i] \in free}

\* createResources
JobStarts(w) ==
    /\ stage[w] = "idle"
    /\ \E i \in FreeIndexes :
        /\ \A j \in FreeIndexes : i <= j
        /\ resource' = [resource EXCEPT ![w] = pages[i]]
        /\ free' = free \ {pages[i]}
    /\ stage' = [stage EXCEPT ![w] = "working"]
    /\ UNCHANGED <<pages, index, replaced, overdue, pageFaults>>

\* The task returned, failed or timed out, and the page is usable.
JobEnds(w) ==
    /\ stage[w] = "working"
    /\ stage' = [stage EXCEPT ![w] = "idle"]
    /\ free' = free \cup {resource[w]}
    /\ UNCHANGED <<pages, index, resource, replaced, overdue, pageFaults>>

CloseToRepair_Freeing(w) ==
    /\ stage[w] = "working"
    /\ stage' = [stage EXCEPT ![w] = "closing"]
    /\ free' = free \cup {resource[w]}
    /\ UNCHANGED <<pages, index, resource, replaced, overdue, pageFaults>>
\* The page asked for a repair, or is too old.
CloseToRepair(w) ==
    /\ stage[w] = "working"
    /\ stage' = [stage EXCEPT ![w] = "closing"]
    /\ UNCHANGED <<pages, free, index, resource, replaced, overdue, pageFaults>>

Replace_Unmarked(old) ==
    LET new == Cardinality(Made) + 1 IN
    /\ new <= MaxPages
    /\ index' = [p \in Made \cup {new} |-> IF p = new THEN index[old] ELSE index[p]]
    /\ pages' = [pages EXCEPT ![index[old]] = new]
    /\ UNCHANGED free
\* repairPage, once the new page is there.
Replace(old) ==
    LET new == Cardinality(Made) + 1 IN
    /\ new <= MaxPages
    /\ index' = [p \in Made \cup {new} |-> IF p = new THEN index[old] ELSE index[p]]
    /\ pages' = [pages EXCEPT ![index[old]] = new]
    /\ free' = free \cup {new}

Replacing(w) == stage[w] \in {"closing", "repairing"}

PageIsReplaced(w) ==
    /\ Replacing(w) /\ w \notin replaced
    /\ Replace(resource[w])
    /\ replaced' = replaced \cup {w}
    /\ UNCHANGED <<stage, resource, overdue, pageFaults>>

OldPageCloses(w) ==
    /\ Replacing(w) /\ w \in replaced
    /\ stage' = [stage EXCEPT ![w] = "idle"]
    /\ replaced' = replaced \ {w}
    /\ UNCHANGED <<pages, free, index, resource, overdue, pageFaults>>

PageFault == pageFaults < MaxPageFaults /\ pageFaults' = pageFaults + 1

\* No new page, or the old one does not close: the close fails and the worker
\* is repaired, with the page of its job; when the repair fails, the worker is
\* never handed a job again.
ReplacementFails(w) ==
    /\ PageFault
    /\ Replacing(w)
    /\ stage' = [stage EXCEPT ![w] = IF @ = "closing" THEN "repairing" ELSE "lost"]
    /\ replaced' = replaced \ {w}
    /\ UNCHANGED <<pages, free, index, resource, overdue>>

\* The worker is repaired while its close goes on.
CloseTimesOut(w) ==
    /\ PageFault
    /\ stage[w] = "closing"
    /\ stage' = [stage EXCEPT ![w] = "repairing"]
    /\ overdue' = IF w \in replaced THEN overdue ELSE overdue \cup {resource[w]}
    /\ replaced' = replaced \ {w}
    /\ UNCHANGED <<pages, free, index, resource>>

OverduePageIsReplaced ==
    \E old \in overdue :
        /\ Replace(old)
        /\ overdue' = overdue \ {old}
        /\ UNCHANGED <<stage, resource, replaced, pageFaults>>

PagesNext ==
    \/ \E w \in Workers :
        \/ JobStarts(w) \/ JobEnds(w) \/ CloseToRepair(w)
        \/ PageIsReplaced(w) \/ OldPageCloses(w)
        \/ ReplacementFails(w) \/ CloseTimesOut(w)
    \/ OverduePageIsReplaced

PagesSpec == PagesInit /\ [][PagesNext]_pageVars

-----------------------------------------------------------------------------
Idle == {w \in Workers : stage[w] = "idle"}
Busy == {w \in Workers : stage[w] \in {"working", "closing", "repairing"}}

\* Whatever fails or takes too long in the replacing of pages, there is a free
\* page for each worker that may be handed a job: "no free pages!" is never
\* said (ReusablePage.ts:119-128), which matters because the repair that follows
\* it would replace a page that another job uses.
PagesNeverRunOut == Cardinality(Idle) <= Cardinality(FreeIndexes)

\* A job has its page for itself: no other worker holds it or is replacing it,
\* and no worker can be given it (ReusablePage.ts:130-145, 151-182).
PageIsOfOneJob ==
    \A w \in Workers : stage[w] = "working" =>
        /\ resource[w] \notin free
        /\ \A v \in Busy \ {w} : resource[v] # resource[w]
        /\ resource[w] \notin overdue
=============================================================================
