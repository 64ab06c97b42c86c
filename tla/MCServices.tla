----------------------------- MODULE MCServices -----------------------------
(***************************************************************************)
(* The components that share no state with one another, checked side by    *)
(* side: a behaviour is one of the component `part`, the others stay in    *)
(* their initial states.                                                   *)
(***************************************************************************)
EXTENDS DiskCache, HeapQueue, TxSelection, Templates, PagePool, MCLightning

CONSTANTS t1, t2, t3

VARIABLES part, rbf, rbfMempool, confirmed, seen, returns, change, told, load, missed, restarts

rbfVars == <<rbf, rbfMempool, confirmed, seen, returns, change, told, load, missed, restarts>>

\* The replacement cache of one process: two independent payments that a third
\* replaces at once, and a fourth that competes with all of them: chains,
\* merges and a mined older version.
MergingConflicts == {<<1, 3>>, <<2, 3>>, <<1, 4>>, <<2, 4>>, <<3, 4>>}
Replacements == INSTANCE RbfCache WITH
    Txs <- {1, 2, 3, 4}, Conflicts <- MergingConflicts, MaxReturns <- 0, MaxRestarts <- 0,
    mempool <- rbfMempool

InstanceMempools == {{}, {t1, t2, t3}}

\* A parent with three children; a diamond; chains against the numbers; two
\* parents with a common child; two families.
Shapes == {<<<<>>, <<1>>, <<2>>, <<3>>>>,
           <<<<>>, <<1>>, <<2, 1>>, <<1, 3>>>>,
           <<<<3, 4>>, <<4>>, <<>>, <<3>>>>,
           <<<<>>, <<>>, <<1, 2>>, <<2>>>>,
           <<<<>>, <<1>>, <<1>>, <<>>>>}
InstancePools == {[inputs |-> f, fee |-> g, weight |-> h] :
                    f \in Shapes, g \in [1..4 -> {1, 2, 5}], h \in [1..4 -> {1, 2}]}

servicesVars ==
    <<part, diskVars, heapVars, selectionVars, templateVars, pageVars, lightningVars, rbfVars>>

\* A step of one component.
InDisk(A) ==
    part = "disk" /\ A /\ UNCHANGED <<part, heapVars, selectionVars, templateVars, pageVars, lightningVars, rbfVars>>
InHeap(A) ==
    part = "heap" /\ A /\ UNCHANGED <<part, diskVars, selectionVars, templateVars, pageVars, lightningVars, rbfVars>>
InSelection(A) ==
    part = "selection" /\ A /\ UNCHANGED <<part, diskVars, heapVars, templateVars, pageVars, lightningVars, rbfVars>>
InTemplates(A) ==
    part = "templates" /\ A /\ UNCHANGED <<part, diskVars, heapVars, selectionVars, pageVars, lightningVars, rbfVars>>
InPages(A) ==
    part = "pages" /\ A /\ UNCHANGED <<part, diskVars, heapVars, selectionVars, templateVars, lightningVars, rbfVars>>
InRbf(A) ==
    part = "rbf" /\ A /\ UNCHANGED <<part, diskVars, heapVars, selectionVars, templateVars, pageVars, lightningVars>>
InLightning(A) ==
    part = "lightning" /\ A /\ UNCHANGED <<part, diskVars, heapVars, selectionVars, templateVars, pageVars, rbfVars>>

ServicesInit ==
    /\ part \in {"disk", "heap", "selection", "templates", "pages", "lightning", "rbf"}
    /\ DiskInit /\ HeapInit /\ SelectionInit /\ TemplatesInit /\ PagesInit /\ LightningInit
    /\ Replacements!Init

ServicesNext ==
    \/ InDisk(DiskNext)
    \/ InHeap(HeapNext)
    \/ InSelection(SelectionNext)
    \/ InTemplates(TemplatesNext)
    \/ InPages(PagesNext)
    \/ InLightning(LightningNext)
    \/ InRbf(Replacements!Next)

\* The fairness of each component's module, for the component that moves.
ServicesFairness ==
    /\ WF_diskVars(part = "disk" /\ SaveStep) /\ WF_diskVars(part = "disk" /\ LoopStep)
    /\ WF_templateVars(part = "templates" /\ ThreadStep) /\ WF_templateVars(part = "templates" /\ ReceiveStep)
    /\ WF_lightningVars(part = "lightning" /\ SyncStep) /\ WF_lightningVars(part = "lightning" /\ ForensicsStep)
    /\ WF_lightningVars(part = "lightning" /\ NewBlock)
    /\ WF_rbfVars(part = "rbf" /\ (Replacements!HandleRbf \/ Replacements!SendChanges))
    /\ WF_rbfVars(part = "rbf" /\ Replacements!Cleanup)

ServicesSpec == ServicesInit /\ [][ServicesNext]_servicesVars /\ ServicesFairness

-----------------------------------------------------------------------------
\* "don't remove a transaction if a newer version remains in the mempool"
\* (rbf-cache.ts:185).
NewerVersionKept == Replacements!NewerVersionKept

\* In the end a cached transaction has a version in the mempool
\* (rbf-cache.ts:166-202).
Forgotten == Replacements!Forgotten
=============================================================================
