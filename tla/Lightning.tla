----------------------------- MODULE Lightning -----------------------------
(***************************************************************************)
(* The rows of the table `channels` from opening to the reason of closing: *)
(* src/backend/src/tasks/lightning/network-sync.service.ts and             *)
(* forensics.service.ts, with the queries of api/explorer/channels.api.ts  *)
(* and the import of historical graphs (sync-tasks/stats-importer.ts).     *)
(*                                                                         *)
(* Three loops work on the table: the synchronisation with the node's      *)
(* graph, which saves channels, scans for closed ones once a block and     *)
(* gives new ones a reason; the forensics, which come back to force closes *)
(* that were not resolved; and the import.                                 *)
(*                                                                         *)
(* Abstracted: nodes, policies, capacities, balances and dates; an output  *)
(* of a closing is known by the kind of script that spends it in the end;  *)
(* a reorganisation of the chain.                                          *)
(***************************************************************************)
EXTENDS Naturals, FiniteSets

CONSTANTS
    Channels,
    Closing,       \* of each channel, whether its closing transaction looks like a
                   \* commitment, and the scripts that its outputs are spent by
    MaxImports,    \* bound: imports of historical graphs
    MaxLnFaults    \* bound: calls that fail, and restarts

\* What findLightningScript tells apart: 1; 2 and 4; the others.
Scripts == {"plain", "revocation", "lightning"}

ASSUME LightningAssumption ==
    /\ Closing \in [Channels -> [commitment : BOOLEAN, outputs : SUBSET Scripts]]
    /\ \A c \in Channels : Closing[c].commitment \/ Closing[c].outputs \subseteq {"plain"}
    /\ MaxImports \in Nat /\ MaxLnFaults \in Nat

VARIABLES
    spent,      \* channels whose closing transaction is in the chain
    swept,      \* of each channel, the outputs of its closing that are spent
    status,     \* "absent", "inactive" (0), "active" (1), "closed" (2)
    closingTx,  \* channels with a closing_transaction_id
    reason,     \* closing_reason, 0 for NULL
    resolved,   \* channels with closing_resolved
    scanned,    \* closedChannelsScanBlock is the current height
    step,       \* of the synchronisation: "idle", "save", "scan", "examine"
    todo,       \* channels left in the step
    graph,      \* channels in the graph of this synchronisation
    revisit,    \* unresolved channels left to the forensics
    importing,  \* channels left to the import
    imports, lnFaults,  \* counters for the bounds
    cut         \* history: channels closed by a scan that failed before closing_transaction_id

chainVars == <<spent, swept>>
rowVars == <<status, closingTx, reason, resolved>>
syncVars == <<scanned, step, todo, graph>>
otherVars == <<revisit, importing, imports>>
lnHistory == <<lnFaults, cut>>
lightningVars == <<chainVars, rowVars, syncVars, otherVars, lnHistory>>

LightningInit ==
    /\ spent = {} /\ swept = [c \in Channels |-> {}]
    /\ status = [c \in Channels |-> "absent"]
    /\ closingTx = {} /\ resolved = {} /\ reason = [c \in Channels |-> 0]
    /\ scanned = FALSE /\ step = "idle" /\ todo = {} /\ graph = {}
    /\ revisit = {} /\ importing = {} /\ imports = 0
    /\ lnFaults = 0 /\ cut = {}

-----------------------------------------------------------------------------
(* The chain *)

AllSwept(c) == swept[c] = Closing[c].outputs

\* In a block a channel may be closed, or an output of its closing be spent: one
\* by one, each by a transaction of its own and at a time of its own.
NewBlock ==
    /\ \/ UNCHANGED chainVars
       \/ \E c \in Channels \ spent : spent' = spent \cup {c} /\ UNCHANGED swept
       \/ \E c \in spent : \E s \in Closing[c].outputs \ swept[c] :
            swept' = [swept EXCEPT ![c] = @ \cup {s}] /\ UNCHANGED spent
    /\ scanned' = FALSE
    /\ UNCHANGED <<rowVars, step, todo, graph, otherVars, lnHistory>>

-----------------------------------------------------------------------------
(* The synchronisation *)

\* $updateChannelsList reads the closed channels first and saves the others of
\* the graph; an empty graph is asked again.
SyncStarts ==
    /\ step = "idle"
    /\ step' = "save"
    /\ graph' \in SUBSET Channels \ {{}}
    /\ todo' = {c \in graph' : status[c] # "closed"}
    /\ UNCHANGED <<chainVars, rowVars, scanned, otherVars, lnHistory>>

SaveChannel(c) ==
    /\ step = "save" /\ c \in todo
    /\ status' = [status EXCEPT ![c] = "active"]
    /\ todo' = todo \ {c}
    /\ UNCHANGED <<chainVars, closingTx, reason, resolved, scanned, step, graph, otherVars, lnHistory>>

NowInactive_EvenClosed(offline) ==
    [c \in Channels |->
        CASE status[c] # "absent" /\ c \notin graph -> "inactive"
          [] status[c] = "active" /\ c \in offline -> "inactive"
          [] OTHER -> status[c]]
\* $setChannelsInactive, $deactivateChannelsWithoutActiveNodes
NowInactive(offline) ==
    [c \in Channels |->
        IF status[c] = "active" /\ (c \notin graph \/ c \in offline) THEN "inactive" ELSE status[c]]

\* Then $scanForClosedChannels reads the channels to ask for, when there was a
\* block since the last scan; otherwise forensics are next.
Examinable == {c \in closingTx : status[c] = "closed" /\ reason[c] = 0}
ChannelsSaved ==
    /\ step = "save" /\ todo = {}
    /\ \E offline \in SUBSET Channels : status' = NowInactive(offline)
    /\ IF scanned THEN step' = "examine" /\ todo' = Examinable
       ELSE step' = "scan" /\ todo' = {c \in Channels : status'[c] \in {"inactive", "active"}}
    /\ UNCHANGED <<chainVars, closingTx, reason, resolved, scanned, graph, otherVars, lnHistory>>

ScanChannel(c) ==
    /\ step = "scan" /\ c \in todo
    /\ todo' = todo \ {c}
    /\ IF c \notin spent THEN UNCHANGED rowVars
       ELSE /\ status' = [status EXCEPT ![c] = "closed"]
            /\ closingTx' = closingTx \cup {c}
            /\ UNCHANGED <<reason, resolved>>
    /\ UNCHANGED <<chainVars, scanned, step, graph, otherVars, lnHistory>>

\* The block of the scan is the one of its end.
ScanEnds ==
    /\ step = "scan" /\ todo = {}
    /\ scanned' = TRUE
    /\ step' = "examine" /\ todo' = Examinable
    /\ UNCHANGED <<chainVars, rowVars, graph, otherVars, lnHistory>>

LnFault == lnFaults < MaxLnFaults /\ lnFaults' = lnFaults + 1

\* A call fails: the scan is given up, and made again after the next graph.
ScanFails ==
    /\ LnFault
    /\ step = "scan"
    /\ step' = "examine" /\ todo' = Examinable
    /\ UNCHANGED <<chainVars, rowVars, scanned, graph, otherVars, cut>>

\* The second of the two updates of a closed channel fails.
ScanIsCut ==
    /\ LnFault
    /\ step = "scan"
    /\ \E c \in (todo \cap spent) \ closingTx :
        /\ status' = [status EXCEPT ![c] = "closed"]
        /\ cut' = cut \cup {c}
    /\ step' = "examine" /\ todo' = Examinable
    /\ UNCHANGED <<chainVars, closingTx, reason, resolved, scanned, graph, otherVars>>

-----------------------------------------------------------------------------
(* Forensics *)

\* The reason that the scripts `seen` in spent outputs show: those without a
\* lightning script are left aside, and without any the closing transaction tells.
Verdict(c, seen) ==
    IF "revocation" \in seen THEN 3
    ELSE IF "lightning" \in seen \/ Closing[c].commitment THEN 2 ELSE 1

\* A force close is resolved by the first lightning script that is found.
Resolves(seen) == "lightning" \in seen /\ "revocation" \notin seen

\* closing_reason and closing_resolved are stored.
Judged(c, seen) ==
    /\ reason' = [reason EXCEPT ![c] = Verdict(c, seen)]
    /\ resolved' = IF Resolves(seen) THEN resolved \cup {c} ELSE resolved
    /\ UNCHANGED <<status, closingTx>>

\* A look at the outputs: all that are spent now; or some of their transactions
\* cannot be had, and these outputs are left aside; or the second of the two
\* updates fails.
Examined(c) ==
    \/ Judged(c, swept[c]) /\ UNCHANGED lnFaults
    \/ LnFault /\ \E seen \in SUBSET swept[c] \ {swept[c]} : Judged(c, seen)
    \/ /\ LnFault /\ Resolves(swept[c])
       /\ reason' = [reason EXCEPT ![c] = 2]
       /\ UNCHANGED <<status, closingTx, resolved>>

\* $runClosedChannelsForensics(true), after the scan.
ExamineNew(c) ==
    /\ step = "examine" /\ c \in todo
    /\ Examined(c)
    /\ todo' = todo \ {c}
    /\ UNCHANGED <<chainVars, scanned, step, graph, otherVars, cut>>

SyncEnds ==
    /\ step = "examine" /\ todo = {}
    /\ step' = "idle" /\ graph' = {}
    /\ UNCHANGED <<chainVars, rowVars, scanned, todo, otherVars, lnHistory>>

Unresolved_WithoutReason == Examinable
\* $getUnresolvedClosedChannels
Unresolved == {c \in closingTx \ resolved : status[c] = "closed" /\ reason[c] = 2}

\* $runClosedChannelsForensics(false), in a loop of its own.
ForensicsStart ==
    /\ revisit = {} /\ revisit' = Unresolved
    /\ UNCHANGED <<chainVars, rowVars, syncVars, importing, imports, lnHistory>>

Reexamine(c) ==
    /\ c \in revisit /\ revisit' = revisit \ {c}
    /\ Examined(c)
    /\ UNCHANGED <<chainVars, syncVars, importing, imports, cut>>

\* $getOutspends or the closing transaction cannot be had, or the first update
\* fails, in either loop.
ExamineSkips(c) ==
    /\ LnFault
    /\ \/ step = "examine" /\ c \in todo /\ todo' = todo \ {c} /\ UNCHANGED revisit
       \/ c \in revisit /\ revisit' = revisit \ {c} /\ UNCHANGED todo
    /\ UNCHANGED <<chainVars, rowVars, scanned, step, graph, importing, imports, cut>>

-----------------------------------------------------------------------------
(* The import of a historical graph, and restarts *)

\* The channels of the table are read once.
ImportStarts ==
    /\ imports < MaxImports /\ imports' = imports + 1
    /\ importing = {}
    /\ importing' \in SUBSET {c \in Channels : status[c] = "absent"}
    /\ UNCHANGED <<chainVars, rowVars, syncVars, revisit, lnHistory>>

\* Saved as inactive, whatever was saved since.
ImportSaves(c) ==
    /\ c \in importing /\ importing' = importing \ {c}
    /\ status' = [status EXCEPT ![c] = "inactive"]
    /\ UNCHANGED <<chainVars, closingTx, reason, resolved, syncVars, revisit, imports, lnHistory>>

RestartLightning ==
    /\ LnFault
    /\ scanned' = FALSE /\ step' = "idle" /\ todo' = {} /\ graph' = {}
    /\ revisit' = {} /\ importing' = {}
    /\ UNCHANGED <<chainVars, rowVars, imports, cut>>

-----------------------------------------------------------------------------
SyncStep ==
    \/ SyncStarts \/ ChannelsSaved \/ ScanEnds \/ SyncEnds
    \/ \E c \in Channels : SaveChannel(c) \/ ScanChannel(c) \/ ExamineNew(c)

ForensicsStep == ForensicsStart \/ \E c \in Channels : Reexamine(c)

LightningNext ==
    \/ NewBlock \/ SyncStep \/ ForensicsStep
    \/ ScanFails \/ ScanIsCut \/ RestartLightning
    \/ \E c \in Channels : ExamineSkips(c) \/ ImportSaves(c)
    \/ ImportStarts

\* The loops go on, and there are always further blocks.
LightningFairness ==
    WF_lightningVars(SyncStep) /\ WF_lightningVars(ForensicsStep) /\ WF_lightningVars(NewBlock)

LightningSpec == LightningInit /\ [][LightningNext]_lightningVars /\ LightningFairness

-----------------------------------------------------------------------------
\* A channel that was found closed is not opened again by a graph that still
\* shows it or no longer does; only the import, which saves what was unknown
\* when it began, can (network-sync.service.ts:122-154, channels.api.ts:669-689,
\* stats-importer.ts:103-131).
ClosedStaysClosed ==
    [][\A c \in Channels : status[c] = "closed" /\ c \notin importing => status'[c] = "closed"]_lightningVars

Explained(c) ==
    LET scripts == Closing[c].outputs IN
    /\ status[c] = "closed"
    /\ reason[c] = IF "revocation" \in scripts THEN 3 ELSE IF Closing[c].commitment THEN 2 ELSE 1
    /\ c \in resolved <=> Resolves(scripts)

\* "outputs contain revocation script? yes: force close w/ penalty = 3"
\* (forensics.service.ts:49-51): a channel whose forensics are over and one of
\* whose closing's outputs was spent by a revocation is held to be a penalty.
PenaltiesAreFound == \A c \in resolved : "revocation" \in swept[c] => reason[c] = 3

\* In the end each channel whose closing's outputs are all spent is known to be
\* closed, and why, though they are spent one by one between looks, a block may
\* come during a scan that already passed its channel, scans and looks fail and
\* the import opens it again (network-sync.service.ts:271-313,
\* forensics.service.ts:68-163). But for a channel whose closing transaction was
\* not written, which no loop comes back to, and for a penalty that was resolved
\* before its revocation was seen (PenaltiesAreFound).
ClosingsAreExplained ==
    <>[](\A c \in Channels \ cut :
            AllSwept(c) /\ c \in spent /\ status[c] # "absent" =>
                Explained(c) \/ (c \in resolved /\ "revocation" \in Closing[c].outputs))
=============================================================================
