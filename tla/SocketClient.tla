---------------------------- MODULE SocketClient ----------------------------
(***************************************************************************)
(* The page's websocket: src/frontend/src/app/services/websocket.service.ts*)
(* with what the server keeps for a connection and answers                 *)
(* (src/backend/src/api/websocket-handler.ts, setupConnectionHandling).    *)
(*                                                                         *)
(* The page asks for topics and tracks a transaction and a projected       *)
(* block.  After an error, or a ping without an answer, it connects again  *)
(* and, at the first message, asks again.  A connection may break with an  *)
(* error, or go silent.  Of an address, an asset or the replacements that  *)
(* a component follows the service keeps no record: an address or an asset *)
(* is followed again when its component has fetched it once more, the      *)
(* replacements are not.                                                   *)
(*                                                                         *)
(* Abstracted: the contents of answers and of what the server pushes; a    *)
(* tracked transaction is neither replaced nor confirmed; a connection     *)
(* that the server closes in order.  The queue of messages sent before the *)
(* connection is open, and what a subscription is told, are those of       *)
(* rxjs/webSocket, which is not part of the repository.                    *)
(***************************************************************************)
EXTENDS Naturals, Sequences

CONSTANTS
    Wants,        \* topic lists that components ask for
    Tracked,      \* projected blocks that components track
    Others,       \* what components follow through track-address, track-asset, track-rbf
    Refetched,    \* the addresses and assets of them
    Fragile,      \* the assets of them
    MaxRequests,  \* bound: requests of components
    MaxBreaks,    \* bound: connections that break, go silent or answer a ping late
    MaxSwitches   \* bound: changes of the network

NoWant == "none"
NoBlock == "no block"

ASSUME SocketClientAssumption ==
    /\ NoWant \notin Wants /\ NoBlock \notin Tracked
    /\ Refetched \subseteq Others /\ Fragile \subseteq Refetched
    /\ {MaxRequests, MaxBreaks, MaxSwitches} \subseteq Nat

VARIABLES
    lastWant,
    trackingTx,     \* isTrackingTx
    trackingBlock,  \* trackingMempoolBlock, NoBlock when isTrackingMempoolBlock is not set
    others,         \* of Others, what components follow
    refetching,     \* of Refetched, what components fetch again
    deaf,           \* of Fragile, what no component would fetch again
    goneOffline,
    subscriptions,  \* how many the current websocketSubject has
    retries,        \* timers of goOffline that run
    onlineCheck,    \* "off", "ping" (onlineCheckTimeout runs), "pong" (onlineCheckTimeoutTwo)
    link,           \* "none", "connecting", "open", "silent"
    outgoing,       \* messages to the server: the queue before the connection is open
    answers,        \* messages from the server that are under way
    session,        \* what the server keeps for the connection
    requests, breaks, switches,  \* counters for the bounds
    dropped,        \* history: what is followed, but may not have been asked again
                    \* since the connection it was asked on was lost
    switched,       \* history: the network was changed, and nothing was asked again since
    switchedOffline \* history: it was changed while a retry was due

askedVars == <<lastWant, trackingTx, trackingBlock, others>>
fetchVars == <<refetching, deaf>>
againVars == <<fetchVars, dropped>>
retryVars == <<goneOffline, subscriptions, retries, onlineCheck>>
linkVars == <<link, outgoing, answers, session>>
countVars == <<requests, breaks, switches>>
clientVars == <<askedVars, againVars, retryVars, linkVars, countVars, switched, switchedOffline>>

NoSession == [want |-> NoWant, tx |-> FALSE, block |-> NoBlock, others |-> {}]
Message(action, data) == [action |-> action, data |-> data]

ClientInit ==
    /\ lastWant = NoWant /\ trackingTx = FALSE /\ trackingBlock = NoBlock
    /\ others = {} /\ refetching = {} /\ deaf = {} /\ dropped = {}
    /\ goneOffline = FALSE /\ subscriptions = 1 /\ retries = 0 /\ onlineCheck = "off"
    /\ link = "connecting" /\ outgoing = <<Message("init", NoWant)>> /\ answers = <<>>
    /\ session = NoSession
    /\ requests = 0 /\ breaks = 0 /\ switches = 0
    /\ switched = FALSE /\ switchedOffline = FALSE

-----------------------------------------------------------------------------
(* Requests of components *)

Ask == requests < MaxRequests /\ requests' = requests + 1
Send(messages) == outgoing' = outgoing \o messages

Asked == UNCHANGED <<againVars, retryVars, link, answers, session, breaks, switches, switched, switchedOffline>>

\* want(data): not sent again when it is what was asked last.
Want(w) ==
    /\ Ask /\ w # lastWant
    /\ lastWant' = w
    /\ Send(<<Message("want", w)>>)
    /\ Asked /\ UNCHANGED <<trackingTx, trackingBlock, others>>

StartTrackTransaction ==
    /\ Ask /\ ~trackingTx
    /\ trackingTx' = TRUE
    /\ Send(<<Message("track-tx", TRUE)>>)
    /\ Asked /\ UNCHANGED <<lastWant, trackingBlock, others>>

StopTrackingTransaction ==
    /\ Ask /\ trackingTx
    /\ trackingTx' = FALSE
    /\ Send(<<Message("track-tx", FALSE)>>)
    /\ Asked /\ UNCHANGED <<lastWant, trackingBlock, others>>

\* startTrackMempoolBlock, and stopTrackMempoolBlock for NoBlock.
TrackMempoolBlock(b) ==
    /\ Ask
    /\ trackingBlock' = b
    /\ Send(<<Message("track-mempool-block", b)>>)
    /\ Asked /\ UNCHANGED <<lastWant, trackingTx, others>>

\* startTrackAddress, startTrackAsset, startTrackRbf: sent, and no more.
Follow(o) ==
    /\ Ask /\ o \notin others
    /\ others' = others \cup {o} /\ dropped' = dropped \ {o}
    /\ Send(<<Message("follow", o)>>)
    /\ UNCHANGED <<lastWant, trackingTx, trackingBlock, fetchVars, retryVars, link, answers, session,
                   breaks, switches, switched, switchedOffline>>

\* The component is left, and what it was fetching.
Unfollow(o) ==
    /\ Ask /\ o \in others
    /\ others' = others \ {o} /\ dropped' = dropped \ {o}
    /\ refetching' = refetching \ {o} /\ deaf' = deaf \ {o}
    /\ Send(<<Message("unfollow", o)>>)
    /\ UNCHANGED <<lastWant, trackingTx, trackingBlock, retryVars, link, answers, session,
                   breaks, switches, switched, switchedOffline>>

\* The component has fetched the address or the asset again, and asks again.
AskAgain(o) ==
    /\ o \in refetching
    /\ refetching' = refetching \ {o} /\ dropped' = dropped \ {o}
    /\ Send(<<Message("follow", o)>>)
    /\ UNCHANGED <<askedVars, deaf, retryVars, link, answers, session, countVars, switched, switchedOffline>>

\* The fetch fails, or none was made because the page had no transactions yet:
\* nothing is asked until another connection.  Nor then, for an asset: the error
\* ends what its component is subscribed to.
AskAgainFails(o) ==
    /\ o \in refetching
    /\ refetching' = refetching \ {o} /\ dropped' = dropped \cup {o}
    /\ \/ deaf' = deaf
       \/ o \in Fragile /\ deaf' = deaf \cup {o}
    /\ UNCHANGED <<askedVars, retryVars, linkVars, countVars, switched, switchedOffline>>

-----------------------------------------------------------------------------
(* The connection *)

\* Another network: the old subject is completed and a new one subscribed to.
\* A retry that is due stays due.
SwitchNetwork ==
    /\ switches < MaxSwitches /\ switches' = switches + 1
    /\ onlineCheck' = "off"
    /\ link' = "connecting" /\ outgoing' = <<Message("init", NoWant)>> /\ answers' = <<>>
    /\ session' = NoSession
    /\ subscriptions' = 1
    /\ switched' = TRUE /\ switchedOffline' = (switchedOffline \/ retries > 0)
    /\ dropped' = dropped \cup others
    /\ UNCHANGED <<askedVars, fetchVars, goneOffline, retries, requests, breaks>>

Connected ==
    /\ link = "connecting"
    /\ link' = "open"
    /\ UNCHANGED <<askedVars, againVars, retryVars, outgoing, answers, session, countVars, switched, switchedOffline>>

\* The server's message handler: it sets the fields of the connection.
Handled(s, m) ==
    CASE m.action = "want" -> [s EXCEPT !.want = m.data]
      [] m.action = "track-tx" -> [s EXCEPT !.tx = m.data]
      [] m.action = "track-mempool-block" -> [s EXCEPT !.block = m.data]
      [] m.action = "follow" -> [s EXCEPT !.others = @ \cup {m.data}]
      [] m.action = "unfollow" -> [s EXCEPT !.others = @ \ {m.data}]
      [] OTHER -> s

\* It answers init once the server has blocks, ping, and the tracking of a
\* block; the answer to track-tx is empty when it knows nothing of the
\* transaction.
MayAnswer(m) ==
    \/ m.action \in {"init", "ping"}
    \/ m.action = "track-mempool-block" /\ m.data # NoBlock
MayIgnore(m) == m.action = "init" \/ ~MayAnswer(m)

ServerHandles ==
    /\ link = "open" /\ outgoing # <<>>
    /\ LET m == Head(outgoing) IN
        /\ session' = Handled(session, m)
        /\ \/ MayAnswer(m) /\ answers' = Append(answers, m.action)
           \/ MayIgnore(m) /\ answers' = answers
    /\ outgoing' = Tail(outgoing)
    /\ UNCHANGED <<askedVars, againVars, retryVars, link, countVars, switched, switchedOffline>>

\* Loading indicators and conversion rates go to every connection.  Left out
\* where the page is not offline and they only put its next ping off.
ServerPushes ==
    /\ link = "open" /\ goneOffline /\ answers = <<>>
    /\ answers' = <<"push">>
    /\ UNCHANGED <<askedVars, againVars, retryVars, link, outgoing, session, countVars, switched, switchedOffline>>

\* The first message after the page was offline: ask again.
Resubscription ==
    (IF lastWant # NoWant THEN <<Message("want", lastWant)>> ELSE <<>>)
    \o (IF trackingTx THEN <<Message("track-tx", TRUE)>> ELSE <<>>)
    \o (IF trackingBlock # NoBlock THEN <<Message("track-mempool-block", trackingBlock)>> ELSE <<>>)

\* What is fetched again when the connection comes back.
Heard == (others \cap Refetched) \ deaf

ReceiveAnswer_Forgetful ==
    /\ link = "open" /\ answers # <<>>
    /\ answers' = Tail(answers)
    /\ goneOffline' = FALSE
    /\ onlineCheck' = "ping"
    /\ UNCHANGED <<askedVars, againVars, subscriptions, retries, link, outgoing, session, countVars,
                   switched, switchedOffline>>
\* The subscription's handler, for each of the subscriptions.  The components
\* of addresses and assets see the connection come back, and fetch.
ReceiveAnswer ==
    /\ link = "open" /\ answers # <<>>
    /\ answers' = Tail(answers)
    /\ IF goneOffline
       THEN /\ Send(Resubscription) /\ switched' = FALSE
            /\ refetching' = Heard /\ dropped' = dropped \ Heard /\ deaf' = deaf
       ELSE UNCHANGED <<outgoing, switched, againVars>>
    /\ goneOffline' = FALSE
    /\ onlineCheck' = "ping"
    /\ UNCHANGED <<askedVars, subscriptions, retries, link, session, countVars, switchedOffline>>

\* The connection or the attempt fails: each subscription gets the error and
\* goes offline.  What was queued or under way is lost, and what nobody asks
\* again.
Lost == dropped' = dropped \cup (others \ Heard)

LinkFails ==
    /\ link' = "none" /\ outgoing' = <<>> /\ answers' = <<>> /\ session' = NoSession
    /\ goneOffline' = TRUE
    /\ retries' = retries + subscriptions /\ subscriptions' = 0
    /\ Lost

LinkBreaks ==
    /\ breaks < MaxBreaks /\ breaks' = breaks + 1
    /\ link \in {"connecting", "open"}
    /\ LinkFails
    /\ UNCHANGED <<askedVars, fetchVars, onlineCheck, requests, switches, switched, switchedOffline>>

\* From here nothing comes through, and no error is seen.
LinkGoesSilent ==
    /\ breaks < MaxBreaks /\ breaks' = breaks + 1
    /\ link = "open"
    /\ link' = "silent" /\ answers' = <<>>
    /\ UNCHANGED <<askedVars, againVars, retryVars, outgoing, session, requests, switches, switched, switchedOffline>>

\* A browser gives up a silent connection at some time; only where the page
\* does not check for itself does it depend on that.
BrowserGivesUp ==
    /\ link = "silent" /\ onlineCheck = "off"
    /\ LinkFails
    /\ UNCHANGED <<askedVars, fetchVars, onlineCheck, countVars, switched, switchedOffline>>

\* startSubscription(true)
RetryFires ==
    /\ retries > 0
    /\ retries' = retries - 1
    /\ subscriptions' = subscriptions + 1
    /\ Send(<<Message("init", NoWant)>>)
    /\ link' = IF link = "none" THEN "connecting" ELSE link
    /\ UNCHANGED <<askedVars, againVars, goneOffline, onlineCheck, answers, session, countVars,
                   switched, switchedOffline>>

\* OFFLINE_PING_CHECK_AFTER_MS without a message.
PingFires ==
    /\ onlineCheck = "ping"
    /\ onlineCheck' = "pong"
    /\ Send(<<Message("ping", NoWant)>>)
    /\ UNCHANGED <<askedVars, againVars, goneOffline, subscriptions, retries, link, answers, session,
                   countVars, switched, switchedOffline>>

CheckEnds == onlineCheck = "pong" /\ onlineCheck' = "off"

\* The connection is closed and the page goes offline.  Other subscriptions, if
\* there are any, see an orderly close, or an error.  On an open connection the
\* answer is only late.
ForceClose ==
    /\ link = "open" => breaks < MaxBreaks
    /\ breaks' = IF link = "open" THEN breaks + 1 ELSE breaks
    /\ link' = "none" /\ outgoing' = <<>> /\ answers' = <<>> /\ session' = NoSession
    /\ goneOffline' = TRUE
    /\ subscriptions' = 0 /\ Lost
    /\ \E failed \in {n \in {0, subscriptions - 1} : n >= 0} : retries' = retries + 1 + failed
    /\ UNCHANGED <<askedVars, fetchVars, requests, switches, switched, switchedOffline>>

PongTimeout_Unchecked == CheckEnds /\ ForceClose
\* EXPECT_PING_RESPONSE_AFTER_MS after a ping; nothing when the page is already
\* offline.
PongTimeout ==
    /\ CheckEnds
    /\ IF goneOffline
       THEN UNCHANGED <<askedVars, againVars, linkVars, goneOffline, subscriptions, retries, countVars,
                        switched, switchedOffline>>
       ELSE ForceClose

-----------------------------------------------------------------------------
PageAsks ==
    \/ \E w \in Wants : Want(w)
    \/ StartTrackTransaction \/ StopTrackingTransaction
    \/ \E b \in Tracked \cup {NoBlock} : TrackMempoolBlock(b)
    \/ \E o \in Others : Follow(o) \/ Unfollow(o)

LinkStep == Connected \/ BrowserGivesUp \/ ServerHandles
CheckStep == PingFires \/ PongTimeout
FetchEnds == \E o \in Refetched : AskAgain(o) \/ AskAgainFails(o)

ClientNext ==
    \/ PageAsks \/ SwitchNetwork
    \/ LinkStep \/ ServerPushes \/ ReceiveAnswer \/ FetchEnds
    \/ LinkBreaks \/ LinkGoesSilent
    \/ RetryFires \/ CheckStep

\* Fairness: connections are made or fail, messages are delivered, the server
\* pushes its rates now and then, timers fire and fetches end.
\* (No two actions of LinkStep are enabled in one state, nor of CheckStep.)
ClientFairness ==
    /\ WF_clientVars(LinkStep) /\ WF_clientVars(ReceiveAnswer)
    /\ WF_clientVars(RetryFires) /\ WF_clientVars(CheckStep)
    /\ WF_clientVars(ServerPushes) /\ WF_clientVars(FetchEnds)

ClientSpec == ClientInit /\ [][ClientNext]_clientVars /\ ClientFairness

-----------------------------------------------------------------------------
\* However errors, silent connections, pings and retries meet, the page has one
\* subscription or one retry due, and not two that double at each error; but
\* for a change of the network while a retry is due
\* (websocket.service.ts:63-80, 92-121, 199-223).
SubscribedOnce == ~switchedOffline => subscriptions + retries = 1

SessionIsAsked ==
    /\ lastWant # NoWant => session.want = lastWant
    /\ trackingTx <=> session.tx
    /\ session.block = trackingBlock
    /\ others \ dropped \subseteq session.others /\ session.others \subseteq others

\* In the end the server sends what the page wants: the last connection's
\* session has the topics, the transaction and the block that components asked
\* for, on whatever connection they did and whatever was lost, and the address
\* or asset whose fetch came back.  Not what it wanted before a change of the
\* network, after which nothing is asked again; and the replacements followed on
\* a connection that was lost, and an address whose fetch failed, are missing
\* until the component asks anew (websocket.service.ts:97-109, 147-182,
\* websocket-handler.ts:97-203, address.component.ts:82-109,
\* asset.component.ts:76-153).
SessionFollows == <>[](~switched => SessionIsAsked)
=============================================================================
