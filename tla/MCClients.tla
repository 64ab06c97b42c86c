----------------------------- MODULE MCClients -----------------------------
(***************************************************************************)
(* The page's websocket, and the replacement cache that tells the pages    *)
(* what changed: a behaviour is one of the two, the other stays in its     *)
(* initial state.                                                          *)
(***************************************************************************)
EXTENDS MCRbfCache, SocketClient

VARIABLE side

clientsVars == <<side, vars, clientVars>>

ClientsInit == side \in {"page", "cache"} /\ Init /\ ClientInit

ClientsNext ==
    \/ side = "cache" /\ Next /\ UNCHANGED <<side, clientVars>>
    \/ side = "page" /\ ClientNext /\ UNCHANGED <<side, vars>>

\* The fairness of SocketClient; what is checked of the cache needs none.
ClientsSpec == ClientsInit /\ [][ClientsNext]_clientsVars /\ (side = "page" => ClientFairness)
=============================================================================
