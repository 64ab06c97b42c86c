--------------------------- MODULE MCTxSelection ---------------------------
(* One mempool of six transactions: 5 spends 1, 2 spends 5, 3 and 4 spend 6. *)
EXTENDS TxSelection

OnePool == {[inputs |-> <<<<>>, <<5>>, <<6>>, <<6>>, <<1>>, <<>>>>,
             fee |-> <<2, 1, 4, 1, 4, 4>>, weight |-> <<3, 3, 1, 2, 2, 3>>]}
=============================================================================
