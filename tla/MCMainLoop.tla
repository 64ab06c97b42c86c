---------------------------- MODULE MCMainLoop ----------------------------
(***************************************************************************)
(* TLC instances of MainLoop.                                              *)
(***************************************************************************)
EXTENDS MainLoop, TLC

TxSymmetry == Permutations(Txs)
=============================================================================
