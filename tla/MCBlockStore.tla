---------------------------- MODULE MCBlockStore ----------------------------
(***************************************************************************)
(* TLC instances of BlockStore: two labels are enough for a branch and the *)
(* one that replaces it, and for a return to the first.                    *)
(***************************************************************************)
EXTENDS BlockStore
CONSTANTS b1, b2, r1, r2
=============================================================================
