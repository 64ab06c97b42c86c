----------------------------- MODULE MCRbfCache -----------------------------
(***************************************************************************)
(* TLC instances of RbfCache with returns and restarts; MCServices has the *)
(* one of a single process in which replacements merge.                    *)
(***************************************************************************)
EXTENDS RbfCache

\* Three versions of one payment, which compete with one another.
CompetingConflicts == {<<1, 2>>, <<1, 3>>, <<2, 3>>}

\* One payment, two of whose inputs are spent again by different ones.
SplittingConflicts == {<<1, 2>>, <<1, 3>>}
=============================================================================
