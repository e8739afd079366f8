--------------------------- MODULE MCWorkingMemory ---------------------------
(* The working memory on a small instance for TLC: the budget is reached   *)
(* after a few tokens, so that compactions follow one another, and one     *)
(* chunk may be larger than the whole budget.                              *)
EXTENDS WorkingMemory
=============================================================================
