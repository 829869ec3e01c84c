------------------------------- MODULE Common -------------------------------
(* What the modules of the smaller components share. *)

CONSTANT None     \* a missing row, a column that is NULL
=============================================================================
