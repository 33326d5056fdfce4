--------------------------- MODULE MCCombinators ---------------------------
(* Model-checking instance of Combinators. *)
EXTENDS Combinators
=============================================================================
