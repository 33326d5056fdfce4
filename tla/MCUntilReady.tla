---------------------------- MODULE MCUntilReady ----------------------------
(* Model-checking instance of UntilReady. *)
EXTENDS UntilReady
=============================================================================
