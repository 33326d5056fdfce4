---------------------------- MODULE MCFakeClock ----------------------------
(* Model-checking instance of FakeClock. *)
EXTENDS FakeClock
=============================================================================
