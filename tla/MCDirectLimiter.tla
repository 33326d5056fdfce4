-------------------------- MODULE MCDirectLimiter --------------------------
(* Model-checking instances of DirectLimiter. *)
EXTENDS DirectLimiter, TLC

CONSTANTS t1, t2

Two == {t1, t2}

Symmetry == Permutations(Threads)
=============================================================================
