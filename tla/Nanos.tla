------------------------------- MODULE Nanos -------------------------------
(***************************************************************************)
(* nanos.rs: durations and points in time as an unsigned 64-bit count of   *)
(* nanoseconds.  The width is a parameter, so that TLC can reach its edge: *)
(* U64 stands for 2^64 and U32 for 2^32.                                   *)
(*                                                                         *)
(* Sums and products are those of a release build, which wraps.  A build   *)
(* with overflow checks panics instead; the two builds differ only where a *)
(* sum or product leaves the type, and the invariants named NoOverflow of  *)
(* the modules that use this one say where that cannot happen.             *)
(***************************************************************************)
EXTENDS Naturals

CONSTANTS U64, U32

ASSUME WidthAssumption ==
  /\ U64 \in Nat \ {0}
  /\ U32 \in Nat \ {0}

Nanos == 0 .. U64 - 1

(* The sum of two u64 wraps at most once. *)
Add(a, b) == IF a + b < U64 THEN a + b ELSE a + b - U64

Mul(a, k) == IF a * k < U64 THEN a * k ELSE (a * k) % U64

SaturatingSub(a, b) == IF a <= b THEN 0 ELSE a - b

(* core::cmp::max and min, and the truncating cast `as u32`. *)
MaxOf(a, b) == IF a <= b THEN b ELSE a

MinOf(a, b) == IF a <= b THEN a ELSE b

AsU32(a) == a % U32
=============================================================================
