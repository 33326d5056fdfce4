------------------------------- MODULE Quota -------------------------------
(***************************************************************************)
(* quota.rs: how many cells a limiter lets through in one burst, and how   *)
(* long it takes to win back a single one.  `Second` is the number of      *)
(* nanoseconds in a second (10^9 in the code, scaled down for TLC).        *)
(***************************************************************************)
EXTENDS Nanos

CONSTANT Second

ASSUME SecondAssumption == Second \in Nat \ {0}

(* What a fallible constructor returns instead of a quota. *)
None == [max_burst |-> 0, replenish_1_per |-> 0]

PerUnit(unit, b) == [max_burst |-> b, replenish_1_per |-> unit \div b]

PerSecond(b) == PerUnit(Second, b)

PerMinute(b) == PerUnit(60 * Second, b)

PerHour(b) == PerUnit(3600 * Second, b)

WithPeriod(period) ==
  IF period = 0 THEN None ELSE [max_burst |-> 1, replenish_1_per |-> period]

AllowBurst(q, b) == [q EXCEPT !.max_burst = b]

(* The deprecated Quota::new. *)
QuotaNew(b, all) == IF all = 0 THEN None ELSE PerUnit(all, b)

(* Faulty: the first cell of the burst is thought to be free. *)
BurstSizeReplenishedInShort(q) ==
  (q.replenish_1_per * (q.max_burst - 1)) % U64

(* The product is taken in 128 bits and then cut to 64. *)
BurstSizeReplenishedIn(q) == (q.replenish_1_per * q.max_burst) % U64

(* Faulty: forgets that tau holds one cell less than the burst. *)
FromGcraParametersShort(t, tau) ==
  [max_burst |-> AsU32(tau \div t), replenish_1_per |-> t]

FromGcraParameters(t, tau) ==
  [max_burst |-> 1 + AsU32(tau \div t), replenish_1_per |-> t]
=============================================================================
