-------------------------------- MODULE Gcra --------------------------------
(***************************************************************************)
(* gcra.rs and the StateSnapshot of middleware.rs: the decision function   *)
(* of the Generic Cell Rate Algorithm.  It is pure: the state it reads and *)
(* replaces is one u64, the theoretical arrival time (tat) of the next     *)
(* cell in nanoseconds since the limiter was created, and the word 0 means *)
(* that no cell was ever measured.                                         *)
(***************************************************************************)
EXTENDS Quota

(* Gcra::new: the weight of one cell and the tolerance beyond it. *)
GcraNew(q) ==
  LET t == MaxOf(q.replenish_1_per, 1)
  IN  [t |-> t, tau |-> Mul(t, q.max_burst - 1)]

(* NonZeroU64::new(word) in the store, unwrap_or(t0) in the closure. *)
Tat(word, t0) == IF word = 0 THEN t0 ELSE word

(* The weight of the cells of a batch beyond its first, and whether the    *)
(* batch is larger than the bucket; a lone `check` has no additional cells.*)
(* Faulty: charges the first cell of the batch twice. *)
AdditionalWeightTwice(g, n) == Mul(g.t, n)

AdditionalWeight(g, n) == Mul(g.t, n - 1)

(* Faulty: compares the batch beyond its first cell with t + tau. *)
ExceedsCapacityByOne(g, add) == add > g.tau + g.t

ExceedsCapacity(g, add) == add > g.tau

Capacity(g) == 1 + AsU32(g.tau \div g.t)

(* Faulty: wants room for a cell more than was asked for. *)
EarliestTimeLate(g, tat, add) ==
  SaturatingSub(Add(Add(tat, add), g.t), g.tau)

EarliestTime(g, tat, add) == SaturatingSub(Add(tat, add), g.tau)

(* Faulty: an unused bucket drains below empty; the stored tat is lost.    *)
NextTatFromTat(g, tat, t0, add) == Add(Add(tat, g.t), add)

NextTatFromT0(g, tat, t0, add) == Add(Add(t0, g.t), add)

NextTat(g, tat, t0, add) == Add(Add(MaxOf(tat, t0), g.t), add)

Snapshot(g, time_of_measurement, tat) ==
  [t |-> g.t, tau |-> g.tau,
   time_of_measurement |-> time_of_measurement, tat |-> tat]

(* Faulty: a refusal reports the tat, not the earliest conforming time. *)
DecisionReportingTat(g, word, t0, add) ==
  LET tat == Tat(word, t0)
  IN  IF t0 < EarliestTime(g, tat, add)
      THEN [ok |-> FALSE, state |-> Snapshot(g, tat, tat)]
      ELSE [ok |-> TRUE, state |-> Snapshot(g, t0, NextTat(g, tat, t0, add))]

(* The closure that measure_and_replace applies to the stored word: a cell *)
(* (or batch) that comes too early is refused with the earliest time it    *)
(* could come, any other moves the tat forward.                            *)
Decision(g, word, t0, add) ==
  LET tat      == Tat(word, t0)
      earliest == EarliestTime(g, tat, add)
  IN  IF t0 < earliest
      THEN [ok |-> FALSE, state |-> Snapshot(g, earliest, earliest)]
      ELSE [ok |-> TRUE, state |-> Snapshot(g, t0, NextTat(g, tat, t0, add))]

-----------------------------------------------------------------------------
(* What a caller reads off an outcome. *)

(* Faulty: counts the tolerance only. *)
RemainingBurstCapacityShort(s) ==
  AsU32(MinOf(SaturatingSub(Add(s.time_of_measurement, s.tau), s.tat),
              s.tau) \div s.t)

RemainingBurstCapacity(s) ==
  AsU32(MinOf(SaturatingSub(Add(Add(s.time_of_measurement, s.tau), s.t), s.tat),
              Add(s.tau, s.t)) \div s.t)

SnapshotQuota(s) == FromGcraParameters(s.t, s.tau)

EarliestPossible(start, s) == Add(start, s.tat)

WaitTimeFrom(start, s, from) ==
  LET earliest == EarliestPossible(start, s)
  IN  SaturatingSub(earliest, MinOf(earliest, from))
=============================================================================
