----------------------- MODULE SnapshotLimiter_proofs -----------------------
(***************************************************************************)
(* What the numbers handed back to a caller say, for every quota whose     *)
(* bursts do not exhaust a u64: the snapshots are exact, the waits neither *)
(* too long nor too short, and the limiter is a leaky bucket.              *)
(*                                                                         *)
(* The hypotheses are the edges of the arithmetic, each where the code     *)
(* goes wrong beyond it.                                                   *)
(***************************************************************************)
EXTENDS SnapshotLimiter, Gcra_proofs, WellFoundedInduction

(* The weight of a cell (Gcra::new). *)
Weight(q) == MaxOf(q.replenish_1_per, 1)

(* The clock and two bursts fit into a u64. *)
QuotasFit ==
  \A q \in Quotas : MaxClock + 2 * (Weight(q) * q.max_burst) < U64

(* No quota asks for more than a cell each nanosecond. *)
NotTooFast == \A q \in Quotas : q.replenish_1_per >= 1

(* The weight of a batch does not wrap. *)
BatchesFit == \A q \in Quotas, n \in Sizes : Weight(q) * (n - 1) < U64

-----------------------------------------------------------------------------
(* The parameters of the limiter. *)

LEMMA ParamsType ==
  ASSUME QuotasFit, quota \in Quotas
  PROVE  LET b == quota.max_burst
         IN  /\ b \in 1 .. U32 - 1 /\ b \in Nat /\ b - 1 \in Nat
             /\ g = [t |-> g.t, tau |-> g.t * (b - 1)]
             /\ g.t = Weight(quota) /\ g.t \in Nat /\ g.t >= 1
             /\ g.tau = g.t * (b - 1) /\ g.tau \in Nat
             /\ g.t * b = g.tau + g.t
             /\ U64 \in Nat /\ U32 \in Nat
             /\ MaxClock \in Nat /\ Start \in 0 .. MaxClock
             /\ MaxClock + 2 * g.tau + 2 * g.t < U64
<1> DEFINE b == quota.max_burst
           t == Weight(quota)
<1>1. /\ quota.replenish_1_per \in Nat /\ b \in 1 .. U32 - 1
      /\ U64 \in Nat /\ U32 \in Nat
      /\ MaxClock \in Nat /\ Start \in 0 .. MaxClock
  BY CallerAssumption, WidthAssumption DEF Nanos
<1>2. t \in Nat /\ t >= 1
  BY <1>1 DEF Weight, MaxOf
<1>3. /\ b \in Nat /\ b - 1 \in Nat
      /\ t * (b - 1) \in Nat /\ t * b = t * (b - 1) + t
  <2>1. b \in Nat /\ b - 1 \in Nat /\ (b - 1) + 1 = b
    BY <1>1
  <2> QED
    BY <1>2, <2>1, DivisionExact
<1>4. MaxClock + 2 * (t * b) < U64
  BY DEF QuotasFit
<1>5. MaxClock + 2 * (t * (b - 1)) + 2 * t < U64
  BY <1>1, <1>2, <1>3, <1>4
<1>6. Mul(t, b - 1) = t * (b - 1)
  BY <1>1, <1>2, <1>3, <1>5 DEF Mul
<1>7. g = [t |-> t, tau |-> t * (b - 1)]
  BY <1>6 DEF g, GcraNew, Weight
<1>8. g.t = t /\ g.tau = t * (b - 1)
  BY <1>7
<1> QED
  BY <1>1, <1>2, <1>3, <1>5, <1>7, <1>8

LEMMA BatchWeight ==
  ASSUME QuotasFit, quota \in Quotas, NEW n \in Sizes \cup {1}
  PROVE  /\ n \in Nat /\ n >= 1 /\ n - 1 \in Nat /\ g.t * (n - 1) \in Nat
         /\ AdditionalWeight(g, n) \in Nat
         /\ n = 1 => AdditionalWeight(g, n) = 0
         /\ n <= quota.max_burst => AdditionalWeight(g, n) = g.t * (n - 1)
         /\ BatchesFit => AdditionalWeight(g, n) = g.t * (n - 1)
<1>1. n \in Nat /\ n >= 1 /\ n - 1 \in Nat
  BY CallerAssumption, WidthAssumption
<1>2. g.t * (n - 1) \in Nat
  BY <1>1, ParamsType
<1>3. AdditionalWeight(g, n) \in Nat
  BY <1>2, WidthAssumption DEF AdditionalWeight, Mul
<1>4. ASSUME g.t * (n - 1) < U64
      PROVE  AdditionalWeight(g, n) = g.t * (n - 1)
  BY <1>4 DEF AdditionalWeight, Mul
<1>5. ASSUME n = 1
      PROVE  AdditionalWeight(g, n) = 0 /\ g.t * (n - 1) = 0
  <2>1. g.t * (n - 1) = 0 /\ 0 < U64
    BY <1>5, ParamsType, WidthAssumption
  <2> QED
    BY <1>4, <2>1
<1>6. ASSUME n <= quota.max_burst
      PROVE  g.t * (n - 1) < U64
  <2>1. g.t * (n - 1) <= g.t * (quota.max_burst - 1)
    <3>1. /\ quota.max_burst - 1 \in Nat /\ n - 1 <= quota.max_burst - 1
          /\ g.t \in Nat /\ g.t >= 1
      BY <1>1, <1>6, ParamsType
    <3> QED
      BY <1>1, <3>1, WeightMonotone
  <2> QED
    BY <1>2, <2>1, ParamsType
<1>7. ASSUME BatchesFit
      PROVE  AdditionalWeight(g, n) = g.t * (n - 1)
  <2>1. CASE n \in Sizes
    <3>1. g.t * (n - 1) < U64
      BY <1>7, <2>1, ParamsType DEF BatchesFit
    <3> QED
      BY <1>4, <3>1
  <2> QED
    BY <1>5, <2>1
<1> QED
  BY <1>1, <1>2, <1>3, <1>4, <1>5, <1>6, <1>7

-----------------------------------------------------------------------------
(* The inductive invariant. *)

(* The tat is never further ahead than a full burst. *)
WordOK == word <= T0 + g.tau + g.t

(* What the last outcome says of the word, which is still the same. *)
OutOK ==
  /\ \E at, tat \in Nanos : out.state = Snapshot(g, at, tat)
  /\ out.kind = "not_until" =>
       LET add == AdditionalWeight(g, out.n)
       IN  /\ add <= g.tau
           /\ word # 0 /\ word + add > g.tau
           /\ out.state.tat = word + add - g.tau
  /\ (out.kind = "allowed" /\ out.state # NoState) =>
       /\ out.state.tat = word
       /\ out.state.time_of_measurement <= T0
       /\ word >= out.state.time_of_measurement + g.t
       /\ word <= out.state.time_of_measurement + g.tau + g.t

IInv == TypeOK /\ WordOK /\ OutOK

LEMMA SnapshotFields ==
  ASSUME NEW at, NEW tat
  PROVE  LET s == Snapshot(g, at, tat)
         IN  /\ s.t = g.t /\ s.tau = g.tau
             /\ s.time_of_measurement = at /\ s.tat = tat
BY DEF Snapshot

LEMMA ClockFacts ==
  ASSUME QuotasFit, TypeOK
  PROVE  /\ clock \in Nat /\ clock <= MaxClock /\ Start <= clock
         /\ T0 = clock - Start /\ T0 \in 0 .. MaxClock
         /\ word \in Nat
BY ParamsType DEF TypeOK, T0, SaturatingSub, Nanos

LEMMA DecisionNow ==
  ASSUME QuotasFit, TypeOK, WordOK, NEW add \in 0 .. g.tau
  PROVE  LET d   == Decision(g, word, T0, add)
             tat == Tat(word, T0)
         IN  /\ d.ok \in BOOLEAN
             /\ d.ok <=> tat + add <= T0 + g.tau
             /\ d.ok => d.state = Snapshot(g, T0, MaxOf(tat, T0) + g.t + add)
             /\ ~d.ok => d.state = Snapshot(g, tat + add - g.tau,
                                               tat + add - g.tau)
<1>1. quota \in Quotas
  BY DEF TypeOK
<1>2. /\ g = [t |-> g.t, tau |-> g.tau] /\ g.t \in Nat /\ g.tau \in Nat
      /\ MaxClock + 2 * g.tau + 2 * g.t < U64 /\ MaxClock \in Nat /\ U64 \in Nat
  BY <1>1, ParamsType
<1>3. /\ word \in Nat /\ T0 \in Nat /\ T0 <= MaxClock
      /\ word <= T0 + g.tau + g.t
  BY <1>2, ClockFacts DEF WordOK
<1>4. MaxOf(word, T0) + add < U64 /\ T0 + g.tau + g.t < U64
  BY <1>2, <1>3 DEF MaxOf
<1> QED
  BY <1>2, <1>3, <1>4, DecisionInBounds

LEMMA InitIInv ==
  ASSUME QuotasFit, Init
  PROVE  IInv
<1>1. quota \in Quotas
  BY DEF Init
<1>2. /\ Start \in 0 .. MaxClock /\ 0 \in Nanos
      /\ g.t \in Nat /\ g.tau \in Nat
  BY <1>1, ParamsType DEF Nanos
<1>3. out.kind = "none" /\ out.n = 1 /\ out.state = Snapshot(g, 0, 0)
  BY DEF Init, Outcome, NoState
<1>4. TypeOK
  <2>1. {out.state.time_of_measurement, out.state.tat} \subseteq Nanos
    BY <1>2, <1>3, SnapshotFields
  <2> QED
    BY <1>1, <1>2, <1>3, <2>1 DEF Init, TypeOK, Middlewares
<1>5. WordOK
  BY <1>2 DEF Init, WordOK, T0, SaturatingSub
<1>6. OutOK
  BY <1>2, <1>3 DEF OutOK
<1> QED
  BY <1>4, <1>5, <1>6 DEF IInv

-----------------------------------------------------------------------------
LEMMA AdvanceStep ==
  ASSUME QuotasFit, IInv, NEW by \in Steps, Advance(by)
  PROVE  /\ IInv'
         /\ clock' = clock + by /\ T0' = T0 + by /\ by \in Nat
<1> USE DEF IInv
<1>1. quota \in Quotas /\ g' = g
  BY DEF TypeOK, Advance, g
<1>2. by \in Nat /\ clock + by <= MaxClock /\ clock' = clock + by
  <2>1. by \in Nat
    BY CallerAssumption
  <2> QED
    BY <1>1, <2>1, ParamsType, ClockFacts DEF Advance, Add
<1>3. T0' = T0 + by
  BY <1>1, <1>2, ParamsType, ClockFacts DEF T0, SaturatingSub
<1>4. TypeOK'
  BY <1>1, <1>2, ParamsType, ClockFacts DEF TypeOK, Advance
<1>5. T0 \in Nat /\ word \in Nat /\ g.t \in Nat /\ g.tau \in Nat
  BY <1>1, ParamsType, ClockFacts
<1>6. UNCHANGED <<word, out>>
  BY DEF Advance
<1>7. WordOK'
  BY <1>1, <1>2, <1>3, <1>5, <1>6 DEF WordOK
<1>8. OutOK'
  <2>1. out.state.time_of_measurement \in Nat
    BY DEF TypeOK, Nanos
  <2>2. out.state.time_of_measurement <= T0 =>
          out.state.time_of_measurement <= T0'
    BY <1>2, <1>3, <1>5, <2>1
  <2> QED
    BY <1>1, <1>6, <2>2 DEF OutOK, NoState
<1> QED
  BY <1>2, <1>3, <1>4, <1>7, <1>8

LEMMA SameOut ==
  ASSUME IInv, UNCHANGED <<quota, clock, word, out>>,
         middleware' \in Middlewares
  PROVE  IInv'
<1>1. g' = g /\ T0' = T0
  BY DEF g, T0
<1> QED
  BY <1>1 DEF IInv, TypeOK, WordOK, OutOK, NoState

LEMMA RejectStep ==
  ASSUME QuotasFit, IInv, NEW n \in Sizes, RejectN(n)
  PROVE  IInv'
<1> USE DEF IInv
<1>1. quota \in Quotas /\ g' = g /\ T0' = T0 /\ 0 \in Nanos
  BY ParamsType DEF TypeOK, RejectN, g, T0, Nanos
<1>2. /\ out'.kind = "insufficient" /\ out'.n = n
      /\ out'.state = Snapshot(g, 0, 0)
  BY DEF RejectN, Outcome, NoState
<1>3. UNCHANGED <<quota, clock, word, middleware>>
  BY DEF RejectN
<1>4. TypeOK'
  BY <1>1, <1>2, <1>3, SnapshotFields DEF TypeOK
<1>5. WordOK'
  BY <1>1, <1>3 DEF WordOK
<1>6. OutOK'
  BY <1>1, <1>2 DEF OutOK
<1> QED
  BY <1>4, <1>5, <1>6

(* A check as it goes through or is refused.                                *)
LEMMA TestFacts ==
  ASSUME QuotasFit, IInv, NEW n \in Sizes \cup {1},
         ~ExceedsCapacity(g, AdditionalWeight(g, n)),
         TestAndUpdate(n, AdditionalWeight(g, n))
  PROVE  LET add == AdditionalWeight(g, n)
             tat == Tat(word, T0)
         IN  /\ quota \in Quotas /\ g' = g /\ T0' = T0 /\ add \in 0 .. g.tau
             /\ tat \in Nat /\ MaxOf(tat, T0) \in Nat
             /\ tat <= MaxOf(tat, T0) /\ T0 <= MaxOf(tat, T0)
             /\ out'.n = n
             /\ \/ /\ tat + add <= T0 + g.tau
                   /\ MaxOf(tat, T0) + add <= T0 + g.tau
                   /\ word' = MaxOf(tat, T0) + g.t + add
                   /\ out'.kind = "allowed"
                   /\ out'.state \in {NoState, Snapshot(g, T0, word')}
                \/ /\ ~(tat + add <= T0 + g.tau)
                   /\ tat = word /\ word # 0 /\ word' = word
                   /\ out'.kind = "not_until"
                   /\ out'.state = Snapshot(g, word + add - g.tau,
                                               word + add - g.tau)
<1> USE DEF IInv
<1> DEFINE add == AdditionalWeight(g, n)
           tat == Tat(word, T0)
           d   == Decision(g, word, T0, add)
<1>1. quota \in Quotas /\ g' = g /\ T0' = T0
  BY DEF TypeOK, TestAndUpdate, g, T0
<1>2. add \in 0 .. g.tau
  BY <1>1, BatchWeight, ParamsType DEF ExceedsCapacity
<1>3. word \in Nat /\ T0 \in Nat /\ g.t \in Nat /\ g.tau \in Nat
  BY <1>1, ParamsType, ClockFacts
<1>4. /\ tat = (IF word = 0 THEN T0 ELSE word)
      /\ MaxOf(tat, T0) \in Nat
      /\ tat <= MaxOf(tat, T0) /\ T0 <= MaxOf(tat, T0)
      /\ tat + add <= T0 + g.tau => MaxOf(tat, T0) + add <= T0 + g.tau
  BY <1>2, <1>3 DEF Tat, MaxOf
<1>5. /\ d.ok \in BOOLEAN
      /\ d.ok <=> tat + add <= T0 + g.tau
      /\ d.ok => d.state = Snapshot(g, T0, MaxOf(tat, T0) + g.t + add)
      /\ ~d.ok => d.state = Snapshot(g, tat + add - g.tau, tat + add - g.tau)
  BY <1>2, DecisionNow
<1>6. /\ word' = IF d.ok THEN d.state.tat ELSE word
      /\ out' = IF d.ok THEN Outcome("allowed", n, Allow(d.state))
                ELSE Outcome("not_until", n, d.state)
  BY DEF TestAndUpdate
<1> HIDE DEF d, tat, add
<1>7. CASE d.ok
  <2>1. word' = MaxOf(tat, T0) + g.t + add
    BY <1>5, <1>6, <1>7, SnapshotFields
  <2>2. /\ out'.kind = "allowed" /\ out'.n = n
        /\ out'.state \in {NoState, Snapshot(g, T0, word')}
    BY <1>5, <1>6, <1>7, <2>1 DEF Outcome, Allow
  <2> QED
    BY <1>1, <1>2, <1>3, <1>4, <1>5, <1>7, <2>1, <2>2 DEF add, tat
<1>8. CASE ~d.ok
  <2>1. tat = word /\ word # 0 /\ word' = word
    BY <1>2, <1>3, <1>4, <1>5, <1>6, <1>8
  <2>2. /\ out'.kind = "not_until" /\ out'.n = n
        /\ out'.state = Snapshot(g, word + add - g.tau, word + add - g.tau)
    BY <1>5, <1>6, <1>8, <2>1 DEF Outcome
  <2> QED
    BY <1>1, <1>2, <1>3, <1>4, <1>5, <1>8, <2>1, <2>2 DEF add, tat
<1> QED
  BY <1>7, <1>8

LEMMA TestStep ==
  ASSUME QuotasFit, IInv, NEW n \in Sizes \cup {1},
         ~ExceedsCapacity(g, AdditionalWeight(g, n)),
         TestAndUpdate(n, AdditionalWeight(g, n))
  PROVE  IInv'
<1> DEFINE add == AdditionalWeight(g, n)
           tat == Tat(word, T0)
           m   == MaxOf(tat, T0)
           early == word + add - g.tau
<1>1. /\ quota \in Quotas /\ g' = g /\ T0' = T0 /\ add \in 0 .. g.tau
      /\ tat \in Nat /\ m \in Nat /\ tat <= m /\ T0 <= m
      /\ out'.n = n
  BY TestFacts
<1>2. /\ word \in Nat /\ T0 \in Nat /\ T0 <= MaxClock /\ MaxClock \in Nat
      /\ g.t \in Nat /\ g.t >= 1 /\ g.tau \in Nat /\ U64 \in Nat
      /\ word <= T0 + g.tau + g.t
      /\ MaxClock + 2 * g.tau + 2 * g.t < U64
  BY <1>1, ParamsType, ClockFacts DEF IInv, WordOK
<1>3. UNCHANGED <<quota, clock, middleware>>
  BY DEF TestAndUpdate
<1>4. AdditionalWeight(g, n)' = add /\ NoState' = NoState
  BY <1>1 DEF NoState
<1>5. CASE /\ m + add <= T0 + g.tau
           /\ word' = m + g.t + add
           /\ out'.kind = "allowed"
           /\ out'.state \in {NoState, Snapshot(g, T0, word')}
  <2> HIDE DEF m, tat, add
  <2>1. /\ word' \in Nanos /\ T0 \in Nanos /\ 0 \in Nanos
        /\ word' <= T0 + g.tau + g.t /\ word' >= T0 + g.t
    BY <1>1, <1>2, <1>5 DEF Nanos
  <2>2. \E at, to \in Nanos : out'.state = Snapshot(g, at, to)
    BY <1>5, <2>1 DEF NoState
  <2>3. {out'.state.time_of_measurement, out'.state.tat} \subseteq Nanos
    BY <2>2, SnapshotFields
  <2>4. TypeOK'
    BY <1>1, <1>3, <1>5, <2>1, <2>3 DEF IInv, TypeOK
  <2>5. WordOK'
    BY <1>1, <2>1 DEF WordOK
  <2>6. OutOK'
    <3>1. out'.state # NoState =>
            out'.state.time_of_measurement = T0 /\ out'.state.tat = word'
      BY <1>5, SnapshotFields
    <3>2. T0 <= T0
      BY <1>2
    <3> QED
      BY <1>1, <1>4, <1>5, <2>1, <2>2, <3>1, <3>2 DEF OutOK
  <2> QED
    BY <2>4, <2>5, <2>6 DEF IInv
<1>6. CASE /\ ~(tat + add <= T0 + g.tau)
           /\ tat = word /\ word # 0 /\ word' = word
           /\ out'.kind = "not_until"
           /\ out'.state = Snapshot(g, early, early)
  <2> HIDE DEF tat, add
  <2>1. early \in Nanos /\ word + add > g.tau /\ add <= g.tau
    BY <1>1, <1>2, <1>6 DEF Nanos
  <2>2. \E at, to \in Nanos : out'.state = Snapshot(g, at, to)
    BY <1>6, <2>1
  <2>3. /\ {out'.state.time_of_measurement, out'.state.tat} \subseteq Nanos
        /\ out'.state.tat = early
    BY <1>6, <2>1, SnapshotFields
  <2>4. TypeOK'
    BY <1>1, <1>3, <1>6, <2>3 DEF IInv, TypeOK
  <2>5. WordOK'
    BY <1>1, <1>6 DEF IInv, WordOK
  <2>6. OutOK'
    BY <1>1, <1>4, <1>6, <2>1, <2>2, <2>3 DEF OutOK
  <2> QED
    BY <2>4, <2>5, <2>6 DEF IInv
<1> QED
  BY <1>5, <1>6, TestFacts

(* A lone check is a batch of one cell.                                     *)
LEMMA CheckIsBatch ==
  ASSUME QuotasFit, IInv, Check
  PROVE  /\ ~ExceedsCapacity(g, AdditionalWeight(g, 1))
         /\ TestAndUpdate(1, AdditionalWeight(g, 1))
<1>1. quota \in Quotas
  BY DEF IInv, TypeOK
<1>2. AdditionalWeight(g, 1) = 0 /\ g.tau \in Nat
  BY <1>1, BatchWeight, ParamsType
<1> QED
  BY <1>2 DEF Check, ExceedsCapacity

LEMMA NextIInv ==
  ASSUME QuotasFit
  PROVE  IInv /\ [Next]_vars => IInv'
<1> SUFFICES ASSUME IInv, [Next]_vars
             PROVE  IInv'
  OBVIOUS
<1>1. CASE UNCHANGED vars
  BY <1>1, SameOut DEF vars, IInv, TypeOK
<1>2. ASSUME NEW by \in Steps, Advance(by)
      PROVE  IInv'
  BY <1>2, AdvanceStep
<1>3. ASSUME NEW outer \in Middlewares, WithMiddleware(outer)
      PROVE  IInv'
  BY <1>3, SameOut DEF WithMiddleware
<1>4. CASE Check
  BY <1>4, CheckIsBatch, TestStep
<1>5. ASSUME NEW n \in Sizes, CheckN(n) \/ RejectN(n)
      PROVE  IInv'
  BY <1>5, TestStep, RejectStep DEF CheckN
<1> QED
  BY <1>1, <1>2, <1>3, <1>4, <1>5 DEF Next

LEMMA Invariance ==
  ASSUME QuotasFit
  PROVE  Spec => []IInv
<1> QED
  BY InitIInv, NextIInv, PTL DEF Spec

-----------------------------------------------------------------------------
(* The clock, the word and every time shown to the caller stay within the   *)
(* type (TypeOK), for quotas of any size.                                   *)
THEOREM TypeCorrect ==
  ASSUME QuotasFit
  PROVE  Spec => []TypeOK
<1> QED
  BY Invariance, PTL DEF IInv

-----------------------------------------------------------------------------
(* A caller that waits for wait_time_from after a NotUntil is admitted if   *)
(* nobody else was, and not if it waits any less.                           *)
THEOREM WaitsExact ==
  ASSUME QuotasFit
  PROVE  Spec => []WaitExact
<1>1. ASSUME IInv
      PROVE  WaitExact
  <2> DEFINE add  == AdditionalWeight(g, out.n)
             from == out.state.tat
             wait == WaitTimeFrom(Start, out.state, clock)
  <2> SUFFICES ASSUME out.kind = "not_until", NEW later \in Horizon
               PROVE  Decision(g, word, T0 + later, add).ok <=> later >= wait
    BY DEF WaitExact
  <2>1. /\ quota \in Quotas /\ out.n \in Sizes \cup {1}
    BY <1>1 DEF IInv, TypeOK
  <2>2. /\ g = [t |-> g.t, tau |-> g.tau] /\ g.t \in Nat /\ g.tau \in Nat
        /\ MaxClock + 2 * g.tau + 2 * g.t < U64
        /\ MaxClock \in Nat /\ U64 \in Nat /\ Start \in Nat
    BY <2>1, ParamsType
  <2>3. /\ word \in Nat /\ T0 \in Nat /\ clock \in Nat /\ clock <= MaxClock
        /\ Start <= clock /\ T0 = clock - Start
        /\ word <= T0 + g.tau + g.t
    BY <1>1, <2>2, ClockFacts DEF IInv, WordOK
  <2>4. /\ add \in 0 .. g.tau
        /\ word # 0 /\ word + add > g.tau /\ from = word + add - g.tau
    BY <1>1, <2>1, BatchWeight DEF IInv, OutOK
  <2>5. later \in Nat
    BY <2>2 DEF Horizon
  <2> HIDE DEF add
  <2>6. later >= wait <=> Start + from <= clock + later
    <3>1. from \in Nat /\ Start + from < U64
      BY <2>2, <2>3, <2>4
    <3> QED
      BY <2>2, <2>3, <2>5, <3>1, WaitInBounds
  <2>7. Tat(word, T0 + later) = word
    BY <2>4 DEF Tat
  <2>8. Decision(g, word, T0 + later, add).ok
          <=> word + add <= T0 + later + g.tau
    <3>1. T0 + later \in Nat /\ word + add < U64
      BY <2>2, <2>3, <2>4, <2>5
    <3> QED
      BY <2>2, <2>3, <2>4, <2>7, <3>1, ConformsInBounds
  <2> HIDE DEF from, wait
  <2> QED
    BY <2>2, <2>3, <2>4, <2>5, <2>6, <2>8
<1> QED
  BY <1>1, Invariance, PTL

-----------------------------------------------------------------------------
(* What was not turned away was no larger than the burst size.              *)
Sized == out.kind # "insufficient" => out.n <= quota.max_burst

LEMMA FittingBatch ==
  ASSUME QuotasFit, BatchesFit, quota \in Quotas, NEW n \in Sizes \cup {1}
  PROVE  ~ExceedsCapacity(g, AdditionalWeight(g, n)) <=> n <= quota.max_burst
<1>1. /\ n \in Nat /\ n - 1 \in Nat
      /\ AdditionalWeight(g, n) = g.t * (n - 1)
  BY BatchWeight
<1>2. /\ quota.max_burst \in Nat /\ quota.max_burst - 1 \in Nat
      /\ g.t \in Nat /\ g.t >= 1
      /\ g.tau = g.t * (quota.max_burst - 1)
  BY ParamsType
<1>3. g.t * (n - 1) <= g.tau <=> n - 1 <= quota.max_burst - 1
  BY <1>1, <1>2, WeightMonotone
<1>4. g.t * (n - 1) \in Nat /\ g.tau \in Nat
  BY <1>1, <1>2
<1> QED
  BY <1>1, <1>2, <1>3, <1>4 DEF ExceedsCapacity

LEMMA NextSized ==
  ASSUME QuotasFit, BatchesFit
  PROVE  IInv /\ Sized /\ [Next]_vars => Sized'
<1> SUFFICES ASSUME IInv, Sized, [Next]_vars
             PROVE  Sized'
  OBVIOUS
<1>1. quota \in Quotas
  BY DEF IInv, TypeOK
<1>2. CASE UNCHANGED <<quota, out>>
  BY <1>2 DEF Sized
<1>3. ASSUME NEW n \in Sizes \cup {1},
             ~ExceedsCapacity(g, AdditionalWeight(g, n)),
             TestAndUpdate(n, AdditionalWeight(g, n))
      PROVE  Sized'
  <2>1. out'.n = n /\ quota' = quota
    BY <1>3, TestFacts DEF TestAndUpdate
  <2> QED
    BY <1>1, <1>3, <2>1, FittingBatch DEF Sized
<1>4. ASSUME NEW n \in Sizes, RejectN(n)
      PROVE  Sized'
  BY <1>4 DEF RejectN, Outcome, Sized
<1> QED
  BY <1>2, <1>3, <1>4, CheckIsBatch
     DEF Next, vars, Advance, WithMiddleware, CheckN

(* A batch of more cells than the burst size is turned away, with the burst *)
(* size (check_n, state/direct.rs), unless the weight of a batch wraps.     *)
THEOREM RejectsOversized ==
  ASSUME QuotasFit, BatchesFit
  PROVE  Spec => []OversizedRejected
<1>1. ASSUME Init
      PROVE  Sized
  <2>1. quota.max_burst \in Nat /\ quota.max_burst >= 1 /\ out.n = 1
    BY <1>1, ParamsType DEF Init, Outcome
  <2> QED
    BY <2>1 DEF Sized
<1>2. ASSUME IInv, Sized
      PROVE  OversizedRejected
  <2>1. quota \in Quotas /\ out.n \in Sizes \cup {1}
    BY <1>2 DEF IInv, TypeOK
  <2>2. Capacity(g) = quota.max_burst
    BY <2>1, ParamsType, CapacityOfBurst
  <2>3. out.n \in Nat /\ quota.max_burst \in Nat
    BY <2>1, BatchWeight, ParamsType
  <2> QED
    BY <1>2, <2>2, <2>3 DEF OversizedRejected, Sized
<1> QED
  BY <1>1, <1>2, InitIInv, NextIInv, NextSized, PTL DEF Spec

-----------------------------------------------------------------------------
(* However it was used, a limiter left alone for burst_size_replenished_in  *)
(* has the whole burst again, unless a cell is worth less than a nanosecond.*)
THEOREM RefillsInTime ==
  ASSUME QuotasFit, NotTooFast
  PROVE  Spec => []RefillTime
<1>1. ASSUME IInv
      PROVE  RefillTime
  <2> DEFINE b   == quota.max_burst
             t0  == T0 + BurstSizeReplenishedIn(quota)
             add == AdditionalWeight(g, b)
  <2>1. quota \in Quotas
    BY <1>1 DEF IInv, TypeOK
  <2>2. /\ g = [t |-> g.t, tau |-> g.tau] /\ g.t \in Nat /\ g.tau \in Nat
        /\ MaxClock + 2 * g.tau + 2 * g.t < U64
        /\ MaxClock \in Nat /\ U64 \in Nat
        /\ b \in Nat /\ g.t * b = g.tau + g.t /\ g.tau = g.t * (b - 1)
        /\ g.t = Weight(quota)
    BY <2>1, ParamsType
  <2>3. /\ word \in Nat /\ T0 \in Nat /\ T0 <= MaxClock
        /\ word <= T0 + g.tau + g.t
    BY <1>1, <2>2, ClockFacts DEF IInv, WordOK
  <2>4. quota.replenish_1_per = g.t
    <3>1. quota.replenish_1_per >= 1 /\ quota.replenish_1_per \in Nat
      BY <2>1, CallerAssumption, WidthAssumption DEF NotTooFast, Nanos
    <3> QED
      BY <2>2, <3>1 DEF Weight, MaxOf
  <2>5. t0 = T0 + g.tau + g.t
    <3>1. (g.tau + g.t) % U64 = g.tau + g.t
      <4>1. g.tau + g.t \in Nat /\ g.tau + g.t < U64 /\ U64 \in Nat
        BY <2>2
      <4> QED
        BY <4>1, SmallModulo
    <3> QED
      BY <2>2, <2>3, <2>4, <3>1 DEF BurstSizeReplenishedIn
  <2>6. add = g.tau
    <3>1. g.tau < U64 /\ Mul(g.t, b - 1) = g.tau
      BY <2>2 DEF Mul
    <3> QED
      BY <3>1 DEF AdditionalWeight
  <2> HIDE DEF b, t0, add
  <2>7. /\ t0 \in Nat /\ add \in 0 .. g.tau
        /\ Tat(word, t0) \in Nat /\ Tat(word, t0) <= t0
        /\ Tat(word, t0) + add < U64
    BY <2>2, <2>3, <2>5, <2>6 DEF Tat
  <2>8. Decision(g, word, t0, add).ok
    BY <2>2, <2>3, <2>6, <2>7, ConformsInBounds
  <2> QED
    BY <2>8 DEF RefillTime, b, t0, add
<1> QED
  BY <1>1, Invariance, PTL

(* The quota that a snapshot or a NotUntil reports is the one in use.       *)
THEOREM ReportsQuota ==
  ASSUME QuotasFit, NotTooFast
  PROVE  Spec => []QuotaReported
<1>1. ASSUME IInv
      PROVE  QuotaReported
  <2>1. quota \in Quotas
    BY <1>1 DEF IInv, TypeOK
  <2>2. /\ quota \in [max_burst : 1 .. U32 - 1, replenish_1_per : Nanos]
        /\ quota.replenish_1_per = g.t
    <3>1. /\ quota.replenish_1_per >= 1 /\ quota.replenish_1_per \in Nat
          /\ quota \in [max_burst : 1 .. U32 - 1, replenish_1_per : Nanos]
      BY <2>1, CallerAssumption, WidthAssumption DEF NotTooFast, Nanos
    <3> QED
      BY <2>1, <3>1, ParamsType DEF Weight, MaxOf
  <2>3. Capacity(g) = quota.max_burst
    BY <2>1, ParamsType, CapacityOfBurst
  <2>4. out.state.t = g.t /\ out.state.tau = g.tau
    BY <1>1, SnapshotFields DEF IInv, OutOK
  <2>5. SnapshotQuota(out.state)
          = [max_burst |-> quota.max_burst, replenish_1_per |-> g.t]
    BY <2>3, <2>4 DEF SnapshotQuota, FromGcraParameters, Capacity
  <2> QED
    BY <2>2, <2>5 DEF QuotaReported
<1> QED
  BY <1>1, Invariance, PTL

-----------------------------------------------------------------------------
(* Induction: a set of numbers that is not empty has a least one.           *)

LEMMA Least ==
  ASSUME NEW S \in SUBSET Nat, S # {}
  PROVE  \E n \in S : \A m \in S : n <= m
<1>1. IsWellFoundedOn(OpToRel(<, Nat), Nat)
  BY NatLessThanWellFounded
<1>2. PICK n \in S : \A m \in S : <<m, n>> \notin OpToRel(<, Nat)
  BY <1>1, WFMin
<1>3. ASSUME NEW m \in S
      PROVE  ~(m < n)
  BY <1>2, <1>3 DEF OpToRel
<1> QED
  BY <1>3

(* The number of steps of t, from m on, that start within a limit.          *)
LEMMA StepsWithin ==
  ASSUME NEW t \in Nat, t >= 1, NEW m \in Nat, NEW limit \in Nat
  PROVE  \E q \in Nat : \A j \in Nat : j < q <=> m + t * j <= limit
<1> DEFINE S == {j \in Nat : ~(m + t * j <= limit)}
<1>1. S # {}
  <2>1. limit + 1 \in Nat /\ t * (limit + 1) \in Nat
    OBVIOUS
  <2>2. 1 * (limit + 1) <= t * (limit + 1)
    <3>1. t - 1 \in Nat /\ (t - 1) * (limit + 1) \in Nat
      BY <2>1
    <3>2. t * (limit + 1) = (t - 1) * (limit + 1) + (limit + 1)
      BY <2>1
    <3> QED
      BY <2>1, <3>1, <3>2
  <2>3. ~(m + t * (limit + 1) <= limit)
    BY <2>1, <2>2
  <2>4. limit + 1 \in S
    BY <2>1, <2>3
  <2> QED
    BY <2>4
<1>2. PICK q \in S : \A j \in S : q <= j
  BY <1>1, Least
<1>3. q \in Nat /\ ~(m + t * q <= limit) /\ t * q \in Nat
  BY <1>2
<1>4. ASSUME NEW j \in Nat
      PROVE  j < q <=> m + t * j <= limit
  <2>1. t * j \in Nat /\ (t * q <= t * j <=> q <= j)
    BY <1>3, WeightMonotone
  <2>2. CASE j < q
    BY <1>2, <1>3, <2>2
  <2>3. CASE ~(j < q)
    <3>1. t * q <= t * j
      BY <1>3, <2>1, <2>3
    <3> QED
      BY <1>3, <2>1, <2>3, <3>1
  <2> QED
    BY <2>2, <2>3
<1> HIDE DEF S
<1> QED
  BY <1>3, <1>4

-----------------------------------------------------------------------------
(* Singles, in closed form: k more lone cells pass while the last of them   *)
(* leaves the tat, less a cell, within tau.                                 *)

Ahead(t0) == MaxOf(Tat(word, t0), t0)

(* One more cell. *)
OneMore(s, t0) ==
  LET d == Decision(g, s.word, t0, 0)
  IN  IF s.ok /\ d.ok THEN [ok |-> TRUE, word |-> d.state.tat]
                      ELSE [ok |-> FALSE, word |-> s.word]

(* The word after j cells that all passed. *)
After(j, t0) == IF j = 0 THEN word ELSE Ahead(t0) + g.t * j

LEMMA AheadFacts ==
  ASSUME QuotasFit, TypeOK, NEW t0 \in 0 .. MaxClock, word <= t0 + g.tau + g.t
  PROVE  /\ quota \in Quotas /\ word \in Nat /\ t0 \in Nat
         /\ g.t \in Nat /\ g.t >= 1 /\ g.tau \in Nat
         /\ Ahead(t0) \in Nat /\ Ahead(t0) >= t0 /\ Ahead(t0) >= Tat(word, t0)
         /\ Tat(word, t0) \in Nat
         /\ Ahead(t0) <= t0 + g.tau <=> Tat(word, t0) <= t0 + g.tau
         /\ Ahead(t0) <= t0 + g.tau + g.t
<1>1. quota \in Quotas
  BY DEF TypeOK
<1>2. word \in Nat /\ t0 \in Nat /\ g.t \in Nat /\ g.t >= 1 /\ g.tau \in Nat
  BY <1>1, ParamsType, ClockFacts
<1> QED
  BY <1>1, <1>2 DEF Ahead, Tat, MaxOf

LEMMA OneMoreCell ==
  ASSUME QuotasFit, TypeOK, NEW t0 \in 0 .. MaxClock,
         word <= t0 + g.tau + g.t,
         NEW j \in Nat, j = 0 \/ Ahead(t0) + g.t * (j - 1) <= t0 + g.tau
  PROVE  OneMore([ok |-> TRUE, word |-> After(j, t0)], t0)
           = IF Ahead(t0) + g.t * j <= t0 + g.tau
             THEN [ok |-> TRUE, word |-> After(j + 1, t0)]
             ELSE [ok |-> FALSE, word |-> After(j, t0)]
<1> DEFINE w == After(j, t0)
           m == Ahead(t0)
           d == Decision(g, w, t0, 0)
<1>1. /\ quota \in Quotas /\ word \in Nat /\ t0 \in Nat
      /\ g.t \in Nat /\ g.t >= 1 /\ g.tau \in Nat
      /\ m \in Nat /\ m >= t0 /\ Tat(word, t0) \in Nat
      /\ m <= t0 + g.tau <=> Tat(word, t0) <= t0 + g.tau
      /\ m <= t0 + g.tau + g.t
      /\ m = MaxOf(Tat(word, t0), t0)
  BY AheadFacts DEF Ahead
<1>2. /\ g = [t |-> g.t, tau |-> g.tau]
      /\ MaxClock + 2 * g.tau + 2 * g.t < U64 /\ MaxClock \in Nat /\ U64 \in Nat
  BY <1>1, ParamsType
<1>3. /\ g.t * j \in Nat /\ g.t * (j + 1) = g.t * j + g.t
      /\ j = 0 => g.t * j = 0
      /\ j # 0 => g.t * j = g.t * (j - 1) + g.t /\ g.t * (j - 1) \in Nat
  <2>1. g.t * j \in Nat /\ g.t * (j + 1) = g.t * j + g.t
    BY <1>1, DivisionExact
  <2>2. ASSUME j # 0
        PROVE  g.t * j = g.t * (j - 1) + g.t /\ g.t * (j - 1) \in Nat
    <3>1. j - 1 \in Nat /\ (j - 1) + 1 = j
      BY <2>2
    <3> QED
      BY <1>1, <3>1, DivisionExact
  <2>3. j = 0 => g.t * j = 0
    BY <1>1
  <2> QED
    BY <2>1, <2>2, <2>3
<1>4. /\ w \in Nat /\ w <= t0 + g.tau + g.t
      /\ Tat(w, t0) \in Nat
      /\ Tat(w, t0) <= t0 + g.tau <=> m + g.t * j <= t0 + g.tau
      /\ MaxOf(Tat(w, t0), t0) = m + g.t * j
  <2>1. CASE j = 0
    <3>1. w = word /\ g.t * j = 0
      BY <1>3, <2>1 DEF After
    <3>2. m + g.t * j = m
      BY <1>1, <3>1
    <3> HIDE DEF w, m
    <3> QED
      BY <1>1, <3>1, <3>2
  <2>2. CASE j # 0
    <3>1. w = m + g.t * j
      BY <2>2 DEF After
    <3>2. m + g.t * (j - 1) <= t0 + g.tau
      BY <2>2
    <3>3. w \in Nat /\ w >= t0 /\ w # 0 /\ w <= t0 + g.tau + g.t
      BY <1>1, <1>3, <2>2, <3>1, <3>2
    <3>4. Tat(w, t0) = w /\ MaxOf(w, t0) = w
      BY <1>1, <3>3 DEF Tat, MaxOf
    <3> QED
      BY <3>1, <3>3, <3>4
  <2> QED
    BY <2>1, <2>2
<1>5. /\ d.ok \in BOOLEAN
      /\ d.ok <=> m + g.t * j <= t0 + g.tau
      /\ d.ok => d.state.tat = m + g.t * (j + 1)
  <2>1. /\ MaxOf(w, t0) + 0 < U64 /\ t0 + g.tau + g.t < U64
        /\ 0 \in 0 .. g.tau
    BY <1>1, <1>2, <1>4 DEF MaxOf
  <2>2. /\ d.ok \in BOOLEAN
        /\ d.ok <=> Tat(w, t0) + 0 <= t0 + g.tau
        /\ d.ok => d.state.tat = MaxOf(Tat(w, t0), t0) + g.t + 0
    BY <1>1, <1>2, <1>4, <2>1, TatInBounds
  <2> HIDE DEF d, w, m
  <2>3. d.ok <=> m + g.t * j <= t0 + g.tau
    <3>1. Tat(w, t0) + 0 = Tat(w, t0)
      BY <1>4
    <3> QED
      BY <1>4, <2>2, <3>1
  <2>4. m + g.t * j + g.t + 0 = m + g.t * (j + 1)
    BY <1>1, <1>3
  <2> QED
    BY <1>4, <2>2, <2>3, <2>4
<1>6. After(j + 1, t0) = m + g.t * (j + 1)
  BY DEF After
<1> HIDE DEF d, w, m
<1>7. OneMore([ok |-> TRUE, word |-> w], t0)
        = IF d.ok THEN [ok |-> TRUE, word |-> d.state.tat]
                  ELSE [ok |-> FALSE, word |-> w]
  BY DEF OneMore, d
<1> QED
  BY <1>5, <1>6, <1>7 DEF w, m

(* A function that satisfies Singles' equation is what Singles denotes.     *)
LEMMA SinglesUnique ==
  ASSUME NEW t0, NEW h, quota.max_burst \in Nat,
         h = [k \in 0 .. 1 + quota.max_burst |->
                IF k = 0 THEN [ok |-> TRUE, word |-> word]
                         ELSE OneMore(h[k-1], t0)]
  PROVE  \A k \in 0 .. 1 + quota.max_burst : Singles(t0)[k] = h[k]
<1> DEFINE N == 1 + quota.max_burst
           f == Singles(t0)
           S == {k \in 0 .. N : f[k] # h[k]}
<1>1. f = [k \in 0 .. N |-> IF k = 0 THEN [ok |-> TRUE, word |-> word]
                                     ELSE OneMore(f[k-1], t0)]
  BY DEF Singles, OneMore
<1>2. N \in Nat
  OBVIOUS
<1> HIDE DEF f, N
<1> SUFFICES ASSUME S # {}
             PROVE  FALSE
  BY DEF f, N
<1>3. PICK k \in S : \A j \in S : k <= j
  <2>1. S \in SUBSET Nat
    BY <1>2
  <2> HIDE DEF S
  <2> QED
    BY <2>1, Least
<1>4. k \in 0 .. N /\ f[k] # h[k]
  BY <1>3
<1>5. CASE k = 0
  BY <1>1, <1>2, <1>4, <1>5 DEF N
<1>6. CASE k # 0
  <2>1. k - 1 \in 0 .. N /\ ~(k <= k - 1)
    BY <1>2, <1>4, <1>6
  <2>2. f[k-1] = h[k-1]
    BY <1>3, <2>1
  <2>3. f[k] = OneMore(f[k-1], t0) /\ h[k] = OneMore(h[k-1], t0)
    BY <1>1, <1>4, <1>6 DEF N
  <2> QED
    BY <1>4, <2>2, <2>3
<1> QED
  BY <1>5, <1>6

LEMMA NoMore ==
  ASSUME NEW w, NEW t0
  PROVE  OneMore([ok |-> FALSE, word |-> w], t0) = [ok |-> FALSE, word |-> w]
<1> DEFINE s == [ok |-> FALSE, word |-> w]
<1>1. s.ok = FALSE /\ s.word = w
  OBVIOUS
<1> HIDE DEF s
<1>2. OneMore(s, t0) = [ok |-> FALSE, word |-> s.word]
  BY <1>1 DEF OneMore
<1> QED
  BY <1>1, <1>2 DEF s

LEMMA SinglesExact ==
  ASSUME QuotasFit, TypeOK, NEW t0 \in 0 .. MaxClock,
         word <= t0 + g.tau + g.t,
         NEW k \in 0 .. 1 + quota.max_burst
  PROVE  LET s == Singles(t0)[k]
         IN  /\ s.ok \in BOOLEAN
             /\ s.ok <=> k = 0 \/ Ahead(t0) + g.t * (k - 1) <= t0 + g.tau
             /\ s.ok => s.word = After(k, t0)
<1> DEFINE N == 1 + quota.max_burst
           within(j) == Ahead(t0) + g.t * j <= t0 + g.tau
<1>1. /\ quota \in Quotas /\ g.t \in Nat /\ g.t >= 1 /\ Ahead(t0) \in Nat
      /\ t0 + g.tau \in Nat
  BY AheadFacts
<1>2. N \in Nat /\ quota.max_burst \in Nat
  BY <1>1, ParamsType
<1>3. PICK q \in Nat : \A j \in Nat : j < q <=> within(j)
  BY <1>1, StepsWithin
<1> DEFINE h == [j \in 0 .. N |->
                   IF j <= q THEN [ok |-> TRUE, word |-> After(j, t0)]
                             ELSE [ok |-> FALSE, word |-> After(q, t0)]]
<1> HIDE DEF within
<1>4. ASSUME NEW j \in 0 .. N
      PROVE  h[j] = IF j = 0 THEN [ok |-> TRUE, word |-> word]
                             ELSE OneMore(h[j-1], t0)
  <2>1. CASE j = 0
    <3>1. h[j] = [ok |-> TRUE, word |-> After(0, t0)]
      BY <1>2, <1>3, <2>1
    <3> QED
      BY <2>1, <3>1 DEF After
  <2>2. CASE j # 0
    <3>1. j - 1 \in 0 .. N /\ j - 1 \in Nat /\ (j - 1) + 1 = j
      BY <1>2, <2>2
    <3>2. CASE j - 1 <= q
      <4>1. h[j-1] = [ok |-> TRUE, word |-> After(j - 1, t0)]
        BY <3>1, <3>2
      <4>2. j - 1 = 0 \/ within(j - 1 - 1)
        <5>1. j - 1 # 0 => j - 1 - 1 \in Nat /\ j - 1 - 1 < q
          BY <1>3, <3>1, <3>2
        <5> QED
          BY <1>3, <5>1
      <4>3. OneMore(h[j-1], t0)
              = IF within(j - 1) THEN [ok |-> TRUE, word |-> After(j, t0)]
                                 ELSE [ok |-> FALSE, word |-> After(j - 1, t0)]
        BY <3>1, <4>1, <4>2, OneMoreCell DEF within
      <4>4. within(j - 1) <=> j - 1 < q
        BY <1>3, <3>1
      <4>5. CASE j - 1 < q
        <5>1. j <= q
          BY <1>3, <3>1, <4>5
        <5> QED
          BY <2>2, <4>3, <4>4, <4>5, <5>1
      <4>6. CASE ~(j - 1 < q)
        <5>1. ~(j <= q) /\ j - 1 = q
          BY <1>3, <3>1, <3>2, <4>6
        <5> QED
          BY <2>2, <4>3, <4>4, <4>6, <5>1
      <4> QED
        BY <4>5, <4>6
    <3>3. CASE ~(j - 1 <= q)
      <4>1. h[j-1] = [ok |-> FALSE, word |-> After(q, t0)]
        BY <3>1, <3>3
      <4>2. OneMore(h[j-1], t0) = [ok |-> FALSE, word |-> After(q, t0)]
        BY <4>1, NoMore
      <4>3. ~(j <= q)
        BY <1>3, <3>1, <3>3
      <4> QED
        BY <2>2, <4>2, <4>3
    <3> QED
      BY <3>2, <3>3
  <2> QED
    BY <2>1, <2>2
<1>5. h = [j \in 0 .. N |-> IF j = 0 THEN [ok |-> TRUE, word |-> word]
                                     ELSE OneMore(h[j-1], t0)]
  <2>1. h = [j \in 0 .. N |-> h[j]]
    OBVIOUS
  <2> HIDE DEF h
  <2> QED
    BY <1>4, <2>1
<1>6. h[k] = IF k <= q THEN [ok |-> TRUE, word |-> After(k, t0)]
                       ELSE [ok |-> FALSE, word |-> After(q, t0)]
  OBVIOUS
<1> HIDE DEF h
<1>7. Singles(t0)[k] = h[k]
  BY <1>2, <1>5, SinglesUnique
<1>8. k <= q <=> k = 0 \/ within(k - 1)
  <2>1. CASE k = 0
    BY <1>3, <2>1
  <2>2. CASE k # 0
    <3>1. k - 1 \in Nat /\ (k <= q <=> k - 1 < q)
      BY <1>2, <1>3, <2>2
    <3> QED
      BY <1>3, <2>2, <3>1
  <2> QED
    BY <2>1, <2>2
<1> QED
  BY <1>6, <1>7, <1>8 DEF within

-----------------------------------------------------------------------------
(* remaining_burst_capacity after an admission is how many more cells go    *)
(* through at the instant that was measured, not one more and not one less. *)
THEOREM RemainsExact ==
  ASSUME QuotasFit
  PROVE  Spec => []RemainingExact
<1>1. ASSUME IInv
      PROVE  RemainingExact
  <2> DEFINE t0 == out.state.time_of_measurement
             x  == t0 + g.tau + g.t - word
             r  == x \div g.t
             b  == quota.max_burst
  <2> SUFFICES ASSUME out.kind = "allowed", out.state # NoState
               PROVE  /\ Singles(t0)[RemainingBurstCapacity(out.state)].ok
                      /\ ~Singles(t0)[RemainingBurstCapacity(out.state) + 1].ok
    BY DEF RemainingExact
  <2>1. quota \in Quotas /\ TypeOK
    BY <1>1 DEF IInv, TypeOK
  <2>2. /\ g.t \in Nat /\ g.t >= 1 /\ g.tau \in Nat
        /\ MaxClock + 2 * g.tau + 2 * g.t < U64
        /\ MaxClock \in Nat /\ U64 \in Nat /\ U32 \in Nat
        /\ b \in Nat /\ b - 1 \in Nat /\ b < U32 /\ g.tau = g.t * (b - 1)
    BY <2>1, ParamsType
  <2>3. /\ word \in Nat /\ T0 \in Nat /\ T0 <= MaxClock /\ t0 \in Nat
        /\ t0 <= T0 /\ word >= t0 + g.t /\ word <= t0 + g.tau + g.t
        /\ out.state.t = g.t /\ out.state.tau = g.tau /\ out.state.tat = word
    BY <1>1, <2>1, <2>2, ClockFacts, SnapshotFields
       DEF IInv, OutOK, TypeOK, Nanos
  <2> HIDE DEF t0, b
  <2>4. x \in Nat /\ x <= g.tau /\ t0 \in 0 .. MaxClock
    BY <2>2, <2>3
  <2>5. r \in Nat /\ g.t * r <= x /\ x < g.t * r + g.t /\ g.t * r \in Nat
    <3> HIDE DEF x
    <3>1. r \in Nat /\ g.t * r <= x /\ x < g.t * r + g.t
      BY <2>2, <2>4, Division
    <3> HIDE DEF r
    <3>2. g.t * r \in Nat
      BY <2>2, <3>1
    <3> QED
      BY <3>1, <3>2
  <2> HIDE DEF r
  <2>6. r <= b - 1
    <3>1. g.t * r <= g.t * (b - 1)
      BY <2>2, <2>4, <2>5
    <3> QED
      BY <2>2, <2>5, <3>1, WeightMonotone
  <2>7. RemainingBurstCapacity(out.state) = r
    <3>1. /\ Add(Add(t0, g.tau), g.t) = t0 + g.tau + g.t
          /\ Add(g.tau, g.t) = g.tau + g.t
      BY <2>2, <2>3 DEF Add
    <3>2. /\ SaturatingSub(t0 + g.tau + g.t, word) = x
          /\ MinOf(x, g.tau + g.t) = x
      BY <2>2, <2>3, <2>4 DEF SaturatingSub, MinOf
    <3>3. r % U32 = r
      <4>1. r \in Nat /\ r < U32 /\ U32 \in Nat
        BY <2>2, <2>5, <2>6
      <4> QED
        BY <4>1, SmallModulo
    <3> QED
      BY <2>3, <3>1, <3>2, <3>3 DEF RemainingBurstCapacity, AsU32, t0, r
  <2>8. Ahead(t0) = word
    BY <2>2, <2>3 DEF Ahead, Tat, MaxOf
  <2>9. Singles(t0)[r].ok
    <3>1. r \in 0 .. 1 + b
      BY <2>2, <2>5, <2>6
    <3>2. r = 0 \/ word + g.t * (r - 1) <= t0 + g.tau
      <4>1. ASSUME r # 0
            PROVE  g.t * r = g.t * (r - 1) + g.t /\ g.t * (r - 1) \in Nat
        <5>1. r - 1 \in Nat /\ (r - 1) + 1 = r
          BY <2>5, <4>1
        <5> QED
          BY <2>2, <5>1, DivisionExact
      <4> QED
        BY <2>2, <2>3, <2>5, <4>1
    <3> QED
      BY <2>1, <2>3, <2>4, <2>8, <3>1, <3>2, SinglesExact DEF b
  <2>10. ~Singles(t0)[r + 1].ok
    <3>1. r + 1 \in 0 .. 1 + b /\ r + 1 # 0 /\ (r + 1) - 1 = r
      BY <2>2, <2>5, <2>6
    <3>2. ~(word + g.t * r <= t0 + g.tau)
      BY <2>2, <2>3, <2>5
    <3> QED
      BY <2>1, <2>3, <2>4, <2>8, <3>1, <3>2, SinglesExact DEF b
  <2> QED
    BY <2>7, <2>9, <2>10
<1> QED
  BY <1>1, Invariance, PTL

(* check_n(n) is n times check, all or nothing.                             *)
THEOREM BatchIsSingles ==
  ASSUME QuotasFit
  PROVE  Spec => []BatchEqualsSingles
<1>1. ASSUME IInv
      PROVE  BatchEqualsSingles
  <2> SUFFICES ASSUME NEW n \in Sizes, n <= quota.max_burst
               PROVE  LET batch   == Decision(g, word, T0, AdditionalWeight(g, n))
                          singles == Singles(T0)[n]
                      IN  /\ batch.ok <=> singles.ok
                          /\ batch.ok => batch.state.tat = singles.word
    BY DEF BatchEqualsSingles
  <2> DEFINE add == AdditionalWeight(g, n)
             d   == Decision(g, word, T0, add)
             s   == Singles(T0)[n]
             tat == Tat(word, T0)
             m   == Ahead(T0)
  <2>1. quota \in Quotas /\ TypeOK /\ WordOK
    BY <1>1 DEF IInv, TypeOK
  <2>2. /\ g.t \in Nat /\ g.t >= 1 /\ g.tau \in Nat
        /\ quota.max_burst \in Nat
        /\ n \in Nat /\ n >= 1 /\ n - 1 \in Nat /\ g.t * (n - 1) \in Nat
        /\ add = g.t * (n - 1)
    BY <2>1, ParamsType, BatchWeight
  <2>3. add \in 0 .. g.tau
    <3>1. /\ g.tau = g.t * (quota.max_burst - 1)
          /\ quota.max_burst - 1 \in Nat /\ n - 1 <= quota.max_burst - 1
      BY <2>1, <2>2, ParamsType
    <3>2. g.t * (n - 1) <= g.t * (quota.max_burst - 1)
      BY <2>2, <3>1, WeightMonotone
    <3> QED
      BY <2>2, <3>1, <3>2
  <2>4. /\ T0 \in 0 .. MaxClock /\ word <= T0 + g.tau + g.t
        /\ tat \in Nat /\ m \in Nat /\ T0 \in Nat
        /\ tat <= m /\ m = MaxOf(tat, T0)
    BY <2>1, ClockFacts, AheadFacts DEF WordOK, Ahead
  <2>5. tat + add <= T0 + g.tau <=> m + add <= T0 + g.tau
    BY <2>2, <2>3, <2>4 DEF MaxOf
  <2>6. /\ d.ok \in BOOLEAN
        /\ d.ok <=> tat + add <= T0 + g.tau
        /\ d.ok => d.state.tat = m + g.t + add
    BY <2>1, <2>3, <2>4, DecisionNow, SnapshotFields
  <2>7. /\ s.ok \in BOOLEAN
        /\ s.ok <=> m + g.t * (n - 1) <= T0 + g.tau
        /\ s.ok => s.word = m + g.t * n
    <3>1. n \in 0 .. 1 + quota.max_burst /\ n # 0
      BY <2>2
    <3> QED
      BY <2>1, <2>4, <3>1, SinglesExact DEF After
  <2>8. g.t * n = g.t * (n - 1) + g.t
    <3>1. (n - 1) + 1 = n
      BY <2>2
    <3> QED
      BY <2>2, <3>1, DivisionExact
  <2> HIDE DEF add, d, s, tat, m
  <2>9. m + g.t + add = m + g.t * n
    BY <2>2, <2>4, <2>8
  <2>10. /\ d.ok <=> s.ok
         /\ d.ok => d.state.tat = s.word
    BY <2>2, <2>5, <2>6, <2>7, <2>9
  <2> QED
    BY <2>10 DEF d, s, add
<1> QED
  BY <1>1, Invariance, PTL

-----------------------------------------------------------------------------
(* The limiter is a leaky bucket that holds a burst: its level is how far   *)
(* the tat lies ahead of now.                                               *)

LEMMA LevelType ==
  ASSUME QuotasFit, IInv
  PROVE  /\ quota \in Quotas /\ T0 \in Nat /\ word \in Nat
         /\ g.t \in Nat /\ g.t >= 1 /\ g.tau \in Nat
         /\ quota.max_burst \in Nat /\ quota.max_burst >= 1
         /\ quota.max_burst * g.t = g.tau + g.t
<1>1. quota \in Quotas /\ TypeOK
  BY DEF IInv, TypeOK
<1>2. /\ g.t \in Nat /\ g.t >= 1 /\ g.tau \in Nat
      /\ quota.max_burst \in Nat /\ quota.max_burst >= 1
      /\ g.t * quota.max_burst = g.tau + g.t
  BY <1>1, ParamsType
<1>3. quota.max_burst * g.t = g.t * quota.max_burst
  BY <1>2
<1> QED
  BY <1>1, <1>2, <1>3, ClockFacts

LEMMA BucketInit ==
  ASSUME QuotasFit, Init
  PROVE  Bucket!Init
<1>1. T0 = 0 /\ SaturatingSub(word, T0) = 0 /\ out.kind = "none"
  <2>1. Start \in Nat
    BY ParamsType DEF Init
  <2> QED
    BY <2>1 DEF Init, T0, SaturatingSub, Outcome
<1> QED
  BY <1>1, InitIInv, LevelType DEF Bucket!Init

LEMMA Drains ==
  ASSUME QuotasFit, IInv, NEW by \in Steps, Advance(by)
  PROVE  Bucket!Next \/ UNCHANGED Bucket!bucket
<1>1. /\ g' = g /\ T0' = T0 + by /\ by \in Nat
      /\ UNCHANGED <<quota, word, out>>
  BY AdvanceStep DEF Advance, g
<1>2. T0 \in Nat /\ word \in Nat
  BY LevelType
<1>3. CASE by = 0
  BY <1>1, <1>2, <1>3 DEF Bucket!bucket
<1>4. CASE by # 0
  <2>1. T0' \in Nat /\ T0' > T0 /\ T0' - T0 = by
    BY <1>1, <1>2, <1>4
  <2>2. SaturatingSub(word, T0')
          = IF SaturatingSub(word, T0) > T0' - T0
            THEN SaturatingSub(word, T0) - (T0' - T0) ELSE 0
    BY <1>1, <1>2, <2>1 DEF SaturatingSub
  <2>3. Bucket!Drain
    BY <1>1, <2>1, <2>2 DEF Bucket!Drain
  <2> QED
    BY <2>3 DEF Bucket!Next
<1> QED
  BY <1>3, <1>4

LEMMA PoursOrSpills ==
  ASSUME QuotasFit, BatchesFit, IInv, NEW n \in Sizes \cup {1},
         ~ExceedsCapacity(g, AdditionalWeight(g, n)),
         TestAndUpdate(n, AdditionalWeight(g, n))
  PROVE  Bucket!Next
<1> DEFINE add   == AdditionalWeight(g, n)
           tat   == Tat(word, T0)
           m     == MaxOf(tat, T0)
           level == SaturatingSub(word, T0)
<1>1. /\ quota \in Quotas /\ T0 \in Nat /\ word \in Nat
      /\ g.t \in Nat /\ g.t >= 1 /\ g.tau \in Nat
      /\ quota.max_burst * g.t = g.tau + g.t
  BY LevelType
<1>2. /\ add = g.t * (n - 1) /\ add \in Nat /\ add <= g.tau
      /\ n * g.t = add + g.t
  <2>1. /\ n - 1 \in Nat /\ n \in Nat /\ (n - 1) + 1 = n
        /\ add = g.t * (n - 1) /\ add \in 0 .. g.tau
    BY <1>1, BatchWeight, TestFacts
  <2>2. g.t * n = g.t * (n - 1) + g.t
    BY <1>1, <2>1, DivisionExact
  <2>3. n * g.t = g.t * n
    BY <1>1, <2>1
  <2> QED
    BY <1>1, <2>1, <2>2, <2>3
<1>3. g' = g /\ T0' = T0 /\ quota' = quota
  BY TestFacts DEF TestAndUpdate
<1>4. /\ level \in Nat /\ level = m - T0
      /\ m \in Nat /\ m >= T0 /\ tat \in Nat
  BY <1>1 DEF SaturatingSub, Tat, MaxOf
<1>5. /\ T0 \in Nat /\ word \in Nat /\ g.t \in Nat /\ g.tau \in Nat
      /\ add \in Nat /\ add <= g.tau
  BY <1>1, <1>2
<1>6. Bucket!Fits(n) <=> level + add <= g.tau
  <2> DEFINE pour == n * g.t
             size == quota.max_burst * g.t
  <2>1. Bucket!Fits(n) <=> level + pour <= size
    BY DEF Bucket!Fits
  <2>2. pour = add + g.t /\ size = g.tau + g.t
    BY <1>1, <1>2
  <2> HIDE DEF level, add, pour, size
  <2>3. level + pour <= size <=> level + add <= g.tau
    BY <1>4, <1>5, <2>2
  <2> QED
    BY <2>1, <2>3
<1>7. CASE /\ m + add <= T0 + g.tau
           /\ word' = m + g.t + add
           /\ out'.kind = "allowed"
  <2> HIDE DEF level, add, m
  <2>1. Bucket!Fits(n)
    <3>1. level + add <= g.tau
      BY <1>4, <1>7, <1>5
    <3> QED
      BY <1>6, <3>1
  <2>2. SaturatingSub(word', T0) = level + n * g.t
    <3> DEFINE pour == n * g.t
    <3>1. pour = add + g.t
      BY <1>2
    <3> HIDE DEF pour
    <3>2. /\ word' \in Nat /\ word' >= T0
          /\ word' - T0 = level + pour
      <4> DEFINE w == word'
      <4>1. w = m + g.t + add
        BY <1>7
      <4> HIDE DEF w
      <4>2. w \in Nat /\ w >= T0 /\ w - T0 = level + pour
        BY <1>4, <1>5, <3>1, <4>1
      <4> QED
        BY <4>2 DEF w
    <3>3. SaturatingSub(word', T0) = word' - T0
      BY <1>5, <3>2, PlainDifference
    <3> QED
      BY <3>2, <3>3 DEF pour
  <2>3. Bucket!Pour(n)
    BY <1>3, <1>7, <2>1, <2>2 DEF Bucket!Pour, level
  <2> QED
    BY <2>3 DEF Bucket!Next
<1>8. CASE /\ ~(tat + add <= T0 + g.tau)
           /\ tat = word /\ word' = word
           /\ out'.kind = "not_until"
  <2> HIDE DEF level, add, m, tat
  <2>1. ~Bucket!Fits(n)
    BY <1>4, <1>6, <1>8, <1>5 DEF level, SaturatingSub
  <2>2. Bucket!Spill(n)
    BY <1>3, <1>8, <2>1 DEF Bucket!Spill
  <2> QED
    BY <2>2 DEF Bucket!Next
<1> QED
  BY <1>7, <1>8, TestFacts

LEMMA RejectSpills ==
  ASSUME QuotasFit, BatchesFit, IInv, NEW n \in Sizes, RejectN(n)
  PROVE  Bucket!Next
<1> DEFINE level == SaturatingSub(word, T0)
<1>1. /\ quota \in Quotas /\ T0 \in Nat /\ word \in Nat
      /\ g.t \in Nat /\ g.t >= 1 /\ g.tau \in Nat
      /\ quota.max_burst * g.t = g.tau + g.t
  BY LevelType
<1>2. /\ n \in Nat /\ n - 1 \in Nat /\ (n - 1) + 1 = n
      /\ AdditionalWeight(g, n) = g.t * (n - 1)
  BY <1>1, BatchWeight
<1>3. g.t * (n - 1) > g.tau /\ g.t * (n - 1) \in Nat
  BY <1>1, <1>2 DEF RejectN, ExceedsCapacity
<1>4. n * g.t = g.t * (n - 1) + g.t
  <2>1. g.t * n = g.t * (n - 1) + g.t /\ n * g.t = g.t * n
    BY <1>1, <1>2, DivisionExact
  <2> QED
    BY <2>1
<1>5. level \in Nat
  BY <1>1 DEF SaturatingSub
<1>6. ~Bucket!Fits(n)
  <2>1. Bucket!Fits(n) <=> level + n * g.t <= quota.max_burst * g.t
    BY DEF Bucket!Fits
  <2> HIDE DEF level
  <2> QED
    BY <1>1, <1>3, <1>4, <1>5, <2>1
<1>7. g' = g /\ T0' = T0 /\ UNCHANGED <<quota, word>> /\ out'.kind = "insufficient"
  BY DEF RejectN, g, T0, Outcome
<1>8. Bucket!Spill(n)
  BY <1>6, <1>7 DEF Bucket!Spill
<1> QED
  BY <1>8 DEF Bucket!Next

(* governor/README.md: GCRA is functionally equivalent to a leaky bucket.   *)
THEOREM LeakyBucketEquivalence ==
  ASSUME QuotasFit, BatchesFit
  PROVE  Spec => LeakyBucketEquivalent
<1>1. ASSUME IInv, [Next]_vars
      PROVE  Bucket!Next \/ UNCHANGED Bucket!bucket
  <2>1. CASE UNCHANGED <<quota, clock, word, out>>
    <3>1. g' = g /\ T0' = T0
      BY <2>1 DEF g, T0
    <3> QED
      BY <2>1, <3>1 DEF Bucket!bucket
  <2>2. ASSUME NEW by \in Steps, Advance(by)
        PROVE  Bucket!Next \/ UNCHANGED Bucket!bucket
    BY <1>1, <2>2, Drains
  <2>3. CASE Check
    BY <1>1, <2>3, CheckIsBatch, PoursOrSpills
  <2>4. ASSUME NEW n \in Sizes, CheckN(n) \/ RejectN(n)
        PROVE  Bucket!Next
    BY <1>1, <2>4, PoursOrSpills, RejectSpills DEF CheckN
  <2> QED
    BY <1>1, <2>1, <2>2, <2>3, <2>4 DEF Next, vars, WithMiddleware
<1>2. Spec => Bucket!Spec
  BY <1>1, BucketInit, Invariance, PTL DEF Spec, Bucket!Spec
<1> QED
  BY <1>2 DEF LeakyBucketEquivalent
=============================================================================
