---------------------------- MODULE Gcra_proofs ----------------------------
(***************************************************************************)
(* Facts about the decision function that the proofs about the limiters    *)
(* share: what it computes when no sum or product wraps.                   *)
(***************************************************************************)
EXTENDS Gcra, TLAPS

(* A bucket of b cells: its tolerance is b - 1 of them, and Capacity finds  *)
(* b again.                                                                 *)
LEMMA DivisionExact ==
  ASSUME NEW t \in Nat, t >= 1, NEW b \in Nat
  PROVE  /\ t * b \in Nat
         /\ (t * b) \div t = b
         /\ t * (b + 1) = t * b + t
<1>1. t * b \in Nat /\ t * (b + 1) = t * b + t
  OBVIOUS
<1>2. (t * b) \div t = b
  BY <1>1
<1> QED
  BY <1>1, <1>2

LEMMA CapacityOfBurst ==
  ASSUME NEW g, NEW t \in Nat, t >= 1, NEW b \in 1 .. U32 - 1,
         g = [t |-> t, tau |-> t * (b - 1)]
  PROVE  Capacity(g) = b
<1>1. b - 1 \in Nat /\ (b - 1) % U32 = b - 1
  BY WidthAssumption
<1>2. (t * (b - 1)) \div t = b - 1
  BY <1>1, DivisionExact
<1> QED
  BY <1>1, <1>2, WidthAssumption DEF Capacity, AsU32

(* A batch weighs at least one cell more than another iff it has more cells.*)
LEMMA WeightMonotone ==
  ASSUME NEW t \in Nat, t >= 1, NEW m \in Nat, NEW n \in Nat
  PROVE  t * m <= t * n <=> m <= n
<1>1. t * m \in Nat /\ t * n \in Nat
  OBVIOUS
<1>2. CASE m <= n
  <2>1. n - m \in Nat /\ n = m + (n - m)
    BY <1>2
  <2>2. t * (n - m) \in Nat /\ t * n = t * m + t * (n - m)
    BY <2>1
  <2> QED
    BY <1>1, <1>2, <2>2
<1>3. CASE ~(m <= n)
  <2>1. m - n - 1 \in Nat /\ m = n + 1 + (m - n - 1)
    BY <1>3
  <2>2. t * (m - n - 1) \in Nat /\ t * m = t * n + t + t * (m - n - 1)
    BY <2>1
  <2> QED
    BY <1>1, <1>3, <2>2
<1> QED
  BY <1>2, <1>3

LEMMA PlainDifference ==
  ASSUME NEW a \in Nat, NEW b \in Nat, a >= b
  PROVE  SaturatingSub(a, b) = a - b
BY DEF SaturatingSub

LEMMA SmallModulo ==
  ASSUME NEW m \in Nat, NEW x \in Nat, x < m
  PROVE  x % m = x
OBVIOUS

LEMMA Division ==
  ASSUME NEW t \in Nat, t >= 1, NEW x \in Nat
  PROVE  /\ x \div t \in Nat
         /\ t * (x \div t) <= x
         /\ x < t * (x \div t) + t
OBVIOUS

(* Whether a cell or batch conforms depends on less than the rest: only the *)
(* tat it asks for must not wrap.                                           *)
LEMMA ConformsInBounds ==
  ASSUME NEW g, NEW t \in Nat, NEW tau \in Nat, g = [t |-> t, tau |-> tau],
         NEW word \in Nat, NEW t0 \in Nat, NEW add \in 0 .. tau,
         Tat(word, t0) + add < U64
  PROVE  Decision(g, word, t0, add).ok <=> Tat(word, t0) + add <= t0 + tau
<1> DEFINE tat == Tat(word, t0)
           earliest == EarliestTime(g, tat, add)
<1>1. tat \in Nat /\ U64 \in Nat
  BY WidthAssumption DEF Tat
<1>2. earliest = IF tat + add <= tau THEN 0 ELSE tat + add - tau
  BY <1>1 DEF EarliestTime, SaturatingSub, Add
<1>3. t0 < earliest <=> ~(tat + add <= t0 + tau)
  BY <1>1, <1>2
<1>4. Decision(g, word, t0, add).ok <=> ~(t0 < earliest)
  BY DEF Decision
<1> QED
  BY <1>3, <1>4

(* How long there is to wait for a named time that is in the type.          *)
LEMMA WaitInBounds ==
  ASSUME NEW start \in Nat, NEW now \in Nat, NEW s, s.tat \in Nat,
         start + s.tat < U64
  PROVE  /\ WaitTimeFrom(start, s, now) \in Nat
         /\ \A later \in Nat :
              later >= WaitTimeFrom(start, s, now)
                <=> start + s.tat <= now + later
<1>1. EarliestPossible(start, s) = start + s.tat
  BY DEF EarliestPossible, Add
<1>2. \A until \in Nat : SaturatingSub(until, MinOf(until, now)) \in Nat
  BY DEF SaturatingSub, MinOf
<1>3. \A until \in Nat, later \in Nat :
        later >= SaturatingSub(until, MinOf(until, now))
          <=> until <= now + later
  BY DEF SaturatingSub, MinOf
<1>4. start + s.tat \in Nat
  OBVIOUS
<1> QED
  BY <1>1, <1>2, <1>3, <1>4 DEF WaitTimeFrom

(* The decision without wraps: what is asked for conforms iff its tat lies  *)
(* at most tau ahead, and a refusal names the first conforming time.        *)
LEMMA DecisionInBounds ==
  ASSUME NEW g, NEW t \in Nat, NEW tau \in Nat, g = [t |-> t, tau |-> tau],
         NEW word \in Nat, NEW t0 \in Nat, NEW add \in 0 .. tau,
         MaxOf(word, t0) + add < U64, t0 + tau + t < U64
  PROVE  LET d   == Decision(g, word, t0, add)
             tat == Tat(word, t0)
         IN  /\ d.ok \in BOOLEAN
             /\ d.ok <=> tat + add <= t0 + tau
             /\ d.ok => d.state = Snapshot(g, t0, MaxOf(tat, t0) + t + add)
             /\ ~d.ok => d.state = Snapshot(g, tat + add - tau, tat + add - tau)
<1> DEFINE tat == Tat(word, t0)
           earliest == EarliestTime(g, tat, add)
           d == Decision(g, word, t0, add)
<1>1. /\ tat \in Nat /\ U64 \in Nat
      /\ MaxOf(tat, t0) \in Nat /\ tat <= MaxOf(tat, t0)
      /\ MaxOf(tat, t0) = MaxOf(word, t0)
  BY WidthAssumption DEF Tat, MaxOf
<1>2. Add(tat, add) = tat + add
  BY <1>1 DEF Add
<1>3. earliest = IF tat + add <= tau THEN 0 ELSE tat + add - tau
  BY <1>1, <1>2 DEF EarliestTime, SaturatingSub
<1>4. t0 < earliest <=> ~(tat + add <= t0 + tau)
  BY <1>1, <1>3
<1>5. ASSUME tat + add <= t0 + tau
      PROVE  NextTat(g, tat, t0, add) = MaxOf(tat, t0) + t + add
  <2>1. /\ MaxOf(tat, t0) + t \in Nat /\ MaxOf(tat, t0) + t < U64
        /\ MaxOf(tat, t0) + t + add < U64
    BY <1>1, <1>5 DEF MaxOf
  <2> QED
    BY <2>1 DEF NextTat, Add
<1>6. CASE t0 < earliest
  <2>1. d = [ok |-> FALSE, state |-> Snapshot(g, earliest, earliest)]
    BY <1>6 DEF Decision
  <2>2. earliest = tat + add - tau
    BY <1>1, <1>3, <1>6
  <2>3. /\ d.ok = FALSE
        /\ d.state = Snapshot(g, tat + add - tau, tat + add - tau)
    BY <2>1, <2>2
  <2> HIDE DEF d, tat, earliest
  <2>4. /\ d.ok \in BOOLEAN
        /\ d.ok <=> tat + add <= t0 + tau
        /\ d.ok => d.state = Snapshot(g, t0, MaxOf(tat, t0) + t + add)
        /\ ~d.ok => d.state = Snapshot(g, tat + add - tau, tat + add - tau)
    BY <1>4, <1>6, <2>3
  <2> QED
    BY <2>4 DEF d, tat
<1>7. CASE ~(t0 < earliest)
  <2>1. d = [ok |-> TRUE,
             state |-> Snapshot(g, t0, NextTat(g, tat, t0, add))]
    BY <1>7 DEF Decision
  <2>2. d.ok = TRUE /\ d.state = Snapshot(g, t0, MaxOf(tat, t0) + t + add)
    BY <1>4, <1>5, <1>7, <2>1
  <2> HIDE DEF d, tat, earliest
  <2>3. /\ d.ok \in BOOLEAN
        /\ d.ok <=> tat + add <= t0 + tau
        /\ d.ok => d.state = Snapshot(g, t0, MaxOf(tat, t0) + t + add)
        /\ ~d.ok => d.state = Snapshot(g, tat + add - tau, tat + add - tau)
    BY <1>4, <1>7, <2>2
  <2> QED
    BY <2>3 DEF d, tat
<1> QED
  BY <1>6, <1>7

(* The same, of the tat alone.                                              *)
LEMMA TatInBounds ==
  ASSUME NEW g, NEW t \in Nat, NEW tau \in Nat, g = [t |-> t, tau |-> tau],
         NEW word \in Nat, NEW t0 \in Nat, NEW add \in 0 .. tau,
         MaxOf(word, t0) + add < U64, t0 + tau + t < U64
  PROVE  LET d   == Decision(g, word, t0, add)
             tat == Tat(word, t0)
         IN  /\ d.ok \in BOOLEAN
             /\ d.ok <=> tat + add <= t0 + tau
             /\ d.ok => d.state.tat = MaxOf(tat, t0) + t + add
             /\ ~d.ok => d.state.tat = tat + add - tau
<1> DEFINE d == Decision(g, word, t0, add)
<1>1. \A at, tat : Snapshot(g, at, tat).tat = tat
  BY DEF Snapshot
<1> HIDE DEF d
<1> QED
  BY <1>1, DecisionInBounds DEF d
=============================================================================
