--------------------------- MODULE Waiting_proofs ---------------------------
(***************************************************************************)
(* Facts about the waits that the proofs about the futures and the         *)
(* combinators share: a decision as a distance from now, the passing of    *)
(* time and the jitter.                                                    *)
(***************************************************************************)
EXTENDS Waiting, Gcra_proofs

LEMMA ParamsType ==
  /\ T \in Nat /\ T >= 1
  /\ Tau \in Nat
  /\ gcra = [t |-> T, tau |-> Tau]
  /\ U64 \in Nat
  /\ 5 * (Tau + T) < U64
<1>1. T = MaxOf(Replenish1Per, 1)
  BY DEF T, gcra, GcraNew
<1>2. T \in Nat /\ T >= 1
  BY <1>1, WaitingAssumption DEF MaxOf
<1>3. MaxBurst - 1 \in Nat /\ U64 \in Nat \ {0}
  BY WaitingAssumption, WidthAssumption
<1>4. Tau = Mul(T, MaxBurst - 1)
  BY <1>1 DEF Tau, gcra, GcraNew
<1>5. T * (MaxBurst - 1) \in Nat
  BY <1>2, <1>3
<1>6. Tau \in Nat
  BY <1>3, <1>4, <1>5 DEF Mul
<1>7. gcra = [t |-> T, tau |-> Tau]
  BY DEF T, Tau, gcra, GcraNew
<1>8. 5 * (Tau + T) < U64
  BY WaitingAssumption
<1> QED
  BY <1>2, <1>3, <1>6, <1>7, <1>8

(* A check on a word that lies `ahead`: a batch passes iff it leaves the    *)
(* tat, less its last cell, within tau, and a refusal names the time that   *)
(* is missing.  `slack` is what a clock was set back.                       *)
LEMMA BatchNow ==
  ASSUME NEW slack \in Nat, 5 * (Tau + T) + slack < U64,
         NEW ahead \in 0 .. Tau + T + slack, NEW add \in 0 .. Tau
  PROVE  /\ Passes(ahead, add) <=> ahead + add <= Tau
         /\ Passes(ahead, add) => Stored(ahead, add) = ahead + T + add
         /\ ~Passes(ahead, add) => Owed(ahead, add) = ahead + add - Tau
<1> DEFINE word == Now + ahead
<1>1. /\ Now = Tau + 1 /\ word \in Nat /\ word >= 1 /\ Now \in Nat
      /\ MaxOf(word, Now) = word /\ ahead \in Nat
  BY ParamsType DEF Now, MaxOf
<1>2. Tat(word, Now) = word
  BY <1>1 DEF Tat
<1>3. MaxOf(word, Now) + add < U64 /\ Now + Tau + T < U64
  BY <1>1, ParamsType
<1>4. /\ Passes(ahead, add) <=> word + add <= Now + Tau
      /\ Passes(ahead, add) =>
           DecisionNow(ahead, add).state.tat = word + T + add
      /\ ~Passes(ahead, add) =>
           DecisionNow(ahead, add).state.tat = word + add - Tau
  BY <1>1, <1>2, <1>3, TatInBounds, ParamsType DEF Passes, DecisionNow
<1> QED
  BY <1>1, <1>4, ParamsType DEF Owed, Stored

LEMMA CloserType ==
  ASSUME NEW d \in Nat
  PROVE  Closer(d) \in Nat /\ Closer(d) <= d
BY DEF Closer, SaturatingSub

LEMMA CloserMonotone ==
  ASSUME NEW d \in Nat, NEW e \in Nat, d <= e
  PROVE  Closer(d) <= Closer(e)
BY DEF Closer, SaturatingSub

LEMMA CloserBound ==
  ASSUME NEW n \in Nat, NEW d \in 0 .. n
  PROVE  Closer(d) \in 0 .. n
BY CloserType

LEMMA JitterType == JitterGet \subseteq 0 .. JitterMax
BY WaitingAssumption DEF JitterGet
=============================================================================
