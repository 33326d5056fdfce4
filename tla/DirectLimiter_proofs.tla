------------------------ MODULE DirectLimiter_proofs ------------------------
(***************************************************************************)
(* The rate limit holds for any number of threads, any quota, any batches  *)
(* and any clock, as long as nothing overflows (LifetimeAssumption and     *)
(* BatchAssumption).                                                       *)
(***************************************************************************)
EXTENDS DirectLimiter, TLAPS

-----------------------------------------------------------------------------
(* The parameters of the limiter, and what a decision is without the wraps. *)

LEMMA ParamsType ==
  /\ T \in Nat /\ T >= 1
  /\ Tau \in Nat
  /\ gcra = [t |-> T, tau |-> Tau]
  /\ U64 \in Nat /\ U32 \in Nat \ {0}
  /\ Start \in Nat /\ MaxClock \in Nat /\ Lifetime \in Nat
  /\ Lifetime <= MaxClock
  /\ MaxClock + 2 * Tau + T < U64
<1> DEFINE q == [max_burst |-> MaxBurst, replenish_1_per |-> Replenish1Per]
<1>1. T = MaxOf(Replenish1Per, 1)
  BY DEF T, gcra, GcraNew
<1>2. Tau = Mul(MaxOf(Replenish1Per, 1), MaxBurst - 1)
  BY DEF Tau, gcra, GcraNew
<1>3. T \in Nat /\ T >= 1
  BY <1>1, LimiterAssumption DEF MaxOf
<1>4. T * (MaxBurst - 1) \in Nat
  BY <1>3, LimiterAssumption
<1>5. Tau = T * (MaxBurst - 1)
  BY <1>1, <1>2, <1>4, LifetimeAssumption DEF Mul
<1>6. gcra = [t |-> T, tau |-> Tau]
  BY DEF T, Tau, gcra, GcraNew
<1> QED
  BY <1>3, <1>4, <1>5, <1>6, LimiterAssumption, LifetimeAssumption,
     WidthAssumption DEF Lifetime

(* The decision on a word within the limiter's lifetime: a cell or batch    *)
(* conforms iff its tat lies at most Tau ahead, and a refusal names the     *)
(* first conforming time.                                                   *)
LEMMA DecisionExact ==
  ASSUME NEW word \in Nat, word <= Lifetime + Tau + T,
         NEW t0 \in 0 .. Lifetime, NEW add \in 0 .. Tau
  PROVE  LET d   == Decision(gcra, word, t0, add)
             tat == Tat(word, t0)
         IN  /\ d.ok \in BOOLEAN
             /\ d.ok <=> tat + add <= t0 + Tau
             /\ d.ok => d.state.tat = MaxOf(tat, t0) + T + add
             /\ ~d.ok => d.state.tat = tat + add - Tau
<1> DEFINE tat == Tat(word, t0)
           earliest == EarliestTime(gcra, tat, add)
           d == Decision(gcra, word, t0, add)
<1>1. tat \in Nat /\ tat <= Lifetime + Tau + T
  BY ParamsType DEF Tat
<1>2. Add(tat, add) = tat + add
  BY <1>1, ParamsType DEF Add
<1>3. earliest = IF tat + add <= Tau THEN 0 ELSE tat + add - Tau
  BY <1>1, <1>2, ParamsType DEF EarliestTime, SaturatingSub
<1>4. t0 < earliest <=> ~(tat + add <= t0 + Tau)
  BY <1>1, <1>3, ParamsType
<1>5. ASSUME tat + add <= t0 + Tau
      PROVE  NextTat(gcra, tat, t0, add) = MaxOf(tat, t0) + T + add
  BY <1>1, <1>5, ParamsType DEF NextTat, Add, MaxOf
<1>6. CASE t0 < earliest
  <2>1. d = [ok |-> FALSE, state |-> Snapshot(gcra, earliest, earliest)]
    BY <1>6 DEF Decision
  <2>2. d.ok = FALSE /\ d.state.tat = earliest
    BY <2>1 DEF Snapshot
  <2>3. earliest = tat + add - Tau
    BY <1>1, <1>3, <1>6, ParamsType
  <2> QED
    BY <1>4, <1>6, <2>2, <2>3
<1>7. CASE ~(t0 < earliest)
  <2>1. d = [ok |-> TRUE,
             state |-> Snapshot(gcra, t0, NextTat(gcra, tat, t0, add))]
    BY <1>7 DEF Decision
  <2>2. d.ok = TRUE /\ d.state.tat = NextTat(gcra, tat, t0, add)
    BY <2>1 DEF Snapshot
  <2> QED
    BY <1>4, <1>5, <1>7, <2>2
<1> QED
  BY <1>6, <1>7

-----------------------------------------------------------------------------
(* The inductive invariant.                                                 *)

(* Every store moves the tat forward, by a cell at least: the words differ, *)
(* and no thread has to fear that one comes back.                           *)
MoAscending ==
  \A i, j \in 1 .. Len(mo) : i < j => mo[i] + T <= mo[j]

LatestBounded == Latest <= Lifetime + Tau + T

(* What a thread carries from one step of its call to the next.             *)
PendingOK ==
  \A th \in Threads :
    /\ pc[th] = "idle" => req[th] = NoReq
    /\ pc[th] # "idle" =>
         /\ req[th].n >= 1
         /\ req[th].add = T * (req[th].n - 1)
    /\ pc[th] = "cas" => DecisionAt(th, seen[th]).ok

(* The latest tat is the most that any admission a, and all that was        *)
(* admitted after it, ask for; and one of them asks for all of it.          *)
Charge(a) == a.t0 + a.w + (total - a.cum)

Charged ==
  \A a \in admitted : a.cum <= total /\ Charge(a) <= Latest

Accounted ==
  Latest # 0 => \E a \in admitted : Charge(a) = Latest

(* A refusal that was handed out stays true of the latest word.             *)
DeniedStill ==
  \A th \in Threads : out[th].kind = "not_until" =>
    out[th].at + Tau <= Latest + out[th].add

IInv ==
  /\ TypeOK
  /\ MoAscending
  /\ LatestBounded
  /\ PendingOK
  /\ Charged
  /\ Accounted
  /\ DeniedStill
  /\ WindowConformance

-----------------------------------------------------------------------------
LEMMA WordFacts ==
  ASSUME TypeOK, MoAscending, LatestBounded
  PROVE  /\ Len(mo) \in Nat /\ Len(mo) >= 1
         /\ Latest \in Nat
         /\ \A j \in 1 .. Len(mo) :
              /\ mo[j] \in Nat
              /\ mo[j] <= Latest
              /\ mo[j] <= Lifetime + Tau + T
              /\ j # Len(mo) => mo[j] + T <= Latest
<1>1. Len(mo) \in Nat /\ Len(mo) >= 1
  BY DEF TypeOK
<1>2. \A j \in 1 .. Len(mo) : mo[j] \in Nat
  BY ParamsType DEF TypeOK, Nanos
<1>3. Latest \in Nat
  BY <1>1, <1>2 DEF Latest
<1>4. ASSUME NEW j \in 1 .. Len(mo), j # Len(mo)
      PROVE  mo[j] + T <= Latest
  BY <1>1, <1>4 DEF MoAscending, Latest
<1> QED
  BY <1>1, <1>2, <1>3, <1>4, ParamsType DEF LatestBounded, Latest

(* DecisionExact, for a thread inside a call and a word it may observe.     *)
LEMMA PendingDecision ==
  ASSUME IInv, NEW th \in Threads, pc[th] # "idle", NEW j \in 1 .. Len(mo)
  PROVE  LET t0  == req[th].t0
             add == req[th].add
             d   == DecisionAt(th, j)
             tat == Tat(mo[j], t0)
         IN  /\ t0 \in 0 .. Lifetime /\ add \in 0 .. Tau
             /\ d.ok \in BOOLEAN
             /\ d.ok <=> tat + add <= t0 + Tau
             /\ d.ok => d.state.tat = MaxOf(tat, t0) + T + add
             /\ ~d.ok => d.state.tat = tat + add - Tau
<1>1. req[th].t0 \in 0 .. Lifetime /\ req[th].add \in 0 .. Tau
  BY DEF IInv, TypeOK, Requests
<1>2. mo[j] \in Nat /\ mo[j] <= Lifetime + Tau + T
  BY WordFacts DEF IInv
<1> QED
  BY <1>1, <1>2, DecisionExact DEF DecisionAt

LEMMA InitIInv == Init => IInv
<1> SUFFICES ASSUME Init PROVE IInv
  OBVIOUS
<1> USE ParamsType DEF Init
<1>1. Len(mo) = 1 /\ Latest = 0
  BY DEF Latest
<1>2. TypeOK
  BY LimiterAssumption
     DEF TypeOK, Nanos, NoReq, Requests, Outcome, Kinds
<1>3. MoAscending /\ LatestBounded
  BY <1>1 DEF MoAscending, LatestBounded
<1>4. PendingOK /\ Charged /\ Accounted /\ DeniedStill /\ WindowConformance
  BY <1>1 DEF PendingOK, Charged, Accounted, DeniedStill, WindowConformance,
              Outcome
<1> QED
  BY <1>2, <1>3, <1>4 DEF IInv

-----------------------------------------------------------------------------
(* The steps that leave the words and the admissions alone keep all of the  *)
(* invariant that is about nothing else.                                    *)
LEMMA WordsKept ==
  ASSUME IInv, UNCHANGED <<mo, admitted, total>>
  PROVE  /\ MoAscending' /\ LatestBounded' /\ Charged' /\ Accounted'
         /\ WindowConformance'
BY DEF IInv, MoAscending, LatestBounded, Charged, Accounted, Charge,
       WindowConformance, Latest

LEMMA ClockIInv ==
  ASSUME IInv, Tick \/ StepBack
  PROVE  IInv'
<1> USE DEF IInv
<1>1. clock' \in 0 .. MaxClock /\ UNCHANGED <<mo, seen, pc, req, out, admitted, total>>
  BY ParamsType DEF Tick, StepBack, TypeOK
<1>2. TypeOK'
  BY <1>1 DEF TypeOK
<1>3. PendingOK' /\ DeniedStill'
  BY <1>1 DEF PendingOK, DeniedStill, DecisionAt, Latest
<1> QED
  BY <1>1, <1>2, <1>3, WordsKept

LEMMA EnterIInv ==
  ASSUME IInv, NEW th \in Threads, NEW n \in Sizes \cup {1},
         T * (n - 1) <= Tau, Enter(th, n, T * (n - 1))
  PROVE  IInv'
<1> USE DEF IInv
<1>1. n \in Nat /\ n >= 1 /\ T * (n - 1) \in 0 .. Tau
  BY ParamsType, LimiterAssumption
<1>2. Measured \in 0 .. Lifetime
  BY ParamsType DEF Measured, SaturatingSub, Lifetime, TypeOK
<1>3. UNCHANGED <<mo, seen, out, admitted, total, clock>>
  BY DEF Enter
<1>4. TypeOK'
  BY <1>1, <1>2, <1>3 DEF TypeOK, Enter, Requests
<1>5. PendingOK'
  BY <1>1, <1>3 DEF PendingOK, Enter, TypeOK, DecisionAt
<1>6. DeniedStill'
  BY <1>3 DEF DeniedStill, Latest
<1> QED
  BY <1>3, <1>4, <1>5, <1>6, WordsKept

LEMMA BatchWeight ==
  ASSUME NEW n \in Sizes
  PROVE  AdditionalWeight(gcra, n) = T * (n - 1) /\ T * (n - 1) \in Nat
<1>1. n \in Nat /\ n >= 1
  BY LimiterAssumption
<1>2. T * (n - 1) \in Nat
  BY <1>1, ParamsType
<1> QED
  BY <1>2, ParamsType, BatchAssumption DEF AdditionalWeight, Mul

LEMMA RejectIInv ==
  ASSUME IInv, NEW th \in Threads, NEW n \in Sizes, RejectN(th, n)
  PROVE  IInv'
<1> USE DEF IInv
<1>1. Capacity(gcra) \in Nat
  <2>1. Tau \div T \in Nat
    BY ParamsType
  <2>2. (Tau \div T) % U32 \in Nat
    BY <2>1, ParamsType
  <2> QED
    BY <2>2, ParamsType DEF Capacity, AsU32
<1>2. UNCHANGED <<mo, seen, pc, req, admitted, total, clock>>
  BY DEF RejectN
<1>3. TypeOK'
  BY <1>1, <1>2, ParamsType DEF TypeOK, RejectN, Outcome, Kinds
<1>4. PendingOK'
  BY <1>2 DEF PendingOK, DecisionAt
<1>5. DeniedStill'
  BY <1>2 DEF DeniedStill, Latest, RejectN, Outcome, TypeOK
<1> QED
  BY <1>2, <1>3, <1>4, <1>5, WordsKept

-----------------------------------------------------------------------------
LEMMA ObserveIInv ==
  ASSUME IInv, NEW th \in Threads, pc[th] # "idle",
         NEW j \in seen[th] .. Len(mo), Observe(th, j)
  PROVE  IInv'
<1> USE DEF IInv
<1>1. j \in 1 .. Len(mo)
  BY WordFacts DEF TypeOK
<1>2. UNCHANGED <<clock, mo, admitted, total>>
  BY DEF Observe
<1>3. CASE /\ DecisionAt(th, j).ok
           /\ pc' = [pc EXCEPT ![th] = "cas"]
           /\ UNCHANGED <<req, out>>
  <2>1. TypeOK'
    BY <1>1, <1>2, <1>3 DEF TypeOK, Observe
  <2>2. PendingOK'
    BY <1>1, <1>2, <1>3 DEF PendingOK, Observe, TypeOK, DecisionAt
  <2>3. DeniedStill'
    BY <1>2, <1>3 DEF DeniedStill, Latest
  <2> QED
    BY <1>2, <2>1, <2>2, <2>3, WordsKept
<1>4. CASE /\ ~DecisionAt(th, j).ok
           /\ Return(th, Outcome("not_until", DecisionAt(th, j).state.tat,
                                 req[th].add))
  <2> DEFINE at == DecisionAt(th, j).state.tat
             add == req[th].add
  <2>1. add \in 0 .. Tau
    BY DEF TypeOK, Requests
  <2>2. at \in Nat /\ at + Tau <= Latest + add
    <3> DEFINE tat == Tat(mo[j], req[th].t0)
    <3>1. mo[j] \in Nat /\ mo[j] <= Latest /\ Latest \in Nat
      BY <1>1, WordFacts
    <3>2. /\ req[th].t0 \in Nat
          /\ ~(tat + add <= req[th].t0 + Tau)
          /\ at = tat + add - Tau
      BY <1>1, <1>4, PendingDecision
    <3>3. tat = mo[j]
      BY <2>1, <3>1, <3>2, ParamsType DEF Tat
    <3> DEFINE word == mo[j]
               t0   == req[th].t0
    <3>4. /\ word \in Nat /\ Latest \in Nat /\ word <= Latest
          /\ t0 \in Nat /\ add \in Nat /\ Tau \in Nat
          /\ ~(word + add <= t0 + Tau) /\ at = word + add - Tau
      BY <2>1, <3>1, <3>2, <3>3, ParamsType
    <3> HIDE DEF word, t0, at, add, tat
    <3> QED
      BY <3>4
  <2>3. TypeOK'
    <3> HIDE DEF at, add
    <3>1. seen' \in [Threads -> 1 .. Len(mo')] /\ mo' = mo
      BY <1>1, <1>2 DEF TypeOK, Observe
    <3>2. out' \in [Threads -> [kind : Kinds, at : Nat, add : 0 .. Tau]]
      BY <1>4, <2>1, <2>2 DEF TypeOK, Return, Outcome, Kinds, at, add
    <3>3. req' \in [Threads -> Requests]
      BY <1>4, ParamsType DEF TypeOK, Return, NoReq, Requests
    <3>4. pc' \in [Threads -> {"idle", "load", "cas"}]
      BY <1>4 DEF TypeOK, Return
    <3> QED
      BY <1>1, <1>2, <1>4, <3>1, <3>2, <3>3, <3>4 DEF TypeOK
  <2>4. PendingOK'
    BY <1>2, <1>4 DEF PendingOK, Observe, Return, TypeOK, DecisionAt
  <2>5. DeniedStill'
    BY <1>2, <1>4, <2>2 DEF DeniedStill, Return, Outcome, TypeOK, Latest
  <2> QED
    BY <1>2, <2>3, <2>4, <2>5, WordsKept
<1> QED
  BY <1>3, <1>4 DEF Observe, Decide

(* The exchange is taken on the latest word, so its decision is the one the *)
(* latest word calls for.                                                   *)
LEMMA ExchangeFacts ==
  ASSUME IInv, NEW th \in Threads, CasOk(th)
  PROVE  LET t0  == req[th].t0
             add == req[th].add
             tat == Tat(Latest, t0)
             w   == T * req[th].n
         IN  /\ t0 \in 0 .. Lifetime /\ add \in 0 .. Tau
             /\ w = T + add /\ w \in Nat
             /\ tat \in Nat /\ tat + add <= t0 + Tau
             /\ Latest' = MaxOf(tat, t0) + w
             /\ Latest' \in Nat /\ Latest' >= Latest + w
             /\ Len(mo') = Len(mo) + 1
             /\ mo' = Append(mo, Latest')
<1> DEFINE t0  == req[th].t0
           add == req[th].add
           n   == req[th].n
           d   == DecisionAt(th, seen[th])
           tat == Tat(Latest, t0)
<1> USE DEF IInv
<1>1. /\ pc[th] = "cas" /\ seen[th] \in 1 .. Len(mo) /\ mo[seen[th]] = Latest
      /\ mo' = Append(mo, d.state.tat)
  BY DEF CasOk, Store, TypeOK
<1>2. d.ok /\ add = T * (n - 1) /\ n \in Nat /\ n >= 1
  <2>1. n \in Sizes \cup {0, 1}
    BY DEF TypeOK, Requests
  <2>2. \A k \in Sizes \cup {0, 1} : k \in Nat
    BY LimiterAssumption
  <2>3. d.ok /\ add = T * (n - 1) /\ n >= 1
    BY <1>1 DEF PendingOK
  <2> QED
    BY <2>1, <2>2, <2>3
<1>3. /\ t0 \in 0 .. Lifetime /\ add \in 0 .. Tau
      /\ tat + add <= t0 + Tau
      /\ d.state.tat = MaxOf(tat, t0) + T + add
  BY <1>1, <1>2, PendingDecision
<1>4. T * n = T + add
  BY <1>2, ParamsType
<1>5. Latest \in Nat
  BY WordFacts
<1>6. tat \in Nat /\ tat >= Latest
  BY <1>3, <1>5 DEF Tat
<1>7. Latest' = d.state.tat /\ Len(mo') = Len(mo) + 1
  <2>1. mo \in Seq(Nanos)
    BY DEF TypeOK
  <2>2. d.state.tat \in Nat /\ d.state.tat <= Lifetime + Tau + T
    BY <1>3, <1>6, ParamsType DEF MaxOf
  <2>3. d.state.tat \in Nanos
    BY <2>2, ParamsType DEF Nanos
  <2> QED
    BY <1>1, <2>1, <2>3 DEF Latest
<1>8. Latest' = MaxOf(tat, t0) + T * n
  BY <1>3, <1>4, <1>6, <1>7, ParamsType DEF MaxOf
<1>9. Latest' \in Nat /\ Latest' >= Latest + T * n
  BY <1>3, <1>4, <1>5, <1>6, <1>8, ParamsType DEF MaxOf
<1>10. T * n = T + add /\ T * n \in Nat
  BY <1>3, <1>4, ParamsType
<1>11. mo' = Append(mo, Latest')
  BY <1>1, <1>7
<1> HIDE DEF t0, add, n, d, tat
<1>12. /\ t0 \in 0 .. Lifetime /\ add \in 0 .. Tau
       /\ tat \in Nat /\ tat + add <= t0 + Tau
       /\ Latest' = MaxOf(tat, t0) + T * n
       /\ Latest' \in Nat /\ Latest' >= Latest + T * n
       /\ Len(mo') = Len(mo) + 1
  BY <1>3, <1>6, <1>7, <1>8, <1>9
<1> QED
  BY <1>10, <1>11, <1>12, Zenon DEF t0, add, n, tat

(* ExchangeFacts and the rest of the step, about fixed values.              *)
LEMMA ExchangeStep ==
  ASSUME IInv, NEW th \in Threads, CasOk(th)
  PROVE  \E t0 \in 0 .. Lifetime, add \in 0 .. Tau, w, tat, cum \in Nat :
           /\ w = T + add
           /\ tat = Tat(Latest, t0) /\ tat + add <= t0 + Tau
           /\ Latest' = MaxOf(tat, t0) + w
           /\ Latest' \in Nat /\ Latest' >= Latest + w
           /\ mo' = Append(mo, Latest')
           /\ cum = total + w /\ total' = cum
           /\ admitted' = admitted \cup {[t0 |-> t0, w |-> w, cum |-> cum]}
<1>1. /\ total' = total + T * req[th].n
      /\ admitted' = admitted \cup
           {[t0 |-> req[th].t0, w |-> T * req[th].n,
             cum |-> total + T * req[th].n]}
  BY DEF CasOk, Admit
<1>2. total \in Nat
  BY DEF IInv, TypeOK
<1> DEFINE t0  == req[th].t0
           add == req[th].add
           w   == T * req[th].n
           tat == Tat(Latest, t0)
           cum == total + w
<1>3. /\ t0 \in 0 .. Lifetime /\ add \in 0 .. Tau
      /\ w = T + add /\ w \in Nat
      /\ tat \in Nat /\ tat + add <= t0 + Tau
      /\ Latest' = MaxOf(tat, t0) + w
      /\ Latest' \in Nat /\ Latest' >= Latest + w
      /\ mo' = Append(mo, Latest')
  BY ExchangeFacts, Zenon
<1>4. tat = Tat(Latest, t0)
  OBVIOUS
<1>5. /\ cum = total + w /\ total' = cum
      /\ admitted' = admitted \cup {[t0 |-> t0, w |-> w, cum |-> cum]}
  BY <1>1, Zenon
<1> HIDE DEF t0, add, w, tat, cum
<1>6. cum \in Nat
  BY <1>2, <1>3, <1>5
<1> QED
  BY <1>3, <1>4, <1>5, <1>6, Zenon

LEMMA ExchangeIInv ==
  ASSUME IInv, NEW th \in Threads, CasOk(th)
  PROVE  IInv'
<1> USE DEF IInv
<1>1. PICK t0 \in 0 .. Lifetime, add \in 0 .. Tau, w, tat, cum \in Nat :
        /\ w = T + add
        /\ tat = Tat(Latest, t0) /\ tat + add <= t0 + Tau
        /\ Latest' = MaxOf(tat, t0) + w
        /\ Latest' \in Nat /\ Latest' >= Latest + w
        /\ mo' = Append(mo, Latest')
        /\ cum = total + w /\ total' = cum
        /\ admitted' = admitted \cup {[t0 |-> t0, w |-> w, cum |-> cum]}
  BY ExchangeStep
<1> DEFINE new == [t0 |-> t0, w |-> w, cum |-> cum]
<1>2. /\ pc' = [pc EXCEPT ![th] = "idle"]
      /\ req' = [req EXCEPT ![th] = NoReq]
      /\ out' = [out EXCEPT ![th] = Outcome("allowed", 0, 0)]
      /\ seen' = [seen EXCEPT ![th] = Len(mo) + 1]
      /\ UNCHANGED clock
  BY DEF CasOk, Store, Admit, Return
<1>3. Len(mo) \in Nat /\ Len(mo) >= 1 /\ Latest \in Nat
  BY WordFacts
<1>4. Latest' <= Lifetime + Tau + T
  BY <1>1, ParamsType DEF MaxOf
<1>5. Latest' \in Nanos
  BY <1>1, <1>4, ParamsType DEF Nanos
<1>6. /\ mo' \in Seq(Nanos) /\ Len(mo') = Len(mo) + 1
      /\ mo'[Len(mo) + 1] = Latest'
      /\ \A i \in 1 .. Len(mo) : mo'[i] = mo[i]
  BY <1>1, <1>5 DEF TypeOK
<1>7. MoAscending'
  <2>1. \A i \in 1 .. Len(mo) : mo[i] \in Nat /\ mo[i] <= Latest
    BY WordFacts
  <2>2. w >= T
    BY <1>1, ParamsType
  <2>3. ASSUME NEW i \in 1 .. Len(mo'), NEW j \in 1 .. Len(mo'), i < j
        PROVE  mo'[i] + T <= mo'[j]
    <3>1. i \in 1 .. Len(mo)
      BY <1>3, <1>6, <2>3
    <3>2. CASE j \in 1 .. Len(mo)
      BY <1>6, <2>3, <3>1, <3>2 DEF MoAscending
    <3>3. CASE j = Len(mo) + 1
      <4>1. mo'[i] = mo[i] /\ mo'[j] = Latest'
        BY <1>6, <3>1, <3>3
      <4>2. mo[i] \in Nat /\ mo[i] <= Latest
        BY <2>1, <3>1
      <4>3. w \in Nat /\ T \in Nat /\ T <= w /\ Latest + w <= Latest'
            /\ Latest' \in Nat
        BY <1>1, <1>3, <1>5, <2>2, ParamsType DEF Nanos, MaxOf
      <4> QED
        BY <1>3, <4>1, <4>2, <4>3
    <3> QED
      BY <1>3, <1>6, <3>2, <3>3
  <2> QED
    BY <2>3 DEF MoAscending
<1>8. TypeOK'
  <2>1. seen' \in [Threads -> 1 .. Len(mo')]
    BY <1>2, <1>3, <1>6 DEF TypeOK
  <2>2. admitted' \subseteq [t0 : 0 .. Lifetime, w : Nat, cum : Nat]
    <3>1. admitted \subseteq [t0 : 0 .. Lifetime, w : Nat, cum : Nat]
      BY DEF TypeOK
    <3>2. new \in [t0 : 0 .. Lifetime, w : Nat, cum : Nat]
      OBVIOUS
    <3>3. admitted' = admitted \cup {new}
      BY <1>1
    <3> HIDE DEF new
    <3> QED
      BY <3>1, <3>2, <3>3
  <2>3. Len(mo') > 0
    BY <1>3, <1>6
  <2>4. out' \in [Threads -> [kind : Kinds, at : Nat, add : 0 .. Tau]]
    BY <1>2, ParamsType DEF TypeOK, Outcome, Kinds
  <2>5. req' \in [Threads -> Requests]
    BY <1>2, ParamsType DEF TypeOK, NoReq, Requests
  <2>6. /\ clock' \in 0 .. MaxClock /\ total' \in Nat
        /\ pc' \in [Threads -> {"idle", "load", "cas"}]
    BY <1>1, <1>2, ParamsType DEF TypeOK
  <2> QED
    BY <1>6, <2>1, <2>2, <2>3, <2>4, <2>5, <2>6 DEF TypeOK
<1>9. PendingOK'
  <2>1. ASSUME NEW u \in Threads, pc'[u] # "idle"
        PROVE  /\ u # th /\ pc[u] = pc'[u] /\ req'[u] = req[u]
               /\ seen'[u] = seen[u] /\ mo'[seen[u]] = mo[seen[u]]
    BY <1>2, <1>6, <2>1 DEF TypeOK
  <2>2. ASSUME NEW u \in Threads, pc'[u] = "idle"
        PROVE  req'[u] = NoReq
    BY <1>2, <2>2 DEF PendingOK, TypeOK
  <2> QED
    BY <2>1, <2>2 DEF PendingOK, DecisionAt
<1>10. /\ w \in Nat /\ w >= 1 /\ total \in Nat
       /\ cum = total + w /\ total' = cum
       /\ Latest' \in Nat /\ Latest' >= Latest + w /\ Latest' >= t0 + w
       /\ t0 >= Latest => Latest' = t0 + w
       /\ t0 < Latest => Latest' = Latest + w
       /\ Latest + w <= t0 + Tau + T
  BY <1>1, <1>3, ParamsType DEF MaxOf, Tat, TypeOK
<1>11. ASSUME NEW a \in admitted
       PROVE  /\ Charge(a) \in Nat /\ Charge(a) <= Latest
              /\ a.cum \in Nat /\ a.cum <= total /\ a.t0 + a.w \in Nat
              /\ Charge(a) = a.t0 + a.w + (total - a.cum)
  BY <1>10 DEF Charge, Charged, TypeOK
<1>12. ASSUME NEW a \in admitted
       PROVE  Charge(a)' = Charge(a) + w
  BY <1>10, <1>11 DEF Charge
<1>13. new \in admitted' /\ new.cum = total' /\ Charge(new)' = t0 + w
  BY <1>1, <1>10 DEF Charge
<1>14. Charged'
  <2>1. ASSUME NEW a \in admitted
        PROVE  a.cum <= total' /\ Charge(a)' <= Latest'
    BY <1>3, <1>10, <1>11, <1>12
  <2>2. new.cum <= total' /\ Charge(new)' <= Latest'
    BY <1>10, <1>13
  <2> QED
    BY <1>1, <2>1, <2>2 DEF Charged
<1>15. Accounted'
  <2>1. CASE t0 >= Latest
    BY <1>10, <1>13, <2>1 DEF Accounted
  <2>2. CASE t0 < Latest
    <3>1. PICK a \in admitted : Charge(a) = Latest
      BY <1>3, <2>2 DEF Accounted
    <3>2. a \in admitted' /\ Charge(a)' = Latest'
      BY <1>1, <1>10, <1>12, <2>2, <3>1
    <3> QED
      BY <3>2 DEF Accounted
  <2> QED
    BY <1>3, <2>1, <2>2
<1>16. DeniedStill'
  <2>1. ASSUME NEW u \in Threads, out'[u].kind = "not_until"
        PROVE  out'[u].at + Tau <= Latest' + out'[u].add
    <3>1. out'[u] = out[u] /\ out[u].at \in Nat /\ out[u].add \in 0 .. Tau
      BY <1>2, <2>1 DEF Outcome, TypeOK
    <3> QED
      <4>1. out[u].at + Tau <= Latest + out[u].add
        BY <2>1, <3>1, <1>2 DEF DeniedStill
      <4>2. Latest <= Latest' /\ Latest' \in Nat
        BY <1>3, <1>10
      <4>3. out[u].add \in Nat /\ Tau \in Nat
        BY <3>1, ParamsType
      <4> QED
        BY <1>3, <3>1, <4>1, <4>2, <4>3
  <2> QED
    BY <2>1 DEF DeniedStill
<1>17. WindowConformance'
  <2>1. ASSUME NEW a \in admitted
        PROVE  /\ a.t0 + a.w + (cum - a.cum) <= t0 + Tau + T
               /\ ~(cum <= a.cum)
    BY <1>3, <1>10, <1>11, ParamsType
  <2>2. t0 + w + (cum - cum) <= t0 + Tau + T
    BY <1>1, <1>10, ParamsType
  <2>3. ASSUME NEW a \in admitted', NEW b \in admitted', a.cum <= b.cum
        PROVE  a.t0 + a.w + (b.cum - a.cum) <= b.t0 + Tau + T
    <3>1. CASE a \in admitted /\ b \in admitted
      BY <2>3, <3>1 DEF WindowConformance
    <3>2. CASE b = new
      <4>1. b.cum = cum /\ b.t0 = t0 /\ new.w = w
        BY <3>2
      <4>2. CASE a \in admitted
        BY <2>1, <4>1, <4>2
      <4>3. CASE a = new
        BY <2>2, <4>1, <4>3
      <4> QED
        BY <1>1, <4>2, <4>3
    <3>3. CASE a = new /\ b \in admitted
      BY <2>1, <2>3, <3>3
    <3> QED
      BY <1>1, <3>1, <3>2, <3>3
  <2> QED
    BY <2>3 DEF WindowConformance
<1> QED
  BY <1>4, <1>7, <1>8, <1>9, <1>14, <1>15, <1>16, <1>17 DEF LatestBounded

-----------------------------------------------------------------------------
LEMMA StepIInv == IInv /\ [Next]_vars => IInv'
<1> SUFFICES ASSUME IInv, [Next]_vars
             PROVE  IInv'
  OBVIOUS
<1>1. CASE Tick \/ StepBack
  BY <1>1, ClockIInv
<1>2. ASSUME NEW th \in Threads, Check(th)
      PROVE  IInv'
  <2>1. T * (1 - 1) = 0 /\ Tau \in Nat
    BY ParamsType
  <2>2. Enter(th, 1, T * (1 - 1)) /\ T * (1 - 1) <= Tau
    BY <1>2, <2>1 DEF Check
  <2> QED
    BY <2>2, EnterIInv
<1>3. ASSUME NEW th \in Threads, NEW n \in Sizes, CheckN(th, n)
      PROVE  IInv'
  <2>1. Enter(th, n, T * (n - 1)) /\ T * (n - 1) <= Tau
    BY <1>3, BatchWeight, ParamsType DEF CheckN, ExceedsCapacity
  <2> QED
    BY <2>1, EnterIInv
<1>4. ASSUME NEW th \in Threads, NEW n \in Sizes, RejectN(th, n)
      PROVE  IInv'
  BY <1>4, RejectIInv
<1>5. ASSUME NEW th \in Threads, Load(th) \/ CasFail(th)
      PROVE  IInv'
  BY <1>5, ObserveIInv DEF Load, CasFail
<1>6. ASSUME NEW th \in Threads, CasOk(th)
      PROVE  IInv'
  BY <1>6, ExchangeIInv
<1>7. CASE UNCHANGED vars
  BY <1>7 DEF vars, IInv, TypeOK, MoAscending, LatestBounded, PendingOK,
              Charged, Accounted, Charge, DeniedStill, WindowConformance,
              Latest, DecisionAt
<1> QED
  BY <1>1, <1>2, <1>3, <1>4, <1>5, <1>6, <1>7 DEF Next, Step

LEMMA Inductive == Spec => []IInv
  BY InitIInv, StepIInv, PTL DEF Spec

(* Every variable keeps its type: in particular no measured time is longer  *)
(* than the limiter's lifetime, whatever the clock does (duration_since     *)
(* saturates), and every stored word is a u64.                              *)
THEOREM TypeCorrect == Spec => []TypeOK
<1>1. IInv => TypeOK
  BY DEF IInv
<1> QED
  BY <1>1, Inductive, PTL

(* The rate limit, for any quota and any number of threads: between any two *)
(* admissions no more was let through than the bucket holds plus what       *)
(* drains in the time the two calls measured between them.                  *)
THEOREM RateLimited == Spec => []WindowConformance
<1>1. IInv => WindowConformance
  BY DEF IInv
<1> QED
  BY <1>1, Inductive, PTL

(* Nothing a decision adds up wraps around in the limiter's lifetime.       *)
THEOREM NothingWraps == Spec => []NoOverflow
<1>1. ASSUME IInv
      PROVE  NoOverflow
  <2>1. SUFFICES ASSUME NEW th \in Threads, pc[th] # "idle"
                 PROVE  LET t0  == req[th].t0
                            tat == Tat(Latest, t0)
                        IN  /\ tat + req[th].add < U64
                            /\ Start + tat + req[th].add - Tau < U64
                            /\ pc[th] = "cas" =>
                                 \A j \in seen[th] .. Len(mo) :
                                   DecisionAt(th, j).ok =>
                                     MaxOf(Tat(mo[j], t0), t0) + T + req[th].add
                                       < U64
    BY DEF NoOverflow
  <2> DEFINE t0 == req[th].t0
             add == req[th].add
             tat == Tat(Latest, t0)
  <2>2. t0 \in 0 .. Lifetime /\ add \in 0 .. Tau
    BY <1>1 DEF IInv, TypeOK, Requests
  <2>3. tat \in Nat /\ tat <= Lifetime + Tau + T
    BY <1>1, <2>2, WordFacts, ParamsType DEF IInv, LatestBounded, Tat
  <2>4. tat + add < U64 /\ Start + tat + add - Tau < U64
    BY <2>2, <2>3, ParamsType DEF Lifetime
  <2>5. ASSUME NEW j \in seen[th] .. Len(mo), DecisionAt(th, j).ok
        PROVE  MaxOf(Tat(mo[j], t0), t0) + T + add < U64
    <3>1. j \in 1 .. Len(mo)
      BY <1>1, WordFacts DEF IInv, TypeOK
    <3>2. Tat(mo[j], t0) + add <= t0 + Tau
      BY <1>1, <2>1, <2>5, <3>1, PendingDecision
    <3>3. Tat(mo[j], t0) \in Nat
      BY <1>1, <2>2, <3>1, WordFacts DEF IInv, Tat
    <3> QED
      BY <2>2, <3>2, <3>3, ParamsType DEF MaxOf
  <2> QED
    BY <2>4, <2>5
<1> QED
  BY <1>1, Inductive, PTL

-----------------------------------------------------------------------------
(* Which step a thread inside a call can have taken.                        *)
LEMMA OwnStep ==
  ASSUME IInv, [Next]_vars, NEW th \in Threads, pc[th] # "idle",
         pc'[th] # pc[th] \/ seen'[th] # seen[th]
  PROVE  \/ \E j \in seen[th] .. Len(mo) : Observe(th, j)
         \/ CasOk(th)
<1> USE DEF IInv, TypeOK
<1>1. ASSUME Tick \/ StepBack \/ UNCHANGED vars
      PROVE  FALSE
  BY <1>1 DEF Tick, StepBack, vars
<1>2. ASSUME NEW u \in Threads, Check(u)
      PROVE  FALSE
  BY <1>2 DEF Check, Enter
<1>3. ASSUME NEW u \in Threads, NEW n \in Sizes, CheckN(u, n) \/ RejectN(u, n)
      PROVE  FALSE
  BY <1>3 DEF CheckN, RejectN, Enter
<1>4. ASSUME NEW u \in Threads, NEW j \in seen[u] .. Len(mo), Observe(u, j)
      PROVE  u = th
  BY <1>4 DEF Observe, Decide, Return
<1>5. ASSUME NEW u \in Threads, CasOk(u)
      PROVE  u = th
  BY <1>5 DEF CasOk, Store, Admit, Return
<1> QED
  BY <1>1, <1>2, <1>3, <1>4, <1>5 DEF Next, Step, Load, CasFail

(* An admission is somebody's successful exchange.                          *)
LEMMA AdmittedByExchange ==
  ASSUME [Next]_vars, admitted' # admitted
  PROVE  \E th \in Threads : CasOk(th)
BY DEF Next, vars, Tick, StepBack, Check, CheckN, RejectN, Enter, Step, Load,
       CasFail, Observe

(* A call is only delayed by a store that moved the tat forward and left    *)
(* room for it: lock-freedom, with a bound on how often it is overtaken.    *)
THEOREM RetriesProgress == Spec => RetryProgress
<1> DEFINE P == \A th \in Threads :
       (pc[th] = "cas" /\ pc'[th] = "cas" /\ seen'[th] # seen[th]) =>
         /\ mo'[seen'[th]] >= mo[seen[th]] + T
         /\ mo'[seen'[th]] + req[th].add <= req[th].t0 + Tau
<1>1. ASSUME IInv, [Next]_vars
      PROVE  P
  <2> SUFFICES ASSUME NEW th \in Threads, pc[th] = "cas", pc'[th] = "cas",
                      seen'[th] # seen[th]
               PROVE  /\ mo'[seen'[th]] >= mo[seen[th]] + T
                      /\ mo'[seen'[th]] + req[th].add <= req[th].t0 + Tau
    OBVIOUS
  <2> USE <1>1 DEF IInv
  <2>1. ~CasOk(th)
    BY DEF CasOk, Admit, Return, TypeOK
  <2>2. PICK j \in seen[th] .. Len(mo) : Observe(th, j)
    BY <2>1, OwnStep
  <2>3. seen[th] \in 1 .. Len(mo) /\ j \in 1 .. Len(mo) /\ Len(mo) \in Nat
    BY WordFacts DEF TypeOK
  <2>4. mo' = mo /\ seen'[th] = j /\ seen[th] < j
    BY <2>2, <2>3 DEF Observe, TypeOK
  <2>5. DecisionAt(th, j).ok
    BY <2>2 DEF Observe, Decide, Return, TypeOK
  <2>6. Tat(mo[j], req[th].t0) + req[th].add <= req[th].t0 + Tau
    BY <2>3, <2>5, PendingDecision
  <2>7. mo[seen[th]] + T <= mo[j] /\ mo[seen[th]] \in Nat /\ mo[j] \in Nat
    BY <2>3, <2>4, WordFacts DEF MoAscending
  <2>8. mo[j] # 0
    BY <2>7, ParamsType
  <2> QED
    BY <2>4, <2>6, <2>7, <2>8, ParamsType DEF Tat
<1>2. Spec => [][P]_vars
  BY <1>1, Inductive, PTL DEF Spec
<1> QED
  BY <1>2 DEF RetryProgress

(* Whoever is refused was over the limit: with what was admitted by then,   *)
(* the batch would not have fitted between some admission and its own time. *)
THEOREM NoFalseDenials == Spec => NoFalseDenial
<1> DEFINE P == \A th \in Threads :
       (pc[th] # "idle" /\ pc'[th] = "idle" /\ out'[th].kind = "not_until") =>
         \E a \in admitted :
           a.t0 + a.w + (total - a.cum) + req[th].add > req[th].t0 + Tau
<1>1. ASSUME IInv, [Next]_vars
      PROVE  P
  <2> SUFFICES ASSUME NEW th \in Threads, pc[th] # "idle", pc'[th] = "idle",
                      out'[th].kind = "not_until"
               PROVE  \E a \in admitted :
                        a.t0 + a.w + (total - a.cum) + req[th].add
                          > req[th].t0 + Tau
    OBVIOUS
  <2> USE <1>1 DEF IInv
  <2>1. ~CasOk(th)
    BY DEF CasOk, Admit, Return, Outcome, TypeOK
  <2>2. PICK j \in seen[th] .. Len(mo) : Observe(th, j)
    BY <2>1, OwnStep
  <2>3. j \in 1 .. Len(mo)
    BY WordFacts DEF TypeOK
  <2>4. ~DecisionAt(th, j).ok
    BY <2>2 DEF Observe, Decide, TypeOK
  <2>5. /\ req[th].t0 \in 0 .. Lifetime /\ req[th].add \in 0 .. Tau
        /\ ~(Tat(mo[j], req[th].t0) + req[th].add <= req[th].t0 + Tau)
    BY <2>3, <2>4, PendingDecision
  <2>6. mo[j] \in Nat /\ Latest \in Nat /\ mo[j] <= Latest
    BY <2>3, WordFacts
  <2>7. mo[j] # 0 /\ mo[j] + req[th].add > req[th].t0 + Tau
    BY <2>5, <2>6, ParamsType DEF Tat
  <2>8. req[th].t0 \in Nat /\ req[th].add \in Nat /\ Tau \in Nat
    BY <2>5, ParamsType
  <2>9. \A x, y, add, lim \in Nat :
          (x # 0 /\ x <= y /\ x + add > lim) => (y # 0 /\ y + add > lim)
    OBVIOUS
  <2>10. Latest # 0 /\ Latest + req[th].add > req[th].t0 + Tau
    BY <2>6, <2>7, <2>8, <2>9
  <2>11. PICK a \in admitted : a.t0 + a.w + (total - a.cum) = Latest
    BY <2>10 DEF Accounted, Charge
  <2> QED
    BY <2>10, <2>11
<1>2. Spec => [][P]_vars
  BY <1>1, Inductive, PTL DEF Spec
<1> QED
  BY <1>2 DEF NoFalseDenial

(* The time a NotUntil names is a promise about every thread.               *)
THEOREM DenialsHonoured == Spec => DenialHonoured
<1> DEFINE P == \A th \in Threads : out[th].kind = "not_until" =>
       \A a \in admitted' \ admitted :
         a.w >= T + out[th].add => a.t0 >= out[th].at
<1>1. ASSUME IInv, [Next]_vars
      PROVE  P
  <2> SUFFICES ASSUME NEW th \in Threads, out[th].kind = "not_until",
                      NEW a \in admitted' \ admitted,
                      a.w >= T + out[th].add
               PROVE  a.t0 >= out[th].at
    OBVIOUS
  <2> USE <1>1 DEF IInv
  <2>1. PICK u \in Threads : CasOk(u)
    BY AdmittedByExchange
  <2>2. PICK t0 \in 0 .. Lifetime, add \in 0 .. Tau, w, tat, cum \in Nat :
          /\ w = T + add
          /\ tat = Tat(Latest, t0) /\ tat + add <= t0 + Tau
          /\ admitted' = admitted \cup {[t0 |-> t0, w |-> w, cum |-> cum]}
    BY <2>1, ExchangeStep
  <2>3. a.t0 = t0 /\ a.w = T + add
    BY <2>2
  <2>4. Latest \in Nat /\ Latest <= tat
    BY <2>2, WordFacts DEF Tat
  <2>5. /\ out[th].at \in Nat /\ out[th].add \in 0 .. Tau
        /\ out[th].at + Tau <= Latest + out[th].add
    BY DEF DeniedStill, TypeOK
  <2>6. tat + add <= t0 + Tau
    BY <2>2
  <2> QED
    BY <2>3, <2>4, <2>5, <2>6, ParamsType
<1>2. Spec => [][P]_vars
  BY <1>1, Inductive, PTL DEF Spec
<1> QED
  BY <1>2 DEF DenialHonoured

-----------------------------------------------------------------------------
(* The refinement: a call takes effect at its successful exchange, or at    *)
(* the load or failed exchange whose word it is refused on; everything else *)
(* stutters.                                                                *)
LEMMA CapacityExact ==
  /\ Capacity(gcra) = MaxBurst
  /\ T * (MaxBurst - 1) = Tau /\ Tau < T * MaxBurst
<1>1. T * (MaxBurst - 1) = Tau
  <2>1. T * (MaxBurst - 1) \in Nat
    BY ParamsType, LimiterAssumption, WidthAssumption
  <2> QED
    BY <2>1, LifetimeAssumption DEF T, Tau, gcra, GcraNew, Mul
<1>2. Tau < T * MaxBurst
  BY <1>1, ParamsType, LimiterAssumption, WidthAssumption
<1>3. Tau \div T = MaxBurst - 1
  BY <1>1, ParamsType, LimiterAssumption, WidthAssumption
<1>4. (MaxBurst - 1) % U32 = MaxBurst - 1
  BY LimiterAssumption, WidthAssumption
<1> QED
  BY <1>1, <1>2, <1>3, <1>4, ParamsType, LimiterAssumption, WidthAssumption
     DEF Capacity, AsU32

LEMMA InitRefines == Init => Atomic!Init
BY DEF Init, Atomic!Init, Latest, NoReq, Atomic!NoReq, Outcome, Atomic!Outcome

LEMMA EnterRefines ==
  ASSUME IInv, NEW th \in Threads, NEW n \in Sizes \cup {1},
         T * (n - 1) <= Tau, Enter(th, n, T * (n - 1))
  PROVE  Atomic!Invoke(th, n)
<1>1. Measured \in 0 .. Lifetime
  BY ParamsType DEF IInv, TypeOK, Measured, SaturatingSub, Lifetime
<1>2. req[th] = NoReq
  BY DEF IInv, PendingOK, Enter
<1> QED
  BY <1>1, <1>2 DEF Enter, Atomic!Invoke, NoReq, Atomic!NoReq, Latest

LEMMA RejectRefines ==
  ASSUME IInv, NEW th \in Threads, NEW n \in Sizes, RejectN(th, n)
  PROVE  Atomic!Reject(th, n)
<1>1. T * (n - 1) > Tau
  BY BatchWeight, ParamsType DEF RejectN, ExceedsCapacity
<1>2. req[th] = NoReq
  BY DEF IInv, PendingOK, RejectN
<1>3. MaxBurst \in 1 .. n
  <2>1. n \in Nat /\ n >= 1 /\ MaxBurst \in Nat /\ MaxBurst >= 1
    BY LimiterAssumption, WidthAssumption
  <2>2. SUFFICES ASSUME n < MaxBurst
                 PROVE  FALSE
    BY <2>1
  <2>3. n - 1 <= MaxBurst - 1
    BY <2>1, <2>2
  <2>4. T * (n - 1) <= T * (MaxBurst - 1)
    BY <2>1, <2>3, ParamsType
  <2> QED
    BY <1>1, <2>1, <2>4, CapacityExact, ParamsType
<1> QED
  <2>1. out' = [out EXCEPT ![th] = Atomic!Outcome("insufficient", MaxBurst, 0)]
    BY CapacityExact DEF RejectN, Outcome, Atomic!Outcome
  <2>2. \E c \in 1 .. n :
          /\ T * (c - 1) <= Tau /\ Tau < T * c
          /\ out' = [out EXCEPT ![th] = Atomic!Outcome("insufficient", c, 0)]
    <3> WITNESS MaxBurst \in 1 .. n
    <3> QED
      BY <2>1, CapacityExact, ParamsType
  <2>3. UNCHANGED <<Latest, req>>
    BY DEF RejectN, Latest
  <2> QED
    BY <1>1, <1>2, <2>2, <2>3 DEF Atomic!Reject, NoReq, Atomic!NoReq

LEMMA ExchangeRefines ==
  ASSUME IInv, NEW th \in Threads, CasOk(th)
  PROVE  Atomic!Admit(th)
<1> DEFINE t0  == req[th].t0
           add == req[th].add
           tat == Tat(Latest, t0)
<1>1. /\ t0 \in 0 .. Lifetime /\ add \in 0 .. Tau
      /\ T * req[th].n = T + add
      /\ tat \in Nat /\ tat + add <= t0 + Tau
      /\ Latest' = MaxOf(tat, t0) + T * req[th].n
  BY ExchangeFacts
<1>2. Latest \in Nat
  BY WordFacts DEF IInv
<1>3. Atomic!From(t0) = MaxOf(tat, t0)
  BY <1>1, <1>2 DEF Atomic!From, MaxOf, Tat
<1>4. Atomic!Fits(req[th])
  BY <1>1, <1>2, <1>3, ParamsType DEF Atomic!Fits, MaxOf
<1>5. req[th] # NoReq
  BY DEF IInv, PendingOK, CasOk, NoReq
<1> QED
  BY <1>1, <1>3, <1>4, <1>5
     DEF CasOk, Admit, Return, Atomic!Admit, Atomic!Return, NoReq,
         Atomic!NoReq, Outcome, Atomic!Outcome

LEMMA ObserveRefines ==
  ASSUME IInv, NEW th \in Threads, pc[th] # "idle",
         NEW j \in seen[th] .. Len(mo), Observe(th, j)
  PROVE  Atomic!Deny(th) \/ UNCHANGED <<Latest, req, out>>
<1> USE DEF IInv
<1>1. j \in 1 .. Len(mo)
  BY WordFacts DEF TypeOK
<1>2. UNCHANGED mo
  BY DEF Observe
<1>3. CASE UNCHANGED <<req, out>>
  BY <1>2, <1>3 DEF Latest
<1>4. CASE /\ ~DecisionAt(th, j).ok
           /\ Return(th, Outcome("not_until", DecisionAt(th, j).state.tat,
                                 req[th].add))
  <2> DEFINE at  == DecisionAt(th, j).state.tat
             add == req[th].add
             t0  == req[th].t0
             tat == Tat(mo[j], t0)
  <2>1. /\ t0 \in 0 .. Lifetime /\ add \in 0 .. Tau
        /\ ~(tat + add <= t0 + Tau)
        /\ at = tat + add - Tau
    BY <1>1, <1>4, PendingDecision
  <2>2. mo[j] \in Nat /\ mo[j] <= Latest /\ Latest \in Nat
    BY <1>1, WordFacts
  <2>3. tat = mo[j]
    BY <2>1, <2>2, ParamsType DEF Tat
  <2>4. at \in t0 + 1 .. Latest + add - Tau
    <3> DEFINE word == mo[j]
    <3>1. /\ t0 \in Nat /\ add \in Nat /\ Tau \in Nat
          /\ word \in Nat /\ Latest \in Nat /\ word <= Latest
      BY <2>1, <2>2, ParamsType
    <3>2. ~(word + add <= t0 + Tau) /\ at = word + add - Tau
      BY <2>1, <2>3
    <3> HIDE DEF word, at, t0, add
    <3> QED
      BY <3>1, <3>2
  <2>5. ~Atomic!Fits(req[th])
    <3> DEFINE word == mo[j]
               from == IF Latest > t0 THEN Latest ELSE t0
    <3>1. /\ t0 \in Nat /\ add \in Nat /\ Tau \in Nat
          /\ word \in Nat /\ Latest \in Nat /\ word <= Latest
      BY <2>1, <2>2, ParamsType
    <3>2. ~(word + add <= t0 + Tau)
      BY <2>1, <2>3
    <3>3. from \in Nat /\ Latest <= from
      BY <3>1
    <3>4. ~(from + add <= t0 + Tau)
      <4> HIDE DEF word, from, t0, add
      <4> QED
        BY <3>1, <3>2, <3>3
    <3> QED
      BY <3>4 DEF Atomic!Fits, Atomic!From
  <2>6. req[th] # NoReq
    BY DEF PendingOK, NoReq
  <2> QED
    BY <1>2, <1>4, <2>4, <2>5, <2>6
       DEF Return, Atomic!Deny, Atomic!Return, NoReq, Atomic!NoReq, Outcome,
           Atomic!Outcome, Latest
<1> QED
  BY <1>3, <1>4 DEF Observe, Decide

LEMMA StepRefines ==
  IInv /\ [Next]_vars => [Atomic!Next]_<<Latest, req, out>>
<1> SUFFICES ASSUME IInv, [Next]_vars
             PROVE  Atomic!Next \/ UNCHANGED <<Latest, req, out>>
  OBVIOUS
<1>1. CASE Tick \/ StepBack \/ UNCHANGED vars
  BY <1>1 DEF Tick, StepBack, vars, Latest
<1>2. ASSUME NEW th \in Threads, Check(th)
      PROVE  Atomic!Next
  <2>1. T * (1 - 1) = 0 /\ Tau \in Nat
    BY ParamsType
  <2>2. Enter(th, 1, T * (1 - 1)) /\ T * (1 - 1) <= Tau
    BY <1>2, <2>1 DEF Check
  <2>3. Atomic!Invoke(th, 1)
    BY <2>2, EnterRefines
  <2> QED
    BY <2>3 DEF Atomic!Next
<1>3. ASSUME NEW th \in Threads, NEW n \in Sizes, CheckN(th, n)
      PROVE  Atomic!Next
  <2>1. Enter(th, n, T * (n - 1)) /\ T * (n - 1) <= Tau
    BY <1>3, BatchWeight, ParamsType DEF CheckN, ExceedsCapacity
  <2>2. Atomic!Invoke(th, n)
    BY <2>1, EnterRefines
  <2> QED
    BY <2>2 DEF Atomic!Next
<1>4. ASSUME NEW th \in Threads, NEW n \in Sizes, RejectN(th, n)
      PROVE  Atomic!Next
  BY <1>4, RejectRefines DEF Atomic!Next
<1>5. ASSUME NEW th \in Threads, Load(th) \/ CasFail(th)
      PROVE  Atomic!Next \/ UNCHANGED <<Latest, req, out>>
  BY <1>5, ObserveRefines DEF Load, CasFail, Atomic!Next
<1>6. ASSUME NEW th \in Threads, CasOk(th)
      PROVE  Atomic!Next
  BY <1>6, ExchangeRefines DEF Atomic!Next
<1> QED
  BY <1>1, <1>2, <1>3, <1>4, <1>5, <1>6 DEF Next, Step

(* The compare-and-swap loop implements the atomic test and update.         *)
THEOREM Refinement == Spec => Linearizable
<1>1. Spec => Atomic!Spec
  BY InitRefines, StepRefines, Inductive, PTL DEF Spec, Atomic!Spec
<1> QED
  BY <1>1 DEF Linearizable
=============================================================================
