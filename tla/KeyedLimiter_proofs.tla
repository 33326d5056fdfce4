------------------------ MODULE KeyedLimiter_proofs ------------------------
(***************************************************************************)
(* For any number of threads, keys and shards, either store, any quota and *)
(* batches, and a clock that may be set back: a key is measured as if it   *)
(* had a limiter of its own that nobody ever removes, if no call is        *)
(* delayed by more than the interval of a cell; and retain_recent leaves   *)
(* nothing stale behind.                                                   *)
(***************************************************************************)
EXTENDS KeyedLimiter, Gcra_proofs

-----------------------------------------------------------------------------
(* The parameters of the limiter. *)

LEMMA ParamsType ==
  /\ T \in Nat /\ T >= 1
  /\ Tau \in Nat /\ Tau = T * (MaxBurst - 1)
  /\ gcra = [t |-> T, tau |-> Tau]
  /\ MaxBurst \in 1 .. U32 - 1
  /\ U64 \in Nat \ {0} /\ U32 \in Nat \ {0}
  /\ MaxClock \in Nat /\ MaxDelay \in Nat
  /\ MaxClock + 2 * Tau + T < U64
  /\ Shards \in Nat \ {0} /\ ShardOf \in [Keys -> 1 .. Shards]
<1>1. T = MaxOf(Replenish1Per, 1)
  BY DEF T, gcra, GcraNew
<1>2. Tau = Mul(MaxOf(Replenish1Per, 1), MaxBurst - 1)
  BY DEF Tau, gcra, GcraNew
<1>3. T \in Nat /\ T >= 1
  BY <1>1, KeyedAssumption DEF MaxOf
<1>4. T * (MaxBurst - 1) \in Nat
  BY <1>3, KeyedAssumption, WidthAssumption
<1>5. Tau = T * (MaxBurst - 1)
  BY <1>1, <1>2, <1>4, KeyedAssumption DEF Mul
<1>6. gcra = [t |-> T, tau |-> Tau]
  BY DEF T, Tau, gcra, GcraNew
<1> QED
  BY <1>3, <1>4, <1>5, <1>6, KeyedAssumption, WidthAssumption

LEMMA BatchWeight ==
  ASSUME NEW n \in Sizes
  PROVE  /\ n \in Nat /\ n >= 1 /\ n - 1 \in Nat
         /\ AdditionalWeight(gcra, n) = T * (n - 1)
         /\ T * (n - 1) \in Nat
<1>1. n \in Nat /\ n >= 1 /\ n - 1 \in Nat
  BY KeyedAssumption
<1>2. T * (n - 1) \in Nat
  BY <1>1, ParamsType
<1> QED
  BY <1>1, <1>2, KeyedAssumption, ParamsType DEF AdditionalWeight, Mul

(* No tat ever leaves this range. *)
Bound == MaxClock + Tau + T

LEMMA DecisionKeyed ==
  ASSUME NEW word \in 0 .. Bound, NEW t0 \in 0 .. MaxClock, NEW add \in 0 .. Tau
  PROVE  LET d   == Decision(gcra, word, t0, add)
             tat == Tat(word, t0)
         IN  /\ d.ok \in BOOLEAN
             /\ d.ok <=> tat + add <= t0 + Tau
             /\ d.ok => d.state.tat = MaxOf(tat, t0) + T + add
             /\ ~d.ok => d.state.tat = tat + add - Tau
             /\ d.state.tat \in 0 .. Bound
             /\ d.ok => d.state.tat >= t0 + T /\ d.state.tat > word
             /\ ~d.ok => word # 0 /\ d.state.tat > t0
<1> DEFINE d == Decision(gcra, word, t0, add)
           tat == Tat(word, t0)
<1>1. /\ word \in Nat /\ t0 \in Nat /\ add \in 0 .. Tau
      /\ MaxOf(word, t0) + add < U64 /\ t0 + Tau + T < U64
  BY ParamsType DEF Bound, MaxOf
<1>2. /\ d.ok \in BOOLEAN
      /\ d.ok <=> tat + add <= t0 + Tau
      /\ d.ok => d.state.tat = MaxOf(tat, t0) + T + add
      /\ ~d.ok => d.state.tat = tat + add - Tau
  BY <1>1, TatInBounds, ParamsType
<1>3. tat = IF word = 0 THEN t0 ELSE word
  BY DEF Tat
<1> HIDE DEF d, tat
<1>4. /\ d.state.tat \in 0 .. Bound
      /\ d.ok => d.state.tat >= t0 + T /\ d.state.tat > word
      /\ ~d.ok => word # 0 /\ d.state.tat > t0
  <2>1. CASE d.ok
    <3>1. /\ d.state.tat = MaxOf(tat, t0) + T + add
          /\ tat + add <= t0 + Tau
      BY <1>2, <2>1
    <3> QED
      BY <1>1, <1>3, <2>1, <3>1, ParamsType DEF Bound, MaxOf
  <2>2. CASE ~d.ok
    <3>1. /\ d.state.tat = tat + add - Tau
          /\ ~(tat + add <= t0 + Tau)
      BY <1>2, <2>2
    <3> QED
      BY <1>1, <1>3, <2>2, <3>1, ParamsType DEF Bound
  <2> QED
    BY <2>1, <2>2
<1> QED
  BY <1>2, <1>4 DEF d, tat
-----------------------------------------------------------------------------
(* The inductive invariant. *)

Bounded ==
  /\ \A k \in DOMAIN words : words[k] <= Bound
  /\ \A k \in Keys : kept[k] <= Bound

(* What a thread carries through its call. *)
CallOK ==
  \A th \in Threads :
    /\ InCall(th) => /\ key[th] \in Keys
                     /\ req[th].n \in Nat /\ req[th].n >= 1
                     /\ req[th].add = T * (req[th].n - 1)
    /\ ~InCall(th) => key[th] = NoKey /\ req[th] = NoReq

(* No call measures a time that is too far behind the latest. *)
Recent ==
  /\ peak - clock <= MaxDelay
  /\ LagsBehind(peak)

LastShardNumber == IF store = "dashmap" THEN Shards ELSE 1

SweepOK ==
  \A th \in Threads :
    /\ pc[th] \in {"retain", "shrink"} =>
         sweep[th].shard \in 1 .. LastShardNumber
    /\ pc[th] = "retain" =>
         \/ sweep[th].drop_below = 0
         \/ sweep[th].drop_below + T <= peak

IInv ==
  /\ TypeOK
  /\ Bounded
  /\ CallOK
  /\ Recent
  /\ SweepOK

LEMMA InitIInv == Init => IInv
<1> SUFFICES ASSUME Init
             PROVE  IInv
  OBVIOUS
<1> USE ParamsType DEF Init, Construct
<1>1. DOMAIN words = {}
  OBVIOUS
<1>2. TypeOK
  <2>1. /\ req \in [Threads -> Requests]
        /\ sweep \in [Threads -> [drop_below : 0 .. MaxClock, shard : 0 .. Shards]]
    BY DEF NoReq, NoSweep, Requests
  <2>2. out \in [Threads -> [Keys -> Outcomes]]
    BY DEF Outcome, Outcomes
  <2>3. /\ kept \in [Keys -> Nanos]
        /\ pc \in [Threads -> {"idle", "get", "measure", "entry", "retain", "shrink"}]
        /\ key \in [Threads -> Keys \cup {NoKey}]
    BY DEF Nanos
  <2> QED
    BY <1>1, <2>1, <2>2, <2>3 DEF TypeOK
<1>3. Bounded
  <2>1. Bound \in Nat /\ \A k \in Keys : kept[k] = 0
    BY DEF Bound
  <2> QED
    BY <1>1, <2>1 DEF Bounded
<1>4. CallOK
  BY DEF CallOK, InCall
<1>5. Recent
  BY DEF Recent, LagsBehind, InCall
<1>6. SweepOK
  BY DEF SweepOK
<1> QED
  BY <1>2, <1>3, <1>4, <1>5, <1>6 DEF IInv

-----------------------------------------------------------------------------
(* The steps of the clock. *)

LEMMA TickStep ==
  ASSUME IInv, Tick
  PROVE  IInv'
<1> USE ParamsType DEF IInv, Tick
<1>1. clock \in Nat /\ peak \in Nat /\ clock <= peak
  BY DEF TypeOK
<1>2. peak' \in 0 .. MaxClock /\ clock' \in 0 .. peak' /\ peak <= peak'
  BY <1>1 DEF TypeOK, MaxOf
<1>3. TypeOK'
  BY <1>2 DEF TypeOK
<1>4. Bounded' /\ CallOK'
  BY DEF Bounded, CallOK, InCall
<1>5. Recent'
  BY <1>1, <1>2 DEF Recent, LagsBehind, InCall, MaxOf
<1>6. SweepOK'
  BY <1>1, <1>2 DEF SweepOK, LastShardNumber, TypeOK
<1> QED
  BY <1>3, <1>4, <1>5, <1>6

LEMMA StepBackStep ==
  ASSUME IInv, StepBack
  PROVE  IInv'
<1> USE ParamsType DEF IInv, StepBack
<1>1. clock' \in 0 .. peak'
  BY DEF TypeOK
<1>2. TypeOK'
  BY <1>1 DEF TypeOK
<1>3. Bounded' /\ CallOK'
  BY DEF Bounded, CallOK, InCall
<1>4. Recent'
  BY DEF Recent, LagsBehind, InCall
<1>5. SweepOK'
  BY DEF SweepOK, LastShardNumber
<1> QED
  BY <1>2, <1>3, <1>4, <1>5

-----------------------------------------------------------------------------
(* The steps that enter a call or a sweep, or turn a batch away. *)

LEMMA EnterStep ==
  ASSUME IInv, NEW th \in Threads, NEW k \in Keys, NEW n \in Sizes \cup {1},
         T * (n - 1) \in 0 .. Tau, Enter(th, k, n, T * (n - 1))
  PROVE  IInv'
<1> USE ParamsType DEF IInv, Enter, times
<1> DEFINE r == [t0 |-> clock, n |-> n, add |-> T * (n - 1)]
<1>1. n \in Nat /\ n >= 1
  BY BatchWeight
<1>2. r \in Requests
  BY DEF TypeOK, Requests
<1>3. TypeOK'
  BY <1>2 DEF TypeOK
<1>4. Bounded' /\ SweepOK'
  BY DEF Bounded, SweepOK, LastShardNumber, TypeOK
<1>5. CallOK'
  BY <1>1 DEF CallOK, InCall, TypeOK
<1>6. Recent'
  BY DEF Recent, LagsBehind, InCall, TypeOK
<1> QED
  BY <1>3, <1>4, <1>5, <1>6

LEMMA CheckStep ==
  ASSUME IInv, NEW th \in Threads, NEW k \in Keys
  PROVE  /\ CheckKey(th, k) => T * (1 - 1) = 0 /\ Enter(th, k, 1, T * (1 - 1))
         /\ \A n \in Sizes : CheckKeyN(th, k, n) =>
              T * (n - 1) \in 0 .. Tau /\ Enter(th, k, n, T * (n - 1))
<1>1. T * (1 - 1) = 0
  BY ParamsType
<1>2. ASSUME NEW n \in Sizes, CheckKeyN(th, k, n)
      PROVE  T * (n - 1) \in 0 .. Tau /\ Enter(th, k, n, T * (n - 1))
  BY <1>2, BatchWeight, ParamsType DEF CheckKeyN, ExceedsCapacity
<1> QED
  BY <1>1, <1>2 DEF CheckKey

LEMMA RejectStep ==
  ASSUME IInv, NEW th \in Threads, NEW k \in Keys, NEW n \in Sizes,
         RejectKeyN(th, k, n)
  PROVE  IInv'
<1> USE ParamsType DEF IInv, RejectKeyN, times
<1>1. Outcome("insufficient", Capacity(gcra), 0) \in Outcomes
  <2>1. Capacity(gcra) = MaxBurst
    BY CapacityOfBurst
  <2> QED
    BY <2>1 DEF Outcome, Outcomes
<1>2. out' \in [Threads -> [Keys -> Outcomes]]
  BY <1>1 DEF TypeOK
<1>3. TypeOK'
  BY <1>2 DEF TypeOK
<1>4. Bounded' /\ CallOK' /\ Recent' /\ SweepOK'
  BY DEF Bounded, CallOK, Recent, LagsBehind, InCall, SweepOK, LastShardNumber
<1> QED
  BY <1>3, <1>4

LEMMA SweepStartStep ==
  ASSUME IInv, NEW th \in Threads, Retain(th) \/ ShrinkToFit(th)
  PROVE  IInv'
<1> USE ParamsType DEF IInv, Retain, ShrinkToFit, times
<1>1. /\ DropBelow \in 0 .. MaxClock
      /\ DropBelow = 0 \/ DropBelow + T <= peak
  BY DEF DropBelow, SaturatingSub, TypeOK
<1>2. TypeOK'
  <2>1. /\ [drop_below |-> DropBelow, shard |-> 1]
             \in [drop_below : 0 .. MaxClock, shard : 0 .. Shards]
        /\ [drop_below |-> 0, shard |-> 1]
             \in [drop_below : 0 .. MaxClock, shard : 0 .. Shards]
    BY <1>1
  <2>2. sweep' \in [Threads -> [drop_below : 0 .. MaxClock, shard : 0 .. Shards]]
    BY <2>1 DEF TypeOK
  <2>3. pc' \in [Threads -> {"idle", "get", "measure", "entry", "retain", "shrink"}]
    BY DEF TypeOK
  <2> QED
    BY <2>2, <2>3 DEF TypeOK
<1>3. Bounded'
  BY DEF Bounded
<1>4. CallOK' /\ Recent'
  BY DEF CallOK, Recent, LagsBehind, InCall, TypeOK
<1>5. SweepOK'
  BY <1>1 DEF SweepOK, LastShardNumber, TypeOK
<1> QED
  BY <1>2, <1>3, <1>4, <1>5

LEMMA GetStep ==
  ASSUME IInv, NEW th \in Threads, Get(th)
  PROVE  IInv'
<1> USE ParamsType DEF IInv, Get, times
<1>1. TypeOK'
  BY DEF TypeOK
<1>2. Bounded' /\ SweepOK'
  BY DEF Bounded, SweepOK, LastShardNumber, TypeOK
<1>3. CallOK' /\ Recent'
  BY DEF CallOK, Recent, LagsBehind, InCall, TypeOK
<1> QED
  BY <1>1, <1>2, <1>3
-----------------------------------------------------------------------------
(* measure_and_replace_one: what a call leaves behind, whichever path       *)
(* through the store it took.  A refusal is only given to a key that is in  *)
(* the map, so it never leaves the word 0 there.                            *)

DecisionOf(th, word) == Decision(gcra, word, req[th].t0, req[th].add)

LEMMA CallFacts ==
  ASSUME IInv, NEW th \in Threads, InCall(th)
  PROVE  /\ key[th] \in Keys
         /\ req[th].t0 \in 0 .. MaxClock
         /\ req[th].add \in 0 .. Tau
         /\ req[th].add = T * (req[th].n - 1)
         /\ req[th].n \in Nat /\ req[th].n >= 1
         /\ peak - req[th].t0 <= MaxDelay
         /\ \A k \in Keys : Word(k) \in 0 .. Bound /\ kept[k] \in 0 .. Bound
<1>1. /\ key[th] \in Keys
      /\ req[th].add = T * (req[th].n - 1)
      /\ req[th].n \in Nat /\ req[th].n >= 1
  BY DEF IInv, CallOK
<1>2. req[th].t0 \in 0 .. MaxClock /\ req[th].add \in 0 .. Tau
  BY DEF IInv, TypeOK, Requests
<1>3. peak - req[th].t0 <= MaxDelay
  BY DEF IInv, Recent, LagsBehind
<1>4. \A k \in Keys : Word(k) \in 0 .. Bound /\ kept[k] \in 0 .. Bound
  BY ParamsType DEF IInv, TypeOK, Bounded, Bound, Word, Present, Nanos
<1> QED
  BY <1>1, <1>2, <1>3, <1>4

LEMMA MeasureFacts ==
  ASSUME IInv, NEW th \in Threads, InCall(th), NEW soonest \in Nat,
         MeasureAndReplaceOne(th, Word(key[th]), soonest)
  PROVE  LET k    == key[th]
             d    == DecisionOf(th, Word(k))
             keep == DecisionOf(th, kept[k])
         IN  /\ k \in DOMAIN words'
             /\ DOMAIN words' = DOMAIN words \cup {k}
             /\ \A x \in DOMAIN words : x # k => words'[x] = words[x]
             /\ \/ /\ d.ok
                   /\ words'[k] = d.state.tat
                   /\ kept' = [kept EXCEPT ![k] = keep.state.tat]
                   /\ Return(th, Outcome("allowed", 0, 0))
                \/ /\ ~d.ok
                   /\ Present(k) /\ words'[k] = words[k]
                   /\ kept' = kept
                   /\ \E at \in MinOf(soonest, d.state.tat) .. d.state.tat :
                        Return(th, Outcome("not_until", at, req[th].add))
<1> DEFINE k == key[th]
           d == DecisionOf(th, Word(k))
           keep == DecisionOf(th, kept[k])
<1>1. ~d.ok => Present(k)
  BY CallFacts, DecisionKeyed DEF DecisionOf, Word
<1>2. ASSUME NEW word, Put(k, word)
      PROVE  /\ DOMAIN words' = DOMAIN words \cup {k}
             /\ words'[k] = word
             /\ \A x \in DOMAIN words : x # k => words'[x] = words[x]
  BY <1>2 DEF Put
<1>3. \/ /\ d.ok
         /\ Put(k, d.state.tat)
         /\ kept' = [kept EXCEPT ![k] = keep.state.tat]
         /\ Return(th, Outcome("allowed", 0, 0))
      \/ /\ ~d.ok
         /\ Put(k, Word(k))
         /\ kept' = kept
         /\ \E at \in MinOf(soonest, d.state.tat) .. d.state.tat :
              Return(th, Outcome("not_until", at, req[th].add))
  BY DEF MeasureAndReplaceOne, DecisionOf
<1>4. Present(k) => Word(k) = words[k]
  BY DEF Word
<1> HIDE DEF d, keep
<1>5. CASE d.ok
  BY <1>2, <1>3, <1>5 DEF k, d, keep
<1>6. CASE ~d.ok
  BY <1>1, <1>2, <1>3, <1>4, <1>6 DEF k, d, keep
<1> QED
  BY <1>5, <1>6

LEMMA MeasureStep ==
  ASSUME IInv, NEW th \in Threads, InCall(th), NEW soonest \in Nat,
         MeasureAndReplaceOne(th, Word(key[th]), soonest)
  PROVE  IInv'
<1> DEFINE k == key[th]
           d == DecisionOf(th, Word(k))
           keep == DecisionOf(th, kept[k])
<1>1. /\ k \in Keys
      /\ d.state.tat \in 0 .. Bound /\ keep.state.tat \in 0 .. Bound
      /\ d.ok => d.state.tat > 0
      /\ req[th].add \in 0 .. Tau
  BY CallFacts, DecisionKeyed, ParamsType DEF DecisionOf
<1>2. UNCHANGED <<clock, peak, store, sweep>>
  BY DEF MeasureAndReplaceOne, times
<1> HIDE DEF d, keep
<1>3. /\ DOMAIN words' = DOMAIN words \cup {k}
      /\ \A x \in DOMAIN words : x # k => words'[x] = words[x]
      /\ words'[k] \in 1 .. Bound
  <2>1. Present(k) => words[k] \in 1 .. Bound
    BY ParamsType DEF IInv, TypeOK, Bounded, Nanos, Bound, Present
  <2> QED
    BY <1>1, <2>1, MeasureFacts DEF d
<1>4. kept' \in [Keys -> 0 .. Bound]
  <2>1. kept \in [Keys -> 0 .. Bound]
    BY ParamsType DEF IInv, TypeOK, Bounded, Bound, Nanos
  <2>2. kept' = [kept EXCEPT ![k] = keep.state.tat] \/ kept' = kept
    BY MeasureFacts DEF keep
  <2> QED
    BY <1>1, <2>1, <2>2
<1>5. \E outcome \in Outcomes : Return(th, outcome)
  <2>1. Outcome("allowed", 0, 0) \in Outcomes
    BY ParamsType DEF Outcome, Outcomes
  <2>2. ASSUME NEW at \in MinOf(soonest, d.state.tat) .. d.state.tat
        PROVE  Outcome("not_until", at, req[th].add) \in Outcomes
    BY <1>1 DEF Outcome, Outcomes, MinOf
  <2>3. \/ Return(th, Outcome("allowed", 0, 0))
        \/ \E at \in MinOf(soonest, d.state.tat) .. d.state.tat :
             Return(th, Outcome("not_until", at, req[th].add))
    BY MeasureFacts DEF d
  <2> QED
    BY <2>1, <2>2, <2>3
<1>6. TypeOK'
  <2>1. /\ DOMAIN words' \subseteq Keys
        /\ \A x \in DOMAIN words' : words'[x] \in Nanos \ {0}
    BY <1>1, <1>3, ParamsType DEF IInv, TypeOK, Bound, Nanos
  <2>2. kept' \in [Keys -> Nanos]
    BY <1>4, ParamsType DEF Bound, Nanos
  <2>3. /\ pc' \in [Threads -> {"idle", "get", "measure", "entry", "retain", "shrink"}]
        /\ key' \in [Threads -> Keys \cup {NoKey}]
    BY <1>5 DEF Return, IInv, TypeOK
  <2>4. req' \in [Threads -> Requests]
    <3>1. NoReq \in Requests
      BY ParamsType DEF NoReq, Requests
    <3> QED
      BY <1>5, <3>1 DEF Return, IInv, TypeOK
  <2>5. out' \in [Threads -> [Keys -> Outcomes]]
    BY <1>1, <1>5 DEF Return, IInv, TypeOK
  <2> QED
    BY <1>2, <2>1, <2>2, <2>3, <2>4, <2>5 DEF IInv, TypeOK
<1>7. Bounded'
  BY <1>3, <1>4 DEF Bounded, IInv
<1>8. CallOK' /\ Recent' /\ SweepOK'
  BY <1>2, <1>5 DEF Return, CallOK, Recent, LagsBehind, SweepOK, InCall,
     LastShardNumber, IInv, TypeOK
<1> QED
  BY <1>6, <1>7, <1>8 DEF IInv

(* The three places in the stores that measure a key. *)
LEMMA MeasuringSteps ==
  ASSUME IInv, NEW th \in Threads, MeasureLocked(th) \/ Measure(th) \/ Entry(th)
  PROVE  /\ InCall(th)
         /\ \E soonest \in Nat :
              /\ soonest > req[th].t0
              /\ MeasureAndReplaceOne(th, Word(key[th]), soonest)
<1>1. InCall(th)
  BY DEF MeasureLocked, Measure, Entry, InCall
<1>2. /\ U64 \in Nat /\ req[th].t0 + 1 \in Nat
      /\ U64 > req[th].t0 /\ req[th].t0 + 1 > req[th].t0
  BY <1>1, CallFacts, ParamsType
<1> QED
  BY <1>1, <1>2 DEF MeasureLocked, Measure, Entry

-----------------------------------------------------------------------------
(* The sweeps. *)

LEMMA NextShardFacts ==
  ASSUME IInv, NEW th \in Threads, pc[th] \in {"retain", "shrink"},
         NextShard(th), DOMAIN words' \subseteq DOMAIN words,
         \A k \in DOMAIN words' : words'[k] = words[k]
  PROVE  IInv'
<1> DEFINE s == sweep[th].shard
<1>1. /\ s \in 1 .. LastShardNumber /\ LastShardNumber \in 1 .. Shards
      /\ LastShard(s) <=> s = LastShardNumber
  BY ParamsType DEF IInv, SweepOK, LastShard, LastShardNumber
<1>2. UNCHANGED <<clock, peak, store, kept, key, req, out>>
  BY DEF NextShard, times
<1>3. /\ pc' = [pc EXCEPT ![th] = IF LastShard(s) THEN "idle" ELSE pc[th]]
      /\ sweep' = [sweep EXCEPT ![th] =
                     IF LastShard(s) THEN NoSweep
                     ELSE [sweep[th] EXCEPT !.shard = s + 1]]
  BY DEF NextShard
<1>4. /\ sweep[th] \in [drop_below : 0 .. MaxClock, shard : 0 .. Shards]
      /\ NoSweep \in [drop_below : 0 .. MaxClock, shard : 0 .. Shards]
  BY ParamsType DEF IInv, TypeOK, NoSweep
<1>5. TypeOK'
  <2>1. ~LastShard(s) => [sweep[th] EXCEPT !.shard = s + 1]
                            \in [drop_below : 0 .. MaxClock, shard : 0 .. Shards]
    <3>1. ~LastShard(s) => s + 1 \in 0 .. Shards
      BY <1>1, ParamsType
    <3> HIDE DEF s
    <3> QED
      BY <1>4, <3>1
  <2>2. sweep' \in [Threads -> [drop_below : 0 .. MaxClock, shard : 0 .. Shards]]
    BY <1>3, <1>4, <2>1 DEF IInv, TypeOK
  <2>3. pc' \in [Threads -> {"idle", "get", "measure", "entry", "retain", "shrink"}]
    BY <1>3 DEF IInv, TypeOK
  <2> QED
    BY <1>2, <2>2, <2>3 DEF IInv, TypeOK
<1>6. Bounded'
  BY <1>2 DEF IInv, Bounded
<1>7. CallOK' /\ Recent'
  BY <1>2, <1>3 DEF IInv, TypeOK, CallOK, Recent, LagsBehind, InCall
<1>8. SweepOK'
  <2>1. ASSUME NEW o \in Threads, o # th
        PROVE  pc'[o] = pc[o] /\ sweep'[o] = sweep[o]
    BY <1>3, <2>1 DEF IInv, TypeOK
  <2>2. CASE LastShard(s)
    <3>1. pc'[th] = "idle"
      BY <1>3, <2>2 DEF IInv, TypeOK
    <3> QED
      BY <1>2, <2>1, <3>1 DEF IInv, SweepOK, LastShardNumber
  <2>3. CASE ~LastShard(s)
    <3>1. /\ pc'[th] = pc[th]
          /\ sweep'[th].shard = s + 1
          /\ sweep'[th].drop_below = sweep[th].drop_below
      BY <1>3, <1>4, <2>3 DEF IInv, TypeOK
    <3>2. s + 1 \in 1 .. LastShardNumber
      BY <1>1, <2>3, ParamsType
    <3> QED
      BY <1>2, <2>1, <3>1, <3>2 DEF IInv, SweepOK, LastShardNumber
  <2> QED
    BY <2>2, <2>3
<1> QED
  BY <1>5, <1>6, <1>7, <1>8 DEF IInv

LEMMA SweepStep ==
  ASSUME IInv, NEW th \in Threads, RetainShard(th) \/ ShrinkShard(th)
  PROVE  IInv'
<1>1. CASE RetainShard(th)
  BY <1>1, NextShardFacts DEF RetainShard
<1>2. CASE ShrinkShard(th)
  BY <1>2, NextShardFacts DEF ShrinkShard
<1> QED
  BY <1>1, <1>2

-----------------------------------------------------------------------------
LEMMA NextIInv == IInv /\ [Next]_vars => IInv'
<1> SUFFICES ASSUME IInv, [Next]_vars
             PROVE  IInv'
  OBVIOUS
<1>1. CASE Tick \/ StepBack
  BY <1>1, TickStep, StepBackStep
<1>2. ASSUME NEW th \in Threads, NEW k \in Keys,
             \/ CheckKey(th, k)
             \/ \E n \in Sizes : CheckKeyN(th, k, n) \/ RejectKeyN(th, k, n)
      PROVE  IInv'
  <2>1. CASE CheckKey(th, k)
    <3>1. T * (1 - 1) \in 0 .. Tau /\ Enter(th, k, 1, T * (1 - 1))
      BY <2>1, CheckStep, ParamsType
    <3> QED
      BY <3>1, EnterStep
  <2>2. ASSUME NEW n \in Sizes, CheckKeyN(th, k, n) \/ RejectKeyN(th, k, n)
        PROVE  IInv'
    BY <2>2, CheckStep, EnterStep, RejectStep
  <2> QED
    BY <1>2, <2>1, <2>2
<1>3. ASSUME NEW th \in Threads, Retain(th) \/ ShrinkToFit(th)
      PROVE  IInv'
  BY <1>3, SweepStartStep
<1>4. ASSUME NEW th \in Threads, Proceed(th) \/ Exclude(th)
      PROVE  IInv'
  <2>1. CASE Get(th)
    BY <2>1, GetStep
  <2>2. CASE MeasureLocked(th) \/ Measure(th) \/ Entry(th)
    BY <2>2, MeasuringSteps, MeasureStep
  <2>3. CASE RetainShard(th) \/ ShrinkShard(th)
    BY <2>3, SweepStep
  <2> QED
    BY <1>4, <2>1, <2>2, <2>3 DEF Proceed, Exclude
<1>5. CASE UNCHANGED vars
  BY <1>5 DEF vars, times, IInv, TypeOK, Bounded, CallOK, Recent, LagsBehind,
     InCall, SweepOK, LastShardNumber
<1> QED
  BY <1>1, <1>2, <1>3, <1>4, <1>5 DEF Next

LEMMA Invariance == Spec => []IInv
<1> QED
  BY InitIInv, NextIInv, PTL DEF Spec

-----------------------------------------------------------------------------
(* Every variable keeps its type; no key is ever left in the map with the  *)
(* word 0 of a state that was never measured.                              *)
THEOREM TypeCorrect == Spec => []TypeOK
<1> QED
  BY Invariance, PTL DEF IInv

-----------------------------------------------------------------------------
(* retain_recent: of the shards it is done with, nothing is left that is   *)
(* as old as its mark, and no call can bring it back.                      *)

Swept ==
  \A th \in Threads :
    pc[th] = "retain" =>
      \A k \in DOMAIN words :
        Shard(k) < sweep[th].shard => words[k] > sweep[th].drop_below

LEMMA ShardRange ==
  ASSUME IInv, NEW k \in Keys
  PROVE  Shard(k) \in 1 .. LastShardNumber
BY ParamsType DEF Shard, LastShardNumber

(* A cell is admitted to the key some time after every mark.               *)
LEMMA NewIsRecent ==
  ASSUME IInv, MaxDelay < 2 * T, NEW th \in Threads, InCall(th),
         NEW word \in 0 .. Bound, DecisionOf(th, word).ok,
         NEW o \in Threads, pc[o] = "retain"
  PROVE  DecisionOf(th, word).state.tat > sweep[o].drop_below
<1> DEFINE d == DecisionOf(th, word)
           t0 == req[th].t0
           mark == sweep[o].drop_below
<1>1. /\ t0 \in Nat /\ peak - t0 <= MaxDelay /\ peak \in Nat
      /\ d.state.tat \in Nat /\ d.state.tat >= t0 + T
  BY CallFacts, DecisionKeyed, ParamsType DEF DecisionOf, IInv, TypeOK, Bound
<1>2. mark \in Nat /\ (mark = 0 \/ mark + T <= peak)
  BY DEF IInv, SweepOK, TypeOK
<1> HIDE DEF d, t0, mark
<1>3. d.state.tat > mark
  BY <1>1, <1>2, ParamsType
<1> QED
  BY <1>3 DEF d, mark

LEMMA MeasureSwept ==
  ASSUME IInv, Swept, MaxDelay < 2 * T, NEW th \in Threads, InCall(th),
         NEW soonest \in Nat,
         MeasureAndReplaceOne(th, Word(key[th]), soonest)
  PROVE  Swept'
<1> DEFINE k == key[th]
           d == DecisionOf(th, Word(k))
<1>1. /\ k \in Keys /\ Word(k) \in 0 .. Bound
      /\ DOMAIN words' = DOMAIN words \cup {k}
      /\ \A x \in DOMAIN words : x # k => words'[x] = words[x]
      /\ \/ d.ok /\ words'[k] = d.state.tat
         \/ Present(k) /\ words'[k] = words[k]
  BY CallFacts, MeasureFacts
<1>2. UNCHANGED <<store, sweep>> /\ \E outcome : Return(th, outcome)
  BY MeasureFacts DEF MeasureAndReplaceOne
<1> SUFFICES ASSUME NEW o \in Threads, pc'[o] = "retain",
                    NEW x \in DOMAIN words', Shard(x)' < sweep'[o].shard
             PROVE  words'[x] > sweep'[o].drop_below
  BY DEF Swept
<1>3. /\ pc[o] = "retain" /\ sweep'[o] = sweep[o]
      /\ Shard(x) < sweep[o].shard
  BY <1>2 DEF Return, Shard, IInv, TypeOK
<1>4. x \in DOMAIN words => words[x] > sweep[o].drop_below
  BY <1>3 DEF Swept
<1>5. d.ok => d.state.tat > sweep[o].drop_below
  BY <1>1, <1>3, NewIsRecent
<1> HIDE DEF d
<1> QED
  BY <1>1, <1>3, <1>4, <1>5 DEF Present

LEMMA RetainSwept ==
  ASSUME IInv, Swept, NEW th \in Threads, RetainShard(th)
  PROVE  /\ \A k \in DOMAIN words' :
              /\ k \in DOMAIN words /\ words'[k] = words[k]
              /\ Shard(k) <= sweep[th].shard =>
                   words'[k] > sweep[th].drop_below
         /\ Swept'
<1> DEFINE s == sweep[th].shard
<1>1. \A k \in DOMAIN words' :
        /\ k \in DOMAIN words /\ words'[k] = words[k]
        /\ ~(Shard(k) = s /\ words[k] <= sweep[th].drop_below)
  BY DEF RetainShard, IsOlderThan
<1>2. /\ pc[th] = "retain" /\ s \in 1 .. LastShardNumber
      /\ \A k \in DOMAIN words : Shard(k) \in 1 .. LastShardNumber
      /\ LastShardNumber \in Nat
      /\ \A k \in DOMAIN words : words[k] \in Nat
      /\ \A o \in Threads : sweep[o].drop_below \in Nat
  BY ShardRange, ParamsType DEF RetainShard, IInv, TypeOK, SweepOK, Nanos,
     LastShardNumber
<1>3. ASSUME NEW k \in DOMAIN words', Shard(k) <= s
      PROVE  words'[k] > sweep[th].drop_below
  <2>1. CASE Shard(k) = s
    BY <1>1, <1>2, <2>1
  <2>2. CASE Shard(k) < s
    BY <1>1, <1>2, <2>2 DEF Swept
  <2> QED
    BY <1>1, <1>2, <1>3, <2>1, <2>2
<1>4. /\ pc' = [pc EXCEPT ![th] = IF LastShard(s) THEN "idle" ELSE pc[th]]
      /\ sweep' = [sweep EXCEPT ![th] =
                     IF LastShard(s) THEN NoSweep
                     ELSE [sweep[th] EXCEPT !.shard = s + 1]]
      /\ UNCHANGED store
  BY DEF RetainShard, NextShard
<1>5. Swept'
  <2> SUFFICES ASSUME NEW o \in Threads, pc'[o] = "retain",
                      NEW k \in DOMAIN words', Shard(k)' < sweep'[o].shard
               PROVE  words'[k] > sweep'[o].drop_below
    BY DEF Swept
  <2>1. CASE o # th
    <3>1. pc[o] = "retain" /\ sweep'[o] = sweep[o] /\ Shard(k)' = Shard(k)
      BY <1>4, <2>1 DEF IInv, TypeOK, Shard
    <3> QED
      BY <1>1, <3>1 DEF Swept
  <2>2. CASE o = th
    <3>1. ~LastShard(s) /\ Shard(k)' = Shard(k)
      BY <1>4, <2>2 DEF IInv, TypeOK, Shard
    <3>2. /\ sweep'[th].shard = s + 1
          /\ sweep'[th].drop_below = sweep[th].drop_below
      BY <1>4, <3>1 DEF IInv, TypeOK
    <3>3. Shard(k) <= s
      BY <1>1, <1>2, <2>2, <3>1, <3>2
    <3> QED
      BY <1>3, <2>2, <3>2, <3>3
  <2> QED
    BY <2>1, <2>2
<1> QED
  BY <1>1, <1>3, <1>5

LEMMA NextSwept ==
  ASSUME MaxDelay < 2 * T
  PROVE  IInv /\ Swept /\ [Next]_vars => Swept'
<1> SUFFICES ASSUME IInv, Swept, [Next]_vars
             PROVE  Swept'
  OBVIOUS
<1>1. CASE UNCHANGED <<store, words, pc, sweep>>
  BY <1>1 DEF Swept, Shard
<1>2. ASSUME NEW th \in Threads, NEW k \in Keys,
             \/ CheckKey(th, k)
             \/ \E n \in Sizes : CheckKeyN(th, k, n) \/ RejectKeyN(th, k, n)
      PROVE  Swept'
  <2>1. /\ UNCHANGED <<store, words, sweep>>
        /\ pc' = [pc EXCEPT ![th] = "get"] \/ pc' = pc
    BY <1>2 DEF CheckKey, CheckKeyN, RejectKeyN, Enter
  <2>2. \A o \in Threads : pc'[o] = "retain" => pc[o] = "retain"
    BY <2>1 DEF IInv, TypeOK
  <2> QED
    BY <2>1, <2>2 DEF Swept, Shard
<1>3. ASSUME NEW th \in Threads, Retain(th) \/ ShrinkToFit(th)
      PROVE  Swept'
  <2>1. /\ UNCHANGED <<store, words>>
        /\ sweep'[th].shard = 1
        /\ \A o \in Threads : o # th => pc'[o] = pc[o] /\ sweep'[o] = sweep[o]
    BY <1>3 DEF Retain, ShrinkToFit, IInv, TypeOK
  <2>2. \A k \in DOMAIN words : ~(Shard(k)' < 1)
    BY <2>1, ShardRange, ParamsType DEF Shard, IInv, TypeOK, LastShardNumber
  <2> QED
    BY <2>1, <2>2 DEF Swept, Shard
<1>4. ASSUME NEW th \in Threads, Get(th)
      PROVE  Swept'
  <2>1. \A o \in Threads : pc'[o] = "retain" => pc[o] = "retain"
    BY <1>4 DEF Get, IInv, TypeOK
  <2> QED
    BY <1>4, <2>1 DEF Get, Swept, Shard
<1>5. ASSUME NEW th \in Threads,
             MeasureLocked(th) \/ Measure(th) \/ Entry(th)
      PROVE  Swept'
  BY <1>5, MeasuringSteps, MeasureSwept
<1>6. ASSUME NEW th \in Threads, ShrinkShard(th)
      PROVE  Swept'
  <2>1. /\ UNCHANGED <<store, words>>
        /\ \A o \in Threads : o # th => pc'[o] = pc[o] /\ sweep'[o] = sweep[o]
        /\ pc'[th] # "retain"
    BY <1>6 DEF ShrinkShard, NextShard, IInv, TypeOK
  <2> QED
    BY <2>1 DEF Swept, Shard
<1>7. CASE Tick \/ StepBack \/ UNCHANGED vars
  BY <1>1, <1>7 DEF Tick, StepBack, vars
<1> QED
  BY <1>2, <1>3, <1>4, <1>5, <1>6, <1>7, RetainSwept
     DEF Next, Proceed, Exclude

(* Only its own step ends a sweep.                                          *)
LEMMA RetainReturns ==
  ASSUME IInv, [Next]_vars,
         NEW th \in Threads, pc[th] = "retain", pc'[th] = "idle"
  PROVE  RetainShard(th)
<1>1. pc'[th] # pc[th]
  OBVIOUS
<1>2. ASSUME NEW o \in Threads, NEW p, pc' = [pc EXCEPT ![o] = p]
      PROVE  o = th
  BY <1>1, <1>2 DEF IInv, TypeOK
<1>3. ~(Tick \/ StepBack \/ UNCHANGED vars)
  BY <1>1 DEF Tick, StepBack, vars
<1>4. ASSUME NEW o \in Threads, NEW k \in Keys,
             \/ CheckKey(o, k)
             \/ \E n \in Sizes : CheckKeyN(o, k, n) \/ RejectKeyN(o, k, n)
      PROVE  FALSE
  BY <1>1, <1>2, <1>4 DEF CheckKey, CheckKeyN, RejectKeyN, Enter
<1>5. ASSUME NEW o \in Threads, Retain(o) \/ ShrinkToFit(o) \/ Get(o)
      PROVE  FALSE
  BY <1>2, <1>5 DEF Retain, ShrinkToFit, Get
<1>6. ASSUME NEW o \in Threads,
             MeasureLocked(o) \/ Measure(o) \/ Entry(o)
      PROVE  FALSE
  <2>1. pc[o] # "retain" /\ \E outcome : Return(o, outcome)
    BY <1>6 DEF MeasureLocked, Measure, Entry, MeasureAndReplaceOne
  <2> QED
    BY <1>2, <2>1 DEF Return
<1>7. ASSUME NEW o \in Threads, ShrinkShard(o)
      PROVE  FALSE
  BY <1>2, <1>7 DEF ShrinkShard, NextShard
<1>8. ASSUME NEW o \in Threads, RetainShard(o)
      PROVE  RetainShard(th)
  BY <1>2, <1>8 DEF RetainShard, NextShard
<1> QED
  BY <1>3, <1>4, <1>5, <1>6, <1>7, <1>8 DEF Next, Proceed, Exclude

(* When retain_recent returns, no key that was stale when it was called is  *)
(* in the map, unless a call can be delayed for two intervals of a cell.    *)
THEOREM SweepsComplete ==
  ASSUME MaxDelay < 2 * T
  PROVE  Spec => SweepComplete
<1> DEFINE A == \A th \in Threads :
                 (pc[th] = "retain" /\ pc'[th] = "idle") =>
                   \A k \in DOMAIN words' :
                     words'[k] > sweep[th].drop_below
<1>1. Init => Swept
  BY DEF Init, Construct, Swept
<1>2. ASSUME IInv, Swept, [Next]_vars
      PROVE  A
  <2> SUFFICES ASSUME NEW th \in Threads, pc[th] = "retain", pc'[th] = "idle",
                      NEW k \in DOMAIN words'
               PROVE  words'[k] > sweep[th].drop_below
    OBVIOUS
  <2>1. RetainShard(th) /\ LastShard(sweep[th].shard)
    <3>1. RetainShard(th)
      BY <1>2, RetainReturns
    <3> QED
      BY <3>1 DEF RetainShard, NextShard, IInv, TypeOK
  <2>2. sweep[th].shard = LastShardNumber
    BY <2>1 DEF LastShard, LastShardNumber
  <2>3. k \in Keys
    BY <1>2, <2>1, RetainSwept DEF IInv, TypeOK
  <2>4. Shard(k) <= sweep[th].shard
    BY <1>2, <2>2, <2>3, ShardRange, ParamsType DEF LastShardNumber
  <2> QED
    BY <1>2, <2>1, <2>4, RetainSwept
<1>3. Spec => [](IInv /\ Swept)
  BY <1>1, InitIInv, NextIInv, NextSwept, PTL DEF Spec
<1>4. Spec => [][A]_vars
  BY <1>2, <1>3, PTL DEF Spec
<1> QED
  BY <1>4 DEF SweepComplete

-----------------------------------------------------------------------------
(* What a sweep or a miss forgets makes no difference: a key is only ever   *)
(* missing while its tat, were it kept, would lie an interval back.         *)

LikeKept ==
  \A k \in Keys :
    IF Present(k) THEN words[k] = kept[k]
                  ELSE kept[k] = 0 \/ kept[k] + T <= peak

LEMMA SameDecision ==
  ASSUME IInv, LikeKept, MaxDelay <= T, NEW th \in Threads, InCall(th)
  PROVE  LET d    == DecisionOf(th, Word(key[th]))
             keep == DecisionOf(th, kept[key[th]])
         IN  /\ keep.ok <=> d.ok
             /\ d.ok => keep.state.tat = d.state.tat
             /\ ~d.ok => Present(key[th])
<1> DEFINE k    == key[th]
           t0   == req[th].t0
           add  == req[th].add
           d    == DecisionOf(th, Word(k))
           keep == DecisionOf(th, kept[k])
<1>1. /\ k \in Keys /\ t0 \in 0 .. MaxClock /\ add \in 0 .. Tau
      /\ Word(k) \in 0 .. Bound /\ kept[k] \in 0 .. Bound
      /\ peak - t0 <= MaxDelay
  BY CallFacts
<1>2. CASE Present(k)
  <2>1. Word(k) = kept[k]
    BY <1>1, <1>2 DEF LikeKept, Word
  <2> QED
    BY <1>2, <2>1
<1>3. CASE ~Present(k)
  <2>1. Word(k) = 0 /\ (kept[k] = 0 \/ kept[k] + T <= peak)
    BY <1>1, <1>3 DEF LikeKept, Word
  <2>2. kept[k] <= t0
    BY <1>1, <2>1, ParamsType DEF IInv, TypeOK, Bound
  <2>3. /\ Tat(kept[k], t0) \in 0 .. t0
        /\ Tat(Word(k), t0) = t0
        /\ MaxOf(Tat(kept[k], t0), t0) = t0
        /\ MaxOf(t0, t0) = t0
    BY <1>1, <2>1, <2>2 DEF Tat, MaxOf, Bound
  <2>4. d.ok /\ d.state.tat = t0 + T + add
    BY <1>1, <2>3, DecisionKeyed, ParamsType DEF DecisionOf
  <2>5. keep.ok /\ keep.state.tat = t0 + T + add
    BY <1>1, <2>3, DecisionKeyed, ParamsType DEF DecisionOf
  <2> HIDE DEF d, keep
  <2>6. keep.ok <=> d.ok
    BY <2>4, <2>5
  <2>7. keep.state.tat = d.state.tat
    BY <2>4, <2>5
  <2> QED
    BY <2>4, <2>6, <2>7 DEF d, keep
<1> QED
  BY <1>2, <1>3

LEMMA MeasureLikeKept ==
  ASSUME IInv, LikeKept, MaxDelay <= T, NEW th \in Threads, InCall(th),
         NEW soonest \in Nat,
         MeasureAndReplaceOne(th, Word(key[th]), soonest)
  PROVE  LikeKept'
<1> DEFINE k    == key[th]
           d    == DecisionOf(th, Word(k))
           keep == DecisionOf(th, kept[k])
<1>1. /\ k \in Keys /\ peak' = peak
      /\ DOMAIN words' = DOMAIN words \cup {k}
      /\ \A x \in DOMAIN words : x # k => words'[x] = words[x]
  BY CallFacts, MeasureFacts DEF MeasureAndReplaceOne, times
<1>2. /\ \A x \in Keys : x # k => kept'[x] = kept[x]
      /\ words'[k] = kept'[k]
  <2>1. \/ /\ d.ok /\ words'[k] = d.state.tat
           /\ kept' = [kept EXCEPT ![k] = keep.state.tat]
        \/ ~d.ok /\ Present(k) /\ words'[k] = words[k] /\ kept' = kept
    BY MeasureFacts
  <2>2. d.ok => keep.state.tat = d.state.tat
    BY SameDecision
  <2>3. kept \in [Keys -> Nanos]
    BY DEF IInv, TypeOK
  <2> HIDE DEF d, keep
  <2> QED
    BY <1>1, <2>1, <2>2, <2>3 DEF LikeKept
<1> QED
  BY <1>1, <1>2 DEF LikeKept, Present

LEMMA NextLikeKept ==
  ASSUME MaxDelay <= T
  PROVE  IInv /\ LikeKept /\ [Next]_vars => LikeKept'
<1> SUFFICES ASSUME IInv, LikeKept, [Next]_vars
             PROVE  LikeKept'
  OBVIOUS
<1>1. CASE UNCHANGED <<peak, words, kept>>
  BY <1>1 DEF LikeKept, Present
<1>2. CASE Tick
  <2>1. UNCHANGED <<words, kept>> /\ peak' >= peak /\ peak \in Nat /\ peak' \in Nat
    BY <1>2, ParamsType DEF Tick, MaxOf, IInv, TypeOK
  <2>2. \A k \in Keys : kept[k] \in Nat
    BY ParamsType DEF IInv, TypeOK, Nanos
  <2> QED
    BY <2>1, <2>2, ParamsType DEF LikeKept, Present
<1>3. ASSUME NEW th \in Threads, RetainShard(th)
      PROVE  LikeKept'
  <2>1. UNCHANGED <<peak, kept>>
    BY <1>3 DEF RetainShard, NextShard, times
  <2>2. \A k \in DOMAIN words \ DOMAIN words' :
          words[k] <= sweep[th].drop_below /\ words[k] \in Nat /\ words[k] > 0
    BY <1>3, ParamsType DEF RetainShard, IsOlderThan, IInv, TypeOK, Nanos
  <2>3. /\ sweep[th].drop_below \in Nat /\ peak \in Nat
        /\ sweep[th].drop_below = 0 \/ sweep[th].drop_below + T <= peak
    BY <1>3, ParamsType DEF RetainShard, IInv, SweepOK, TypeOK
  <2>4. \A k \in DOMAIN words' : k \in DOMAIN words /\ words'[k] = words[k]
    BY <1>3 DEF RetainShard
  <2>5. \A k \in DOMAIN words \ DOMAIN words' : words[k] + T <= peak
    BY <2>2, <2>3, ParamsType
  <2> QED
    BY <2>1, <2>4, <2>5 DEF LikeKept, Present
<1>4. ASSUME NEW th \in Threads,
             MeasureLocked(th) \/ Measure(th) \/ Entry(th)
      PROVE  LikeKept'
  BY <1>4, MeasuringSteps, MeasureLikeKept
<1>5. CASE StepBack \/ UNCHANGED vars
  BY <1>1, <1>5 DEF StepBack, vars, times
<1>6. ASSUME NEW th \in Threads, NEW k \in Keys,
             \/ CheckKey(th, k)
             \/ \E n \in Sizes : CheckKeyN(th, k, n) \/ RejectKeyN(th, k, n)
      PROVE  LikeKept'
  BY <1>1, <1>6 DEF CheckKey, CheckKeyN, RejectKeyN, Enter, times
<1>7. ASSUME NEW th \in Threads,
             Retain(th) \/ ShrinkToFit(th) \/ Get(th) \/ ShrinkShard(th)
      PROVE  LikeKept'
  BY <1>1, <1>7 DEF Retain, ShrinkToFit, Get, ShrinkShard, NextShard, times
<1> QED
  BY <1>2, <1>3, <1>4, <1>5, <1>6, <1>7 DEF Next, Proceed, Exclude

-----------------------------------------------------------------------------
(* The refinement, key by key: a call on a key is the atomic test and       *)
(* update of that key's limiter, and everything else stutters for it.       *)

LEMMA OwnInit ==
  ASSUME NEW k \in Keys, Init
  PROVE  Own(k)!Init
BY KeyedAssumption DEF Init, Own!Init, ReqOf, OutOf, NoReq, Own!NoReq, Outcome,
   Own!Outcome

LEMMA EnterRefines ==
  ASSUME IInv, NEW th \in Threads, NEW k \in Keys, NEW n \in Sizes \cup {1},
         T * (n - 1) \in 0 .. Tau, Enter(th, k, n, T * (n - 1)),
         NEW x \in Keys
  PROVE  Own(x)!Next \/ UNCHANGED <<kept[x], ReqOf(x), OutOf(x)>>
<1> DEFINE r == [t0 |-> clock, n |-> n, add |-> T * (n - 1)]
<1>1. /\ key[th] = NoKey /\ NoKey \notin Keys
      /\ key' = [key EXCEPT ![th] = k] /\ req' = [req EXCEPT ![th] = r]
      /\ UNCHANGED <<kept, out>>
  BY KeyedAssumption DEF IInv, CallOK, InCall, Enter
<1>2. /\ \A o \in Threads : o # th => key'[o] = key[o] /\ req'[o] = req[o]
      /\ key'[th] = k /\ req'[th] = r
  BY <1>1 DEF IInv, TypeOK
<1>3. CASE x # k
  BY <1>1, <1>2, <1>3 DEF ReqOf, OutOf
<1>4. CASE x = k
  <2>1. clock \in 0 .. MaxClock
    BY ParamsType DEF IInv, TypeOK
  <2>2. ReqOf(x)[th] = NoReq /\ ReqOf(x)' = [ReqOf(x) EXCEPT ![th] = r]
    <3>1. ReqOf(x)[th] = NoReq
      BY <1>1, <1>4 DEF ReqOf
    <3>2. ReqOf(x)' = [o \in Threads |-> IF o = th THEN r ELSE ReqOf(x)[o]]
      BY <1>2, <1>4 DEF ReqOf
    <3> HIDE DEF r
    <3> QED
      BY <3>1, <3>2 DEF ReqOf
  <2>3. UNCHANGED <<kept[x], OutOf(x)>>
    BY <1>1 DEF OutOf
  <2>4. T * (n - 1) <= Tau
    BY ParamsType
  <2>5. Own(x)!Invoke(th, n)
    BY <2>1, <2>2, <2>3, <2>4 DEF Own!Invoke, Own!NoReq, NoReq
  <2> QED
    BY <2>5 DEF Own!Next
<1> QED
  BY <1>3, <1>4

LEMMA RejectRefines ==
  ASSUME IInv, NEW th \in Threads, NEW k \in Keys, NEW n \in Sizes,
         RejectKeyN(th, k, n), NEW x \in Keys
  PROVE  Own(x)!Next \/ UNCHANGED <<kept[x], ReqOf(x), OutOf(x)>>
<1>1. /\ key[th] = NoKey /\ NoKey \notin Keys
      /\ UNCHANGED <<kept, key, req>>
      /\ out' = [out EXCEPT ![th][k] = Outcome("insufficient", MaxBurst, 0)]
  BY KeyedAssumption, ParamsType, CapacityOfBurst
     DEF IInv, CallOK, InCall, RejectKeyN
<1>2. /\ \A o \in Threads, y \in Keys :
           ~(o = th /\ y = k) => out'[o][y] = out[o][y]
      /\ out'[th][k] = Outcome("insufficient", MaxBurst, 0)
  BY <1>1 DEF IInv, TypeOK
<1>3. CASE x # k
  BY <1>1, <1>2, <1>3 DEF ReqOf, OutOf
<1>4. CASE x = k
  <2>1. n \in Nat /\ n >= 1 /\ T * (n - 1) \in Nat /\ T * (n - 1) > Tau
    BY BatchWeight, ParamsType DEF RejectKeyN, ExceedsCapacity
  <2>2. MaxBurst \in Nat /\ MaxBurst >= 1 /\ MaxBurst - 1 \in Nat /\ n - 1 \in Nat
    BY <2>1, ParamsType
  <2>3. MaxBurst \in 1 .. n
    <3>1. ~(n - 1 <= MaxBurst - 1)
      BY <2>1, <2>2, WeightMonotone, ParamsType
    <3> QED
      BY <2>1, <2>2, <3>1
  <2>4. T * (MaxBurst - 1) <= Tau /\ Tau < T * MaxBurst
    <3>1. /\ T * (MaxBurst - 1) \in Nat
          /\ T * ((MaxBurst - 1) + 1) = T * (MaxBurst - 1) + T
          /\ (MaxBurst - 1) + 1 = MaxBurst
      BY <2>2, DivisionExact, ParamsType
    <3> QED
      BY <3>1, ParamsType
  <2>5. ReqOf(x)[th] = NoReq /\ UNCHANGED <<kept[x], ReqOf(x)>>
    BY <1>1 DEF ReqOf
  <2>6. OutOf(x)' = [OutOf(x) EXCEPT ![th] = Outcome("insufficient", MaxBurst, 0)]
    BY <1>2, <1>4 DEF OutOf
  <2>7. Own(x)!Reject(th, n)
    BY <2>1, <2>3, <2>4, <2>5, <2>6
       DEF Own!Reject, Own!NoReq, NoReq, Own!Outcome, Outcome
  <2> QED
    BY <2>7 DEF Own!Next
<1> QED
  BY <1>3, <1>4

(* What a return shows to the limiter of each key.                          *)
LEMMA ReturnShows ==
  ASSUME IInv, NEW th \in Threads, InCall(th), NEW outcome,
         Return(th, outcome), NEW x \in Keys
  PROVE  /\ x # key[th] => UNCHANGED <<ReqOf(x), OutOf(x)>>
         /\ x = key[th] =>
              /\ ReqOf(x)[th] = req[th] /\ req[th] # NoReq
              /\ ReqOf(x)' = [ReqOf(x) EXCEPT ![th] = NoReq]
              /\ OutOf(x)' = [OutOf(x) EXCEPT ![th] = outcome]
<1>1. /\ key[th] \in Keys /\ NoKey \notin Keys /\ req[th].n >= 1
      /\ req[th].n \in Nat
  BY CallFacts, KeyedAssumption
<1>2. /\ \A o \in Threads : o # th => key'[o] = key[o] /\ req'[o] = req[o]
      /\ key'[th] = NoKey
      /\ \A o \in Threads, y \in Keys :
           ~(o = th /\ y = key[th]) => out'[o][y] = out[o][y]
      /\ out'[th][key[th]] = outcome
  BY <1>1 DEF Return, IInv, TypeOK
<1>3. req[th] # NoReq
  BY <1>1 DEF NoReq
<1>4. CASE x # key[th]
  BY <1>1, <1>2, <1>4 DEF ReqOf, OutOf
<1>5. CASE x = key[th]
  BY <1>1, <1>2, <1>3, <1>5 DEF ReqOf, OutOf
<1> QED
  BY <1>4, <1>5

LEMMA MeasureRefines ==
  ASSUME IInv, LikeKept, MaxDelay <= T, NEW th \in Threads, InCall(th),
         NEW soonest \in Nat, soonest > req[th].t0,
         MeasureAndReplaceOne(th, Word(key[th]), soonest),
         NEW x \in Keys
  PROVE  Own(x)!Next \/ UNCHANGED <<kept[x], ReqOf(x), OutOf(x)>>
<1> DEFINE k    == key[th]
           t0   == req[th].t0
           add  == req[th].add
           d    == DecisionOf(th, Word(k))
           keep == DecisionOf(th, kept[k])
<1>1. /\ k \in Keys /\ t0 \in 0 .. MaxClock /\ add \in 0 .. Tau
      /\ Word(k) \in 0 .. Bound /\ kept[k] \in 0 .. Bound
      /\ req[th].n \in Nat /\ req[th].n >= 1 /\ add = T * (req[th].n - 1)
  BY CallFacts
<1>2. \/ /\ d.ok
         /\ kept' = [kept EXCEPT ![k] = keep.state.tat]
         /\ Return(th, Outcome("allowed", 0, 0))
      \/ /\ ~d.ok /\ Present(k) /\ kept' = kept
         /\ \E at \in MinOf(soonest, d.state.tat) .. d.state.tat :
              Return(th, Outcome("not_until", at, add))
  BY MeasureFacts
<1>3. CASE x # k
  <2>1. kept'[x] = kept[x]
    BY <1>2, <1>3 DEF IInv, TypeOK
  <2>2. \E outcome : Return(th, outcome)
    BY <1>2
  <2> QED
    BY <1>3, <2>1, <2>2, ReturnShows
<1>4. CASE x = k /\ d.ok
  <2>1. /\ kept' = [kept EXCEPT ![k] = keep.state.tat]
        /\ Return(th, Outcome("allowed", 0, 0))
    BY <1>2, <1>4
  <2>2. /\ ReqOf(x)[th] = req[th] /\ req[th] # NoReq
        /\ ReqOf(x)' = [ReqOf(x) EXCEPT ![th] = NoReq]
        /\ OutOf(x)' = [OutOf(x) EXCEPT ![th] = Outcome("allowed", 0, 0)]
    BY <1>4, <2>1, ReturnShows
  <2>3. keep.ok
    BY <1>4, SameDecision
  <2>4. /\ Tat(kept[k], t0) + add <= t0 + Tau
        /\ keep.state.tat = MaxOf(Tat(kept[k], t0), t0) + T + add
    BY <1>1, <2>3, DecisionKeyed DEF DecisionOf
  <2>5. /\ Own(x)!From(t0) = MaxOf(Tat(kept[k], t0), t0)
        /\ Tat(kept[k], t0) \in Nat
    BY <1>1, <1>4 DEF Own!From, MaxOf, Tat
  <2>6. Own(x)!Fits(ReqOf(x)[th])
    BY <1>1, <2>2, <2>4, <2>5, ParamsType DEF Own!Fits, MaxOf
  <2>7. T * req[th].n = T + add
    <3>1. /\ req[th].n - 1 \in Nat /\ (req[th].n - 1) + 1 = req[th].n
          /\ T * ((req[th].n - 1) + 1) = T * (req[th].n - 1) + T
          /\ T * (req[th].n - 1) \in Nat
      BY <1>1, DivisionExact, ParamsType
    <3> QED
      BY <1>1, <3>1, ParamsType
  <2>8. kept'[x] = Own(x)!From(t0) + T * req[th].n
    <3>1. kept'[x] = keep.state.tat
      BY <1>4, <2>1 DEF IInv, TypeOK
    <3>2. MaxOf(Tat(kept[k], t0), t0) \in Nat
      BY <1>1, <2>5 DEF MaxOf
    <3> HIDE DEF keep, t0, add
    <3> QED
      BY <1>1, <2>4, <2>5, <2>7, <3>1, <3>2, ParamsType
  <2>9. Own(x)!Admit(th)
    BY <2>2, <2>6, <2>8
       DEF Own!Admit, Own!Return, Own!NoReq, NoReq, Own!Outcome, Outcome
  <2> QED
    BY <2>9 DEF Own!Next
<1>5. CASE x = k /\ ~d.ok
  <2>1. kept' = kept /\ Present(k)
    BY <1>2, <1>5
  <2>2. PICK at \in MinOf(soonest, d.state.tat) .. d.state.tat :
          Return(th, Outcome("not_until", at, add))
    BY <1>2, <1>5
  <2>3. /\ ReqOf(x)[th] = req[th] /\ req[th] # NoReq
        /\ ReqOf(x)' = [ReqOf(x) EXCEPT ![th] = NoReq]
        /\ OutOf(x)' = [OutOf(x) EXCEPT ![th] = Outcome("not_until", at, add)]
    BY <1>5, <2>2, ReturnShows
  <2>4. Word(k) = kept[k]
    BY <1>1, <2>1 DEF LikeKept, Word
  <2>5. /\ ~(Tat(Word(k), t0) + add <= t0 + Tau)
        /\ d.state.tat = Tat(Word(k), t0) + add - Tau
        /\ Word(k) # 0
    BY <1>1, <1>5, DecisionKeyed DEF DecisionOf
  <2>6. /\ ~(kept[x] + add <= t0 + Tau)
        /\ d.state.tat = kept[x] + add - Tau
    BY <1>5, <2>4, <2>5 DEF Tat
  <2>7. kept[x] \in Nat /\ t0 \in Nat /\ add \in Nat /\ add <= Tau /\ soonest > t0
    BY <1>1, <1>5, ParamsType DEF Bound
  <2> HIDE DEF d, t0, add
  <2>8. at \in t0 + 1 .. kept[x] + add - Tau
    BY <2>6, <2>7, ParamsType DEF MinOf
  <2>9. ~(Own(x)!From(t0) + add <= t0 + Tau)
    BY <2>6, <2>7, ParamsType DEF Own!From
  <2>10. Own(x)!Deny(th)
    <3>1. ~Own(x)!Fits(ReqOf(x)[th])
      BY <2>3, <2>9 DEF Own!Fits, t0, add
    <3>2. \E a \in ReqOf(x)[th].t0 + 1 .. kept[x] + ReqOf(x)[th].add - Tau :
            Own(x)!Return(th, Own(x)!Outcome("not_until", a, ReqOf(x)[th].add))
      BY <2>3, <2>8
         DEF Own!Return, Own!NoReq, NoReq, Own!Outcome, Outcome, t0, add
    <3> QED
      BY <2>1, <2>3, <3>1, <3>2 DEF Own!Deny, Own!NoReq, NoReq
  <2> QED
    BY <2>10 DEF Own!Next
<1> QED
  BY <1>3, <1>4, <1>5

LEMMA StepRefines ==
  ASSUME IInv, LikeKept, MaxDelay <= T, [Next]_vars, NEW x \in Keys
  PROVE  [Own(x)!Next]_<<kept[x], ReqOf(x), OutOf(x)>>
<1> SUFFICES Own(x)!Next \/ UNCHANGED <<kept[x], ReqOf(x), OutOf(x)>>
  OBVIOUS
<1>1. CASE UNCHANGED <<kept, key, req, out>>
  BY <1>1 DEF ReqOf, OutOf
<1>2. ASSUME NEW th \in Threads, NEW k \in Keys, CheckKey(th, k)
      PROVE  Own(x)!Next \/ UNCHANGED <<kept[x], ReqOf(x), OutOf(x)>>
  <2>1. T * (1 - 1) \in 0 .. Tau /\ Enter(th, k, 1, T * (1 - 1))
    BY <1>2, CheckStep, ParamsType
  <2> QED
    BY <2>1, EnterRefines
<1>3. ASSUME NEW th \in Threads, NEW k \in Keys, NEW n \in Sizes,
             CheckKeyN(th, k, n) \/ RejectKeyN(th, k, n)
      PROVE  Own(x)!Next \/ UNCHANGED <<kept[x], ReqOf(x), OutOf(x)>>
  BY <1>3, CheckStep, EnterRefines, RejectRefines
<1>4. ASSUME NEW th \in Threads,
             MeasureLocked(th) \/ Measure(th) \/ Entry(th)
      PROVE  Own(x)!Next \/ UNCHANGED <<kept[x], ReqOf(x), OutOf(x)>>
  BY <1>4, MeasuringSteps, MeasureRefines
<1>5. ASSUME NEW th \in Threads,
             \/ Retain(th) \/ ShrinkToFit(th) \/ Get(th)
             \/ RetainShard(th) \/ ShrinkShard(th)
      PROVE  UNCHANGED <<kept, key, req, out>>
  BY <1>5 DEF Retain, ShrinkToFit, Get, RetainShard, ShrinkShard, NextShard
<1>6. CASE Tick \/ StepBack \/ UNCHANGED vars
  BY <1>1, <1>6 DEF Tick, StepBack, vars
<1> QED
  BY <1>1, <1>2, <1>3, <1>4, <1>5, <1>6 DEF Next, Proceed, Exclude

(* Every key is limited as if it had a limiter of its own that is never     *)
(* removed, if no call is delayed by more than the interval of a cell.      *)
THEOREM NeverRemoved ==
  ASSUME MaxDelay <= T
  PROVE  Spec => AsIfNeverRemoved
<1> DEFINE A == \A k \in Keys :
                 [Own(k)!Next]_<<kept[k], ReqOf(k), OutOf(k)>>
<1>1. Init => LikeKept /\ \A k \in Keys : Own(k)!Init
  BY OwnInit DEF Init, Construct, LikeKept, Present
<1>2. Spec => [](IInv /\ LikeKept)
  BY <1>1, InitIInv, NextIInv, NextLikeKept, PTL DEF Spec
<1>3. ASSUME IInv, LikeKept, [Next]_vars
      PROVE  A
  BY <1>3, StepRefines
<1>4. Spec => [][A]_vars
  BY <1>2, <1>3, PTL DEF Spec
<1> QED
  BY <1>1, <1>4 DEF AsIfNeverRemoved, Spec
=============================================================================
