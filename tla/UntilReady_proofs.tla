------------------------- MODULE UntilReady_proofs -------------------------
(***************************************************************************)
(* For any number of tasks, any quota, batches and jitter, and a clock     *)
(* that is set back by any amount: nobody is told to wait longer than it   *)
(* takes to refill a burst and what the clock was set back, and nobody     *)
(* wakes too early for the word its wait was derived from.                 *)
(***************************************************************************)
EXTENDS UntilReady, Waiting_proofs, SequenceTheorems

LEMMA BatchWeight ==
  ASSUME NEW n \in Sizes \cup {1}
  PROVE  AdditionalWeight(gcra, n) \in Nat
<1>1. n - 1 \in Nat
  BY UntilAssumption
<1>2. T * (n - 1) \in Nat
  BY <1>1, ParamsType
<1>3. CASE n = 1
  <2>1. T * (n - 1) = 0
    BY <1>3, ParamsType
  <2> QED
    BY <2>1, ParamsType DEF AdditionalWeight, Mul
<1>4. CASE n \in Sizes
  BY <1>2, <1>4, UntilAssumption, ParamsType DEF AdditionalWeight, Mul
<1> QED
  BY <1>3, <1>4

(* The sequence of words, as a function. *)
LEMMA WordsFacts ==
  ASSUME TypeOK
  PROVE  /\ Len(words) \in Nat /\ Len(words) >= 1
         /\ DOMAIN words = 1 .. Len(words)
         /\ \A i \in 1 .. Len(words) : words[i] \in 0 .. Tau + T + setBack
         /\ Latest \in 0 .. Tau + T + setBack
         /\ setBack \in Nat
<1>1. words \in Seq(0 .. Tau + T + setBack) /\ words # <<>>
  BY DEF TypeOK
<1>2. Len(words) \in Nat /\ DOMAIN words = 1 .. Len(words)
  BY <1>1, LenProperties
<1>3. Len(words) # 0
  BY <1>1, EmptySeq
<1>4. \A i \in 1 .. Len(words) : words[i] \in 0 .. Tau + T + setBack
  BY <1>1, ElementOfSeq
<1> QED
  BY <1>2, <1>3, <1>4, UntilAssumption DEF TypeOK, Latest

(* As the words grow nearer or farther, they stay as many. *)
LEMMA WordsMoved ==
  ASSUME NEW S, NEW n \in Nat, NEW w \in [1 .. n -> S]
  PROVE  w \in Seq(S) /\ Len(w) = n
<1>1. w \in Seq(S)
  BY SeqDef
<1>2. 1 .. Len(w) = 1 .. n /\ Len(w) \in Nat
  BY <1>1, LenProperties
<1>3. Len(w) = n
  BY <1>2
<1> QED
  BY <1>1, <1>3

(* A check, for a batch that is not larger than the bucket.                 *)
LEMMA CheckNow ==
  ASSUME TypeOK, NEW k \in Tasks, ~ExceedsCapacity(gcra, add[k]),
         NEW i \in 1 .. Len(words)
  PROVE  /\ add[k] \in 0 .. Tau
         /\ Passes(words[i], add[k]) <=> words[i] + add[k] <= Tau
         /\ Passes(words[i], add[k]) =>
              Stored(words[i], add[k]) = words[i] + T + add[k]
         /\ ~Passes(words[i], add[k]) =>
              Owed(words[i], add[k]) = words[i] + add[k] - Tau
<1>1. add[k] \in 0 .. Tau
  BY ParamsType DEF TypeOK, ExceedsCapacity
<1>2. 5 * (Tau + T) + setBack < U64 /\ setBack \in Nat
  BY UntilAssumption, ParamsType DEF TypeOK
<1>3. words[i] \in 0 .. Tau + T + setBack
  BY WordsFacts
<1> QED
  BY <1>1, <1>2, <1>3, BatchNow

-----------------------------------------------------------------------------
(* The inductive invariant: what a task still waits for covers what the     *)
(* latest word that it has seen still asks of it.                           *)

(* The wait a task has ahead of it, before it checks (again). *)
WaitOf(k) ==
  CASE pc[k] = "refused"            -> owed[k]
    [] pc[k] \in {"armed", "asleep"} -> left[k]
    [] OTHER                        -> 0

Waits(k) == pc[k] \in {"refused", "armed", "asleep", "check"}

Settled(k) ==
  /\ pc[k] = "new" => seen[k] = 1
  /\ Waits(k) /\ ~turnedBack[k] /\ add[k] <= Tau =>
       words[seen[k]] + add[k] <= Tau + WaitOf(k)

NotShort == words[1] = 0 /\ \A k \in Tasks : Settled(k)

IInv == TypeOK /\ NotShort

LEMMA InitIInv == Init => IInv
<1> SUFFICES ASSUME Init
             PROVE  IInv
  OBVIOUS
<1>1. /\ words = <<0>> /\ words \in Seq(0 .. Tau + T + setBack)
      /\ Len(words) = 1 /\ words[1] = 0 /\ words # <<>>
  BY ParamsType DEF Init
<1>2. TypeOK
  BY <1>1, ParamsType, UntilAssumption, WaitingAssumption
     DEF Init, TypeOK, States, LongestWait
<1>3. NotShort
  BY <1>1 DEF Init, NotShort, Settled, Waits
<1> QED
  BY <1>2, <1>3 DEF IInv

-----------------------------------------------------------------------------
(* The steps of the clock. *)

LEMMA BothCloser ==
  ASSUME NEW w \in Nat, NEW a \in Nat, NEW tau \in Nat, NEW d \in Nat,
         a <= tau, w + a <= tau + d
  PROVE  /\ Closer(w) + a <= tau + d
         /\ Closer(w) + a <= tau + Closer(d)
BY DEF Closer, SaturatingSub

LEMMA TickStep ==
  ASSUME IInv, Tick
  PROVE  IInv'
<1> USE ParamsType, UntilAssumption, WaitingAssumption DEF IInv
<1>1. UNCHANGED <<seen, setBack, pc, add, turnedBack>>
  BY DEF Tick
<1>2. ASSUME NEW k \in Tasks
      PROVE  /\ owed[k] \in Nat /\ owed'[k] = Closer(owed[k])
             /\ left[k] \in Nat
             /\ left'[k] = IF pc[k] = "asleep" THEN Closer(left[k])
                                               ELSE left[k]
  BY DEF Tick, TypeOK, LongestWait
<1>3. /\ words' \in Seq(0 .. Tau + T + setBack) /\ words' # <<>>
      /\ Len(words') = Len(words)
      /\ \A i \in 1 .. Len(words) : words'[i] = Closer(words[i])
  <2>1. words' = [i \in 1 .. Len(words) |-> Closer(words[i])]
    BY WordsFacts DEF Tick
  <2>2. ASSUME NEW i \in 1 .. Len(words)
        PROVE  Closer(words[i]) \in 0 .. Tau + T + setBack
    <3>1. /\ words[i] \in 0 .. Tau + T + setBack
          /\ Tau + T + setBack \in Nat
      BY WordsFacts
    <3> QED
      BY <3>1, CloserBound
  <2>3. /\ Len(words) \in Nat /\ Len(words) >= 1
        /\ words' \in [1 .. Len(words) -> 0 .. Tau + T + setBack]
    BY <2>1, <2>2, WordsFacts
  <2>4. words' \in Seq(0 .. Tau + T + setBack) /\ Len(words') = Len(words)
    BY <2>3, WordsMoved
  <2>5. words' # <<>>
    BY <2>3, <2>4, EmptySeq
  <2> QED
    BY <2>1, <2>4, <2>5
<1>4. TypeOK'
  <2>1. LongestWait + setBack \in Nat /\ LongestWait + setBack + JitterMax \in Nat
    BY WordsFacts DEF LongestWait
  <2>2. ASSUME NEW k \in Tasks
        PROVE  /\ Closer(owed[k]) \in 0 .. LongestWait + setBack
               /\ Closer(left[k]) \in 0 .. LongestWait + setBack + JitterMax
    <3>1. /\ owed[k] \in 0 .. LongestWait + setBack
          /\ left[k] \in 0 .. LongestWait + setBack + JitterMax
      BY DEF TypeOK
    <3> QED
      BY <2>1, <3>1, CloserBound
  <2>3. owed' \in [Tasks -> 0 .. LongestWait + setBack]
    BY <2>2 DEF Tick
  <2>4. left' \in [Tasks -> 0 .. LongestWait + setBack + JitterMax]
    BY <2>2 DEF Tick, TypeOK
  <2> QED
    BY <1>1, <1>3, <2>3, <2>4 DEF TypeOK
<1>5. NotShort'
  <2>1. words'[1] = 0
    BY <1>3, WordsFacts DEF NotShort, Closer, SaturatingSub
  <2>2. ASSUME NEW k \in Tasks
        PROVE  Settled(k)'
    <3>1. pc[k] = "new" => seen[k] = 1
      BY DEF NotShort, Settled
    <3>2. ASSUME Waits(k), ~turnedBack[k], add[k] <= Tau
          PROVE  words'[seen[k]] + add[k] <= Tau + WaitOf(k)'
      <4>1. /\ add[k] \in Nat /\ seen[k] \in 1 .. Len(words)
            /\ words[seen[k]] + add[k] <= Tau + WaitOf(k)
        BY <3>2 DEF NotShort, Settled, TypeOK
      <4>2. words[seen[k]] \in Nat /\ words'[seen[k]] = Closer(words[seen[k]])
        <5>1. words[seen[k]] \in 0 .. Tau + T + setBack
          BY <4>1, WordsFacts
        <5> QED
          BY <1>3, <4>1, <5>1
      <4>3. WaitOf(k) \in Nat /\ WaitOf(k)' \in {WaitOf(k), Closer(WaitOf(k))}
        BY <1>1, <1>2 DEF WaitOf, Closer, SaturatingSub
      <4> QED
        BY <3>2, <4>1, <4>2, <4>3, BothCloser, ParamsType
    <3> QED
      BY <1>1, <3>1, <3>2 DEF Settled, Waits
  <2> QED
    BY <2>1, <2>2 DEF NotShort
<1> QED
  BY <1>4, <1>5

LEMMA StepBackStep ==
  ASSUME IInv, NEW by \in 1 .. MaxSetBack - setBack, StepBack(by)
  PROVE  IInv'
<1> USE ParamsType, UntilAssumption, WaitingAssumption DEF IInv
<1>1. /\ setBack \in Nat /\ by \in Nat /\ setBack' = setBack + by
      /\ setBack' \in 0 .. MaxSetBack
      /\ UNCHANGED <<seen, pc, add, left>>
      /\ turnedBack' = [k \in Tasks |-> TRUE]
  BY DEF StepBack, TypeOK
<1>2. ASSUME NEW n \in Nat, NEW d \in 0 .. n + setBack, NEW again \in 0 .. by
      PROVE  Farther(d, by, again) \in 0 .. n + setBack'
  BY <1>1 DEF Farther
<1>3. /\ words' \in Seq(0 .. Tau + T + setBack') /\ words' # <<>>
      /\ Len(words') = Len(words)
      /\ words'[1] = 0
  <2>0. DOMAIN words = 1 .. Len(words)
    BY WordsFacts
  <2>1. PICK again \in [1 .. Len(words) -> 0 .. by] :
          /\ again[1] = 0
          /\ words' = [i \in 1 .. Len(words) |->
                         Farther(words[i], by, again[i])]
    <3>1. \E again \in [DOMAIN words -> 0 .. by] :
            /\ again[1] = 0
            /\ words' = [i \in DOMAIN words |->
                           Farther(words[i], by, again[i])]
      BY DEF StepBack
    <3> QED
      BY <2>0, <3>1
  <2>2. ASSUME NEW i \in 1 .. Len(words)
        PROVE  Farther(words[i], by, again[i]) \in 0 .. Tau + T + setBack'
    <3>1. Tau + T \in Nat /\ words[i] \in 0 .. (Tau + T) + setBack
      BY WordsFacts
    <3>2. again[i] \in 0 .. by
      OBVIOUS
    <3> QED
      BY <1>2, <3>1, <3>2
  <2>3. /\ Len(words) \in Nat /\ Len(words) >= 1
        /\ words' \in [1 .. Len(words) -> 0 .. Tau + T + setBack']
    BY <2>1, <2>2, WordsFacts
  <2>4. /\ words' \in Seq(0 .. Tau + T + setBack')
        /\ Len(words') = Len(words)
    <3> DEFINE S == 0 .. Tau + T + setBack'
    <3>1. /\ Len(words) \in Nat
          /\ words' \in [1 .. Len(words) -> S]
      BY <2>3
    <3> HIDE DEF S
    <3>2. words' \in Seq(S) /\ Len(words') = Len(words)
      BY <3>1, WordsMoved
    <3> QED
      BY <3>2 DEF S
  <2>5. words' # <<>>
    BY <2>3, <2>4, EmptySeq
  <2>6. words'[1] = 0
    BY <2>1, <2>3 DEF NotShort, Farther
  <2> QED
    BY <2>4, <2>5, <2>6
<1>4. owed' \in [Tasks -> 0 .. LongestWait + setBack']
  <2>1. PICK again \in [Tasks -> 0 .. by] :
          owed' = [k \in Tasks |-> IF pc[k] = "refused"
                     THEN Farther(owed[k], by, again[k]) ELSE owed[k]]
    BY DEF StepBack
  <2>2. LongestWait \in Nat
    BY DEF LongestWait
  <2>3. ASSUME NEW k \in Tasks
        PROVE  /\ Farther(owed[k], by, again[k]) \in 0 .. LongestWait + setBack'
               /\ owed[k] \in 0 .. LongestWait + setBack'
    <3>1. owed[k] \in 0 .. LongestWait + setBack /\ again[k] \in 0 .. by
      BY <2>1 DEF TypeOK
    <3>2. Farther(owed[k], by, again[k]) \in 0 .. LongestWait + setBack'
      BY <1>2, <2>2, <3>1
    <3>3. owed[k] \in 0 .. LongestWait + setBack'
      BY <1>1, <2>2, <3>1
    <3> QED
      BY <3>2, <3>3
  <2> QED
    BY <2>1, <2>3
<1>5. left' \in [Tasks -> 0 .. LongestWait + setBack' + JitterMax]
  BY <1>1 DEF TypeOK, LongestWait
<1>6. TypeOK'
  BY <1>1, <1>3, <1>4, <1>5 DEF TypeOK
<1>7. NotShort'
  BY <1>1, <1>3 DEF NotShort, Settled
<1> QED
  BY <1>6, <1>7

-----------------------------------------------------------------------------
(* The steps of a task. *)

LEMMA CallStep ==
  ASSUME IInv, NEW k \in Tasks, NEW n \in Sizes \cup {1}, Call(k, n)
  PROVE  IInv'
<1> USE DEF IInv
<1>1. TypeOK'
  BY BatchWeight DEF TypeOK, Call, States, limiter
<1>2. UNCHANGED <<words, seen, turnedBack>>
  BY DEF Call, limiter
<1>3. ASSUME NEW o \in Tasks, o # k
      PROVE  Settled(o)'
  BY <1>2, <1>3 DEF NotShort, Settled, Call, TypeOK, Waits, WaitOf
<1>4. Settled(k)'
  <2>1. seen[k] = 1 /\ words[1] = 0 /\ pc'[k] = "check"
    BY DEF NotShort, Settled, Call, TypeOK
  <2>2. add'[k] \in Nat
    BY <1>1 DEF TypeOK
  <2>3. WaitOf(k)' = 0
    BY <2>1 DEF WaitOf
  <2> QED
    BY <1>2, <2>1, <2>2, <2>3, ParamsType DEF Settled
<1> QED
  BY <1>1, <1>2, <1>3, <1>4 DEF NotShort

LEMMA LeaveStep ==
  ASSUME IInv, NEW k \in Tasks, Insufficient(k) \/ Drop(k)
  PROVE  IInv'
<1> USE DEF IInv
<1>1. TypeOK'
  BY DEF TypeOK, Insufficient, Drop, States, limiter
<1>2. NotShort'
  BY DEF NotShort, Settled, Insufficient, Drop, limiter, TypeOK, Waits, WaitOf
<1> QED
  BY <1>1, <1>2

LEMMA ResolveStep ==
  ASSUME IInv, NEW k \in Tasks, Resolve(k)
  PROVE  IInv'
<1> USE ParamsType DEF IInv
<1> DEFINE d == Latest + T + add[k]
           n == Len(words)
<1>1. /\ n \in Nat /\ n >= 1 /\ setBack \in Nat /\ Latest \in Nat
  BY WordsFacts
<1>2. /\ add[k] \in 0 .. Tau /\ Latest + add[k] <= Tau
      /\ words' = Append(words, d)
  BY <1>1, CheckNow DEF Resolve, Latest
<1>3. d \in 0 .. Tau + T + setBack
  BY <1>1, <1>2
<1>4. words \in Seq(0 .. Tau + T + setBack)
  BY DEF TypeOK
<1>5. /\ words' \in Seq(0 .. Tau + T + setBack) /\ words' # <<>>
      /\ Len(words') = n + 1
      /\ \A i \in 1 .. n : words'[i] = words[i]
  <2> DEFINE S == 0 .. Tau + T + setBack
  <2>1. words \in Seq(S) /\ d \in S /\ words' = Append(words, d)
    BY <1>2, <1>3, <1>4
  <2> HIDE DEF S, d
  <2>2. /\ words' \in Seq(S) /\ words' # <<>> /\ Len(words') = n + 1
        /\ \A i \in 1 .. n : words'[i] = words[i]
    BY <2>1, AppendProperties
  <2> QED
    BY <2>2 DEF S
<1>6. seen' \in [Tasks -> 1 .. n + 1] /\ seen \in [Tasks -> 1 .. n]
  BY <1>1 DEF TypeOK, Resolve
<1>7. TypeOK'
  BY <1>5, <1>6 DEF TypeOK, Resolve, States
<1>8. ASSUME NEW o \in Tasks
      PROVE  Settled(o)'
  <2>1. CASE o = k
    BY <2>1 DEF Settled, Resolve, TypeOK, Waits
  <2>2. CASE o # k
    <3>1. /\ pc'[o] = pc[o] /\ seen'[o] = seen[o] /\ seen[o] \in 1 .. n
          /\ UNCHANGED <<add, owed, left, turnedBack>>
      BY <1>6, <2>2 DEF Resolve, TypeOK
    <3>2. words'[seen[o]] = words[seen[o]]
      BY <1>5, <3>1
    <3>3. Settled(o)
      BY DEF NotShort
    <3> QED
      BY <3>1, <3>2, <3>3 DEF Settled, Waits, WaitOf
  <2> QED
    BY <2>1, <2>2
<1>9. words'[1] = 0
  BY <1>1, <1>5 DEF NotShort
<1> QED
  BY <1>7, <1>8, <1>9 DEF NotShort

LEMMA RefuseStep ==
  ASSUME IInv, NEW k \in Tasks, Refuse(k)
  PROVE  IInv'
<1> USE ParamsType DEF IInv
<1>1. PICK i \in seen[k] .. Len(words) :
        /\ ~Passes(words[i], add[k])
        /\ seen' = [seen EXCEPT ![k] = i]
        /\ owed' = [owed EXCEPT ![k] = Owed(words[i], add[k])]
  BY DEF Refuse
<1>2. i \in 1 .. Len(words)
  BY WordsFacts DEF TypeOK
<1>3. PICK e \in 0 .. Tau + T + setBack : e = words[i]
  BY <1>2, WordsFacts
<1>4. /\ add[k] \in 0 .. Tau /\ ~(e + add[k] <= Tau)
      /\ owed' = [owed EXCEPT ![k] = e + add[k] - Tau]
  BY <1>1, <1>2, <1>3, CheckNow DEF Refuse
<1>5. setBack \in Nat
  BY WordsFacts
<1>6. e + add[k] - Tau \in 0 .. LongestWait + setBack
  BY <1>3, <1>4, <1>5 DEF LongestWait
<1>7. UNCHANGED <<words, add, left>>
  BY DEF Refuse
<1>8. TypeOK'
  <2>1. seen' \in [Tasks -> 1 .. Len(words)]
    BY <1>1, <1>2 DEF TypeOK
  <2>2. owed' \in [Tasks -> 0 .. LongestWait + setBack]
    BY <1>4, <1>6 DEF TypeOK
  <2>3. /\ pc' \in [Tasks -> States] /\ turnedBack' \in [Tasks -> BOOLEAN]
        /\ setBack' = setBack
    BY DEF TypeOK, Refuse, States
  <2> QED
    BY <1>7, <2>1, <2>2, <2>3 DEF TypeOK
<1>9. ASSUME NEW o \in Tasks
      PROVE  Settled(o)'
  <2>1. CASE o = k
    <3>1. /\ pc'[k] = "refused" /\ owed'[k] = e + add[k] - Tau
          /\ seen'[k] = i
      BY <1>1, <1>4 DEF Refuse, TypeOK
    <3>2. e + add[k] <= Tau + (e + add[k] - Tau)
      BY <1>3, <1>4
    <3> QED
      BY <1>3, <1>7, <2>1, <3>1, <3>2 DEF Settled, WaitOf
  <2>2. CASE o # k
    <3>1. /\ pc'[o] = pc[o] /\ owed'[o] = owed[o] /\ seen'[o] = seen[o]
          /\ turnedBack'[o] = turnedBack[o]
      BY <1>1, <2>2 DEF Refuse, TypeOK
    <3>2. Settled(o)
      BY DEF NotShort
    <3> QED
      BY <1>7, <3>1, <3>2 DEF Settled, Waits, WaitOf
  <2> QED
    BY <2>1, <2>2
<1> QED
  BY <1>7, <1>8, <1>9 DEF NotShort

LEMMA ReadClockStep ==
  ASSUME IInv, NEW k \in Tasks, ReadClock(k)
  PROVE  IInv'
<1> USE ParamsType DEF IInv
<1>1. PICK jitter \in 0 .. JitterMax :
        left' = [left EXCEPT ![k] = owed[k] + jitter]
  BY JitterType DEF ReadClock
<1>2. /\ owed[k] \in 0 .. LongestWait + setBack
      /\ LongestWait + setBack \in Nat /\ JitterMax \in Nat
  BY UntilAssumption, WaitingAssumption DEF TypeOK, LongestWait
<1>3. owed[k] + jitter \in 0 .. LongestWait + setBack + JitterMax
  BY <1>2
<1>4. TypeOK'
  BY <1>1, <1>3 DEF TypeOK, ReadClock, States, limiter
<1>5. UNCHANGED <<words, seen, add, owed, turnedBack>>
  BY DEF ReadClock, limiter
<1>6. ASSUME NEW o \in Tasks
      PROVE  Settled(o)'
  <2>1. Settled(o)
    BY DEF NotShort
  <2>2. CASE o = k
    <3>1. /\ pc[k] = "refused" /\ pc'[k] = "armed"
          /\ left'[k] = owed[k] + jitter
      BY <1>1 DEF ReadClock, TypeOK
    <3>2. words[seen[k]] + add[k] \in Nat
      <4>1. seen[k] \in 1 .. Len(words) /\ add[k] \in Nat
        BY DEF TypeOK
      <4>2. words[seen[k]] \in Nat
        BY <4>1, WordsFacts
      <4> QED
        BY <4>1, <4>2
    <3>3. words[seen[k]] + add[k] <= Tau + owed[k] =>
            words[seen[k]] + add[k] <= Tau + (owed[k] + jitter)
      BY <1>2, <3>2
    <3> QED
      BY <1>5, <2>1, <2>2, <3>1, <3>3 DEF Settled, Waits, WaitOf
  <2>3. CASE o # k
    <3>1. pc'[o] = pc[o] /\ left'[o] = left[o]
      BY <1>1, <2>3 DEF ReadClock, TypeOK
    <3> QED
      BY <1>5, <2>1, <3>1 DEF Settled, Waits, WaitOf
  <2> QED
    BY <2>2, <2>3
<1> QED
  BY <1>4, <1>5, <1>6 DEF NotShort

LEMMA DelayStep ==
  ASSUME IInv, NEW k \in Tasks, Arm(k) \/ Wake(k)
  PROVE  IInv'
<1> USE DEF IInv
<1>1. TypeOK'
  BY DEF TypeOK, Arm, Wake, States, limiter
<1>2. NotShort'
  BY DEF NotShort, Settled, Arm, Wake, limiter, TypeOK, Waits, WaitOf
<1> QED
  BY <1>1, <1>2

LEMMA NextIInv == IInv /\ [Next]_vars => IInv'
<1> SUFFICES ASSUME IInv, [Next]_vars
             PROVE  IInv'
  OBVIOUS
<1>1. CASE UNCHANGED vars
  BY <1>1 DEF vars, limiter, IInv, TypeOK, NotShort, Settled, Waits, WaitOf
<1>2. ASSUME NEW k \in Tasks, Step(k)
      PROVE  IInv'
  BY <1>2, LeaveStep, ResolveStep, RefuseStep, ReadClockStep, DelayStep DEF Step
<1> QED
  BY <1>1, <1>2, TickStep, StepBackStep, CallStep, LeaveStep DEF Next

LEMMA Invariance == Spec => []IInv
<1> QED
  BY InitIInv, NextIInv, PTL DEF Spec

-----------------------------------------------------------------------------
(* Nobody is told to wait longer than a burst takes to refill, plus what    *)
(* the clock was set back, and no task sleeps longer than that and the      *)
(* longest jitter.                                                          *)
THEOREM TypeCorrect == Spec => []TypeOK
<1> QED
  BY Invariance, PTL DEF IInv

(* A wait is never too short for the word it was derived from: whoever is   *)
(* refused after having slept is refused on a later word, so because of an  *)
(* admission that came after, or the clock was set back.                    *)
THEOREM NeverTooShort == Spec => RefusedAgainOnlyIfOvertaken
<1> DEFINE A == \A k \in Tasks :
                 (pc[k] = "check" /\ pc'[k] = "refused") =>
                   seen'[k] > seen[k] \/ turnedBack[k]
<1>1. ASSUME IInv, [Next]_vars
      PROVE  A
  <2> SUFFICES ASSUME NEW k \in Tasks, pc[k] = "check", pc'[k] = "refused",
                      ~turnedBack[k]
               PROVE  seen'[k] > seen[k]
    OBVIOUS
  <2>1. Refuse(k)
    <3>1. ASSUME NEW o \in Tasks, NEW p, pc' = [pc EXCEPT ![o] = p]
          PROVE  o = k /\ p = "refused"
      BY <1>1, <3>1 DEF IInv, TypeOK
    <3>2. ASSUME NEW o \in Tasks, Step(o)
          PROVE  Refuse(k)
      <4>1. Refuse(o) => Refuse(k)
        BY <3>1 DEF Refuse
      <4>2. ~Insufficient(o) /\ ~Resolve(o)
        BY <3>1 DEF Insufficient, Resolve
      <4>3. ~ReadClock(o) /\ ~Arm(o) /\ ~Wake(o)
        BY <3>1 DEF ReadClock, Arm, Wake
      <4> QED
        BY <3>2, <4>1, <4>2, <4>3 DEF Step
    <3>3. ASSUME NEW o \in Tasks, Drop(o) \/ \E n \in Sizes \cup {1} : Call(o, n)
          PROVE  FALSE
      BY <3>1, <3>3 DEF Drop, Call
    <3>4. ~Tick /\ ~UNCHANGED vars
      BY DEF Tick, vars
    <3>5. ~(\E by \in 1 .. MaxSetBack - setBack : StepBack(by))
      BY DEF StepBack
    <3> QED
      BY <1>1, <3>2, <3>3, <3>4, <3>5 DEF Next
  <2>2. /\ seen[k] \in 1 .. Len(words) /\ add[k] \in 0 .. Tau
        /\ \A i \in 1 .. Len(words) :
             Passes(words[i], add[k]) <=> words[i] + add[k] <= Tau
    BY <1>1, <2>1, CheckNow DEF Refuse, IInv, TypeOK
  <2>3. words[seen[k]] + add[k] <= Tau + 0
    BY <1>1, <2>2 DEF IInv, NotShort, Settled, Waits, WaitOf
  <2>4. PICK i \in seen[k] .. Len(words) :
          ~Passes(words[i], add[k]) /\ seen'[k] = i
    BY <1>1, <2>1 DEF Refuse, IInv, TypeOK
  <2>5. i # seen[k]
    BY <2>2, <2>3, <2>4, ParamsType
  <2> QED
    BY <2>2, <2>4, <2>5
<1>2. Spec => [][A]_vars
  BY <1>1, Invariance, PTL DEF Spec
<1> QED
  BY <1>2 DEF RefusedAgainOnlyIfOvertaken
=============================================================================
