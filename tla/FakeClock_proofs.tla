-------------------------- MODULE FakeClock_proofs --------------------------
(***************************************************************************)
(* No advance of a FakeRelativeClock is lost, and each is shown to whoever *)
(* knows of it, for any number of threads and any steps whose sum is a u64.*)
(***************************************************************************)
EXTENDS FakeClock, FiniteSetTheorems, SequenceTheorems, TLAPS

(* What a thread carries from a load or a failed exchange to the next       *)
(* exchange was computed from the word it saw there.                        *)
NextUpToDate ==
  \A th \in Threads : pc[th] = "cas" => next[th] = Add(mo[seen[th]], by[th])

OrderType ==
  /\ mo \in Seq(Nanos)
  /\ Len(mo) >= 1
  /\ seen \in [Threads -> Nat]
  /\ \A th \in Threads : seen[th] \in 1 .. Len(mo)

CallType ==
  /\ pc \in [Threads -> {"idle", "load", "cas"}]
  /\ by \in [Threads -> Nanos]
  /\ next \in [Threads -> Nanos]

IInv ==
  /\ OrderType
  /\ CallType
  /\ NextUpToDate
  /\ NoTimeLost

LEMMA AddType ==
  ASSUME NEW a \in Nanos, NEW b \in Nanos
  PROVE  Add(a, b) \in Nanos
BY WidthAssumption DEF Add, Nanos

LEMMA InitIInv == Init => IInv
<1> SUFFICES ASSUME Init
             PROVE  IInv
  OBVIOUS
<1>1. 0 \in Nanos
  BY WidthAssumption DEF Nanos
<1>2. mo = <<0>> /\ Len(mo) = 1 /\ mo[1] = 0
  BY DEF Init
<1>3. OrderType
  BY <1>1, <1>2 DEF Init, OrderType
<1>4. CallType /\ NextUpToDate
  BY <1>1 DEF Init, CallType, NextUpToDate
<1>5. NoTimeLost
  BY <1>2 DEF Init, NoTimeLost, Latest
<1> QED
  BY <1>3, <1>4, <1>5 DEF IInv

(* A load and a failed exchange leave the word alone. *)
LEMMA ObserveStep ==
  ASSUME IInv, NEW th \in Threads, NEW j \in 1 .. Len(mo), Observe(th, j)
  PROVE  IInv'
<1> USE DEF IInv
<1>1. mo[j] \in Nanos /\ by[th] \in Nanos
  BY DEF OrderType, CallType
<1>2. Add(mo[j], by[th]) \in Nanos
  BY <1>1, AddType
<1>3. OrderType'
  BY DEF OrderType, Observe
<1>4. CallType'
  BY <1>2 DEF CallType, Observe
<1>5. NextUpToDate'
  BY DEF NextUpToDate, Observe, OrderType, CallType
<1>6. NoTimeLost'
  BY DEF NoTimeLost, Latest, Observe, history
<1> QED
  BY <1>3, <1>4, <1>5, <1>6

(* The exchange found the word that the thread had computed its next from, *)
(* wherever in the order it has seen it: nothing comes between.             *)
LEMMA CasOkStep ==
  ASSUME IInv, NEW th \in Threads, CasOk(th)
  PROVE  IInv'
<1> USE DEF IInv
<1> DEFINE m == Len(mo) + 1
<1>1. mo' = Append(mo, next[th]) /\ next[th] \in Nanos /\ mo \in Seq(Nanos)
  BY DEF CasOk, Store, CallType, OrderType
<1>2. /\ mo' \in Seq(Nanos)
      /\ Len(mo') = m
      /\ mo'[m] = next[th]
      /\ \A j \in 1 .. Len(mo) : mo'[j] = mo[j]
  BY <1>1
<1>3. OrderType'
  BY <1>2 DEF OrderType, CasOk, Store
<1>4. 0 \in Nanos
  BY WidthAssumption DEF Nanos
<1>5. CallType'
  BY <1>4 DEF CallType, CasOk, Store
<1>6. NextUpToDate'
  <2> SUFFICES ASSUME NEW o \in Threads, pc'[o] = "cas"
               PROVE  next'[o] = Add(mo'[seen'[o]], by'[o])
    BY DEF NextUpToDate
  <2>1. o # th
    BY DEF CasOk, Store, CallType
  <2>2. seen'[o] = seen[o] /\ next'[o] = next[o] /\ by'[o] = by[o]
        /\ pc[o] = "cas"
    BY <2>1 DEF CasOk, Store, CallType, OrderType
  <2>3. mo'[seen[o]] = mo[seen[o]]
    BY <1>2 DEF OrderType
  <2> QED
    BY <2>2, <2>3 DEF NextUpToDate
<1>7. NoTimeLost'
  <2>1. next[th] = Add(Latest, by[th])
    BY DEF CasOk, NextUpToDate
  <2>2. total' = Add(total, by[th])
    BY DEF CasOk, Store
  <2> QED
    BY <1>2, <2>1, <2>2 DEF NoTimeLost, Latest
<1> QED
  BY <1>3, <1>5, <1>6, <1>7

LEMMA NextIInv == IInv /\ [Next]_vars => IInv'
<1> SUFFICES ASSUME IInv, [Next]_vars
             PROVE  IInv'
  OBVIOUS
<1> USE DEF IInv
<1>1. CASE UNCHANGED vars
  BY <1>1 DEF vars, OrderType, CallType, NextUpToDate, NoTimeLost, Latest
<1>2. ASSUME NEW th \in Threads, NEW d \in Steps, Advance(th, d)
      PROVE  IInv'
  <2>1. d \in Nanos
    BY FakeClockAssumption
  <2>2. OrderType' /\ NoTimeLost'
    BY <1>2 DEF Advance, OrderType, NoTimeLost, Latest
  <2>3. CallType'
    BY <1>2, <2>1 DEF Advance, CallType
  <2>4. NextUpToDate'
    BY <1>2 DEF Advance, NextUpToDate, CallType
  <2> QED
    BY <2>2, <2>3, <2>4
<1>3. ASSUME NEW th \in Threads, Load(th) \/ CasFail(th)
      PROVE  IInv'
  <2>1. PICK j \in seen[th] .. Len(mo) : Observe(th, j)
    BY <1>3 DEF Load, CasFail
  <2>2. j \in 1 .. Len(mo)
    BY DEF OrderType
  <2> QED
    BY <2>1, <2>2, ObserveStep
<1>4. ASSUME NEW th \in Threads, CasOk(th)
      PROVE  IInv'
  BY <1>4, CasOkStep
<1>5. ASSUME NEW th \in Threads, Now(th)
      PROVE  IInv'
  <2>1. PICK j \in seen[th] .. Len(mo) : seen' = [seen EXCEPT ![th] = j]
    BY <1>5 DEF Now
  <2>2. OrderType'
    BY <1>5, <2>1 DEF Now, OrderType
  <2>3. CallType' /\ NoTimeLost'
    BY <1>5 DEF Now, CallType, NoTimeLost, Latest
  <2>4. NextUpToDate'
    BY <1>5, <2>1 DEF Now, NextUpToDate, OrderType
  <2> QED
    BY <2>2, <2>3, <2>4
<1>6. ASSUME NEW from \in Threads, NEW to \in Threads, Sync(from, to)
      PROVE  IInv'
  <2>1. OrderType'
    BY <1>6 DEF Sync, OrderType, MaxOf
  <2>2. CallType' /\ NoTimeLost'
    BY <1>6 DEF Sync, CallType, NoTimeLost, Latest
  <2>3. NextUpToDate'
    BY <1>6 DEF Sync, NextUpToDate, OrderType
  <2> QED
    BY <2>1, <2>2, <2>3
<1> QED
  BY <1>1, <1>2, <1>3, <1>4, <1>5, <1>6 DEF Next

(* Concurrent calls of advance lose no time (NoTimeLost), whatever the      *)
(* order of their loads and exchanges.                                      *)
THEOREM TimeKept == Spec => []NoTimeLost
<1>1. IInv => NoTimeLost
  BY DEF IInv
<1> QED
  BY <1>1, InitIInv, NextIInv, PTL DEF Spec

-----------------------------------------------------------------------------
(* Sums over the threads.  What SumFunction computes is defined by a        *)
(* recursion over sets, so its properties are shown on a smallest set that  *)
(* would not have them.                                                     *)

LEMMA SmallestSet ==
  ASSUME NEW S, IsFiniteSet(S), NEW Bad \in SUBSET (SUBSET S), Bad # {}
  PROVE  \E s \in Bad : \A r \in Bad : ~(r \subseteq s /\ r # s)
<1>1. IsWellFoundedOn(StrictSubsetOrdering(S), SUBSET S)
  BY FS_FiniteSubsetsOfFinite, FS_StrictSubsetOrderingWellFounded
<1>2. PICK s \in Bad : \A r \in Bad : <<r, s>> \notin StrictSubsetOrdering(S)
  BY <1>1, WFMin
<1>3. ASSUME NEW r \in Bad
      PROVE  ~(r \subseteq s /\ r # s)
  BY <1>2, <1>3 DEF StrictSubsetOrdering
<1> QED
  BY <1>3

Chosen(s) == CHOOSE x \in s : TRUE

(* h sums f over every subset of S, in the order of SumFunction.            *)
IsSum(h, f, S) ==
  h = [s \in SUBSET S |->
         IF s = {} THEN 0 ELSE f[Chosen(s)] + h[s \ {Chosen(s)}]]

LEMMA SumUnfolded ==
  ASSUME NEW S, NEW h, NEW f, IsSum(h, f, S), NEW s \in SUBSET S
  PROVE  /\ s = {} => h[s] = 0
         /\ s # {} => /\ Chosen(s) \in s
                      /\ s \ {Chosen(s)} \in SUBSET S
                      /\ s \ {Chosen(s)} \subseteq s
                      /\ s \ {Chosen(s)} # s
                      /\ h[s] = f[Chosen(s)] + h[s \ {Chosen(s)}]
<1>1. h[s] = IF s = {} THEN 0 ELSE f[Chosen(s)] + h[s \ {Chosen(s)}]
  BY DEF IsSum
<1>2. s # {} => Chosen(s) \in s
  BY DEF Chosen
<1>3. s # {} => s \ {Chosen(s)} # s
  BY <1>2
<1> QED
  BY <1>1, <1>2, <1>3

LEMMA SumsAgree ==
  ASSUME NEW f, NEW S1, NEW h1, IsSum(h1, f, S1),
         NEW S2, NEW h2, IsSum(h2, f, S2),
         NEW S, IsFiniteSet(S), S \subseteq S1, S \subseteq S2
  PROVE  h1[S] = h2[S]
<1> DEFINE Bad == {s \in SUBSET S : h1[s] # h2[s]}
<1>1. SUFFICES Bad = {}
  OBVIOUS
<1>2. SUFFICES ASSUME Bad # {}
               PROVE  FALSE
  OBVIOUS
<1>3. PICK s \in Bad : \A r \in Bad : ~(r \subseteq s /\ r # s)
  <2>1. Bad \in SUBSET (SUBSET S)
    OBVIOUS
  <2> HIDE DEF Bad
  <2> QED
    BY <1>2, <2>1, SmallestSet
<1>4. s \in SUBSET S /\ s \in SUBSET S1 /\ s \in SUBSET S2
  OBVIOUS
<1>5. s # {}
  BY <1>4, SumUnfolded
<1> DEFINE r == s \ {Chosen(s)}
<1>6. r \in SUBSET S /\ r \subseteq s /\ r # s
  BY <1>4, <1>5, SumUnfolded
<1>7. h1[r] = h2[r]
  BY <1>3, <1>6
<1>8. h1[s] = f[Chosen(s)] + h1[r] /\ h2[s] = f[Chosen(s)] + h2[r]
  BY <1>4, <1>5, SumUnfolded
<1> QED
  BY <1>7, <1>8

LEMMA SumsExist ==
  ASSUME NEW S, IsFiniteSet(S), NEW f \in [S -> Nat]
  PROVE  \E h \in [SUBSET S -> Nat] : IsSum(h, f, S)
<1> DEFINE Summed(T) == \E h \in [SUBSET T -> Nat] : IsSum(h, f, T)
           Bad == {T \in SUBSET S : ~Summed(T)}
<1>1. SUFFICES Bad = {}
  OBVIOUS
<1>2. SUFFICES ASSUME Bad # {}
               PROVE  FALSE
  OBVIOUS
<1>3. PICK T \in Bad : \A r \in Bad : ~(r \subseteq T /\ r # T)
  <2>1. Bad \in SUBSET (SUBSET S)
    OBVIOUS
  <2> HIDE DEF Bad
  <2> QED
    BY <1>2, <2>1, SmallestSet
<1> DEFINE G(r) == CHOOSE h \in [SUBSET r -> Nat] : IsSum(h, f, r)
           Less(s) == s \ {Chosen(s)}
           h == [s \in SUBSET T |->
                   IF s = {} THEN 0 ELSE f[Chosen(s)] + G(Less(s))[Less(s)]]
<1>4. ASSUME NEW r \in SUBSET T, r # T
      PROVE  G(r) \in [SUBSET r -> Nat] /\ IsSum(G(r), f, r)
  <2>1. Summed(r)
    BY <1>3, <1>4
  <2> QED
    BY <2>1
<1>5. ASSUME NEW s \in SUBSET T, s # {}
      PROVE  /\ Chosen(s) \in s /\ f[Chosen(s)] \in Nat
             /\ Less(s) \in SUBSET T /\ Less(s) # T
             /\ IsFiniteSet(Less(s))
             /\ G(Less(s))[Less(s)] \in Nat
  <2>1. Chosen(s) \in s
    BY <1>5 DEF Chosen
  <2>2. Less(s) \in SUBSET T /\ Less(s) # T /\ Less(s) \in SUBSET S
    BY <2>1
  <2>3. IsFiniteSet(Less(s))
    BY <2>2, FS_Subset
  <2>4. G(Less(s))[Less(s)] \in Nat
    BY <1>4, <2>2
  <2> QED
    BY <2>1, <2>2, <2>3, <2>4
<1>6. h \in [SUBSET T -> Nat]
  <2> HIDE DEF G, Less
  <2> QED
    BY <1>5
<1>7. ASSUME NEW r \in SUBSET T, r # T, IsFiniteSet(r)
      PROVE  h[r] = G(r)[r]
  <2>1. IsSum(G(r), f, r) /\ r \in SUBSET r
    BY <1>4, <1>7
  <2>2. CASE r = {}
    <3>1. G(r)[r] = 0
      <4> HIDE DEF G
      <4> QED
        BY <2>1, <2>2, SumUnfolded
    <3> QED
      BY <1>7, <2>2, <3>1
  <2>3. CASE r # {}
    <3>1. /\ Less(r) \in SUBSET r
          /\ G(r)[r] = f[Chosen(r)] + G(r)[Less(r)]
      <4> HIDE DEF G
      <4> QED
        BY <2>1, <2>3, SumUnfolded
    <3>2. IsSum(G(Less(r)), f, Less(r)) /\ IsFiniteSet(Less(r))
      BY <1>4, <1>5, <2>3
    <3>3. G(r)[Less(r)] = G(Less(r))[Less(r)]
      BY <2>1, <3>1, <3>2, SumsAgree
    <3> QED
      BY <2>3, <3>1, <3>3
  <2> QED
    BY <2>2, <2>3
<1>8. ASSUME NEW s \in SUBSET T
      PROVE  h[s] = IF s = {} THEN 0 ELSE f[Chosen(s)] + h[Less(s)]
  <2>1. CASE s = {}
    BY <2>1
  <2>2. CASE s # {}
    <3>1. h[s] = f[Chosen(s)] + G(Less(s))[Less(s)]
      BY <2>2
    <3>2. h[Less(s)] = G(Less(s))[Less(s)]
      <4> HIDE DEF G, h, Less
      <4> QED
        BY <1>5, <1>7, <2>2
    <3> QED
      BY <2>2, <3>1, <3>2
  <2> QED
    BY <2>1, <2>2
<1>9. IsSum(h, f, T)
  <2>1. \A s \in SUBSET T :
          h[s] = IF s = {} THEN 0 ELSE f[Chosen(s)] + h[Less(s)]
    BY <1>8
  <2>2. h = [s \in SUBSET T |-> h[s]]
    BY <1>6
  <2> HIDE DEF h
  <2> QED
    BY <2>1, <2>2 DEF IsSum
<1> QED
  BY <1>6, <1>9

(* SumFunction is such a sum.                                               *)
LEMMA SumIsSum ==
  ASSUME NEW S, IsFiniteSet(S), NEW f \in [S -> Nat]
  PROVE  \E h \in [SUBSET S -> Nat] : IsSum(h, f, S) /\ SumFunction(f) = h[S]
<1> DEFINE k == CHOOSE h : IsSum(h, f, S)
<1>1. PICK h \in [SUBSET S -> Nat] : IsSum(h, f, S)
  BY SumsExist
<1>2. IsSum(k, f, S)
  BY <1>1
<1>3. SumFunction(f) = k[S]
  BY DEF SumFunction, SumFunctionOnSet, FoldFunctionOnSet, MapThenFoldSet,
         IsSum, Chosen
<1>4. k[S] = h[S]
  BY <1>1, <1>2, SumsAgree
<1> QED
  BY <1>1, <1>3, <1>4

LEMMA SumOfZeros ==
  ASSUME NEW S, IsFiniteSet(S)
  PROVE  SumFunction([x \in S |-> 0]) = 0
<1> DEFINE f == [x \in S |-> 0]
<1>1. PICK h \in [SUBSET S -> Nat] : IsSum(h, f, S) /\ SumFunction(f) = h[S]
  BY SumIsSum
<1> DEFINE Bad == {s \in SUBSET S : h[s] # 0}
<1>2. SUFFICES ASSUME Bad # {}
               PROVE  FALSE
  BY <1>1
<1>3. PICK s \in Bad : \A r \in Bad : ~(r \subseteq s /\ r # s)
  <2>1. Bad \in SUBSET (SUBSET S)
    OBVIOUS
  <2> HIDE DEF Bad
  <2> QED
    BY <1>2, <2>1, SmallestSet
<1>4. s # {} /\ s \in SUBSET S
  BY <1>1, SumUnfolded
<1>5. h[s \ {Chosen(s)}] = 0 /\ f[Chosen(s)] = 0
  BY <1>1, <1>3, <1>4, SumUnfolded
<1> QED
  BY <1>1, <1>4, <1>5, SumUnfolded

LEMMA SumMonotone ==
  ASSUME NEW S, IsFiniteSet(S), NEW f \in [S -> Nat], NEW k \in [S -> Nat],
         \A x \in S : f[x] <= k[x]
  PROVE  /\ SumFunction(f) \in Nat
         /\ SumFunction(f) <= SumFunction(k)
<1>1. PICK hf \in [SUBSET S -> Nat] :
        IsSum(hf, f, S) /\ SumFunction(f) = hf[S]
  BY SumIsSum
<1>2. PICK hk \in [SUBSET S -> Nat] :
        IsSum(hk, k, S) /\ SumFunction(k) = hk[S]
  BY SumIsSum
<1> DEFINE Bad == {s \in SUBSET S : ~(hf[s] <= hk[s])}
<1>3. SUFFICES ASSUME Bad # {}
               PROVE  FALSE
  BY <1>1, <1>2
<1>4. PICK s \in Bad : \A r \in Bad : ~(r \subseteq s /\ r # s)
  <2>1. Bad \in SUBSET (SUBSET S)
    OBVIOUS
  <2> HIDE DEF Bad
  <2> QED
    BY <1>3, <2>1, SmallestSet
<1>5. s # {} /\ s \in SUBSET S
  <2>1. s \in SUBSET S /\ ~(hf[s] <= hk[s])
    OBVIOUS
  <2>2. s = {} => hf[s] = 0
    BY <1>1, <2>1, SumUnfolded
  <2>3. s = {} => hk[s] = 0
    BY <1>2, <2>1, SumUnfolded
  <2> QED
    BY <2>1, <2>2, <2>3
<1> DEFINE r == s \ {Chosen(s)}
<1>6. Chosen(s) \in S /\ r \in SUBSET S /\ r \subseteq s /\ r # s
  BY <1>1, <1>5, SumUnfolded
<1>7. hf[r] <= hk[r] /\ f[Chosen(s)] <= k[Chosen(s)]
  BY <1>4, <1>6
<1>8. hf[s] = f[Chosen(s)] + hf[r] /\ hk[s] = k[Chosen(s)] + hk[r]
  BY <1>1, <1>2, <1>5, SumUnfolded
<1>9. hf[r] \in Nat /\ hk[r] \in Nat /\ f[Chosen(s)] \in Nat
      /\ k[Chosen(s)] \in Nat
  BY <1>6
<1> HIDE DEF r
<1>10. hf[s] <= hk[s]
  BY <1>7, <1>8, <1>9
<1> QED
  BY <1>10

LEMMA SumOfOneMore ==
  ASSUME NEW S, IsFiniteSet(S), NEW f \in [S -> Nat], NEW t \in S, NEW d \in Nat
  PROVE  SumFunction([f EXCEPT ![t] = @ + d]) = SumFunction(f) + d
<1> DEFINE k == [f EXCEPT ![t] = @ + d]
           More(s) == IF t \in s THEN d ELSE 0
<1>1. k \in [S -> Nat]
  OBVIOUS
<1>2. PICK hf \in [SUBSET S -> Nat] :
        IsSum(hf, f, S) /\ SumFunction(f) = hf[S]
  BY SumIsSum
<1>3. PICK hk \in [SUBSET S -> Nat] :
        IsSum(hk, k, S) /\ SumFunction(k) = hk[S]
  BY <1>1, SumIsSum
<1> DEFINE Bad == {s \in SUBSET S : hk[s] # hf[s] + More(s)}
<1>4. SUFFICES ASSUME Bad # {}
               PROVE  FALSE
  BY <1>2, <1>3
<1>5. PICK s \in Bad : \A r \in Bad : ~(r \subseteq s /\ r # s)
  <2>1. Bad \in SUBSET (SUBSET S)
    OBVIOUS
  <2> HIDE DEF Bad
  <2> QED
    BY <1>4, <2>1, SmallestSet
<1>6. s # {} /\ s \in SUBSET S
  <2>1. s \in SUBSET S /\ hk[s] # hf[s] + More(s)
    OBVIOUS
  <2>2. s = {} => hf[s] = 0 /\ More(s) = 0
    BY <1>2, <2>1, SumUnfolded
  <2>3. s = {} => hk[s] = 0
    <3> HIDE DEF k
    <3> QED
      BY <1>3, <2>1, SumUnfolded
  <2> QED
    BY <2>1, <2>2, <2>3
<1> DEFINE c == Chosen(s)
           r == s \ {c}
<1>7. c \in s /\ c \in S /\ r \in SUBSET S /\ r \subseteq s /\ r # s
  BY <1>2, <1>6, SumUnfolded
<1>8. hk[r] = hf[r] + More(r)
  BY <1>5, <1>7
<1>9. hf[s] = f[c] + hf[r] /\ hk[s] = k[c] + hk[r]
  <2> HIDE DEF k
  <2> QED
    BY <1>2, <1>3, <1>6, SumUnfolded
<1>10. hf[r] \in Nat /\ f[c] \in Nat
  BY <1>7
<1>11. k[c] + More(r) = f[c] + More(s)
  <2>1. CASE c = t
    BY <1>7, <2>1
  <2>2. CASE c # t
    BY <1>7, <2>2
  <2> QED
    BY <2>1, <2>2
<1>12. More(r) \in Nat /\ More(s) \in Nat /\ k[c] \in Nat
  BY <1>1, <1>7
<1>13. hk[s] = hf[s] + More(s)
  <2> HIDE DEF r, c, More, k
  <2> QED
    BY <1>8, <1>9, <1>10, <1>11, <1>12
<1> QED
  BY <1>13

-----------------------------------------------------------------------------
(* The types.  That no sum wraps is a matter of counting: each call of      *)
(* advance has stored its word or is still going to.                        *)

Busy == {th \in Threads : pc[th] # "idle"}

(* The longest steps for which MaxAdvances of them fit into a u64.          *)
LongestStep == IF MaxAdvances = 0 THEN 0 ELSE (U64 - 1) \div MaxAdvances

Counted ==
  /\ calls \in 0 .. MaxAdvances
  /\ IsFiniteSet(Busy)
  /\ Cardinality(Busy) + Len(mo) = calls + 1
  /\ \A th \in Busy : by[th] \in Steps
  /\ total \in Nat
  /\ total <= LongestStep * (Len(mo) - 1)

(* The clock is never set back. *)
Ordered == \A i, j \in 1 .. Len(mo) : i <= j => mo[i] <= mo[j]

(* What a thread can count on is in the word it has seen. *)
Floors == \A th \in Threads : floor[th] <= mo[seen[th]]

HistoryType ==
  /\ by \in [Threads -> Steps \cup {0}]
  /\ known \in [Threads -> [Threads -> Nat]]
  /\ floor \in [Threads -> Nat]

Sound == IInv /\ Counted /\ Ordered /\ Floors /\ HistoryType

LEMMA LongestStepFits ==
  /\ LongestStep \in Nat
  /\ MaxAdvances >= 1 => \A d \in Steps : d <= LongestStep
  /\ \A k \in 0 .. MaxAdvances : LongestStep * k \in Nat /\ LongestStep * k < U64
<1>1. U64 \in Nat /\ U64 >= 1 /\ MaxAdvances \in Nat
  BY WidthAssumption, FakeClockAssumption
<1>2. CASE MaxAdvances = 0
  BY <1>1, <1>2 DEF LongestStep
<1>3. CASE MaxAdvances >= 1
  <2> DEFINE a == MaxAdvances
             l == (U64 - 1) \div a
  <2>1. LongestStep = l
    BY <1>3 DEF LongestStep
  <2>2. l \in Nat /\ a * l <= U64 - 1 /\ U64 - 1 < a * l + a
    BY <1>1, <1>3
  <2>3. ASSUME NEW d \in Steps
        PROVE  d <= l
    <3>1. d \in Nat /\ a * d < U64
      BY <1>1, FakeClockAssumption DEF Nanos
    <3>2. CASE d >= l + 1
      <4>1. d - (l + 1) \in Nat /\ d = (l + 1) + (d - (l + 1))
        BY <2>2, <3>1, <3>2
      <4>2. a * d = a * (l + 1) + a * (d - (l + 1))
        BY <1>1, <2>2, <4>1
      <4>3. a * (d - (l + 1)) \in Nat /\ a * (l + 1) = a * l + a
        BY <1>1, <2>2, <4>1
      <4>4. a * l \in Nat /\ a * d \in Nat /\ a \in Nat
        BY <1>1, <2>2, <3>1
      <4> DEFINE x == a * d
                 y == a * l
                 z == a * (d - (l + 1))
      <4>5. /\ x \in Nat /\ y \in Nat /\ z \in Nat /\ a \in Nat
            /\ x = y + a + z /\ x < U64 /\ U64 - 1 < y + a
        BY <2>2, <3>1, <4>2, <4>3, <4>4
      <4> HIDE DEF a, x, y, z
      <4> QED
        BY <1>1, <4>5
    <3> QED
      BY <2>2, <3>1, <3>2
  <2>4. ASSUME NEW k \in 0 .. MaxAdvances
        PROVE  l * k \in Nat /\ l * k < U64
    <3>1. k \in Nat /\ a - k \in Nat /\ a = k + (a - k)
      BY <1>1
    <3>2. l * k \in Nat /\ l * (a - k) \in Nat
          /\ l * a = l * k + l * (a - k) /\ l * a = a * l
      BY <1>1, <2>2, <3>1
    <3> HIDE DEF a, l
    <3> QED
      BY <1>1, <2>2, <3>2
  <2> QED
    BY <2>1, <2>2, <2>3, <2>4
<1> QED
  BY <1>1, <1>2, <1>3

(* What a thread in advance is still going to add does not wrap.            *)
LEMMA Room ==
  ASSUME IInv, Counted, NEW th \in Busy
  PROVE  /\ by[th] \in Steps /\ by[th] \in Nat
         /\ total + by[th] <= LongestStep * Len(mo)
         /\ total + by[th] < U64
<1>1. Len(mo) \in Nat /\ Len(mo) >= 1
  BY DEF IInv, OrderType
<1>2. Cardinality(Busy) \in Nat /\ Cardinality(Busy) # 0
  BY FS_EmptySet, FS_CardinalityType DEF Counted
<1>3. Len(mo) \in 0 .. MaxAdvances /\ MaxAdvances >= 1
  BY <1>1, <1>2, FakeClockAssumption DEF Counted
<1>4. by[th] \in Steps /\ by[th] \in Nat /\ by[th] <= LongestStep
  <2>1. by[th] \in Steps
    BY DEF Counted
  <2>2. by[th] \in Nat
    <3>1. \A d \in Steps : d \in Nat
      BY FakeClockAssumption, WidthAssumption DEF Nanos
    <3> QED
      BY <2>1, <3>1
  <2>3. by[th] <= LongestStep
    BY <1>3, <2>1, LongestStepFits
  <2> QED
    BY <2>1, <2>2, <2>3
<1>5. /\ LongestStep * (Len(mo) - 1) + LongestStep = LongestStep * Len(mo)
      /\ LongestStep * (Len(mo) - 1) \in Nat
  BY <1>1, LongestStepFits
<1>6. LongestStep * Len(mo) \in Nat /\ LongestStep * Len(mo) < U64
  BY <1>3, LongestStepFits
<1>7. total + by[th] <= LongestStep * Len(mo)
  <2> DEFINE p == LongestStep * (Len(mo) - 1)
             q == LongestStep * Len(mo)
  <2>1. total \in Nat /\ total <= p /\ p \in Nat /\ p + LongestStep = q
    BY <1>5 DEF Counted
  <2> HIDE DEF p, q
  <2>2. total + by[th] <= q
    BY <1>4, <2>1, LongestStepFits
  <2> QED
    BY <2>2 DEF q
<1>8. total \in Nat /\ U64 \in Nat
  BY WidthAssumption DEF Counted
<1>9. total + by[th] < U64
  <2> DEFINE q == LongestStep * Len(mo)
  <2> HIDE DEF q
  <2> QED
    BY <1>4, <1>6, <1>7, <1>8 DEF q
<1> QED
  BY <1>4, <1>7, <1>9

LEMMA InitSound == Init => Sound
<1> SUFFICES ASSUME Init
             PROVE  Sound
  OBVIOUS
<1>1. IInv
  BY InitIInv
<1>2. mo = <<0>> /\ Len(mo) = 1 /\ mo[1] = 0
  BY DEF Init
<1>3. Busy = {}
  BY DEF Init, Busy
<1>4. Counted
  BY <1>2, <1>3, FS_EmptySet, LongestStepFits, FakeClockAssumption
     DEF Init, Counted
<1>5. Ordered /\ Floors /\ HistoryType
  BY <1>2 DEF Init, Ordered, Floors, HistoryType
<1> QED
  BY <1>1, <1>4, <1>5 DEF Sound

(* Steps that store nothing and neither enter nor leave advance.            *)
LEMMA SameWords ==
  ASSUME Counted, Ordered, UNCHANGED <<mo, by, calls, total>>, Busy' = Busy
  PROVE  Counted' /\ Ordered'
<1>1. Counted'
  BY DEF Counted
<1>2. Ordered'
  BY DEF Ordered
<1> QED
  BY <1>1, <1>2

LEMMA ObserveSound ==
  ASSUME Sound, NEW th \in Threads, pc[th] # "idle",
         NEW j \in seen[th] .. Len(mo), Observe(th, j)
  PROVE  Sound'
<1> USE DEF Sound
<1>1. /\ mo \in Seq(Nanos) /\ Len(mo) \in Nat
      /\ seen \in [Threads -> Nat] /\ \A o \in Threads : seen[o] \in 1 .. Len(mo)
      /\ pc \in [Threads -> {"idle", "load", "cas"}]
  BY DEF IInv, OrderType, CallType
<1>2. j \in 1 .. Len(mo)
  BY <1>1
<1>3. IInv'
  BY <1>2, ObserveStep
<1>4. Busy' = Busy
  BY <1>1 DEF Busy, Observe
<1>5. Counted' /\ Ordered'
  BY <1>4, SameWords DEF Observe, history
<1>6. mo[seen[th]] <= mo[j]
  BY <1>1, <1>2 DEF Ordered
<1>7. mo[seen[th]] \in Nat /\ mo[j] \in Nat
  BY <1>1, <1>2, WidthAssumption DEF Nanos
<1>8. Floors'
  <2> SUFFICES ASSUME NEW o \in Threads
               PROVE  floor'[o] <= mo'[seen'[o]]
    BY DEF Floors
  <2>1. floor[o] <= mo[seen[o]] /\ floor[o] \in Nat
    BY DEF Floors, HistoryType
  <2>2. floor' = floor /\ mo' = mo /\ seen' = [seen EXCEPT ![th] = j]
    BY DEF Observe, history
  <2>3. CASE o = th
    BY <1>1, <1>6, <1>7, <2>1, <2>2, <2>3
  <2>4. CASE o # th
    BY <1>1, <2>1, <2>2, <2>4
  <2> QED
    BY <2>3, <2>4
<1>9. HistoryType'
  BY DEF HistoryType, Observe, history
<1> QED
  BY <1>3, <1>5, <1>8, <1>9

LEMMA AdvanceSound ==
  ASSUME Sound, NEW th \in Threads, NEW d \in Steps, Advance(th, d), IInv'
  PROVE  Sound'
<1> USE DEF Sound
<1>1. /\ pc \in [Threads -> {"idle", "load", "cas"}]
      /\ by \in [Threads -> Steps \cup {0}]
      /\ Len(mo) \in Nat
  BY DEF IInv, OrderType, CallType, HistoryType
<1>2. Busy' = Busy \cup {th} /\ th \notin Busy
  BY <1>1 DEF Busy, Advance
<1>3. IsFiniteSet(Busy') /\ Cardinality(Busy') = Cardinality(Busy) + 1
  BY <1>2, FS_AddElement DEF Counted
<1>4. \A o \in Busy' : by'[o] \in Steps
  BY <1>1, <1>2 DEF Advance, Counted, Busy
<1>5. Cardinality(Busy) \in Nat
  BY FS_CardinalityType DEF Counted
<1>6. calls' \in 0 .. MaxAdvances
  BY FakeClockAssumption DEF Advance, Counted
<1>7. Cardinality(Busy') + Len(mo') = calls' + 1
  BY <1>1, <1>3, <1>5 DEF Advance, Counted
<1>8. total' \in Nat /\ total' <= LongestStep * (Len(mo') - 1)
  BY DEF Advance, Counted
<1>9. Counted'
  BY <1>3, <1>4, <1>6, <1>7, <1>8 DEF Counted
<1>10. Ordered' /\ Floors'
  BY DEF Advance, Ordered, Floors
<1>11. HistoryType'
  BY <1>1 DEF Advance, HistoryType
<1> QED
  BY <1>9, <1>10, <1>11

(* What CasOk appends.                                                      *)
LEMMA Appended ==
  ASSUME Sound, NEW th \in Threads, CasOk(th)
  PROVE  /\ th \in Busy
         /\ Len(mo) \in Nat /\ Len(mo) >= 1 /\ Len(mo') = Len(mo) + 1
         /\ \A j \in 1 .. Len(mo) : mo'[j] = mo[j] /\ mo[j] \in Nat
         /\ by[th] \in Nat /\ mo[seen[th]] = Latest
         /\ mo'[Len(mo) + 1] = Latest + by[th]
         /\ total' = total + by[th]
<1> USE DEF Sound
<1>1. th \in Busy
  BY DEF CasOk, Busy
<1>2. mo \in Seq(Nanos) /\ Len(mo) \in Nat /\ Len(mo) >= 1
  BY DEF IInv, OrderType
<1>3. /\ Len(mo') = Len(mo) + 1
      /\ mo'[Len(mo) + 1] = next[th]
      /\ \A j \in 1 .. Len(mo) : mo'[j] = mo[j]
  BY <1>2 DEF CasOk, Store, IInv, CallType
<1>4. \A j \in 1 .. Len(mo) : mo[j] \in Nat
  BY <1>2, WidthAssumption DEF Nanos
<1>5. mo[seen[th]] = Latest /\ total = Latest
      /\ next[th] = Add(mo[seen[th]], by[th])
  BY DEF CasOk, IInv, NextUpToDate, NoTimeLost
<1>6. by[th] \in Nat /\ total + by[th] < U64
  BY <1>1, Room
<1>7. Add(total, by[th]) = total + by[th]
  BY <1>6 DEF Add
<1>8. total' = total + by[th]
  BY <1>7 DEF CasOk, Store
<1> QED
  BY <1>1, <1>2, <1>3, <1>4, <1>5, <1>6, <1>7, <1>8

LEMMA CasOkSound ==
  ASSUME Sound, NEW th \in Threads, CasOk(th)
  PROVE  Sound'
<1> USE DEF Sound
<1> DEFINE n == Len(mo)
<1>1. /\ th \in Busy
      /\ n \in Nat /\ n >= 1 /\ Len(mo') = n + 1
      /\ \A j \in 1 .. n : mo'[j] = mo[j] /\ mo[j] \in Nat
      /\ by[th] \in Nat /\ mo[seen[th]] = mo[n]
      /\ mo'[n + 1] = mo[n] + by[th]
      /\ total' = total + by[th]
  BY Appended DEF Latest
<1>2. /\ seen \in [Threads -> Nat] /\ \A o \in Threads : seen[o] \in 1 .. n
      /\ pc \in [Threads -> {"idle", "load", "cas"}]
  BY DEF IInv, OrderType, CallType
<1>3. IInv'
  BY CasOkStep
<1>4. Busy' = Busy \ {th}
  BY <1>2 DEF Busy, CasOk, Store
<1>5. IsFiniteSet(Busy') /\ Cardinality(Busy') = Cardinality(Busy) - 1
  BY <1>1, <1>4, FS_RemoveElement DEF Counted
<1>6. Counted'
  <2>1. Cardinality(Busy) \in Nat
    BY FS_CardinalityType DEF Counted
  <2>2. Cardinality(Busy') + Len(mo') = calls' + 1
    BY <1>1, <1>5, <2>1 DEF CasOk, Store, Counted
  <2>3. calls' \in 0 .. MaxAdvances
    BY DEF CasOk, Store, Counted
  <2>4. \A o \in Busy' : by'[o] \in Steps
    BY <1>4 DEF CasOk, Store, Counted, HistoryType, Busy
  <2>5. total' \in Nat
    BY <1>1 DEF Counted
  <2>6. total' <= LongestStep * (Len(mo') - 1)
    <3>1. total + by[th] <= LongestStep * n
      BY <1>1, Room
    <3>2. Len(mo') - 1 = n
      BY <1>1
    <3> QED
      BY <1>1, <3>1, <3>2
  <2> QED
    BY <1>5, <2>2, <2>3, <2>4, <2>5, <2>6 DEF Counted
<1>7. Ordered'
  <2> SUFFICES ASSUME NEW i \in 1 .. n + 1, NEW j \in 1 .. n + 1, i <= j
               PROVE  mo'[i] <= mo'[j]
    BY <1>1 DEF Ordered
  <2>1. CASE j <= n
    <3>1. i \in 1 .. n /\ j \in 1 .. n
      BY <1>1, <2>1
    <3> QED
      BY <1>1, <3>1 DEF Ordered
  <2>2. CASE j = n + 1 /\ i <= n
    <3>1. i \in 1 .. n /\ n \in 1 .. n
      BY <1>1, <2>2
    <3>2. mo[i] <= mo[n] /\ mo[i] \in Nat /\ mo[n] \in Nat
      BY <1>1, <3>1 DEF Ordered
    <3> QED
      BY <1>1, <2>2, <3>1, <3>2
  <2>3. CASE i = n + 1
    <3>1. j = n + 1 /\ mo'[n + 1] \in Nat
      BY <1>1, <2>3
    <3> QED
      BY <2>3, <3>1
  <2> QED
    BY <1>1, <2>1, <2>2, <2>3
<1>8. Floors'
  <2> SUFFICES ASSUME NEW o \in Threads
               PROVE  floor'[o] <= mo'[seen'[o]]
    BY DEF Floors
  <2>1. floor[o] <= mo[seen[o]] /\ floor \in [Threads -> Nat]
    BY DEF Floors, HistoryType
  <2>2. /\ floor' = [floor EXCEPT ![th] = @ + by[th]]
        /\ seen' = [seen EXCEPT ![th] = n + 1]
    BY DEF CasOk, Store
  <2>3. CASE o = th
    <3>1. floor'[o] = floor[th] + by[th] /\ mo'[seen'[o]] = mo[n] + by[th]
      BY <1>1, <1>2, <2>1, <2>2, <2>3
    <3>2. floor[th] <= mo[n] /\ floor[th] \in Nat /\ mo[n] \in Nat
      BY <1>1, <2>1, <2>3
    <3> QED
      BY <1>1, <3>1, <3>2
  <2>4. CASE o # th
    BY <1>1, <1>2, <2>1, <2>2, <2>4
  <2> QED
    BY <2>3, <2>4
<1>9. HistoryType'
  <2>1. by' = [by EXCEPT ![th] = 0]
        /\ floor' = [floor EXCEPT ![th] = @ + by[th]]
        /\ known' = [known EXCEPT ![th][th] = @ + by[th]]
    BY DEF CasOk, Store
  <2>2. by' \in [Threads -> Steps \cup {0}] /\ floor' \in [Threads -> Nat]
    BY <1>1, <2>1 DEF HistoryType
  <2>3. known' \in [Threads -> [Threads -> Nat]]
    BY <1>1, <2>1 DEF HistoryType
  <2> QED
    BY <2>2, <2>3 DEF HistoryType
<1> QED
  BY <1>3, <1>6, <1>7, <1>8, <1>9

LEMMA NextSound == Sound /\ [Next]_vars => Sound'
<1> SUFFICES ASSUME Sound, [Next]_vars
             PROVE  Sound'
  OBVIOUS
<1> USE DEF Sound
<1>1. IInv'
  BY NextIInv
<1>2. /\ mo \in Seq(Nanos) /\ Len(mo) \in Nat
      /\ seen \in [Threads -> Nat] /\ \A o \in Threads : seen[o] \in 1 .. Len(mo)
      /\ \A j \in 1 .. Len(mo) : mo[j] \in Nat
  BY WidthAssumption DEF IInv, OrderType, Nanos
<1>3. CASE UNCHANGED vars
  <2>1. Busy' = Busy
    BY <1>3 DEF vars, Busy
  <2>2. Counted' /\ Ordered'
    BY <1>3, <2>1, SameWords DEF vars
  <2>3. Floors' /\ HistoryType'
    BY <1>3 DEF vars, Floors, HistoryType
  <2> QED
    BY <1>1, <2>2, <2>3
<1>4. ASSUME NEW th \in Threads, NEW d \in Steps, Advance(th, d)
      PROVE  Sound'
  BY <1>1, <1>4, AdvanceSound
<1>5. ASSUME NEW th \in Threads, Load(th) \/ CasFail(th)
      PROVE  Sound'
  <2>1. PICK j \in seen[th] .. Len(mo) : Observe(th, j)
    BY <1>5 DEF Load, CasFail
  <2>2. pc[th] # "idle"
    BY <1>5 DEF Load, CasFail
  <2> QED
    BY <2>1, <2>2, ObserveSound
<1>6. ASSUME NEW th \in Threads, CasOk(th)
      PROVE  Sound'
  BY <1>6, CasOkSound
<1>7. ASSUME NEW th \in Threads, Now(th)
      PROVE  Sound'
  <2>1. PICK j \in seen[th] .. Len(mo) :
          /\ seen' = [seen EXCEPT ![th] = j]
          /\ floor' = [floor EXCEPT ![th] = mo[j]]
    BY <1>7 DEF Now
  <2>2. j \in 1 .. Len(mo) /\ mo[j] \in Nat
    BY <1>2
  <2>3. Busy' = Busy
    BY <1>7 DEF Now, Busy
  <2>4. Counted' /\ Ordered'
    BY <1>7, <2>3, SameWords DEF Now
  <2>5. Floors'
    <3> SUFFICES ASSUME NEW o \in Threads
                 PROVE  floor'[o] <= mo'[seen'[o]]
      BY DEF Floors
    <3>1. floor \in [Threads -> Nat] /\ floor[o] <= mo[seen[o]] /\ mo' = mo
      BY <1>7 DEF Now, Floors, HistoryType
    <3>2. CASE o = th
      BY <1>2, <2>1, <2>2, <3>1, <3>2
    <3>3. CASE o # th
      BY <1>2, <2>1, <3>1, <3>3
    <3> QED
      BY <3>2, <3>3
  <2>6. HistoryType'
    BY <1>7, <2>1, <2>2 DEF Now, HistoryType
  <2> QED
    BY <1>1, <2>4, <2>5, <2>6
<1>8. ASSUME NEW from \in Threads, NEW to \in Threads, Sync(from, to)
      PROVE  Sound'
  <2>1. Busy' = Busy
    BY <1>8 DEF Sync, Busy
  <2>2. Counted' /\ Ordered'
    BY <1>8, <2>1, SameWords DEF Sync
  <2>3. Floors'
    <3> SUFFICES ASSUME NEW o \in Threads
                 PROVE  floor'[o] <= mo'[seen'[o]]
      BY DEF Floors
    <3> DEFINE j == MaxOf(seen[to], seen[from])
    <3>1. /\ floor \in [Threads -> Nat] /\ floor[o] <= mo[seen[o]]
          /\ floor[to] <= mo[seen[to]] /\ floor[from] <= mo[seen[from]]
          /\ mo' = mo
          /\ seen' = [seen EXCEPT ![to] = j]
          /\ floor' = [floor EXCEPT ![to] = MaxOf(floor[to], floor[from])]
      BY <1>8 DEF Sync, Floors, HistoryType
    <3>2. j \in 1 .. Len(mo) /\ seen[to] <= j /\ seen[from] <= j
      BY <1>2 DEF MaxOf
    <3>3. mo[seen[to]] <= mo[j] /\ mo[seen[from]] <= mo[j]
      BY <1>2, <3>2 DEF Ordered
    <3>4. mo[j] \in Nat /\ mo[seen[to]] \in Nat /\ mo[seen[from]] \in Nat
      BY <1>2, <3>2
    <3> HIDE DEF j
    <3>5. MaxOf(floor[to], floor[from]) <= mo[j]
      BY <3>1, <3>3, <3>4 DEF MaxOf
    <3>6. CASE o = to
      BY <1>2, <3>1, <3>5, <3>6
    <3>7. CASE o # to
      BY <1>2, <3>1, <3>7
    <3> QED
      BY <3>6, <3>7
  <2>4. HistoryType'
    <3>1. /\ floor' = [floor EXCEPT ![to] = MaxOf(floor[to], floor[from])]
          /\ known' = [known EXCEPT ![to] =
               [o \in Threads |-> MaxOf(known[to][o], known[from][o])]]
          /\ by' = by
      BY <1>8 DEF Sync, HistoryType
    <3>2. MaxOf(floor[to], floor[from]) \in Nat
      BY DEF HistoryType, MaxOf
    <3>3. [o \in Threads |-> MaxOf(known[to][o], known[from][o])]
            \in [Threads -> Nat]
      BY DEF HistoryType, MaxOf
    <3> QED
      BY <3>1, <3>2, <3>3 DEF HistoryType
  <2> QED
    BY <1>1, <2>2, <2>3, <2>4
<1> QED
  BY <1>3, <1>4, <1>5, <1>6, <1>7, <1>8 DEF Next

LEMMA Soundness == Spec => []Sound
BY InitSound, NextSound, PTL DEF Spec

(* Every variable keeps its type; in particular no word is ever stored that *)
(* is later than all that the clock was advanced by.                        *)
THEOREM TypeCorrect == Spec => []TypeOK
<1>1. ASSUME Sound
      PROVE  TypeOK
  <2> USE DEF Sound
  <2>1. /\ mo \in Seq(Nanos) /\ Len(mo) \in Nat /\ Len(mo) >= 1
        /\ seen \in [Threads -> Nat]
        /\ \A o \in Threads : seen[o] \in 1 .. Len(mo)
    BY <1>1 DEF IInv, OrderType
  <2>2. total = mo[Len(mo)]
    BY <1>1 DEF IInv, NoTimeLost, Latest
  <2>3. total \in Nanos
    BY <2>1, <2>2
  <2>4. \A j \in 1 .. Len(mo) : mo[j] \in 0 .. total
    <3> SUFFICES ASSUME NEW j \in 1 .. Len(mo)
                 PROVE  mo[j] \in 0 .. total
      OBVIOUS
    <3>1. mo[j] <= mo[Len(mo)] /\ mo[j] \in Nanos
      BY <1>1, <2>1 DEF Ordered
    <3> QED
      BY <2>2, <2>3, <3>1, WidthAssumption DEF Nanos
  <2>5. mo \in Seq(0 .. total)
    <3>1. mo \in [1 .. Len(mo) -> 0 .. total]
      BY <2>1, <2>4
    <3>2. mo \in UNION {[1 .. n -> 0 .. total] : n \in Nat}
      BY <2>1, <3>1
    <3> QED
      BY <3>2, SeqDef, Zenon
  <2>6. seen \in [Threads -> 1 .. Len(mo)]
    BY <2>1
  <2> QED
    BY <1>1, <2>3, <2>5, <2>6
       DEF TypeOK, IInv, CallType, Counted, HistoryType
<1> QED
  BY <1>1, Soundness, PTL

(* Whoever reads the clock and advances it sees it move by at least as much *)
(* (TimeMovesOn), however old the words are that its loads may return.      *)
THEOREM ReadingsMoveOn == Spec => []TimeMovesOn
<1>1. ASSUME Sound
      PROVE  TimeMovesOn
  <2> USE DEF Sound
  <2> SUFFICES ASSUME NEW th \in Threads, NEW j \in seen[th] .. Len(mo)
               PROVE  mo[j] >= floor[th]
    BY DEF TimeMovesOn, Shown
  <2>1. /\ mo \in Seq(Nanos) /\ Len(mo) \in Nat
        /\ seen[th] \in 1 .. Len(mo) /\ j \in 1 .. Len(mo)
    BY <1>1 DEF IInv, OrderType
  <2>2. mo[seen[th]] <= mo[j] /\ floor[th] <= mo[seen[th]]
    BY <1>1, <2>1 DEF Ordered, Floors
  <2>3. mo[seen[th]] \in Nat /\ mo[j] \in Nat /\ floor[th] \in Nat
    BY <1>1, <2>1, WidthAssumption DEF Nanos, HistoryType
  <2> QED
    BY <2>2, <2>3
<1> QED
  BY <1>1, Soundness, PTL

-----------------------------------------------------------------------------
(* Why a reading includes every advance that happened before it.  Each word *)
(* of the order can be split into what every thread contributed to it; the  *)
(* shares only grow along the order, and what a thread knows is within the  *)
(* shares of the word it has seen.                                          *)

Explains(c) ==
  /\ \A j \in 1 .. Len(mo) : SumFunction(c[j]) = mo[j]
  /\ \A i, j \in 1 .. Len(mo) : i <= j => \A o \in Threads : c[i][o] <= c[j][o]
  /\ \A th, o \in Threads : known[th][o] <= c[seen[th]][o]

Explained ==
  \E c \in [1 .. Len(mo) -> [Threads -> Nat]] : Explains(c)

LEMMA InitExplained == IsFiniteSet(Threads) /\ Init => Explained
<1> SUFFICES ASSUME IsFiniteSet(Threads), Init
             PROVE  Explained
  OBVIOUS
<1> DEFINE zeros == [o \in Threads |-> 0]
           c == [j \in 1 .. 1 |-> zeros]
<1>1. Len(mo) = 1 /\ mo[1] = 0
  BY DEF Init
<1>2. c \in [1 .. Len(mo) -> [Threads -> Nat]]
  BY <1>1
<1>3. SumFunction(zeros) = 0
  BY SumOfZeros
<1>4. \A j \in 1 .. Len(mo) : c[j] = zeros /\ mo[j] = 0
  BY <1>1
<1>5. \A th \in Threads : known[th] = zeros /\ seen[th] \in 1 .. Len(mo)
  BY <1>1 DEF Init
<1>6. \A o \in Threads : zeros[o] = 0
  OBVIOUS
<1> HIDE DEF zeros, c
<1>7. Explains(c)
  BY <1>3, <1>4, <1>5, <1>6 DEF Explains
<1> QED
  BY <1>2, <1>7 DEF Explained

(* The words stay, and what a thread learns is in the word it then has seen.*)
LEMMA LearntExplained ==
  ASSUME Sound, Explained, mo' = mo,
         NEW th \in Threads, NEW o \in Threads,
         NEW j \in 1 .. Len(mo), seen[th] <= j, seen[o] <= j,
         seen' = [seen EXCEPT ![th] = j],
         \/ known' = known
         \/ known' = [known EXCEPT ![th] =
                        [p \in Threads |-> MaxOf(known[th][p], known[o][p])]]
  PROVE  Explained'
<1> USE DEF Sound
<1>1. /\ Len(mo) \in Nat /\ seen \in [Threads -> Nat]
      /\ \A p \in Threads : seen[p] \in 1 .. Len(mo)
      /\ known \in [Threads -> [Threads -> Nat]]
  BY DEF IInv, OrderType, HistoryType
<1>2. PICK c \in [1 .. Len(mo) -> [Threads -> Nat]] : Explains(c)
  BY DEF Explained
<1>3. ASSUME NEW p \in Threads, NEW q \in Threads
      PROVE  known'[p][q] <= c[seen'[p]][q]
  <2>1. /\ known[p][q] <= c[seen[p]][q]
        /\ known[th][q] <= c[seen[th]][q]
        /\ known[o][q] <= c[seen[o]][q]
    BY <1>2 DEF Explains
  <2>2. c[seen[th]][q] <= c[j][q] /\ c[seen[o]][q] <= c[j][q]
    BY <1>1, <1>2 DEF Explains
  <2>3. /\ c[j][q] \in Nat /\ c[seen[th]][q] \in Nat /\ c[seen[o]][q] \in Nat
        /\ known[th][q] \in Nat /\ known[o][q] \in Nat
    <3>1. \A i \in 1 .. Len(mo) : c[i] \in [Threads -> Nat]
      OBVIOUS
    <3>2. c[j] \in [Threads -> Nat] /\ c[seen[th]] \in [Threads -> Nat]
          /\ c[seen[o]] \in [Threads -> Nat]
      BY <1>1, <3>1
    <3>3. known[th] \in [Threads -> Nat] /\ known[o] \in [Threads -> Nat]
      BY <1>1
    <3> QED
      BY <3>2, <3>3
  <2>4. CASE p = th
    <3>1. seen'[p] = j
      BY <1>1, <2>4
    <3>2. known'[p][q] \in {known[th][q], MaxOf(known[th][q], known[o][q])}
      <4>1. CASE known' = known
        BY <2>4, <4>1
      <4>2. CASE known' = [known EXCEPT ![th] =
                   [r \in Threads |-> MaxOf(known[th][r], known[o][r])]]
        <5>1. known'[th] = [r \in Threads |-> MaxOf(known[th][r], known[o][r])]
          BY <1>1, <4>2
        <5> QED
          BY <2>4, <5>1
      <4> QED
        BY <4>1, <4>2
    <3> QED
      BY <2>1, <2>2, <2>3, <3>1, <3>2 DEF MaxOf
  <2>5. CASE p # th
    BY <1>1, <2>1, <2>5
  <2> QED
    BY <2>4, <2>5
<1>4. Explains(c)'
  BY <1>2, <1>3 DEF Explains
<1> QED
  BY <1>2, <1>4 DEF Explained

LEMMA SumOfShares ==
  ASSUME IsFiniteSet(Threads)
  PROVE  \A th \in Threads, f \in [Threads -> Nat], a \in Nat :
           SumFunction([f EXCEPT ![th] = @ + a]) = SumFunction(f) + a
<1> SUFFICES ASSUME NEW th \in Threads, NEW f \in [Threads -> Nat],
                    NEW a \in Nat
             PROVE  SumFunction([f EXCEPT ![th] = @ + a])
                      = SumFunction(f) + a
  OBVIOUS
<1> QED
  BY SumOfOneMore

LEMMA CasOkExplained ==
  ASSUME IsFiniteSet(Threads), Sound, Explained, NEW th \in Threads, CasOk(th)
  PROVE  Explained'
<1> USE DEF Sound
<1> DEFINE n == Len(mo)
<1>1. /\ n \in Nat /\ n >= 1 /\ Len(mo') = n + 1
      /\ \A j \in 1 .. n : mo'[j] = mo[j]
      /\ by[th] \in Nat
      /\ mo'[n + 1] = mo[n] + by[th]
  BY Appended DEF Latest
<1>2. /\ seen \in [Threads -> Nat]
      /\ \A p \in Threads : seen[p] \in 1 .. n
      /\ known \in [Threads -> [Threads -> Nat]]
  BY DEF IInv, OrderType, HistoryType
<1>3. /\ seen' = [seen EXCEPT ![th] = n + 1]
      /\ known' = [known EXCEPT ![th][th] = @ + by[th]]
  BY DEF CasOk, Store
<1>4. PICK c \in [1 .. n -> [Threads -> Nat]] : Explains(c)
  BY DEF Explained
<1> DEFINE last == [c[n] EXCEPT ![th] = @ + by[th]]
           d == [j \in 1 .. n + 1 |-> IF j = n + 1 THEN last ELSE c[j]]
<1>5. c[n] \in [Threads -> Nat] /\ last \in [Threads -> Nat]
  BY <1>1
<1>6. d \in [1 .. Len(mo') -> [Threads -> Nat]]
  BY <1>1, <1>5
<1>7. d[n + 1] = last /\ \A j \in 1 .. n : d[j] = c[j]
  BY <1>1
<1>8. \A o \in Threads : c[n][o] <= last[o]
  <2> SUFFICES ASSUME NEW o \in Threads
               PROVE  c[n][o] <= last[o]
    OBVIOUS
  <2>1. c[n][o] \in Nat /\ last[o] = c[n][o] + (IF o = th THEN by[th] ELSE 0)
    BY <1>5
  <2> HIDE DEF last
  <2> QED
    BY <1>1, <2>1
<1>9. SumFunction(last) = SumFunction(c[n]) + by[th]
  BY <1>1, <1>5, SumOfShares
<1>10. last[th] = c[n][th] + by[th]
  BY <1>5
<1> HIDE DEF last, d
<1>11. ASSUME NEW j \in 1 .. n + 1
       PROVE  SumFunction(d[j]) = mo'[j]
  <2>1. CASE j = n + 1
    <3>1. n \in 1 .. n
      BY <1>1
    <3>2. SumFunction(c[n]) = mo[n]
      BY <1>4, <3>1 DEF Explains
    <3> QED
      BY <1>1, <1>7, <1>9, <2>1, <3>2
  <2>2. CASE j # n + 1
    <3>1. j \in 1 .. n
      BY <1>1, <2>2
    <3> QED
      BY <1>1, <1>4, <1>7, <3>1 DEF Explains
  <2> QED
    BY <2>1, <2>2
<1>12. ASSUME NEW i \in 1 .. n + 1, NEW j \in 1 .. n + 1, i <= j,
              NEW o \in Threads
       PROVE  d[i][o] <= d[j][o]
  <2>1. CASE j \in 1 .. n
    <3>1. i \in 1 .. n
      BY <1>1, <1>12, <2>1
    <3> QED
      BY <1>4, <1>7, <1>12, <2>1, <3>1 DEF Explains
  <2>2. CASE j = n + 1 /\ i \in 1 .. n
    <3>1. n \in 1 .. n /\ i <= n
      BY <1>1, <2>2
    <3>2. c[i][o] <= c[n][o]
      BY <1>4, <2>2, <3>1 DEF Explains
    <3>3. c[i][o] \in Nat /\ c[n][o] \in Nat /\ last[o] \in Nat
      BY <1>4, <1>5, <2>2, <3>1
    <3> QED
      BY <1>7, <1>8, <2>2, <3>2, <3>3
  <2>3. CASE i = n + 1 /\ j = n + 1
    BY <1>5, <1>7, <2>3
  <2> QED
    BY <1>1, <1>12, <2>1, <2>2, <2>3
<1>13. ASSUME NEW p \in Threads, NEW q \in Threads
       PROVE  known'[p][q] <= d[seen'[p]][q]
  <2>1. known[p][q] <= c[seen[p]][q] /\ n \in 1 .. n
    BY <1>1, <1>4 DEF Explains
  <2>2. c[seen[p]][q] <= c[n][q]
    <3>1. seen[p] \in 1 .. n /\ seen[p] <= n
      BY <1>1, <1>2
    <3> QED
      BY <1>4, <2>1, <3>1 DEF Explains
  <2>3. /\ known[p][q] \in Nat /\ c[seen[p]][q] \in Nat /\ c[n][q] \in Nat
        /\ last[q] \in Nat
    BY <1>2, <1>4, <1>5, <2>1
  <2>4. CASE p = th /\ q = th
    <3>1. known'[p][q] = known[th][th] + by[th] /\ seen'[p] = n + 1
      BY <1>2, <1>3, <2>4
    <3>2. d[seen'[p]][q] = c[n][th] + by[th]
      BY <1>7, <1>10, <2>4, <3>1
    <3> QED
      BY <1>1, <2>1, <2>2, <2>3, <2>4, <3>1, <3>2
  <2>5. CASE p = th /\ q # th
    <3>1. known'[p][q] = known[p][q] /\ seen'[p] = n + 1
      BY <1>2, <1>3, <2>5
    <3>2. d[seen'[p]][q] = last[q] /\ c[n][q] <= last[q]
      BY <1>7, <1>8, <3>1
    <3> QED
      BY <2>1, <2>2, <2>3, <3>1, <3>2
  <2>6. CASE p # th
    <3>1. known'[p][q] = known[p][q] /\ seen'[p] = seen[p]
      BY <1>2, <1>3, <2>6
    <3> QED
      BY <1>2, <1>7, <2>1, <3>1
  <2> QED
    BY <2>4, <2>5, <2>6
<1>14. PICK e : e = d
  OBVIOUS
<1>15. Explains(e)'
  BY <1>1, <1>11, <1>12, <1>13, <1>14 DEF Explains
<1> QED
  BY <1>6, <1>14, <1>15 DEF Explained

LEMMA NextExplained ==
  IsFiniteSet(Threads) /\ Sound /\ Explained /\ [Next]_vars => Explained'
<1> SUFFICES ASSUME IsFiniteSet(Threads), Sound, Explained, [Next]_vars
             PROVE  Explained'
  OBVIOUS
<1>1. /\ Len(mo) \in Nat /\ seen \in [Threads -> Nat]
      /\ \A o \in Threads : seen[o] \in 1 .. Len(mo)
  BY DEF Sound, IInv, OrderType
<1>2. CASE UNCHANGED <<mo, seen, known>>
  BY <1>2 DEF Explained, Explains
<1>3. ASSUME NEW th \in Threads, NEW d \in Steps, Advance(th, d)
      PROVE  Explained'
  BY <1>2, <1>3 DEF Advance
<1>4. ASSUME NEW th \in Threads, Load(th) \/ CasFail(th)
      PROVE  Explained'
  <2>1. PICK j \in seen[th] .. Len(mo) : Observe(th, j)
    BY <1>4 DEF Load, CasFail
  <2>2. j \in 1 .. Len(mo) /\ seen[th] <= j
    BY <1>1
  <2>3. mo' = mo /\ seen' = [seen EXCEPT ![th] = j] /\ known' = known
    BY <2>1 DEF Observe, history
  <2> QED
    BY <2>2, <2>3, LearntExplained
<1>5. ASSUME NEW th \in Threads, CasOk(th)
      PROVE  Explained'
  BY <1>5, CasOkExplained
<1>6. ASSUME NEW th \in Threads, Now(th)
      PROVE  Explained'
  <2>1. PICK j \in seen[th] .. Len(mo) : seen' = [seen EXCEPT ![th] = j]
    BY <1>6 DEF Now
  <2>2. j \in 1 .. Len(mo) /\ seen[th] <= j
    BY <1>1
  <2>3. mo' = mo /\ known' = known
    BY <1>6 DEF Now
  <2> QED
    BY <2>1, <2>2, <2>3, LearntExplained
<1>7. ASSUME NEW from \in Threads, NEW to \in Threads, Sync(from, to)
      PROVE  Explained'
  <2> DEFINE j == MaxOf(seen[to], seen[from])
  <2>1. j \in 1 .. Len(mo) /\ seen[to] <= j /\ seen[from] <= j
    BY <1>1 DEF MaxOf
  <2>2. mo' = mo /\ seen' = [seen EXCEPT ![to] = j]
    BY <1>7 DEF Sync
  <2>3. known' = [known EXCEPT ![to] =
                    [p \in Threads |-> MaxOf(known[to][p], known[from][p])]]
    BY <1>7 DEF Sync, Sound, HistoryType
  <2> HIDE DEF j
  <2> QED
    BY <2>1, <2>2, <2>3, LearntExplained
<1> QED
  BY <1>2, <1>3, <1>4, <1>5, <1>6, <1>7 DEF Next, vars

(* Whatever now returns, although its load is relaxed, includes every       *)
(* advance that happened before the call (AdvancesShow), for any number of  *)
(* threads.                                                                 *)
THEOREM ReadingsInclude ==
  ASSUME IsFiniteSet(Threads)
  PROVE  Spec => []AdvancesShow
<1>1. ASSUME Sound, Explained
      PROVE  AdvancesShow
  <2> SUFFICES ASSUME NEW th \in Threads, NEW j \in seen[th] .. Len(mo)
               PROVE  mo[j] >= SumFunction(known[th])
    BY DEF AdvancesShow, Shown
  <2>1. /\ Len(mo) \in Nat /\ seen[th] \in 1 .. Len(mo) /\ j \in 1 .. Len(mo)
        /\ seen[th] <= j
        /\ known[th] \in [Threads -> Nat]
    BY <1>1 DEF Sound, IInv, OrderType, HistoryType
  <2>2. PICK c \in [1 .. Len(mo) -> [Threads -> Nat]] : Explains(c)
    BY <1>1 DEF Explained
  <2>3. c[j] \in [Threads -> Nat] /\ c[seen[th]] \in [Threads -> Nat]
    BY <2>1
  <2>4. \A o \in Threads : known[th][o] <= c[j][o]
    <3> SUFFICES ASSUME NEW o \in Threads
                 PROVE  known[th][o] <= c[j][o]
      OBVIOUS
    <3>1. known[th][o] <= c[seen[th]][o] /\ c[seen[th]][o] <= c[j][o]
      BY <2>1, <2>2 DEF Explains
    <3>2. /\ known[th][o] \in Nat /\ c[seen[th]][o] \in Nat
          /\ c[j][o] \in Nat
      BY <2>1, <2>3
    <3> QED
      BY <3>1, <3>2
  <2>5. /\ SumFunction(known[th]) \in Nat
        /\ SumFunction(known[th]) <= SumFunction(c[j])
    BY <2>1, <2>3, <2>4, SumMonotone
  <2>6. SumFunction(c[j]) = mo[j]
    BY <2>1, <2>2 DEF Explains
  <2>7. SumFunction(c[j]) \in Nat
    BY <2>3, SumMonotone
  <2> QED
    BY <2>5, <2>6, <2>7
<1>2. Init => Explained
  BY InitExplained
<1>3. Sound /\ Explained /\ [Next]_vars => Explained'
  BY NextExplained
<1> QED
  BY <1>1, <1>2, <1>3, Soundness, PTL DEF Spec
=============================================================================
