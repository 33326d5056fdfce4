------------------------- MODULE Combinators_proofs -------------------------
(***************************************************************************)
(* For any number of streams and sinks on one limiter, any quota and any   *)
(* jitter: every item passes once, in order, for one cell, start_send does *)
(* not panic, and no wait ends before the time that the limiter named.     *)
(***************************************************************************)
EXTENDS Combinators, Waiting_proofs

-----------------------------------------------------------------------------
(* The decision on a lone cell, as a distance from now. *)
LEMMA LoneCell ==
  ASSUME NEW ahead \in 0 .. Tau + T
  PROVE  /\ Passes(ahead, 0) <=> ahead <= Tau
         /\ Passes(ahead, 0) => Stored(ahead, 0) = ahead + T
         /\ ~Passes(ahead, 0) => Owed(ahead, 0) = ahead - Tau
<1>1. /\ 5 * (Tau + T) + 0 < U64 /\ ahead \in 0 .. Tau + T + 0
      /\ 0 \in 0 .. Tau
  BY ParamsType
<1>2. /\ Passes(ahead, 0) <=> ahead + 0 <= Tau
      /\ Passes(ahead, 0) => Stored(ahead, 0) = ahead + T + 0
      /\ ~Passes(ahead, 0) => Owed(ahead, 0) = ahead + 0 - Tau
  BY <1>1, BatchNow
<1> QED
  BY <1>1, <1>2, ParamsType

-----------------------------------------------------------------------------
(* The items of a stream as it reads them. *)
FirstItems(n) == [i \in 1 .. n |-> i]

LEMMA FirstItemsFacts ==
  ASSUME NEW n \in Nat
  PROVE  /\ FirstItems(n) \in Seq(1 .. n)
         /\ Len(FirstItems(n)) = n
         /\ FirstItems(n) \o <<>> = FirstItems(n)
         /\ Append(FirstItems(n), n + 1) = FirstItems(n + 1)
         /\ FirstItems(n) \o <<n + 1>> = FirstItems(n + 1)
<1>1. FirstItems(n) \in Seq(1 .. n) /\ Len(FirstItems(n)) = n
  BY DEF FirstItems
<1>2. FirstItems(n) \o <<>> = FirstItems(n)
  BY <1>1
<1>3. Append(FirstItems(n), n + 1) = FirstItems(n + 1)
  BY <1>1 DEF FirstItems
<1>4. FirstItems(n) \o <<n + 1>> = FirstItems(n + 1)
  BY <1>1 DEF FirstItems
<1> QED
  BY <1>1, <1>2, <1>3, <1>4

(* The inductive invariant: who is where in a poll, what a stream holds     *)
(* back and a sink has taken ahead in each state, and that the Delay is not *)
(* due before the limiter.                                                  *)
Held(s) == IF buf[s] = 0 THEN 0 ELSE 1

Control ==
  \A u \in Users :
    /\ pc[u] \in {"reference", "reset"} => state[u] = "NotReady"
    /\ pc[u] # "out" => state[u] # "gone"

DelayNotShort ==
  \A u \in Users :
    pc[u] = "reset" \/ state[u] = "Wait" => owed[u] <= left[u]

StreamOK(s) ==
  /\ state[s] # "Ready"
  /\ state[s] = "ReadInner" => buf[s] = 0
  /\ state[s] \in {"NotReady", "Wait"} => buf[s] # 0
  /\ buf[s] \in {0, read[s]}
  /\ given[s] = FirstItems(read[s] - Held(s))
  /\ cells[s] = read[s] - Held(s)

SinkOK(k) ==
  /\ state[k] # "ReadInner"
  /\ state[k] = "Ready" => cells[k] = sent[k] + 1
  /\ state[k] \in {"NotReady", "Wait"} => cells[k] = sent[k]
  /\ sent[k] <= cells[k] /\ cells[k] <= sent[k] + 1
  /\ pc[k] # "out" => sent[k] < Items
  /\ granted[k] => state[k] = "Ready" /\ sent[k] < Items
  /\ ~panicked[k]

IInv ==
  /\ TypeOK
  /\ Control
  /\ DelayNotShort
  /\ \A s \in Streams : StreamOK(s)
  /\ \A k \in Sinks : SinkOK(k)

LEMMA InitIInv == Init => IInv
<1> SUFFICES ASSUME Init
             PROVE  IInv
  OBVIOUS
<1>1. /\ Items \in Nat /\ MaxLag \in Nat /\ JitterMax \in Nat
      /\ Streams \cap Sinks = {}
  BY CombinatorsAssumption, WaitingAssumption
<1>2. TypeOK
  BY <1>1, ParamsType
     DEF Init, TypeOK, Users, RatelimitStream, RatelimitSink
<1>3. Control /\ DelayNotShort
  BY DEF Init, Control, DelayNotShort, Users, RatelimitStream, RatelimitSink
<1>4. FirstItems(0) = <<>>
  BY DEF FirstItems
<1>5. ASSUME NEW s \in Streams
      PROVE  StreamOK(s)
  BY <1>1, <1>4, <1>5
     DEF Init, StreamOK, Held, Users, RatelimitStream, RatelimitSink
<1>6. ASSUME NEW k \in Sinks
      PROVE  SinkOK(k)
  BY <1>1, <1>6 DEF Init, SinkOK, Users, RatelimitStream, RatelimitSink
<1> QED
  BY <1>2, <1>3, <1>5, <1>6 DEF IInv

-----------------------------------------------------------------------------
(* What is shared by the steps that pass no item and take no cell: time,    *)
(* wakers, polls, refusals, waits, answers Pending, and taking a combinator *)
(* apart.                                                                   *)
LEMMA SameStream ==
  ASSUME NEW s \in Streams, StreamOK(s),
         buf'[s] = buf[s], read'[s] = read[s],
         given'[s] = given[s], cells'[s] = cells[s],
         \/ state'[s] = state[s]
         \/ /\ state[s] \in {"NotReady", "Wait"}
            /\ state'[s] \in {"NotReady", "Wait"}
         \/ state'[s] = "gone"
  PROVE  StreamOK(s)'
BY DEF StreamOK, Held

LEMMA SameSink ==
  ASSUME NEW k \in Sinks, SinkOK(k),
         sent'[k] = sent[k], cells'[k] = cells[k], panicked'[k] = panicked[k],
         granted'[k] => granted[k],
         pc'[k] # "out" => sent[k] < Items,
         \/ state'[k] = state[k]
         \/ /\ state[k] \in {"NotReady", "Wait"}
            /\ state'[k] \in {"NotReady", "Wait"}
         \/ state'[k] = "gone" /\ ~granted'[k]
  PROVE  SinkOK(k)'
BY DEF SinkOK

States == {"ReadInner", "NotReady", "Wait", "Ready", "gone"}

(* The constants, as the steps below need them. *)
Constants ==
  /\ Items \in Nat /\ MaxLag \in Nat /\ JitterMax \in Nat
  /\ Streams \cap Sinks = {}
  /\ Tau \in Nat /\ T \in Nat /\ T >= 1

LEMMA ConstantsType == Constants
BY CombinatorsAssumption, WaitingAssumption, ParamsType DEF Constants

LEMMA PendingType ==
  ASSUME TypeOK, NEW u \in Users, NEW by \in {"inner", "delay"}, Pending(u, by)
  PROVE  /\ waker' \in [Users -> SUBSET {"inner", "delay"}]
         /\ woken' \in [Users -> BOOLEAN]
<1>1. waker[u] \cup {by} \in SUBSET {"inner", "delay"}
  BY DEF TypeOK
<1> QED
  BY <1>1 DEF Pending, TypeOK

LEMMA TickStep ==
  ASSUME IInv, Tick
  PROVE  IInv'
<1> USE ConstantsType DEF Constants, States
<1>1. /\ Closer(lead) \in 0 .. Tau + T
      /\ \A u \in Users : /\ Closer(owed[u]) \in 0 .. T
                          /\ Closer(left[u]) \in 0 .. T + MaxLag + JitterMax
  <2>1. Tau + T \in Nat /\ T + MaxLag + JitterMax \in Nat
    OBVIOUS
  <2> QED
    BY <2>1, CloserBound DEF IInv, TypeOK
<1>2. TypeOK'
  <2>1. /\ lead' \in 0 .. Tau + T
        /\ owed' \in [Users -> 0 .. T]
        /\ left' \in [Users -> 0 .. T + MaxLag + JitterMax]
    BY <1>1 DEF Tick
  <2>2. lag' \in [Users -> 0 .. MaxLag]
    BY DEF Tick, IInv, TypeOK
  <2>3. UNCHANGED <<state, pc, waker, woken, buf, given, read, granted, sent,
                    cells, panicked>>
    BY DEF Tick, streams, sinks
  <2> QED
    BY <2>1, <2>2, <2>3 DEF IInv, TypeOK
<1>3. Control'
  BY DEF Tick, IInv, Control
<1>4. \A u \in Users : owed[u] <= left[u] => Closer(owed[u]) <= Closer(left[u])
  BY CloserMonotone DEF IInv, TypeOK
<1>5. DelayNotShort'
  BY <1>4 DEF Tick, IInv, DelayNotShort
<1>6. ASSUME NEW s \in Streams
      PROVE  StreamOK(s)'
  BY SameStream DEF Tick, IInv, streams
<1>7. ASSUME NEW k \in Sinks
      PROVE  SinkOK(k)'
  <2>1. SinkOK(k)
    BY DEF IInv
  <2> QED
    BY <2>1, SameSink DEF Tick, sinks, SinkOK
<1> QED
  BY <1>2, <1>3, <1>5, <1>6, <1>7 DEF IInv

LEMMA WakeStep ==
  ASSUME IInv, NEW u \in Users, NEW by \in {"inner", "delay"}, WakeUp(u, by)
  PROVE  IInv'
<1> USE ConstantsType DEF Constants, States
<1>1. TypeOK'
  BY DEF WakeUp, IInv, TypeOK, streams, sinks, delays, Users
<1>2. Control'
  BY DEF WakeUp, IInv, TypeOK, Control, Users
<1>3. DelayNotShort'
  BY DEF WakeUp, IInv, TypeOK, Control, DelayNotShort, delays, Users
<1>4. ASSUME NEW s \in Streams
      PROVE  StreamOK(s)'
  <2>1. StreamOK(s)
    BY DEF IInv
  <2> QED
    BY <2>1, SameStream DEF WakeUp, streams, IInv, TypeOK, Control, Users
<1>5. ASSUME NEW k \in Sinks
      PROVE  SinkOK(k)'
  <2>1. SinkOK(k)
    BY DEF IInv
  <2> QED
    BY <2>1, SameSink DEF WakeUp, sinks, SinkOK, IInv, TypeOK, Control, Users
<1> QED
  BY <1>1, <1>2, <1>3, <1>4, <1>5 DEF IInv

LEMMA PollStep ==
  ASSUME IInv, NEW u \in Users, Poll(u)
  PROVE  IInv'
<1> USE ConstantsType DEF Constants, States
<1>1. TypeOK'
  BY DEF Poll, IInv, TypeOK, streams, sinks, delays, Users
<1>2. Control'
  BY DEF Poll, IInv, TypeOK, Control, Users
<1>3. DelayNotShort'
  BY DEF Poll, IInv, TypeOK, Control, DelayNotShort, delays, Users
<1>4. ASSUME NEW s \in Streams
      PROVE  StreamOK(s)'
  <2>1. StreamOK(s)
    BY DEF IInv
  <2> QED
    BY <2>1, SameStream DEF Poll, streams, IInv, TypeOK, Control, Users
<1>5. ASSUME NEW k \in Sinks
      PROVE  SinkOK(k)'
  <2>1. SinkOK(k)
    BY DEF IInv
  <2> QED
    BY <2>1, SameSink DEF Poll, sinks, SinkOK, IInv, TypeOK, Control, Users
<1> QED
  BY <1>1, <1>2, <1>3, <1>4, <1>5 DEF IInv

LEMMA ReadReferenceStep ==
  ASSUME IInv, NEW u \in Users, ReadReference(u)
  PROVE  IInv'
<1> USE ConstantsType DEF Constants, States
<1>1. TypeOK'
  BY DEF ReadReference, IInv, TypeOK, streams, sinks, delays, Users
<1>2. Control'
  BY DEF ReadReference, IInv, TypeOK, Control, Users
<1>3. DelayNotShort'
  BY DEF ReadReference, IInv, TypeOK, Control, DelayNotShort, delays, Users
<1>4. ASSUME NEW s \in Streams
      PROVE  StreamOK(s)'
  <2>1. StreamOK(s)
    BY DEF IInv
  <2> QED
    BY <2>1, SameStream
       DEF ReadReference, streams, IInv, TypeOK, Control, Users
<1>5. ASSUME NEW k \in Sinks
      PROVE  SinkOK(k)'
  <2>1. SinkOK(k)
    BY DEF IInv
  <2> QED
    BY <2>1, SameSink
       DEF ReadReference, sinks, SinkOK, IInv, TypeOK, Control, Users
<1> QED
  BY <1>1, <1>2, <1>3, <1>4, <1>5 DEF IInv

LEMMA RefuseStep ==
  ASSUME IInv, NEW u \in Users, Refuse(u)
  PROVE  IInv'
<1> USE ConstantsType DEF Constants, States
<1>0. PICK word \in 0 .. lead, jitter \in JitterGet :
        /\ ~Passes(word, 0)
        /\ owed' = [owed EXCEPT ![u] = Owed(word, 0)]
        /\ left' = [left EXCEPT ![u] = WaitFrom(u, Owed(word, 0), jitter)]
  BY DEF Refuse
<1> DEFINE wait == Owed(word, 0)
<1>a. wait \in 0 .. T
  <2>1. word \in 0 .. Tau + T
    BY DEF IInv, TypeOK
  <2> QED
    BY <1>0, <2>1, LoneCell
<1>b. jitter \in 0 .. JitterMax /\ lag[u] \in 0 .. MaxLag
  BY <1>0, JitterType DEF IInv, TypeOK
<1>c. /\ owed' = [owed EXCEPT ![u] = wait]
      /\ left' = [left EXCEPT ![u] = wait + jitter + lag[u]]
  BY <1>0 DEF WaitFrom
<1> HIDE DEF wait
<1>1. TypeOK'
  <2> USE DEF Refuse
  <2>1. /\ lead' \in 0 .. Tau + T
        /\ lag' \in [Users -> 0 .. MaxLag]
        /\ owed' \in [Users -> 0 .. T]
        /\ left' \in [Users -> 0 .. T + MaxLag + JitterMax]
    <3>1. wait + jitter + lag[u] \in 0 .. T + MaxLag + JitterMax
      BY <1>a, <1>b
    <3>2. left' \in [Users -> 0 .. T + MaxLag + JitterMax]
      BY <1>c, <3>1 DEF IInv, TypeOK
    <3>3. owed' \in [Users -> 0 .. T] /\ lag' \in [Users -> 0 .. MaxLag]
      BY <1>a, <1>c DEF IInv, TypeOK
    <3> QED
      BY <3>2, <3>3 DEF IInv, TypeOK
  <2>2. /\ state' \in [Users -> States]
        /\ pc' \in [Users -> {"out", "loop", "reference", "reset"}]
    BY DEF IInv, TypeOK, Users
  <2>3. /\ waker' \in [Users -> SUBSET {"inner", "delay"}]
        /\ woken' \in [Users -> BOOLEAN]
    BY DEF IInv, TypeOK, Users
  <2>4. UNCHANGED <<buf, given, read, granted, sent, cells, panicked>>
    BY DEF streams, sinks
  <2> QED
    BY <2>1, <2>2, <2>3, <2>4 DEF IInv, TypeOK
<1>2. Control'
  BY DEF Refuse, IInv, TypeOK, Control, Users
<1>3. DelayNotShort'
  BY <1>a, <1>b, <1>c
     DEF Refuse, IInv, TypeOK, Control, DelayNotShort, delays, Users
<1>4. ASSUME NEW s \in Streams
      PROVE  StreamOK(s)'
  <2>1. StreamOK(s)
    BY DEF IInv
  <2> QED
    BY <2>1, SameStream
       DEF Refuse, streams, IInv, TypeOK, Control, Users
<1>5. ASSUME NEW k \in Sinks
      PROVE  SinkOK(k)'
  <2>1. SinkOK(k)
    BY DEF IInv
  <2> QED
    BY <2>1, SameSink
       DEF Refuse, sinks, SinkOK, IInv, TypeOK, Control, Users
<1> QED
  BY <1>1, <1>2, <1>3, <1>4, <1>5 DEF IInv

LEMMA DelayStep ==
  ASSUME IInv, NEW u \in Users, PollDelayAfterReset(u) \/ PollDelay(u)
  PROVE  IInv'
<1> USE ConstantsType DEF Constants, States
<1>1. TypeOK'
  <2> USE DEF PollDelayAfterReset, PollDelay, AfterWait
  <2>1. /\ lead' \in 0 .. Tau + T
        /\ lag' \in [Users -> 0 .. MaxLag]
        /\ owed' \in [Users -> 0 .. T]
        /\ left' \in [Users -> 0 .. T + MaxLag + JitterMax]
    BY DEF IInv, TypeOK, delays, Pending, Users
  <2>2. /\ state' \in [Users -> States]
        /\ pc' \in [Users -> {"out", "loop", "reference", "reset"}]
    BY DEF Pending, IInv, TypeOK, Users
  <2>3. /\ waker' \in [Users -> SUBSET {"inner", "delay"}]
        /\ woken' \in [Users -> BOOLEAN]
    BY PendingType DEF IInv, TypeOK, Users
  <2>4. UNCHANGED <<buf, given, read, granted, sent, cells, panicked>>
    BY DEF streams, sinks
  <2> QED
    BY <2>1, <2>2, <2>3, <2>4 DEF IInv, TypeOK
<1>2. Control'
  BY DEF PollDelayAfterReset, PollDelay, AfterWait, Pending, IInv, TypeOK,
         Control, Users
<1>3. DelayNotShort'
  BY DEF PollDelayAfterReset, PollDelay, AfterWait, Pending, IInv, TypeOK,
         Control, DelayNotShort, delays, Users
<1>4. ASSUME NEW s \in Streams
      PROVE  StreamOK(s)'
  <2>1. StreamOK(s)
    BY DEF IInv
  <2> QED
    BY <2>1, SameStream
       DEF PollDelayAfterReset, PollDelay, AfterWait, Pending, streams, IInv,
           TypeOK, Control, Users
<1>5. ASSUME NEW k \in Sinks
      PROVE  SinkOK(k)'
  <2>1. SinkOK(k)
    BY DEF IInv
  <2>2. /\ sent'[k] = sent[k] /\ cells'[k] = cells[k]
        /\ granted'[k] = granted[k] /\ panicked'[k] = panicked[k]
    BY DEF PollDelayAfterReset, PollDelay, sinks
  <2>3. \/ state'[k] = state[k]
        \/ /\ state[k] \in {"NotReady", "Wait"}
           /\ state'[k] \in {"NotReady", "Wait"}
    BY DEF PollDelayAfterReset, PollDelay, AfterWait, IInv, TypeOK, Control,
           Users
  <2>4. pc'[k] # "out" => pc[k] # "out"
    BY DEF PollDelayAfterReset, PollDelay, Pending, IInv, TypeOK, Users
  <2> QED
    BY <2>1, <2>2, <2>3, <2>4, SameSink DEF SinkOK
<1> QED
  BY <1>1, <1>2, <1>3, <1>4, <1>5 DEF IInv

LEMMA StreamOutStep ==
  ASSUME IInv, NEW u \in Streams, InnerPending(u) \/ InnerEnd(u)
  PROVE  IInv'
<1> USE ConstantsType DEF Constants, States
<1>1. TypeOK'
  <2> USE DEF InnerPending, InnerEnd
  <2>1. /\ lead' \in 0 .. Tau + T
        /\ lag' \in [Users -> 0 .. MaxLag]
        /\ owed' \in [Users -> 0 .. T]
        /\ left' \in [Users -> 0 .. T + MaxLag + JitterMax]
    BY DEF IInv, TypeOK, delays, Pending, Users
  <2>2. /\ state' \in [Users -> States]
        /\ pc' \in [Users -> {"out", "loop", "reference", "reset"}]
    BY DEF Pending, IInv, TypeOK, Users
  <2>3. /\ waker' \in [Users -> SUBSET {"inner", "delay"}]
        /\ woken' \in [Users -> BOOLEAN]
    BY PendingType DEF IInv, TypeOK, Users
  <2>4. UNCHANGED <<buf, given, read, granted, sent, cells, panicked>>
    BY DEF streams, sinks
  <2> QED
    BY <2>1, <2>2, <2>3, <2>4 DEF IInv, TypeOK
<1>2. Control'
  BY DEF InnerPending, InnerEnd, Pending, IInv, TypeOK, Control, Users
<1>3. DelayNotShort'
  BY DEF InnerPending, InnerEnd, Pending, IInv, TypeOK, Control, DelayNotShort,
         delays, Users
<1>4. ASSUME NEW s \in Streams
      PROVE  StreamOK(s)'
  <2>1. StreamOK(s)
    BY DEF IInv
  <2> QED
    BY <2>1, SameStream
       DEF InnerPending, InnerEnd, Pending, streams, IInv, TypeOK, Control,
           Users
<1>5. ASSUME NEW k \in Sinks
      PROVE  SinkOK(k)'
  <2>1. SinkOK(k)
    BY DEF IInv
  <2> QED
    BY <2>1, SameSink
       DEF InnerPending, InnerEnd, Pending, sinks, SinkOK, IInv, TypeOK,
           Control, Users
<1> QED
  BY <1>1, <1>2, <1>3, <1>4, <1>5 DEF IInv

LEMMA InsideStep ==
  ASSUME IInv, NEW u \in Users, Inside(u)
  PROVE  IInv'
<1> USE ConstantsType DEF Constants, States
<1>1. TypeOK'
  BY DEF Inside, IInv, TypeOK, streams, sinks, delays, Users
<1>2. Control'
  BY DEF Inside, IInv, TypeOK, Control, Users
<1>3. DelayNotShort'
  BY DEF Inside, IInv, TypeOK, Control, DelayNotShort, delays, Users
<1>4. ASSUME NEW s \in Streams
      PROVE  StreamOK(s)'
  <2>1. StreamOK(s)
    BY DEF IInv
  <2> QED
    BY <2>1, SameStream DEF Inside, streams, IInv, TypeOK, Control, Users
<1>5. ASSUME NEW k \in Sinks
      PROVE  SinkOK(k)'
  <2>1. SinkOK(k)
    BY DEF IInv
  <2> QED
    BY <2>1, SameSink DEF Inside, sinks, SinkOK, IInv, TypeOK, Control, Users
<1> QED
  BY <1>1, <1>2, <1>3, <1>4, <1>5 DEF IInv

LEMMA IntoInnerStep ==
  ASSUME IInv, NEW u \in Users, IntoInner(u)
  PROVE  IInv'
<1> USE ConstantsType DEF Constants, States
<1>1. TypeOK'
  BY DEF IntoInner, IInv, TypeOK, streams, sinks, delays, Users
<1>2. Control'
  BY DEF IntoInner, IInv, TypeOK, Control, Users
<1>3. DelayNotShort'
  BY DEF IntoInner, IInv, TypeOK, Control, DelayNotShort, delays, Users
<1>4. ASSUME NEW s \in Streams
      PROVE  StreamOK(s)'
  <2>1. StreamOK(s)
    BY DEF IInv
  <2> QED
    BY <2>1, SameStream DEF IntoInner, streams, IInv, TypeOK, Control, Users
<1>5. ASSUME NEW k \in Sinks
      PROVE  SinkOK(k)'
  <2>1. SinkOK(k)
    BY DEF IInv
  <2> QED
    BY <2>1, SameSink
       DEF IntoInner, sinks, SinkOK, IInv, TypeOK, Control, Users
<1> QED
  BY <1>1, <1>2, <1>3, <1>4, <1>5 DEF IInv
-----------------------------------------------------------------------------
(* The steps that move an item or take a cell. *)
LEMMA InnerItemStep ==
  ASSUME IInv, NEW u \in Streams, InnerItem(u)
  PROVE  IInv'
<1> USE ConstantsType DEF Constants, States
<1>1. TypeOK'
  <2>1. read[u] + 1 \in 0 .. Items
    BY DEF InnerItem, IInv, TypeOK
  <2>2. /\ read' \in [Streams -> 0 .. Items]
        /\ buf' \in [Streams -> 0 .. Items]
        /\ state' \in [Users -> States]
    BY <2>1 DEF InnerItem, IInv, TypeOK
  <2>3. UNCHANGED <<lead, pc, lag, owed, left, waker, woken, given, granted,
                    sent, cells, panicked>>
    BY DEF InnerItem, delays, sinks
  <2> QED
    BY <2>2, <2>3 DEF IInv, TypeOK
<1>2. Control' /\ DelayNotShort'
  BY DEF InnerItem, IInv, TypeOK, Control, DelayNotShort, delays, Users
<1>3. ASSUME NEW s \in Streams
      PROVE  StreamOK(s)'
  <2>1. StreamOK(s) /\ StreamOK(u)
    BY DEF IInv
  <2>2. CASE s = u
    BY <2>1, <2>2 DEF InnerItem, StreamOK, Held, IInv, TypeOK, Users
  <2>3. CASE s # u
    BY <2>1, <2>3, SameStream DEF InnerItem, IInv, TypeOK, Users
  <2> QED
    BY <2>2, <2>3
<1>4. ASSUME NEW k \in Sinks
      PROVE  SinkOK(k)'
  <2>1. SinkOK(k)
    BY DEF IInv
  <2> QED
    BY <2>1, SameSink DEF InnerItem, sinks, SinkOK, IInv, TypeOK, Users
<1> QED
  BY <1>1, <1>2, <1>3, <1>4 DEF IInv

LEMMA StoredType ==
  ASSUME IInv, Passes(lead, 0), lead' = Stored(lead, 0)
  PROVE  lead' \in 0 .. Tau + T
BY LoneCell, ConstantsType DEF IInv, TypeOK, Constants

LEMMA YieldStep ==
  ASSUME IInv, NEW u \in Streams, Yield(u)
  PROVE  IInv'
<1> USE ConstantsType DEF Constants, States
<1>1. /\ StreamOK(u)
      /\ state[u] = "NotReady" /\ buf[u] = read[u] /\ buf[u] \in 1 .. Items
  BY DEF Yield, IInv, TypeOK, Control, StreamOK, Users
<1>2. /\ given[u] = FirstItems(read[u] - 1)
      /\ Append(given[u], buf[u]) = FirstItems(read[u])
      /\ Append(given[u], buf[u]) \in Seq(1 .. Items)
  <2>1. given[u] = FirstItems(read[u] - 1)
    BY <1>1 DEF StreamOK, Held
  <2>2. read[u] - 1 \in Nat /\ (read[u] - 1) + 1 = read[u]
    BY <1>1
  <2>3. Append(given[u], buf[u]) = FirstItems(read[u])
    BY <1>1, <2>1, <2>2, FirstItemsFacts
  <2>4. given[u] \in Seq(1 .. Items)
    BY DEF IInv, TypeOK
  <2> QED
    BY <1>1, <2>1, <2>3, <2>4
<1>3. lead' \in 0 .. Tau + T
  BY StoredType DEF Yield
<1>4. TypeOK'
  <2>1. /\ given' \in [Streams -> Seq(1 .. Items)]
        /\ buf' \in [Streams -> 0 .. Items]
        /\ cells' \in [Users -> Nat]
    <3>1. /\ buf[u] # 0
          /\ given' = [given EXCEPT ![u] = IF buf[u] = 0 THEN given[u]
                                         ELSE Append(given[u], buf[u])]
      BY <1>1 DEF Yield
    <3>2. given' \in [Streams -> Seq(1 .. Items)]
      BY <1>2, <3>1 DEF IInv, TypeOK
    <3>3. cells[u] + 1 \in Nat
      BY DEF IInv, TypeOK, Users
    <3>4. cells' = [cells EXCEPT ![u] = cells[u] + 1]
      BY DEF Yield
    <3>5. cells' \in [Users -> Nat]
      BY <3>3, <3>4 DEF IInv, TypeOK
    <3>6. buf' = [buf EXCEPT ![u] = 0] /\ 0 \in 0 .. Items
      BY DEF Yield
    <3>7. buf' \in [Streams -> 0 .. Items]
      BY <3>6 DEF IInv, TypeOK
    <3> QED
      BY <3>2, <3>5, <3>7
  <2>2. /\ state' \in [Users -> States]
        /\ pc' \in [Users -> {"out", "loop", "reference", "reset"}]
        /\ lag' \in [Users -> 0 .. MaxLag]
        /\ woken' \in [Users -> BOOLEAN]
        /\ UNCHANGED <<owed, left, waker, read, granted, sent, panicked>>
    BY DEF Yield, Ready, sinks, IInv, TypeOK, Users
  <2> QED
    BY <1>3, <2>1, <2>2 DEF IInv, TypeOK
<1>5. Control' /\ DelayNotShort'
  BY DEF Yield, Ready, IInv, TypeOK, Control, DelayNotShort, Users
<1>6. ASSUME NEW s \in Streams
      PROVE  StreamOK(s)'
  <2>1. StreamOK(s)
    BY DEF IInv
  <2>2. CASE s = u
    <3>1. /\ state'[u] = "ReadInner" /\ buf'[u] = 0 /\ read'[u] = read[u]
          /\ given'[u] = FirstItems(read[u])
          /\ cells'[u] = cells[u] + 1
      <4>1. state'[u] = "ReadInner" /\ cells'[u] = cells[u] + 1
        BY DEF Yield, IInv, TypeOK, Users
      <4>2. buf'[u] = 0 /\ read'[u] = read[u]
        BY DEF Yield, IInv, TypeOK
      <4>3. given'[u] = Append(given[u], buf[u])
        BY <1>1 DEF Yield, IInv, TypeOK
      <4> QED
        BY <1>2, <4>1, <4>2, <4>3
    <3>2. cells[u] = read[u] - 1 /\ read[u] \in Nat
      BY <1>1 DEF StreamOK, Held
    <3> QED
      BY <2>2, <3>1, <3>2 DEF StreamOK, Held
  <2>3. CASE s # u
    BY <2>1, <2>3, SameStream DEF Yield, IInv, TypeOK, Users
  <2> QED
    BY <2>2, <2>3
<1>7. ASSUME NEW k \in Sinks
      PROVE  SinkOK(k)'
  <2>1. SinkOK(k)
    BY DEF IInv
  <2> QED
    BY <2>1, SameSink DEF Yield, Ready, sinks, SinkOK, IInv, TypeOK, Users
<1> QED
  BY <1>4, <1>5, <1>6, <1>7 DEF IInv

LEMMA GrantStep ==
  ASSUME IInv, NEW u \in Sinks, Grant(u)
  PROVE  IInv'
<1> USE ConstantsType DEF Constants, States
<1>1. state[u] = "NotReady" /\ cells[u] = sent[u]
  BY DEF Grant, IInv, Control, SinkOK, Users
<1>2. lead' \in 0 .. Tau + T
  BY StoredType DEF Grant
<1>3. TypeOK'
  <2>1. cells[u] + 1 \in Nat
    BY DEF IInv, TypeOK, Users
  <2>2. /\ cells' \in [Users -> Nat]
        /\ state' \in [Users -> States]
        /\ pc' \in [Users -> {"out", "loop", "reference", "reset"}]
        /\ lag' \in [Users -> 0 .. MaxLag]
    <3>1. /\ cells' = [cells EXCEPT ![u] = cells[u] + 1]
          /\ state' = [state EXCEPT ![u] = "Ready"]
          /\ pc' = [pc EXCEPT ![u] = "loop"]
          /\ lag' = [lag EXCEPT ![u] = 0]
      BY DEF Grant
    <3>2. cells' \in [Users -> Nat]
      BY <2>1, <3>1 DEF IInv, TypeOK
    <3>3. state' \in [Users -> States]
      BY <3>1 DEF IInv, TypeOK
    <3>4. pc' \in [Users -> {"out", "loop", "reference", "reset"}]
      BY <3>1 DEF IInv, TypeOK
    <3>5. lag' \in [Users -> 0 .. MaxLag]
      <4>1. 0 \in 0 .. MaxLag
        OBVIOUS
      <4>2. lag \in [Users -> 0 .. MaxLag]
        BY DEF IInv, TypeOK
      <4> QED
        BY <3>1, <4>1, <4>2
    <3> QED
      BY <3>2, <3>3, <3>4, <3>5
  <2>3. UNCHANGED <<owed, left, waker, woken, buf, given, read, granted, sent,
                    panicked>>
    BY DEF Grant, streams, sinks
  <2> QED
    BY <1>2, <2>2, <2>3 DEF IInv, TypeOK
<1>4. Control' /\ DelayNotShort'
  BY DEF Grant, IInv, TypeOK, Control, DelayNotShort, Users
<1>5. ASSUME NEW s \in Streams
      PROVE  StreamOK(s)'
  <2>1. StreamOK(s)
    BY DEF IInv
  <2> QED
    BY <2>1, SameStream DEF Grant, streams, IInv, TypeOK, Users
<1>6. ASSUME NEW k \in Sinks
      PROVE  SinkOK(k)'
  <2>1. SinkOK(k)
    BY DEF IInv
  <2>2. CASE k = u
    BY <1>1, <2>1, <2>2 DEF Grant, SinkOK, sinks, IInv, TypeOK, Users
  <2>3. CASE k # u
    BY <2>1, <2>3, SameSink DEF Grant, SinkOK, sinks, IInv, TypeOK, Users
  <2> QED
    BY <2>2, <2>3
<1> QED
  BY <1>3, <1>4, <1>5, <1>6 DEF IInv

LEMMA InnerAnswerStep ==
  ASSUME IInv, NEW u \in Sinks, InnerBusy(u) \/ InnerReady(u) \/ InnerFails(u)
  PROVE  IInv'
<1> USE ConstantsType DEF Constants, States
<1>1. TypeOK'
  <2>1. /\ waker' \in [Users -> SUBSET {"inner", "delay"}]
        /\ woken' \in [Users -> BOOLEAN]
    BY PendingType DEF InnerBusy, InnerReady, InnerFails, Ready, IInv, TypeOK,
       Users
  <2>2. /\ pc' \in [Users -> {"out", "loop", "reference", "reset"}]
        /\ granted' \in [Sinks -> BOOLEAN]
        /\ UNCHANGED <<lead, state, lag, owed, left, buf, given, read, sent,
                       cells, panicked>>
    BY DEF InnerBusy, InnerReady, InnerFails, Ready, Pending, delays, streams,
       IInv, TypeOK
  <2> QED
    BY <2>1, <2>2 DEF IInv, TypeOK
<1>2. Control' /\ DelayNotShort'
  BY DEF InnerBusy, InnerReady, InnerFails, Pending, Ready, IInv, TypeOK,
         Control, DelayNotShort, delays, Users
<1>3. ASSUME NEW s \in Streams
      PROVE  StreamOK(s)'
  <2>1. StreamOK(s)
    BY DEF IInv
  <2> QED
    BY <2>1, SameStream
       DEF InnerBusy, InnerReady, InnerFails, Pending, Ready, streams, IInv,
           TypeOK, Users
<1>4. ASSUME NEW k \in Sinks
      PROVE  SinkOK(k)'
  <2>1. SinkOK(k) /\ SinkOK(u)
    BY DEF IInv
  <2>2. CASE k = u
    BY <2>1, <2>2
       DEF InnerBusy, InnerReady, InnerFails, Pending, Ready, SinkOK, IInv,
           TypeOK, Control, Users
  <2>3. CASE k # u
    BY <2>1, <2>3
       DEF InnerBusy, InnerReady, InnerFails, Pending, Ready, SinkOK, IInv,
           TypeOK, Users
  <2> QED
    BY <2>2, <2>3
<1> QED
  BY <1>1, <1>2, <1>3, <1>4 DEF IInv

LEMMA StartSendStep ==
  ASSUME IInv, NEW u \in Sinks, StartSend(u)
  PROVE  IInv'
<1> USE ConstantsType DEF Constants, States
<1>0. state[u] = "Ready" /\ sent[u] < Items
  BY DEF StartSend, IInv, SinkOK
<1>1. TypeOK'
  <2>1. /\ granted' \in [Sinks -> BOOLEAN]
        /\ state' \in [Users -> States]
        /\ sent' \in [Sinks -> 0 .. Items]
    <3>1. sent[u] + 1 \in 0 .. Items
      BY <1>0 DEF IInv, TypeOK
    <3>2. /\ granted' = [granted EXCEPT ![u] = FALSE]
          /\ state' = [state EXCEPT ![u] = "NotReady"]
          /\ sent' = [sent EXCEPT ![u] = sent[u] + 1]
      BY <1>0 DEF StartSend
    <3> QED
      BY <3>1, <3>2 DEF IInv, TypeOK
  <2>2. UNCHANGED <<lead, pc, lag, owed, left, waker, woken, buf, given, read,
                    cells, panicked>>
    BY <1>0 DEF StartSend, delays, streams
  <2> QED
    BY <2>1, <2>2 DEF IInv, TypeOK
<1>2. Control' /\ DelayNotShort'
  BY DEF StartSend, IInv, TypeOK, Control, DelayNotShort, delays, Users
<1>3. ASSUME NEW s \in Streams
      PROVE  StreamOK(s)'
  <2>1. StreamOK(s)
    BY DEF IInv
  <2> QED
    BY <2>1, SameStream DEF StartSend, streams, IInv, TypeOK, Users
<1>4. ASSUME NEW k \in Sinks
      PROVE  SinkOK(k)'
  <2>1. SinkOK(k) /\ SinkOK(u)
    BY DEF IInv
  <2>2. CASE k = u
    BY <2>1, <2>2 DEF StartSend, SinkOK, IInv, TypeOK, Control, Users
  <2>3. CASE k # u
    BY <2>1, <2>3 DEF StartSend, SinkOK, IInv, TypeOK, Users
  <2> QED
    BY <2>2, <2>3
<1> QED
  BY <1>1, <1>2, <1>3, <1>4 DEF IInv

-----------------------------------------------------------------------------
LEMMA NextIInv == IInv /\ [Next]_vars => IInv'
<1> SUFFICES ASSUME IInv, [Next]_vars
             PROVE  IInv'
  OBVIOUS
<1>1. CASE Tick
  BY <1>1, TickStep
<1>2. CASE \E u \in Users : Poll(u) \/ Step(u) \/ IntoInner(u)
  <2> SUFFICES ASSUME NEW u \in Users, Poll(u) \/ Step(u) \/ IntoInner(u)
               PROVE  IInv'
    BY <1>2
  <2>1. CASE Poll(u)
    BY <2>1, PollStep
  <2>2. CASE Step(u)
    BY <2>2, WakeStep, ReadReferenceStep, RefuseStep, DelayStep, StreamOutStep,
       YieldStep, GrantStep, StartSendStep
       DEF Step
  <2>3. CASE IntoInner(u)
    BY <2>3, IntoInnerStep
  <2> QED
    BY <2>1, <2>2, <2>3
<1>3. CASE \E s \in Streams : InnerPending(s) \/ InnerItem(s) \/ PassToSink(s)
  BY <1>3, StreamOutStep, InnerItemStep, InsideStep DEF PassToSink, Users
<1>4. CASE \E k \in Sinks :
             InnerBusy(k) \/ InnerReady(k) \/ InnerFails(k) \/ PassToInner(k)
  BY <1>4, InnerAnswerStep, InsideStep DEF PassToInner, Users
<1>5. CASE UNCHANGED vars
  BY <1>5
     DEF vars, delays, streams, sinks, IInv, TypeOK, Control, DelayNotShort,
         StreamOK, Held, SinkOK
<1> QED
  BY <1>1, <1>2, <1>3, <1>4, <1>5 DEF Next

LEMMA Invariance == Spec => []IInv
<1> QED
  BY InitIInv, NextIInv, PTL DEF Spec

(* The state of every combinator, every wait and every count stays within   *)
(* its type; in particular no wait outgrows one cell's interval, the lag    *)
(* and the jitter.                                                          *)
THEOREM TypeCorrect == Spec => []TypeOK
<1>1. IInv => TypeOK
  BY DEF IInv
<1> QED
  BY <1>1, Invariance, PTL

(* RatelimitedStream loses, duplicates and reorders no item, in poll_next   *)
(* with any interleaving of other tasks, and in into_inner.                 *)
THEOREM StreamsKeepItems == Spec => []NothingLost
<1>1. IInv => NothingLost
  <2> SUFFICES ASSUME IInv, NEW s \in Streams
               PROVE  given[s] \o (IF buf[s] = 0 THEN <<>> ELSE <<buf[s]>>)
                        = FirstItems(read[s])
    BY DEF NothingLost, FirstItems
  <2>1. StreamOK(s) /\ read[s] \in Nat
    BY DEF IInv, TypeOK
  <2>2. CASE buf[s] = 0
    <3>1. given[s] = FirstItems(read[s])
      BY <2>1, <2>2 DEF StreamOK, Held
    <3> QED
      BY <2>1, <2>2, <3>1, FirstItemsFacts
  <2>3. CASE buf[s] # 0
    <3>1. /\ given[s] = FirstItems(read[s] - 1)
          /\ buf[s] = (read[s] - 1) + 1
          /\ read[s] - 1 \in Nat
      BY <2>1, <2>3 DEF StreamOK, Held
    <3>2. (read[s] - 1) + 1 = read[s]
      BY <2>1
    <3>3. FirstItems(read[s] - 1) \o <<(read[s] - 1) + 1>>
            = FirstItems((read[s] - 1) + 1)
      BY <3>1, FirstItemsFacts
    <3> QED
      BY <2>3, <3>1, <3>2, <3>3
  <2> QED
    BY <2>2, <2>3
<1> QED
  BY <1>1, Invariance, PTL

(* A stream and a sink pay the limiter one cell for an item, a sink at most *)
(* one of them ahead.                                                       *)
THEOREM ItemsPaidOnce == Spec => []OneCellPerItem
<1>1. IInv => OneCellPerItem
  <2> SUFFICES ASSUME IInv
               PROVE  OneCellPerItem
    OBVIOUS
  <2>1. ASSUME NEW s \in Streams
        PROVE  cells[s] = Len(given[s])
    <3>1. /\ given[s] = FirstItems(read[s] - Held(s))
          /\ cells[s] = read[s] - Held(s)
          /\ cells[s] \in Nat
      BY DEF IInv, TypeOK, StreamOK, Users
    <3> QED
      BY <3>1, FirstItemsFacts
  <2>2. ASSUME NEW k \in Sinks
        PROVE  sent[k] <= cells[k] /\ cells[k] <= sent[k] + 1
    BY DEF IInv, SinkOK
  <2> QED
    BY <2>1, <2>2 DEF OneCellPerItem
<1> QED
  BY <1>1, Invariance, PTL

(* The panics of RatelimitedSink::start_send are out of reach of a task     *)
(* that keeps to the contract of Sink.                                      *)
THEOREM SendNeverPanics == Spec => []NoPanic
<1>1. IInv => NoPanic
  BY DEF IInv, SinkOK, NoPanic
<1> QED
  BY <1>1, Invariance, PTL

(* A Delay is never due before the limiter is, although the wait that it is *)
(* reset with was counted from an older reading of the clock.               *)
THEOREM DelaysLongEnough == Spec => []NotAskedEarly
<1>1. IInv => NotAskedEarly
  BY DEF IInv, DelayNotShort, NotAskedEarly
<1> QED
  BY <1>1, Invariance, PTL
=============================================================================
