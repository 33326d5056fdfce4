----------------------------- MODULE FakeClock -----------------------------
(***************************************************************************)
(* FakeRelativeClock (clock.rs): clones of one clock on several threads,   *)
(* one AtomicU64 that `advance` moves on with a compare-and-swap loop and  *)
(* that `now` loads with Ordering::Relaxed.                                *)
(*                                                                         *)
(* `mo` is the modification order of the word.  A load may return any word *)
(* in it that is not older than what its thread has already seen or stored,*)
(* or than what a thread it synchronised with had.                         *)
(*                                                                         *)
(* `total`, `known` and `floor` are history variables: by how much the     *)
(* clock was advanced in all, how much of that, of each thread, happened   *)
(* before what a thread does now, and the time a thread can count on.      *)
(***************************************************************************)
EXTENDS Nanos, Sequences, Functions

CONSTANTS
  Threads,
  Steps,            \* by how much `advance` moves the clock
  MaxAdvances       \* bound: the number of calls of `advance`

ASSUME FakeClockAssumption ==
  /\ Steps \subseteq Nanos
  /\ MaxAdvances \in Nat
  /\ \A by \in Steps : MaxAdvances * by < U64

VARIABLES
  mo, seen,
  pc, by,           \* where in advance a thread is, and by how much
  next,             \* what it is going to store
  calls, total, known, floor

vars == <<mo, seen, pc, by, next, calls, total, known, floor>>

history == <<calls, total, known, floor>>

Latest == mo[Len(mo)]

(* No time is shown that nobody advanced the clock to. *)
TypeOK ==
  /\ mo \in Seq(0 .. total)
  /\ seen \in [Threads -> 1 .. Len(mo)]
  /\ pc \in [Threads -> {"idle", "load", "cas"}]
  /\ by \in [Threads -> Steps \cup {0}]
  /\ next \in [Threads -> Nanos]
  /\ calls \in 0 .. MaxAdvances
  /\ total \in Nanos
  /\ known \in [Threads -> [Threads -> Nat]]
  /\ floor \in [Threads -> Nat]

Init ==
  /\ mo = <<0>>
  /\ seen = [th \in Threads |-> 1]
  /\ pc = [th \in Threads |-> "idle"]
  /\ by = [th \in Threads |-> 0]
  /\ next = [th \in Threads |-> 0]
  /\ calls = 0
  /\ total = 0
  /\ known = [th \in Threads |-> [o \in Threads |-> 0]]
  /\ floor = [th \in Threads |-> 0]

-----------------------------------------------------------------------------
Advance(th, d) ==
  /\ pc[th] = "idle"
  /\ calls < MaxAdvances
  /\ calls' = calls + 1
  /\ pc' = [pc EXCEPT ![th] = "load"]
  /\ by' = [by EXCEPT ![th] = d]
  /\ UNCHANGED <<mo, seen, next, total, known, floor>>

(* A thread has read the word at place j. *)
Observe(th, j) ==
  /\ seen' = [seen EXCEPT ![th] = j]
  /\ next' = [next EXCEPT ![th] = Add(mo[j], by[th])]
  /\ pc' = [pc EXCEPT ![th] = "cas"]
  /\ UNCHANGED <<mo, by, history>>

Load(th) ==
  /\ pc[th] = "load"
  /\ \E j \in seen[th] .. Len(mo) : Observe(th, j)

(* Faulty: next is not computed anew from the word that a failure reports,  *)
(* or from the wrong one; or that word is not kept for the next exchange.   *)
CasFailNextKept(th) ==
  /\ pc[th] = "cas"
  /\ \E j \in seen[th] .. Len(mo) : seen' = [seen EXCEPT ![th] = j]
  /\ UNCHANGED <<mo, pc, by, next, history>>

CasFailAddsAgain(th) ==
  /\ pc[th] = "cas"
  /\ \E j \in seen[th] .. Len(mo) : seen' = [seen EXCEPT ![th] = j]
  /\ next' = [next EXCEPT ![th] = Add(@, by[th])]
  /\ UNCHANGED <<mo, pc, by, history>>

CasFailForgetful(th) ==
  /\ pc[th] = "cas"
  /\ UNCHANGED vars

(* compare_exchange_weak may fail without a reason, and the word a failure  *)
(* reports need not be the latest one.                                      *)
CasFail(th) ==
  /\ pc[th] = "cas"
  /\ \E j \in seen[th] .. Len(mo) : Observe(th, j)

(* What is stored, and what the thread knows as advance returns. *)
Store(th) ==
  /\ mo' = Append(mo, next[th])
  /\ seen' = [seen EXCEPT ![th] = Len(mo) + 1]
  /\ pc' = [pc EXCEPT ![th] = "idle"]
  /\ by' = [by EXCEPT ![th] = 0]
  /\ next' = [next EXCEPT ![th] = 0]
  /\ total' = Add(total, by[th])
  /\ known' = [known EXCEPT ![th][th] = @ + by[th]]
  /\ floor' = [floor EXCEPT ![th] = @ + by[th]]
  /\ UNCHANGED calls

(* Faulty: a plain store, which overwrites what others stored meanwhile. *)
CasOkStore(th) ==
  /\ pc[th] = "cas"
  /\ Store(th)

(* The exchange compares the words, not their places in the order. *)
CasOk(th) ==
  /\ pc[th] = "cas"
  /\ mo[seen[th]] = Latest
  /\ Store(th)

(* What `now` and eq may show a thread. *)
Shown(th) == {mo[j] : j \in seen[th] .. Len(mo)}

Now(th) ==
  /\ pc[th] = "idle"
  /\ \E j \in seen[th] .. Len(mo) :
       /\ seen' = [seen EXCEPT ![th] = j]
       /\ floor' = [floor EXCEPT ![th] = mo[j]]
  /\ UNCHANGED <<mo, pc, by, next, calls, total, known>>

(* `to` learns in some other way what `from` has done so far: a clone of    *)
(* the clock handed over, a thread joined, a lock.                          *)
Sync(from, to) ==
  /\ pc[from] = "idle" /\ pc[to] = "idle"
  /\ seen' = [seen EXCEPT ![to] = MaxOf(@, seen[from])]
  /\ known' = [known EXCEPT ![to] =
                 [o \in Threads |-> MaxOf(@[o], known[from][o])]]
  /\ floor' = [floor EXCEPT ![to] = MaxOf(@, floor[from])]
  /\ UNCHANGED <<mo, pc, by, next, calls, total>>

-----------------------------------------------------------------------------
Next ==
  \E th \in Threads :
    \/ \E d \in Steps : Advance(th, d)
    \/ Load(th) \/ CasFail(th) \/ CasOk(th)
    \/ Now(th)
    \/ \E o \in Threads \ {th} : Sync(th, o)

Spec == Init /\ [][Next]_vars

(* A thread in a call keeps running.  A failed exchange sooner or later     *)
(* reports a store it missed, and an exchange that nobody disturbs sooner   *)
(* or later succeeds.                                                       *)
CasRefresh(th) ==
  /\ pc[th] = "cas"
  /\ mo[seen[th]] # Latest
  /\ CasFail(th)
  /\ seen'[th] = Len(mo)

FairSpec ==
  /\ Spec
  /\ \A th \in Threads :
       WF_vars(Load(th)) /\ WF_vars(CasRefresh(th)) /\ WF_vars(CasOk(th))

-----------------------------------------------------------------------------
(* Concurrent calls of advance lose no time, however they interleave: when  *)
(* they have returned, the clock has moved by the sum of them all.          *)
NoTimeLost == Latest = total

(* "Clones of this clock will all show the same time, even if the original  *)
(* advances" (clock.rs:124-126): whatever now returns, although its load is *)
(* relaxed, includes every advance that happened before the call, by this   *)
(* thread or by one it synchronised with.                                   *)
AdvancesShow ==
  \A th \in Threads : pc[th] = "idle" =>
    \A time \in Shown(th) : time >= SumFunction(known[th])

(* A thread that reads the clock, advances it and reads it again sees it    *)
(* move by at least as much (fake_clock_parallel_advances, clock.rs:200),   *)
(* and so does one that is handed such a reading.                           *)
TimeMovesOn ==
  \A th \in Threads : pc[th] = "idle" =>
    \A time \in Shown(th) : time >= floor[th]

(* Every advance returns, although exchanges fail. *)
AdvanceReturns == \A th \in Threads : pc[th] # "idle" ~> pc[th] = "idle"
=============================================================================
