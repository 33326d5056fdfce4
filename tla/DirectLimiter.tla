--------------------------- MODULE DirectLimiter ---------------------------
(***************************************************************************)
(* A direct (not keyed) rate limiter shared by several threads:            *)
(* RateLimiter::check and check_n (state/direct.rs) measure the clock and  *)
(* run the compare-and-swap loop of InMemoryState (state/in_memory.rs)     *)
(* over one AtomicU64.                                                     *)
(*                                                                         *)
(* The atomic is modelled by its modification order `mo`: the words ever   *)
(* stored in it, oldest first.  The orderings the code asks for (Acquire   *)
(* load, Release on success, Relaxed on failure) oblige a load to return   *)
(* no word older than one its thread has already seen, and nothing more;   *)
(* only a successful exchange is sure to have read the latest.             *)
(*                                                                         *)
(* `admitted` and `total` are history variables: what was let through, in  *)
(* commit order, which the code does not record.                           *)
(***************************************************************************)
EXTENDS Gcra, Sequences

CONSTANTS
  Threads,          \* the threads that share the limiter
  Sizes,            \* the batch sizes n they pass to check_n
  MaxBurst,         \* the two fields of the limiter's Quota
  Replenish1Per,
  Start,            \* the clock's reading when the limiter was built
  MaxClock,         \* bound: the clock's last reading
  Monotonic         \* FALSE: SystemClock, which may be set back

gcra == GcraNew([max_burst |-> MaxBurst, replenish_1_per |-> Replenish1Per])

T == gcra.t

Tau == gcra.tau

(* The limiter is not asked to outlive its 64-bit nanoseconds, and no batch *)
(* is so large that its weight wraps (what happens then: SnapshotLimiter).  *)
ASSUME LimiterAssumption ==
  /\ Sizes \subseteq Nat \ {0}
  /\ MaxBurst \in 1 .. U32 - 1
  /\ Replenish1Per \in Nat
  /\ Start \in Nat
  /\ MaxClock \in Nat
  /\ Start <= MaxClock
  /\ Monotonic \in BOOLEAN

ASSUME LifetimeAssumption ==
  /\ T * (MaxBurst - 1) < U64
  /\ MaxClock + 2 * Tau + T < U64

ASSUME BatchAssumption == \A n \in Sizes : T * (n - 1) < U64

VARIABLES clock, mo, seen, pc, req, out, admitted, total

vars == <<clock, mo, seen, pc, req, out, admitted, total>>

Latest == mo[Len(mo)]

(* The longest time a thread can measure since the limiter was built. *)
Lifetime == MaxClock - Start

NoReq == [t0 |-> 0, n |-> 0, add |-> 0]

Requests ==
  [t0 : 0 .. Lifetime, n : Sizes \cup {0, 1}, add : 0 .. Tau]

(* What a call returned last: `at` is the earliest time of a NotUntil and   *)
(* the capacity of an InsufficientCapacity.                                 *)
Outcome(kind, at, add) == [kind |-> kind, at |-> at, add |-> add]

Kinds == {"none", "allowed", "not_until", "insufficient"}

TypeOK ==
  /\ clock \in 0 .. MaxClock
  /\ mo \in Seq(Nanos)
  /\ Len(mo) > 0
  /\ seen \in [Threads -> 1 .. Len(mo)]
  /\ pc \in [Threads -> {"idle", "load", "cas"}]
  /\ req \in [Threads -> Requests]
  /\ out \in [Threads -> [kind : Kinds, at : Nat, add : 0 .. Tau]]
  /\ admitted \subseteq [t0 : 0 .. Lifetime, w : Nat, cum : Nat]
  /\ total \in Nat

Init ==
  /\ clock = Start
  /\ mo = <<0>>
  /\ seen = [th \in Threads |-> 1]
  /\ pc = [th \in Threads |-> "idle"]
  /\ req = [th \in Threads |-> NoReq]
  /\ out = [th \in Threads |-> Outcome("none", 0, 0)]
  /\ admitted = {}
  /\ total = 0

-----------------------------------------------------------------------------
Tick ==
  /\ clock < MaxClock
  /\ clock' = clock + 1
  /\ UNCHANGED <<mo, seen, pc, req, out, admitted, total>>

(* SystemTime may be set to any earlier reading, also before Start. *)
StepBack ==
  /\ ~Monotonic
  /\ clock' \in 0 .. clock - 1
  /\ UNCHANGED <<mo, seen, pc, req, out, admitted, total>>

-----------------------------------------------------------------------------
(* Faulty: wraps when the clock was set back before Start. *)
MeasuredWrapping == (clock + U64 - Start) % U64

(* The clock is read once, before the stored word is. *)
Measured == SaturatingSub(clock, Start)

Enter(th, n, add) ==
  /\ pc[th] = "idle"
  /\ pc' = [pc EXCEPT ![th] = "load"]
  /\ req' = [req EXCEPT ![th] = [t0 |-> Measured, n |-> n, add |-> add]]
  /\ UNCHANGED <<clock, mo, seen, out, admitted, total>>

Check(th) == Enter(th, 1, 0)

(* Faulty: batches of any size are looked at. *)
CheckNUnbounded(th, n) == Enter(th, n, AdditionalWeight(gcra, n))

CheckN(th, n) ==
  LET add == AdditionalWeight(gcra, n)
  IN  /\ ~ExceedsCapacity(gcra, add)
      /\ Enter(th, n, add)

(* InsufficientCapacity is returned before the state is looked at. *)
RejectN(th, n) ==
  /\ pc[th] = "idle"
  /\ ExceedsCapacity(gcra, AdditionalWeight(gcra, n))
  /\ out' = [out EXCEPT ![th] = Outcome("insufficient", Capacity(gcra), 0)]
  /\ UNCHANGED <<clock, mo, seen, pc, req, admitted, total>>

-----------------------------------------------------------------------------
DecisionAt(th, j) == Decision(gcra, mo[j], req[th].t0, req[th].add)

Return(th, outcome) ==
  /\ pc' = [pc EXCEPT ![th] = "idle"]
  /\ req' = [req EXCEPT ![th] = NoReq]
  /\ out' = [out EXCEPT ![th] = outcome]

(* The closure runs on the word at place j of the modification order: a     *)
(* refusal is returned at once, else there is an exchange to try.           *)
Decide(th, j) ==
  LET decision == DecisionAt(th, j)
  IN  \/ /\ decision.ok
         /\ pc' = [pc EXCEPT ![th] = "cas"]
         /\ UNCHANGED <<req, out>>
      \/ /\ ~decision.ok
         /\ Return(th, Outcome("not_until", decision.state.tat, req[th].add))

(* Faulty: the word a failed exchange reports is not kept for the next one. *)
ObserveForgetful(th, j) ==
  /\ seen' = [seen EXCEPT ![th] = IF pc[th] = "load" THEN j ELSE @]
  /\ Decide(th, j)
  /\ UNCHANGED <<clock, mo, admitted, total>>

Observe(th, j) ==
  /\ seen' = [seen EXCEPT ![th] = j]
  /\ Decide(th, j)
  /\ UNCHANGED <<clock, mo, admitted, total>>

Load(th) ==
  /\ pc[th] = "load"
  /\ \E j \in seen[th] .. Len(mo) : Observe(th, j)

(* The call admits its cells and returns. *)
Admit(th) ==
  LET w == T * req[th].n
  IN  /\ Return(th, Outcome("allowed", 0, 0))
      /\ total' = total + w
      /\ admitted' = admitted \cup
           {[t0 |-> req[th].t0, w |-> w, cum |-> total + w]}

(* Faulty: the closure does not run again, its first decision stands; or a *)
(* failed exchange passes for one that succeeded.                          *)
CasFailDecidedOnce(th) ==
  /\ pc[th] = "cas"
  /\ \E j \in seen[th] .. Len(mo) : seen' = [seen EXCEPT ![th] = j]
  /\ UNCHANGED <<clock, mo, pc, req, out, admitted, total>>

CasFailIgnored(th) ==
  /\ pc[th] = "cas"
  /\ Admit(th)
  /\ UNCHANGED <<clock, mo, seen>>

(* compare_exchange_weak may fail without a reason, and the word a failure  *)
(* reports need not be the latest one.                                      *)
CasFail(th) ==
  /\ pc[th] = "cas"
  /\ \E j \in seen[th] .. Len(mo) : Observe(th, j)

Store(th) ==
  /\ mo' = Append(mo, DecisionAt(th, seen[th]).state.tat)
  /\ seen' = [seen EXCEPT ![th] = Len(mo) + 1]

(* Faulty: a plain store, which overwrites what others stored meanwhile.   *)
CasOkStore(th) ==
  /\ pc[th] = "cas"
  /\ Store(th)
  /\ Admit(th)
  /\ UNCHANGED clock

(* The exchange compares the words, not their places in the order. *)
CasOk(th) ==
  /\ pc[th] = "cas"
  /\ mo[seen[th]] = Latest
  /\ Store(th)
  /\ Admit(th)
  /\ UNCHANGED clock

-----------------------------------------------------------------------------
Step(th) == Load(th) \/ CasFail(th) \/ CasOk(th)

Next ==
  \/ Tick
  \/ StepBack
  \/ \E th \in Threads :
       \/ Check(th)
       \/ \E n \in Sizes : CheckN(th, n) \/ RejectN(th, n)
       \/ Step(th)

Spec == Init /\ [][Next]_vars

(* A thread in a call keeps running.  A failed exchange sooner or later     *)
(* reports a store it missed, and an exchange that nobody disturbs sooner   *)
(* or later succeeds; neither is promised while others keep storing.        *)
CasRefresh(th) ==
  /\ pc[th] = "cas"
  /\ mo[seen[th]] # Latest
  /\ Observe(th, Len(mo))

FairSpec ==
  /\ Spec
  /\ \A th \in Threads :
       WF_vars(Load(th)) /\ WF_vars(CasRefresh(th)) /\ WF_vars(CasOk(th))

-----------------------------------------------------------------------------
(* No sum of a decision wraps, for any thread inside a call and whichever   *)
(* word it observes, nor does the instant Start + tat a NotUntil reports:   *)
(* "each rate-limiter and its state is only useful for 584 years"           *)
(* (governor/README.md), less twice the burst tolerance.                    *)
NoOverflow ==
  \A th \in Threads : pc[th] # "idle" =>
    LET t0  == req[th].t0
        tat == Tat(Latest, t0)
    IN  /\ tat + req[th].add < U64
        /\ Start + tat + req[th].add - Tau < U64
        /\ pc[th] = "cas" =>
             \A j \in seen[th] .. Len(mo) :
               DecisionAt(th, j).ok =>
                 MaxOf(Tat(mo[j], t0), t0) + T + req[th].add < U64

(* The rate limit itself.  Of everything admitted from a to b in commit     *)
(* order, the weight is at most what the bucket holds plus what drains      *)
(* between the times the two calls measured.  Lost updates, decisions on    *)
(* stale words and clocks set back must not let more through.               *)
WindowConformance ==
  \A a, b \in admitted : a.cum <= b.cum =>
    a.t0 + a.w + (b.cum - a.cum) <= b.t0 + Tau + T

(* The converse: a refusal, even one decided on a word that others have     *)
(* replaced since, is only given to a batch which together with what was    *)
(* admitted by then would break the rate limit.                             *)
NoFalseDenial ==
  [][\A th \in Threads :
       (pc[th] # "idle" /\ pc'[th] = "idle" /\ out'[th].kind = "not_until") =>
         \E a \in admitted :
           a.t0 + a.w + (total - a.cum) + req[th].add > req[th].t0 + Tau]_vars

(* NotUntil::earliest_possible is a lower bound for everybody: once it has  *)
(* been handed out, no batch of that size or larger, of any thread, is      *)
(* admitted at a time measured before it.                                   *)
DenialHonoured ==
  [][\A th \in Threads : out[th].kind = "not_until" =>
       \A a \in admitted' \ admitted :
         a.w >= T + out[th].add => a.t0 >= out[th].at]_vars

(* A call tries its exchange again only on a tat that has moved forward and *)
(* that still leaves room for it, so it can be overtaken at most            *)
(* (t0 + tau) / t times: no call starves however busy the others are.       *)
RetryProgress ==
  [][\A th \in Threads :
       (pc[th] = "cas" /\ pc'[th] = "cas" /\ seen'[th] # seen[th]) =>
         /\ mo'[seen'[th]] >= mo[seen[th]] + T
         /\ mo'[seen'[th]] + req[th].add <= req[th].t0 + Tau]_vars

(* Every call returns. *)
CheckReturns == \A th \in Threads : pc[th] # "idle" ~> pc[th] = "idle"

-----------------------------------------------------------------------------
(* What the compare-and-swap loop is meant to be: a test and update that    *)
(* happens all at once.                                                     *)
Atomic == INSTANCE AtomicLimiter WITH
            tat <- Latest, Times <- 0 .. Lifetime

Linearizable == Atomic!Spec
=============================================================================
