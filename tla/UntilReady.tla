----------------------------- MODULE UntilReady -----------------------------
(***************************************************************************)
(* Tasks that await until_ready or until_n_ready on one limiter            *)
(* (state/direct/future.rs), or until_key_ready and until_key_n_ready on   *)
(* one key (state/keyed/future.rs): check, and when refused sleep for the  *)
(* time the refusal names and a jitter, then check again.  A future may be *)
(* dropped while it sleeps, and a SystemClock may be set back under it.    *)
(*                                                                         *)
(* `words` is the modification order of the limiter's AtomicU64, each word *)
(* by how far ahead of now it lies, and seen[k] the place of the latest one*)
(* that task k has observed: no load of its checks returns an older one.   *)
(*                                                                         *)
(* `turnedBack` is a history variable: whether the clock was set back since*)
(* the task was last refused.                                              *)
(***************************************************************************)
EXTENDS Waiting, Sequences

CONSTANTS
  Tasks, Sizes,
  MaxSetBack        \* bound: how far the clock is set back, all in all

ASSUME UntilAssumption ==
  /\ MaxSetBack \in Nat
  /\ 5 * (Tau + T) + MaxSetBack < U64
  /\ Sizes \subseteq Nat \ {0}
  /\ \A n \in Sizes : T * (n - 1) < U64

VARIABLES words, seen, pc, add, owed, left, turnedBack, setBack

limiter == <<words, seen>>

vars == <<limiter, setBack, pc, add, owed, left, turnedBack>>

Latest == words[Len(words)]

States ==
  {"new", "check", "refused", "armed", "asleep", "ready", "insufficient",
   "dropped"}

(* In particular nobody is told to wait longer than a burst takes to refill, *)
(* plus what the clock was set back.                                        *)
TypeOK ==
  /\ setBack \in 0 .. MaxSetBack
  /\ words \in Seq(0 .. Tau + T + setBack) /\ words # <<>>
  /\ seen \in [Tasks -> 1 .. Len(words)]
  /\ pc \in [Tasks -> States]
  /\ add \in [Tasks -> Nat]
  /\ owed \in [Tasks -> 0 .. LongestWait + setBack]
  /\ left \in [Tasks -> 0 .. LongestWait + setBack + JitterMax]
  /\ turnedBack \in [Tasks -> BOOLEAN]

Init ==
  /\ words = <<0>>
  /\ seen = [k \in Tasks |-> 1]
  /\ setBack = 0
  /\ pc = [k \in Tasks |-> "new"]
  /\ add = [k \in Tasks |-> 0]
  /\ owed = [k \in Tasks |-> 0]
  /\ left = [k \in Tasks |-> 0]
  /\ turnedBack = [k \in Tasks |-> FALSE]

-----------------------------------------------------------------------------
(* Time passes for the limiter, for the named times and for the timers. *)
Tick ==
  /\ words' = [i \in DOMAIN words |-> Closer(words[i])]
  /\ owed' = [k \in Tasks |-> Closer(owed[k])]
  /\ left' = [k \in Tasks |->
                IF pc[k] = "asleep" THEN Closer(left[k]) ELSE left[k]]
  /\ UNCHANGED <<seen, setBack, pc, add, turnedBack>>

(* The limiter's clock is set back by `by`, the timers run on.  An instant  *)
(* in the past may or may not be ahead again; a word never stored to still  *)
(* counts like one of now.                                                  *)
Farther(distance, by, again) == IF distance = 0 THEN again ELSE distance + by

StepBack(by) ==
  /\ setBack' = setBack + by
  /\ \E again \in [DOMAIN words -> 0 .. by] :
       /\ again[1] = 0
       /\ words' = [i \in DOMAIN words |-> Farther(words[i], by, again[i])]
  /\ \A i, j \in DOMAIN words : i < j => words'[i] <= words'[j]
  /\ \E again \in [Tasks -> 0 .. by] :
       owed' = [k \in Tasks |-> IF pc[k] = "refused"
                               THEN Farther(owed[k], by, again[k]) ELSE owed[k]]
  /\ turnedBack' = [k \in Tasks |-> TRUE]
  /\ UNCHANGED <<seen, pc, add, left>>

Call(k, n) ==
  /\ pc[k] = "new"
  /\ pc' = [pc EXCEPT ![k] = "check"]
  /\ add' = [add EXCEPT ![k] = AdditionalWeight(gcra, n)]
  /\ UNCHANGED <<limiter, setBack, owed, left, turnedBack>>

(* The ? of until_n_ready. *)
Insufficient(k) ==
  /\ pc[k] = "check"
  /\ ExceedsCapacity(gcra, add[k])
  /\ pc' = [pc EXCEPT ![k] = "insufficient"]
  /\ UNCHANGED <<limiter, setBack, add, owed, left, turnedBack>>

(* Faulty: decides on the word it has seen, and adds to the latest one. *)
ResolveOnSeen(k) ==
  /\ pc[k] = "check"
  /\ ~ExceedsCapacity(gcra, add[k])
  /\ Passes(words[seen[k]], add[k])
  /\ words' = Append(words, Latest + T + add[k])
  /\ seen' = [seen EXCEPT ![k] = Len(words) + 1]
  /\ pc' = [pc EXCEPT ![k] = "ready"]
  /\ UNCHANGED <<setBack, add, owed, left, turnedBack>>

(* The exchange only succeeds on the latest word. *)
Resolve(k) ==
  /\ pc[k] = "check"
  /\ ~ExceedsCapacity(gcra, add[k])
  /\ Passes(Latest, add[k])
  /\ words' = Append(words, Stored(Latest, add[k]))
  /\ seen' = [seen EXCEPT ![k] = Len(words) + 1]
  /\ pc' = [pc EXCEPT ![k] = "ready"]
  /\ UNCHANGED <<setBack, add, owed, left, turnedBack>>

(* A load, or an exchange that fails, may report an older one, and then a   *)
(* refusal names an earlier time than it would on the latest.               *)
Refuse(k) ==
  /\ pc[k] = "check"
  /\ ~ExceedsCapacity(gcra, add[k])
  /\ \E i \in seen[k] .. Len(words) :
       /\ ~Passes(words[i], add[k])
       /\ seen' = [seen EXCEPT ![k] = i]
       /\ owed' = [owed EXCEPT ![k] = Owed(words[i], add[k])]
  /\ pc' = [pc EXCEPT ![k] = "refused"]
  /\ turnedBack' = [turnedBack EXCEPT ![k] = FALSE]
  /\ UNCHANGED <<words, setBack, add, left>>

(* Faulty: takes the jitter off the wait. *)
ReadClockEarly(k) ==
  /\ pc[k] = "refused"
  /\ \E jitter \in JitterGet :
       left' = [left EXCEPT ![k] = SaturatingSub(owed[k], jitter)]
  /\ pc' = [pc EXCEPT ![k] = "armed"]
  /\ UNCHANGED <<limiter, setBack, add, owed, turnedBack>>

(* The clock is read again for wait_time_from, after the check ... *)
ReadClock(k) ==
  /\ pc[k] = "refused"
  /\ \E jitter \in JitterGet :
       left' = [left EXCEPT ![k] = owed[k] + jitter]
  /\ pc' = [pc EXCEPT ![k] = "armed"]
  /\ UNCHANGED <<limiter, setBack, add, owed, turnedBack>>

(* ... and the Delay starts later still. *)
Arm(k) ==
  /\ pc[k] = "armed"
  /\ pc' = [pc EXCEPT ![k] = "asleep"]
  /\ UNCHANGED <<limiter, setBack, add, owed, left, turnedBack>>

(* Faulty: awaits the delay again instead of checking again. *)
WakeAndWait(k) ==
  /\ pc[k] = "asleep"
  /\ left[k] = 0
  /\ pc' = [pc EXCEPT ![k] = "armed"]
  /\ UNCHANGED <<limiter, setBack, add, owed, left, turnedBack>>

Wake(k) ==
  /\ pc[k] = "asleep"
  /\ left[k] = 0
  /\ pc' = [pc EXCEPT ![k] = "check"]
  /\ UNCHANGED <<limiter, setBack, add, owed, left, turnedBack>>

(* A caller that gives up drops the future where it is suspended. *)
Drop(k) ==
  /\ pc[k] = "asleep"
  /\ pc' = [pc EXCEPT ![k] = "dropped"]
  /\ UNCHANGED <<limiter, setBack, add, owed, left, turnedBack>>

-----------------------------------------------------------------------------
Step(k) ==
  Insufficient(k) \/ Resolve(k) \/ Refuse(k) \/ ReadClock(k) \/ Arm(k)
    \/ Wake(k)

Next ==
  \/ Tick
  \/ \E by \in 1 .. MaxSetBack - setBack : StepBack(by)
  \/ \E k \in Tasks :
       \/ \E n \in Sizes \cup {1} : Call(k, n)
       \/ Drop(k)
       \/ Step(k)

Spec == Init /\ [][Next]_vars

(* The clock goes on, and the executor runs a task that is woken. *)
FairSpec ==
  /\ Spec
  /\ WF_vars(Tick)
  /\ \A k \in Tasks : WF_vars(Step(k))

-----------------------------------------------------------------------------
(* Whoever has slept as long as told is refused again only because of an    *)
(* admission that its last refusal did not take into account, so a later    *)
(* word, or because the clock was set back.  A wait is never too short for  *)
(* the word it was derived from, whenever its three clock readings are      *)
(* taken, and nothing else prolongs it, such as those who are refused too   *)
(* or give up.  So each refusal but the first costs an admission of another.*)
RefusedAgainOnlyIfOvertaken ==
  [][\A k \in Tasks :
       (pc[k] = "check" /\ pc'[k] = "refused") =>
         seen'[k] > seen[k] \/ turnedBack[k]]_vars

(* Every future that is not dropped resolves, however often it is overtaken,*)
(* when the calls it competes with are finite in number and the clock is    *)
(* not set back for ever.                                                   *)
AllResolve ==
  \A k \in Tasks :
    pc[k] = "check" ~> pc[k] \in {"ready", "insufficient", "dropped"}
=============================================================================
