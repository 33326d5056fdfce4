-------------------------- MODULE SnapshotLimiter --------------------------
(***************************************************************************)
(* One caller of a direct rate limiter on a FakeRelativeClock: what the    *)
(* numbers handed back to the caller (NotUntil and, with the middleware    *)
(* that keeps the StateSnapshot of an admission, remaining_burst_capacity  *)
(* and quota) say about the decisions still to come.  The caller may       *)
(* change the middleware of the limiter in use at any time.                *)
(* DirectLimiter has the threads; here each call is one step.              *)
(***************************************************************************)
EXTENDS Gcra

CONSTANTS
  Quotas,           \* the quotas a limiter is built with
  Sizes,            \* the batch sizes passed to check_n
  Start,            \* the clock's reading when the limiter is built
  Steps,            \* by how much `advance` moves the clock
  MaxClock          \* bound: the clock's last reading

ASSUME CallerAssumption ==
  /\ Quotas \subseteq [max_burst : 1 .. U32 - 1, replenish_1_per : Nanos]
  /\ Sizes \subseteq 1 .. U32 - 1
  /\ MaxClock \in Nanos
  /\ Start \in 0 .. MaxClock
  /\ Steps \subseteq Nat

VARIABLES quota, clock, word, middleware, out

vars == <<quota, clock, word, middleware, out>>

g == GcraNew(quota)

Middlewares == {"NoOp", "StateInformation"}

NoState == Snapshot(g, 0, 0)

Outcome(kind, n, state) == [kind |-> kind, n |-> n, state |-> state]

Init ==
  /\ quota \in Quotas
  /\ clock = Start
  /\ word = 0
  /\ middleware = "NoOp"
  /\ out = Outcome("none", 1, NoState)

(* FakeRelativeClock::advance *)
Advance(by) ==
  /\ clock + by <= MaxClock
  /\ clock' = Add(clock, by)
  /\ UNCHANGED <<quota, word, middleware, out>>

(* Faulty: the limiter starts anew. *)
WithMiddlewareAnew(outer) ==
  /\ middleware' = outer
  /\ word' = 0
  /\ UNCHANGED <<quota, clock, out>>

(* with_middleware keeps all but the type of the outcomes. *)
WithMiddleware(outer) ==
  /\ middleware' = outer
  /\ UNCHANGED <<quota, clock, word, out>>

T0 == SaturatingSub(clock, Start)

(* Faulty: stores the earliest time of the next cell, not its tat. *)
TestAndUpdateEarly(n, add) ==
  LET decision == Decision(g, word, T0, add)
  IN  /\ word' = IF decision.ok THEN decision.state.tat - g.tau ELSE word
      /\ out' = Outcome(IF decision.ok THEN "allowed" ELSE "not_until",
                        n, decision.state)
      /\ UNCHANGED <<quota, clock, middleware>>

(* Only StateInformationMiddleware lets the caller see an admission's       *)
(* snapshot; both put a refusal's into a NotUntil.                          *)
Allow(state) == IF middleware = "StateInformation" THEN state ELSE NoState

TestAndUpdate(n, add) ==
  LET decision == Decision(g, word, T0, add)
  IN  /\ word' = IF decision.ok THEN decision.state.tat ELSE word
      /\ out' = IF decision.ok THEN Outcome("allowed", n, Allow(decision.state))
                 ELSE Outcome("not_until", n, decision.state)
      /\ UNCHANGED <<quota, clock, middleware>>

Check == TestAndUpdate(1, 0)

CheckN(n) ==
  /\ ~ExceedsCapacity(g, AdditionalWeight(g, n))
  /\ TestAndUpdate(n, AdditionalWeight(g, n))

RejectN(n) ==
  /\ ExceedsCapacity(g, AdditionalWeight(g, n))
  /\ out' = Outcome("insufficient", n, NoState)
  /\ UNCHANGED <<quota, clock, word, middleware>>

Next ==
  \/ \E by \in Steps : Advance(by)
  \/ \E outer \in Middlewares : WithMiddleware(outer)
  \/ Check
  \/ \E n \in Sizes : CheckN(n) \/ RejectN(n)

Spec == Init /\ [][Next]_vars

-----------------------------------------------------------------------------
Horizon == 0 .. MaxClock + 2 * g.tau + 2 * g.t

(* A caller's own decisions after the last one, at time t: what the stored  *)
(* word is after k more lone cells, and whether all of them passed.         *)
Singles(t) ==
  LET f[k \in 0 .. 1 + quota.max_burst] ==
        IF k = 0 THEN [ok |-> TRUE, word |-> word]
        ELSE LET d == Decision(g, f[k-1].word, t, 0)
             IN  IF f[k-1].ok /\ d.ok THEN [ok |-> TRUE, word |-> d.state.tat]
                 ELSE [ok |-> FALSE, word |-> f[k-1].word]
  IN  f

TypeOK ==
  /\ quota \in Quotas
  /\ clock \in Start .. MaxClock
  /\ word \in Nanos
  /\ middleware \in Middlewares
  /\ out.kind \in {"none", "allowed", "not_until", "insufficient"}
  /\ out.n \in Sizes \cup {1}
  /\ {out.state.time_of_measurement, out.state.tat} \subseteq Nanos

(* After an admission, remaining_burst_capacity is how many more cells go   *)
(* through at the instant that was measured: that many, and not one more.   *)
RemainingExact ==
  (out.kind = "allowed" /\ out.state # NoState) =>
    LET remaining == RemainingBurstCapacity(out.state)
        singles   == Singles(out.state.time_of_measurement)
    IN  singles[remaining].ok /\ ~singles[remaining + 1].ok

(* A caller that waits for wait_time_from after a NotUntil is admitted if   *)
(* nobody else was, and one that waits any less is refused again.           *)
WaitExact ==
  out.kind = "not_until" =>
    LET wait == WaitTimeFrom(Start, out.state, clock)
        add  == AdditionalWeight(g, out.n)
    IN  \A later \in Horizon :
          Decision(g, word, T0 + later, add).ok <=> later >= wait

(* check_n(n) admits a batch exactly when n calls of check at the same      *)
(* instant would all be admitted, and leaves the same word behind.          *)
BatchEqualsSingles ==
  \A n \in Sizes : n <= quota.max_burst =>
    LET batch   == Decision(g, word, T0, AdditionalWeight(g, n))
        singles == Singles(T0)[n]
    IN  /\ batch.ok <=> singles.ok
        /\ batch.ok => batch.state.tat = singles.word

(* A batch of more cells than the burst size can never go through, and      *)
(* check_n says so, with the burst size (state/direct.rs).                  *)
OversizedRejected ==
  (out.n > quota.max_burst) =>
    out.kind = "insufficient" /\ Capacity(g) = quota.max_burst

(* However the limiter was used, once it is left alone for                  *)
(* burst_size_replenished_in the whole burst is available again.            *)
RefillTime ==
  Decision(g, word, T0 + BurstSizeReplenishedIn(quota),
           AdditionalWeight(g, quota.max_burst)).ok

(* The quota() of a snapshot or of a NotUntil is the quota in use.          *)
QuotaReported == out.state # NoState => SnapshotQuota(out.state) = quota

(* The documentation of remaining_burst_capacity: 0 on a negative outcome.  *)
NoneRemainOnRefusal ==
  out.kind = "not_until" => RemainingBurstCapacity(out.state) = 0

-----------------------------------------------------------------------------
(* governor/README.md: GCRA is functionally equivalent to a leaky bucket.   *)
Bucket == INSTANCE LeakyBucket WITH
            Sizes   <- Sizes \cup {1},
            weight  <- g.t,
            size    <- quota.max_burst,
            now     <- T0,
            level   <- SaturatingSub(word, T0),
            verdict <- IF out.kind \in {"not_until", "insufficient"}
                       THEN "refused" ELSE out.kind

LeakyBucketEquivalent == Bucket!Spec
=============================================================================
