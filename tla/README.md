# governor in TLA+

A TLA+ model of the rate limiter in `src/governor`: what it computes, what it
promises to the threads that share it, and machine-checked proofs that the core
promises hold for every quota, any number of threads and any clock.

Paths below are relative to `src/governor/src`.

## The system

The crate decides whether a *cell* (a request) may pass. It uses the Generic Cell
Rate Algorithm: a limiter keeps one 64-bit word, per limiter or per key, the
*theoretical arrival time* (tat) of the next cell in nanoseconds since the limiter
was built; 0 means "never measured". A cell that arrives at `t0` conforms when
`tat - tau <= t0`; the tat then becomes `max(tat, t0) + t`. `t` is the time one
cell takes to be won back, `tau = t * (burst - 1)`.

### Inventory

| component | state | operations | hard parts | what makes it correct |
|---|---|---|---|---|
| `nanos.rs` | none | sums, products, saturating difference of u64 | wraps (release) or panics (debug) on overflow | no wrap within the limiter's lifetime |
| `quota.rs` | burst size, interval of one cell | constructors, derived figures | rounding down to nanoseconds, casts | the figures describe what the limiter does |
| `gcra.rs`, `errors.rs` | `t`, `tau` | decide one cell or a batch, `NotUntil`, `InsufficientCapacity` | boundaries, overflow of a batch's weight | rate limit kept; refusals and waits exact |
| `middleware.rs` | none | turns a `StateSnapshot` into an outcome; `with_middleware` changes it | figures derived from the snapshot | remaining capacity exact; a change goes unnoticed |
| `state/in_memory.rs` | one `AtomicU64` | load, decide, `compare_exchange_weak`, retry | interleaved threads, stale loads, spurious failures | behaves as one atomic test and update |
| `state/direct.rs` | quota, start, clock, store | `check`, `check_n` | clock read before the word | as above, under any clock |
| `state/keyed.rs`, `keyed/hashmap.rs`, `keyed/dashmap.rs` | map from key to word | `check_key`, `check_key_n`, `retain_recent`, `shrink_to_fit`, `len` | lock gaps, removal while a call is under way | keys independent; removal unobservable |
| `clock.rs`, `clock/*` | the time; `FakeRelativeClock` an atomic | `now`, `advance` | concurrent `advance`, relaxed loads; `SystemClock` goes back; upkeep clock lags | no advance lost, each shown to whoever knows of it; limit kept in measured time whatever the clock does |
| `state/*/future.rs` | a `Delay` | `until_ready`, `until_n_ready` | waiters racing for one cell, cancellation, a clock set back under a sleeper | resolves eventually, only when admitted |
| `state/direct/streams.rs` | inner stream, buffered item, state, delay | `poll_next`, `into_inner` | pending at every await, wake-ups, being taken apart | each item passes once, in order, for one cell |
| `state/direct/sinks.rs` | inner sink, state, delay | `poll_ready`, `start_send`, `into_inner` | cell taken before the inner sink is ready, or fails | one cell per item sent |
| `jitter.rs` | min, max | adds a random delay | empty range | delays only get longer, within bounds |

The direct limiter's threads share only the atomic word (and the clock). A keyed
limiter's threads share a map guarded by a mutex (`HashMap`) or by one
read-write lock per shard (`DashMap`); each value is again an `InMemoryState`. The
futures and the two combinators call `check` and sleep on a `futures_timer::Delay`
for the wait that the `NotUntil` names.

## Modules

| module | models | depends on |
|---|---|---|
| `Nanos` | 64-bit arithmetic; the width is the constant `U64` | |
| `Quota` | the constructors and what is derived from a quota | `Nanos` |
| `Gcra` | the decision as a pure function, outcomes' accessors | `Quota` |
| `AtomicLimiter` | abstract specification: each call is one test-and-update on exact numbers | |
| `DirectLimiter` | threads running `check` / `check_n` on one atomic | `Gcra`, refines `AtomicLimiter` |
| `Gcra_proofs` | lemmas: what the decision computes when nothing wraps | `Gcra` |
| `DirectLimiter_proofs` | the theorems about `DirectLimiter` | `DirectLimiter` |
| `LeakyBucket` | abstract specification: a bucket with a level that drains | |
| `SnapshotLimiter` | one caller; what outcomes tell it about later decisions | `Gcra`, refines `LeakyBucket` |
| `SnapshotLimiter_proofs` | the theorems about `SnapshotLimiter` | `SnapshotLimiter`, `Gcra_proofs` |
| `KeyedLimiter` | threads running `check_key`, `check_key_n`, `retain_recent` and `shrink_to_fit` on either store | `Gcra`, refines one `AtomicLimiter` per key |
| `KeyedLimiter_proofs` | the theorems about `KeyedLimiter` | `KeyedLimiter`, `Gcra_proofs` |
| `Waiting` | what futures and combinators share: decisions as distances from now, waits, `Jitter` | `Gcra` |
| `Waiting_proofs` | lemmas: the decision and the wait as distances from now | `Waiting`, `Gcra_proofs` |
| `UntilReady` | tasks awaiting `until_ready`, `until_n_ready` and their keyed counterparts | `Waiting` |
| `UntilReady_proofs` | the theorems about `UntilReady` | `UntilReady`, `Waiting_proofs` |
| `Combinators` | `RatelimitedStream` and `RatelimitedSink` on one limiter, polled by their tasks | `Waiting` |
| `Combinators_proofs` | the theorems about `Combinators` | `Combinators`, `Waiting_proofs` |
| `FakeClock` | threads advancing and reading clones of one `FakeRelativeClock` | `Nanos` |
| `FakeClock_proofs` | the theorems about `FakeClock` | `FakeClock` |
| `MCDirectLimiter`, `MCSnapshotLimiter`, `MCKeyedLimiter`, `MCUntilReady`, `MCCombinators`, `MCFakeClock` | instances for TLC | |

Definitions whose comment starts with "Faulty" are deliberately wrong variants of
the definition after them. They are used by no specification; putting one in
place of the right definition shows that a property notices the fault.

### How state and actions correspond to the code

`DirectLimiter`. The `AtomicU64` is its modification order `mo`, the sequence of
all words ever stored. `seen[th]` is the place in that order of the word the
thread last observed (`prev` in the loop is `mo[seen[th]]`). A load may return any
word not older than `seen[th]`: that is what coherence gives an Acquire or Relaxed
load, and it is all the code can rely on. A successful exchange reads the latest
word, by value. `pc[th]` is where in the call the thread is; `req[th]` holds the
locals of the call (`t0`, `n`, `additional_weight`); `out[th]` what it returned.

| action | code |
|---|---|
| `Check`, `CheckN` | `check` / `check_n` up to the first load: the clock is read, the weight computed, the capacity tested |
| `RejectN` | the early return of `InsufficientCapacity` |
| `Load` | `self.0.load(Acquire)` and the closure's run on it; a refusal returns |
| `CasFail` | `compare_exchange_weak` fails (spuriously or not), the closure runs on the word it reports |
| `CasOk` | it succeeds, the call returns `Ok` |
| `Tick`, `StepBack` | the clock moves; `StepBack` only for `SystemClock` |

`admitted` and `total` are history variables: each admission with the time it
measured, its weight, and the running total of weights in commit order.

`SnapshotLimiter` has one caller whose calls are single steps, on a
`FakeRelativeClock`, and keeps the last outcome: with `StateInformationMiddleware`
the `StateSnapshot` of an admission too, with `NoOpMiddleware` only that of a
refusal. `WithMiddleware` changes from one to the other. Its quotas come from the
constructors.

`KeyedLimiter`. `words` maps the keys that are in the map to their words. The loop on
one key's word is one step here: it runs under a lock that keeps the key in the map,
so what is proved of `DirectLimiter` (`Refinement`) applies to it, including that a
refusal decided beside other readers may name an earlier time. Steps end where
another thread can get in:

| action | code |
|---|---|
| `CheckKey`, `CheckKeyN`, `RejectKeyN` | up to the store: the clock is read, the capacity tested |
| `MeasureLocked` | `HashMapStateStore::measure_and_replace`, all under the mutex |
| `Get` | `DashMap::get`: a hit keeps the shard's read lock, a miss leaves it |
| `Measure` | the measurement behind a hit |
| `Entry` | `entry(key).or_default()` and the measurement, under the shard's write lock |
| `Tick`, `StepBack` | the clock moves; `StepBack` only for `SystemClock` |
| `Retain` | `RateLimiter::retain_recent` up to the store: the clock is read, `drop_below` computed |
| `RetainShard` | the sweep of one shard under its write lock (the only one of a `HashMap`) |
| `ShrinkToFit`, `ShrinkShard` | `shrink_to_fit`: each shard is locked in turn, and nothing in it changes |

`store` is the kind of map, chosen by the constructor. `kept` and `peak` are history
variables: the word each key would have had without any removal, and the latest time
the clock has shown. `MaxDelay` bounds how far the time a call has read may lie behind
`peak` when it measures its key, whether the call is slow or the clock was set back.

`UntilReady` and `Combinators` keep no absolute time. Their clocks are
`ReasonablyRealtime`, so the limiter's clock and the timer of a `Delay` advance
together, and only distances matter: how far a stored tat is ahead of
now, `owed[k]` how far ahead the earliest time is that a task's last refusal named,
`left[k]` how long its `Delay` still runs. `Tick` brings all of them one closer to 0.
The decision itself is `Gcra`'s, asked about an arbitrary instant. So these two
models need no bound on time, and liveness can be checked on them. A check is a
single step of theirs, which is what `Linearizable` and `AsIfNeverRemoved` allow. Like
there, an admission is always decided on the latest word, and a refusal may be decided on
one that others have replaced since, and then names an earlier time. `UntilReady` keeps
the modification order `words` and `seen[k]`, as `DirectLimiter` does, because what a
task is told depends on which word it observed. `Combinators` keeps only the latest
word, `lead`, and lets a refusal be decided on any tat that is no further ahead: a
superset of the words a load may return, on which its properties hold as well.

| action of `UntilReady` | code |
|---|---|
| `Call` | a future is made and polled for the first time |
| `Insufficient`, `Resolve`, `Refuse` | the three outcomes of `check` / `check_n` in the loop |
| `ReadClock` | `jitter + negative.wait_time_from(self.clock.now())`, some time after the check |
| `Arm`, `Wake` | `Delay::new`, later still; `delay.await` returns |
| `Drop` | the caller drops the future at `delay.await` |
| `StepBack` | a `SystemClock` is set back: every instant on it is farther ahead, the timers are not |

| action of `Combinators` | code |
|---|---|
| `Poll` | the task calls `poll_next` or `poll_ready`; it may do so unasked |
| `ReadReference`, `Refuse`, `PollDelayAfterReset` | `State::NotReady`: the clock, the check that refuses and `delay.reset`, the poll of the delay |
| `Yield`, `Grant` | `State::NotReady` when the check passes, in a stream and in a sink |
| `PollDelay` | `State::Wait` |
| `InnerPending`, `InnerItem`, `InnerEnd` | `State::ReadInner`, by what the inner stream answers |
| `InnerBusy`, `InnerReady`, `InnerFails` | `State::Ready`, by what the inner sink answers |
| `StartSend` | `start_send`, whatever the inner sink makes of the item |
| `PassToSink`, `PassToInner` | the operations handed straight to the inner part, when it answers `Pending` |
| `IntoInner` | `into_inner`, at any moment between two polls |
| `WakeUp`, `Tick` | the inner part's or the timer's wake-up; time |

Time, and the other task, can get in between any two of these. `cells` counts the
admissions each task has used up.

`FakeClock` treats its `AtomicU64` as `DirectLimiter` does: `mo`, `seen`, and the
actions `Load`, `CasFail` and `CasOk` of the loop in `advance`. `Now` is a relaxed
load: it may return any word not older than `seen[th]`. `Sync` is a happens-before
edge from outside: a clone handed over, a thread joined. `total`, `known` and `floor`
are history variables: the sum of all advances, what a thread knows of each
thread's, and the reading a thread can count on, plus what it has added itself.

## What the runs check

| run | question | bounds |
|---|---|---|
| `direct_monotonic` | two threads, monotonic clock: limit, its converse, refusals, retries, refinement, overflow at the edge | burst 3 at 2 ns, batches 2, 3 and 4 (one too large), clock 0..3, `U64` = 14, the smallest that `LifetimeAssumption` allows |
| `direct_system_clock` | the same with a clock that is set back, also before `Start`; every call returns | burst 2 at 2 ns, `Start` = 1, clock 0..3, `FairSpec` |
| `snapshot_outcomes` | remaining capacity, waits, batches, refill time, quota reported, leaky bucket | six quotas from all constructors, a middleware that changes, a second of 6 ns, batches up to 5, clock 2..14 |
| `keyed_stores` | insertions racing on a key, also behind a sweep that is still under way; batches; sweeps at any time; clock set back | two threads, a key in the first of two shards or behind the mutex, burst 2 at 2 ns, batches 2 and 3 (one too large), clock 0..4, times at most 2 ns behind |
| `keyed_returns` | independence of keys; readers that overlap, sweeps and shrinks of both shards; what was started in a shard ends | three threads, a key in each of two shards of a `DashMap`, burst 2 at 1 ns, single cells, a clock that stands still (no lock and no loop depends on it), `FairSpec` |
| `until_ready` | waits are long enough for the word they came from, only a later word prolongs them, all futures resolve | three tasks, one call each for 1, 2 or 3 cells (3 is too large), burst 2 at 2 ns, jitter 0..2, clock set back by up to 2 ns in all, unbounded time, `FairSpec` |
| `combinators` | items pass once, in order, for one cell each, over inner parts that fail and until taken apart; no panic; no missed wake-up | a stream and a sink with three items each on one limiter, burst 2 at 2 ns, jitter 0..2, checks up to 2 ns after their reference reading, unbounded time, `FairSpec` |
| `fake_clock` | no advance lost, each shown to whoever knows of it, all return | three threads, three advances by 0, 1 or 2, `FairSpec` |
| `snapshot_refused`, `snapshot_oversized`, `snapshot_too_fast`, `keyed_delayed` | the findings below | |

The properties of `DirectLimiter`:

* `WindowConformance`: of what is admitted from `a` to `b` in commit order, the
  weight is at most burst plus the time between the two measured times. Lost
  updates, stale decisions and clocks set back must not break it.
* `NoFalseDenial`: its converse. A refusal, even one decided on a stale word, is
  only given to a batch that would break the limit.
* `DenialHonoured`: the time in a `NotUntil` binds every thread: nobody is
  admitted with as large a batch at a time measured before it.
* `RetryProgress`: a retry is only made on a tat at least one cell further that
  still leaves room. A call is overtaken at most `(t0 + tau) / t` times: the
  loop is wait-free but for spurious failures.
* `NoOverflow`, `CheckReturns`, and `Linearizable`: the loop implements
  `AtomicLimiter`. A refusal is the only place where the abstraction is looser
  than a fully atomic limiter: the time it names may be an earlier lower bound,
  since it can come from a stale word.

The properties of `KeyedLimiter`:

* `AsIfNeverRemoved`: for its callers every key has an `AtomicLimiter` of its own
  that nobody ever removes; calls on other keys, insertions that race and sweeps do
  not show. This rests on `MaxDelay`, how far the time a call has read may lie behind
  the latest by the time it measures the key, being at most `t`: the interval by
  which `retain_recent` waits longer than it would have to. A clock that is set back
  uses up the same margin as a slow call. With one nanosecond more it fails
  (`keyed_delayed`).
* `SweepComplete`: when `retain_recent` returns, nothing as old as its mark is left,
  in any shard, whatever was inserted meanwhile. The case that matters is a key that a
  call puts into a shard already swept while another is still to be swept: a late
  call's word must come out above the mark.
* `KeyedReturns`: once nobody starts anything in a shard any more (no call on its
  keys, no sweep), all that was going on there ends, whatever goes on in the other
  shards. So no thread waits for a lock that it holds itself or that another never
  leaves, and a sweep is not sent back by what happens further on. It does not say
  that every call returns: threads that keep reading a shard one across the other can
  keep a writer out of it for ever, in the model and, for all this repository says, in
  DashMap.
* Within `TypeOK`: no key stays in the map with the word 0.

The properties of `UntilReady` and `Combinators`:

* `RefusedAgainOnlyIfOvertaken`: a task that has slept as long as it was told is
  refused again only on a later word than the one its last refusal was decided on, or
  after the clock was set back. A refusal on a stale word may send it to sleep for less
  than the latest word asks for, but each refusal but the first costs an admission of
  another that the refusal before had not taken into account. Up to
  three clock readings go into a wait; in whatever order time passes between them it
  is never too short for the word it came from. Futures that are refused too, or
  dropped, prolong nobody's wait.
* `AllResolve`: every future that is not dropped resolves. Each task calls once here,
  so competitors are finite in number; with an endless supply of them a future may
  starve, as the documentation warns ("might resolve at some later time"). The clock
  is set back by a bounded amount in all, and not to before the limiter was built.
* `NothingLost`: what the stream has yielded and what it buffers is exactly what it
  read from the inner stream, in order; what it buffers is what `into_inner` hands
  back.
* `OneCellPerItem`: a stream takes one cell for each item it yields; a sink never
  holds more than one cell ahead of what it has sent, however often the task polls
  again while the inner sink is busy or fails.
* `NoPanic`: the `unreachable!` of `start_send` is not reached by a task that sends
  only after `Ready(Ok)`, whatever it polls in between.
* `NotAskedEarly`: in `State::Wait`, the `Delay` does not fire before the time the
  limiter named, although the wait is counted from a reading that is older than both
  the check and the timer.
* `AllThrough`: both get all their items through: no `Pending` is returned without
  somebody who wakes the task.

The properties of `FakeClock`:

* `NoTimeLost`: the clock has always moved by the sum of the advances that took effect.
* `AdvancesShow`: whatever `now` returns includes every advance that happened before
  it, by the same thread or one it synchronised with, although the load is relaxed
  ("Clones of this clock will all show the same time", `clock.rs:124-126`).
* `TimeMovesOn`: read, advance, read: the second reading is larger by at least that
  much, whatever the others do (what the test `fake_clock_parallel_advances` samples).
* `AdvanceReturns`: every `advance` returns, although exchanges fail.

All the properties of the limiters speak of *measured* time, the `t0` a call read from the clock before it
looked at the word. A call delayed between the two may commit later than it
measured, so in wall-clock time a burst of late calls can fall together with a
burst of punctual ones; no property of the code rules that out.

Why the bounds are enough: everything a decision depends on are differences of
`t0`, `tat` and `tau`. The bounds let the clock pass several cells' worth of time,
the bucket fill up, drain in part and drain completely, batches fit, not fit now
and never fit, and every thread be overtaken. What holds beyond is what the proofs
are for.

Fairness (`FairSpec`): a thread inside a call keeps running (weak fairness of
`Load`); a failed exchange eventually reports a store it missed (`CasRefresh`;
hardware makes stores visible in finite time); an exchange that stays undisturbed
eventually succeeds (weak fairness of `CasOk`; that is what
`compare_exchange_weak` offers on LL/SC machines). `FakeClock` assumes the same of its
loop. Nothing is assumed of the clock or of new calls. `KeyedLimiter` assumes only
that a thread inside a call keeps running and that one that waits for a lock gets it if
the lock stays free (weak fairness of `Proceed` and of `Exclude`). Nothing is assumed of
the order in which waiting threads are served: that is the business of DashMap's lock and of
the mutex, which are not part of this repository. `UntilReady` and `Combinators` assume
that time goes on, that a wake-up is delivered and the executor polls a task that
was woken (weak fairness, what `futures_timer` and every executor promise), and, of
code outside the crate, that an inner stream or sink polled again and again does not
answer `Pending` or fail for ever and that a task granted a cell again and again sends at
last (strong fairness: both are disabled in between).

## What is proved

Every safety property that a passing run checks (invariants, action properties and
refinements) is also a theorem, for every value of the constants its hypotheses allow.
Each proof has the same shape: an inductive invariant `IInv` with `Init => IInv` and
`IInv /\ [Next]_vars => IInv'`, the step by cases over the actions, and the property from it.

### `DirectLimiter_proofs`

For every value of the constants that satisfies
`LimiterAssumption`, `LifetimeAssumption` (the last clock reading plus
`2 * tau + t` fits in 64 bits, `tau` too) and `BatchAssumption` (no batch's weight
wraps): `TypeCorrect`, `RateLimited` (`[]WindowConformance`), `NothingWraps`
(`[]NoOverflow`), `RetriesProgress`, `NoFalseDenials`, `DenialsHonoured`, and
`Refinement` (`Spec => Atomic!Spec`). Threads, quota, batch sizes and clock
(monotonic or not) are arbitrary.

`WindowConformance` is not inductive: it says nothing of the stored
word. `IInv` adds: the words in `mo` ascend by at least `t` (`MoAscending`), so an
exchange that finds the word it saw has seen the latest one; the latest word is at
most `lifetime + tau + t` (`LatestBounded`), so nothing wraps (`DecisionExact`
then gives each decision in exact arithmetic); a thread about to exchange holds
a decision that conforms (`PendingOK`); and the latest word is *exactly* the
largest charge `a.t0 + a.w + (total - a.cum)` over all admissions `a` (`Charged`,
`Accounted`). `Charged` makes a new admission conform to the window; `Accounted`
gives the converse. `DeniedStill` carries a refusal forward: words only ascend.
The refinement maps `tat` to the latest word; a call takes effect at its
successful exchange or at the observation it is refused on.

### `KeyedLimiter_proofs`

For any threads, keys, shards, either store, any quota and batches, and a clock that may
be set back, from `KeyedAssumption` (the counterpart of the assumptions above):

* `TypeCorrect`: no key stays in the map with the word 0.
* `SweepsComplete` (`SweepComplete`), if `MaxDelay < 2 * T`.
* `NeverRemoved` (`AsIfNeverRemoved`), if `MaxDelay <= T`.

`IInv` bounds every word by the last clock reading plus `tau + t` (`Bounded`), relates a
call's weight to its batch (`CallOK`), keeps every call and the clock within `MaxDelay` of the latest time
(`Recent`), and says of a sweep that its mark is 0 or a whole interval in the past
(`SweepOK`). `SweepsComplete` adds `Swept`: in the shards already swept, every word is
newer than the mark. What is inserted there meanwhile is measured at most `MaxDelay`
ago and gains at least `T`, so it lands above a mark that lies `T` back: that is where
`MaxDelay < 2 * T` comes from. `NeverRemoved` adds `LikeKept`: a key that is present
has the word it would have had without any removal, and for one that is absent that
word is 0 or at least `T` before the latest time. A call at most `MaxDelay <= T`
behind then decides on a fresh word as it would have on the one that was dropped, and
stores the same word: the refinement, per key, of `AtomicLimiter`. Neither hypothesis can be weakened by
a nanosecond; the run `keyed_delayed` shows what a longer delay does.

### `SnapshotLimiter_proofs`

For every set of quotas whose bursts fit twice into 64 bits beside the clock
(`QuotasFit`), from `CallerAssumption`:

| theorem | property | also assumes |
|---|---|---|
| `TypeCorrect`, `WaitsExact`, `RemainsExact`, `BatchIsSingles` | `TypeOK`, `WaitExact`, `RemainingExact`, `BatchEqualsSingles` | |
| `RejectsOversized` | `OversizedRejected` | `BatchesFit`: no batch's weight wraps |
| `RefillsInTime`, `ReportsQuota` | `RefillTime`, `QuotaReported` | `NotTooFast`: no interval is rounded down to 0 |
| `LeakyBucketEquivalence` | `LeakyBucketEquivalent` | `BatchesFit` |

What `BatchesFit` and `NotTooFast` exclude is what the runs `snapshot_oversized` and
`snapshot_too_fast` exhibit. The invariant says that the word is at most `tau + t`
ahead of the clock (`WordOK`) and how the last outcome relates to the word (`OutOK`);
the figures then follow by arithmetic, most of it in `Gcra_proofs`. `RemainsExact` and
`BatchIsSingles` speak of `Singles`, a recursive function of the number of cells. The
provers cannot apply the library's induction rules, so its closed form (`SinglesExact`)
is shown by way of a least counterexample: `Least` gives one from the well-foundedness of
`<` on the naturals, and `SinglesUnique` refutes it.

### `UntilReady_proofs` and `Combinators_proofs`

`UntilReady_proofs` has `TypeCorrect` (which bounds every wait) and `NeverTooShort`
(`RefusedAgainOnlyIfOvertaken`), for any number of tasks, quota, batches, jitter and
amount the clock is set back, from `UntilAssumption` and `WaitingAssumption` (the few
intervals a decision adds up fit in 64 bits). The invariant, `NotShort`, says
that once a task's Delay has run out, its batch will conform to the word it has last
observed, `words[seen[k]]`, whichever of the three clock readings has been taken, unless
the clock was set back. A refusal after that is then decided on a later word. The
order of the words (`WordsFacts`, `WordsMoved`) carries this over time passing and the
clock being set back.

`Combinators_proofs` proves all the safety properties of `Combinators`, from
`CombinatorsAssumption` and `WaitingAssumption`: `TypeCorrect`, `StreamsKeepItems` (`[]NothingLost`), `ItemsPaidOnce`
(`[]OneCellPerItem`), `SendNeverPanics` (`[]NoPanic`) and `DelaysLongEnough`
(`[]NotAskedEarly`), for any number of streams, sinks and items, any quota, jitter
and lag. `NothingLost` alone is not inductive: that yielding appends the next item
needs the buffer to be full in `NotReady` and `Wait` and empty in `ReadInner`
(`StreamOK`). `NoPanic` needs that a grant outlives nothing but the state `Ready`
(`SinkOK`), and `NotAskedEarly` that a Delay is long enough from its reset on
(`DelayNotShort`). Both modules take the decision as a distance from now (`BatchNow`)
from `Waiting_proofs`.

### `FakeClock_proofs`

From `FakeClockAssumption` (all the advances together fit in 64 bits):

* `TimeKept` (`[]NoTimeLost`). `IInv` adds that what a thread is about to
  store is its step added to the word it saw (`NextUpToDate`).
* `TypeCorrect` and `ReadingsMoveOn` (`[]TimeMovesOn`). That no sum wraps is a matter
  of counting (`Counted`): the calls begun are the words stored plus the threads still in
  `advance`. Then words only ascend (`Ordered`), and what a thread can count
  on is in the word it has seen (`Floors`).
* `ReadingsInclude` (`[]AdvancesShow`), for finitely many threads. The invariant
  (`Explained`) says that every word can be split into shares of the threads, that
  the shares only grow along the order, and that what a thread knows of another's advances is at most
  that one's share of the word it has seen. The shares are not a variable: they are
  guessed by an existential quantifier and extended at every exchange.

`ReadingsInclude` needs facts about `SumFunction`, a fold over a set. They
too are shown on a smallest counterexample (`SmallestSet`): that such a sum exists
(`SumsExist`), is unique (`SumsAgree`), grows with its terms (`SumMonotone`) and by as
much as one of them grows (`SumOfOneMore`).

### Only model-checked

The liveness properties (`CheckReturns`, `KeyedReturns`, `AllResolve`, `AllThrough`,
`AdvanceReturns`), which rest on fairness and are beyond the proof system.

## Findings

* `snapshot_refused`: `remaining_burst_capacity` of a refusal's snapshot is the
  full burst size, documented as 0 (`middleware.rs:108-109`): the snapshot of a
  refusal carries the earliest time both as time of measurement and as tat.
* `snapshot_oversized`: `t * (n - 1)` (`gcra.rs:151`) wraps for large batches, which
  then go through; documented as impossible (`state/direct.rs:89-90`).
* `snapshot_too_fast`: `per_second(n)` with `n` above 10^9 has interval zero; the
  limiter uses 1 ns instead, so `burst_size_replenished_in` (zero) is wrong.
* `keyed_delayed`: `retain_recent` (`state/keyed.rs:237`) drops a key that a call
  still under way can tell from a fresh one, if that call read a time more than
  `t` before the sweep's; documented as dropping only keys whose "values are no
  different from keys' that aren't present" (`state/keyed.rs:218-220`).

`retain_recent` is also more careful than its documentation (`state/keyed.rs:230-231`)
says: a key whose tat lies in the past by less than `t` stays. That margin is what
makes delays up to `t` harmless.

One more difference, in a function that nothing in the crate calls but tests:
`Reference::saturating_sub` is documented to return the current reference when an
underflow occurs (`clock.rs:70-72`), and does for `Duration`, `Instant` and
`SystemTime`; for `Nanos` (`nanos.rs:105-107`), and so for `FakeRelativeClock` and
quanta's clocks, it returns 0.

## Not modelled, and the plan

Not modelled at all: formatting, `Debug`/`Display`, benches, the guide. The build
with overflow checks is the same model wherever `NoOverflow` holds.

Left out of modelled parts: `len` and `is_empty` of the keyed stores, `get_ref` and
`size_hint` of the combinators, which only read; `get_mut`, which hands the inner
stream or sink to the caller; a clock that is set back under the combinators, and
tasks that hand a combinator on to another task between polls. A custom `StateStore`,
`Clock` or middleware is its author's.

`QuantaUpkeepClock` reads a word that a thread of the crate `quanta` updates. To a
limiter it is a monotonic clock that moves in jumps, which the runs with a
monotonic clock include; the thread's start and stop, and how far the clock lags
behind real time, are not part of this code.

Next, in this order:

1. `WindowConformance` for each key of a `KeyedLimiter`, removals included, stated and
   proved of `AtomicLimiter` and carried over by the refinement.
2. How often a call can be overtaken, as an invariant over a count of its retries; now
   it follows from `RetryProgress` by arithmetic outside the model.
3. The combinators under a clock that is set back, and a combinator that moves from one
   task to another between polls.
