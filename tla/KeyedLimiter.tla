---------------------------- MODULE KeyedLimiter ----------------------------
(***************************************************************************)
(* A keyed rate limiter shared by several threads: check_key, check_key_n  *)
(* and retain_recent (state/keyed.rs) over either store of the crate, the  *)
(* HashMap behind one mutex (keyed/hashmap.rs) or the DashMap with a       *)
(* read-write lock for each shard (keyed/dashmap.rs).                      *)
(*                                                                         *)
(* The compare-and-swap loop on the word of one key is a single step here. *)
(* It runs under a lock that keeps the key in the map, and DirectLimiter   *)
(* shows that it implements a single test and update whose refusal may     *)
(* name an earlier time than it should.                                    *)
(*                                                                         *)
(* `clock` is the time since the limiter was built; a SystemClock may set  *)
(* it back.  `peak` and `kept` are history variables: the latest time the  *)
(* clock has shown, and the word each key would have if none were ever     *)
(* removed from the map.                                                   *)
(***************************************************************************)
EXTENDS Gcra

CONSTANTS
  Threads, Keys, Sizes,
  NoKey,            \* the key of a thread that is in no call
  Stores,           \* the stores to choose from
  Shards,           \* the number of shards of a DashMap
  ShardOf,          \* and the one of each key
  MaxBurst, Replenish1Per,
  MaxClock,         \* bound: the last time
  MaxDelay,         \* bound: how far the time a call has read may be behind
                    \* the latest, by the time it measures the key
  Monotonic         \* FALSE: SystemClock

gcra == GcraNew([max_burst |-> MaxBurst, replenish_1_per |-> Replenish1Per])

T == gcra.t

Tau == gcra.tau

ASSUME KeyedAssumption ==
  /\ Sizes \subseteq Nat \ {0}
  /\ NoKey \notin Keys
  /\ Shards \in Nat \ {0}
  /\ ShardOf \in [Keys -> 1 .. Shards]
  /\ Stores \subseteq {"hashmap", "dashmap"}
  /\ MaxBurst \in 1 .. U32 - 1
  /\ Replenish1Per \in Nat
  /\ MaxClock \in Nat /\ MaxDelay \in Nat
  /\ Monotonic \in BOOLEAN
  /\ T * (MaxBurst - 1) < U64
  /\ MaxClock + 2 * Tau + T < U64
  /\ \A n \in Sizes : T * (n - 1) < U64

VARIABLES clock, peak, store, words, kept, pc, key, req, sweep, out

times == <<clock, peak>>

vars == <<times, store, words, kept, pc, key, req, sweep, out>>

NoReq == [t0 |-> 0, n |-> 0, add |-> 0]

NoSweep == [drop_below |-> 0, shard |-> 0]

Outcome(kind, at, add) == [kind |-> kind, at |-> at, add |-> add]

Requests == [t0 : 0 .. MaxClock, n : Sizes \cup {0, 1}, add : 0 .. Tau]

Outcomes ==
  [kind : {"none", "allowed", "not_until", "insufficient"},
   at : Nat, add : 0 .. Tau]

(* No key is ever left in the map with the word 0 of a state that was never *)
(* measured (InMemoryState::default), whatever the calls and sweeps do.     *)
TypeOK ==
  /\ clock \in 0 .. peak
  /\ peak \in 0 .. MaxClock
  /\ store \in Stores
  /\ DOMAIN words \subseteq Keys
  /\ \A k \in DOMAIN words : words[k] \in Nanos \ {0}
  /\ kept \in [Keys -> Nanos]
  /\ pc \in [Threads -> {"idle", "get", "measure", "entry", "retain", "shrink"}]
  /\ key \in [Threads -> Keys \cup {NoKey}]
  /\ req \in [Threads -> Requests]
  /\ sweep \in [Threads -> [drop_below : 0 .. MaxClock, shard : 0 .. Shards]]
  /\ out \in [Threads -> [Keys -> Outcomes]]

(* The constructors for either store, with any clock and hasher. *)
Construct ==
  /\ store \in Stores
  /\ words = <<>>

Init ==
  /\ clock = 0
  /\ peak = 0
  /\ Construct
  /\ kept = [k \in Keys |-> 0]
  /\ pc = [th \in Threads |-> "idle"]
  /\ key = [th \in Threads |-> NoKey]
  /\ req = [th \in Threads |-> NoReq]
  /\ sweep = [th \in Threads |-> NoSweep]
  /\ out = [th \in Threads |-> [k \in Keys |-> Outcome("none", 0, 0)]]

-----------------------------------------------------------------------------
InCall(th) == pc[th] \in {"get", "measure", "entry"}

(* No call lags behind the latest time by more than MaxDelay. *)
LagsBehind(latest) ==
  \A th \in Threads : InCall(th) => latest - req[th].t0 <= MaxDelay

Tick ==
  /\ clock < MaxClock
  /\ clock' = clock + 1
  /\ peak' = MaxOf(peak, clock')
  /\ LagsBehind(peak')
  /\ UNCHANGED <<store, words, kept, pc, key, req, sweep, out>>

(* SystemTime is set back; before the start, every time measures 0. *)
StepBack ==
  /\ ~Monotonic
  /\ clock' \in 0 .. clock - 1
  /\ peak - clock' <= MaxDelay
  /\ UNCHANGED <<peak, store, words, kept, pc, key, req, sweep, out>>

(* The clock is read before the store is asked for the key. *)
Enter(th, k, n, add) ==
  /\ pc[th] = "idle"
  /\ pc' = [pc EXCEPT ![th] = "get"]
  /\ key' = [key EXCEPT ![th] = k]
  /\ req' = [req EXCEPT ![th] = [t0 |-> clock, n |-> n, add |-> add]]
  /\ UNCHANGED <<times, store, words, kept, sweep, out>>

CheckKey(th, k) == Enter(th, k, 1, 0)

CheckKeyN(th, k, n) ==
  LET add == AdditionalWeight(gcra, n)
  IN  /\ ~ExceedsCapacity(gcra, add)
      /\ Enter(th, k, n, add)

RejectKeyN(th, k, n) ==
  /\ pc[th] = "idle"
  /\ ExceedsCapacity(gcra, AdditionalWeight(gcra, n))
  /\ out' = [out EXCEPT ![th][k] =
                          Outcome("insufficient", Capacity(gcra), 0)]
  /\ UNCHANGED <<times, store, words, kept, pc, key, req, sweep>>

-----------------------------------------------------------------------------
Present(k) == k \in DOMAIN words

Word(k) == IF Present(k) THEN words[k] ELSE 0

Put(k, word) ==
  words' = [x \in DOMAIN words \cup {k} |-> IF x = k THEN word ELSE words[x]]

Return(th, outcome) ==
  /\ pc' = [pc EXCEPT ![th] = "idle"]
  /\ key' = [key EXCEPT ![th] = NoKey]
  /\ req' = [req EXCEPT ![th] = NoReq]
  /\ out' = [out EXCEPT ![th][key[th]] = outcome]

(* measure_and_replace_one on the key's word, 0 if it was not in the map;   *)
(* `soonest` is the earliest time a refusal may name.                       *)
MeasureAndReplaceOne(th, word, soonest) ==
  LET r        == req[th]
      k        == key[th]
      decision == Decision(gcra, word, r.t0, r.add)
  IN  /\ \/ /\ decision.ok
            /\ Put(k, decision.state.tat)
            /\ kept' = [kept EXCEPT ![k] =
                          Decision(gcra, @, r.t0, r.add).state.tat]
            /\ Return(th, Outcome("allowed", 0, 0))
         \/ /\ ~decision.ok
            /\ Put(k, word)
            /\ kept' = kept
            /\ \E at \in MinOf(soonest, decision.state.tat)
                           .. decision.state.tat :
                 Return(th, Outcome("not_until", at, r.add))
      /\ UNCHANGED <<times, store, sweep>>

(* HashMap: look-up, insertion and measurement under the mutex, which no    *)
(* thread holds between two steps.                                          *)
MeasureLocked(th) ==
  /\ store = "hashmap"
  /\ pc[th] = "get"
  /\ MeasureAndReplaceOne(th, Word(key[th]), U64)

(* DashMap: the Ref that get returns holds the shard's read lock. *)
Shard(k) == IF store = "dashmap" THEN ShardOf[k] ELSE 1

ReadLocked(s) ==
  \E th \in Threads : pc[th] = "measure" /\ Shard(key[th]) = s

(* A miss returns None and unlocks the shard. *)
Get(th) ==
  /\ store = "dashmap"
  /\ pc[th] = "get"
  /\ pc' = [pc EXCEPT ![th] = IF Present(key[th]) THEN "measure" ELSE "entry"]
  /\ UNCHANGED <<times, store, words, kept, key, req, sweep, out>>

(* Others may hold the read lock too: this is where words can be stale. *)
Measure(th) ==
  /\ pc[th] = "measure"
  /\ MeasureAndReplaceOne(th, Word(key[th]), req[th].t0 + 1)

(* Faulty: inserts without looking, or inserts and looks the key up again. *)
EntryInsert(th) ==
  /\ pc[th] = "entry"
  /\ ~ReadLocked(Shard(key[th]))
  /\ MeasureAndReplaceOne(th, 0, U64)

EntryThenGet(th) ==
  /\ pc[th] = "entry"
  /\ ~ReadLocked(Shard(key[th]))
  /\ Put(key[th], Word(key[th]))
  /\ pc' = [pc EXCEPT ![th] = "get"]
  /\ UNCHANGED <<times, store, kept, key, req, sweep, out>>

(* entry(key).or_default() locks the shard for writing until the word is    *)
(* measured; by now another thread may have put the key there.              *)
Entry(th) ==
  /\ pc[th] = "entry"
  /\ ~ReadLocked(Shard(key[th]))
  /\ MeasureAndReplaceOne(th, Word(key[th]), U64)

-----------------------------------------------------------------------------
(* Faulty: drops whatever is in the past, without a margin. *)
DropBelowNow == clock

DropBelow == SaturatingSub(clock, T)

Retain(th) ==
  /\ pc[th] = "idle"
  /\ pc' = [pc EXCEPT ![th] = "retain"]
  /\ sweep' = [sweep EXCEPT ![th] = [drop_below |-> DropBelow, shard |-> 1]]
  /\ UNCHANGED <<times, store, words, kept, key, req, out>>

IsOlderThan(k, nanos) == words[k] <= nanos

LastShard(s) == s = IF store = "dashmap" THEN Shards ELSE 1

(* Faulty: begins anew instead of waiting for a shard that is in use. *)
NextShardOrAgain(th) ==
  LET s == sweep[th].shard
  IN  /\ pc' = [pc EXCEPT ![th] =
                  IF LastShard(s) /\ ~ReadLocked(s) THEN "idle" ELSE @]
      /\ sweep' = [sweep EXCEPT ![th] =
                     IF ReadLocked(s) THEN [@ EXCEPT !.shard = 1]
                     ELSE IF LastShard(s) THEN NoSweep
                     ELSE [@ EXCEPT !.shard = s + 1]]
      /\ UNCHANGED <<times, store, kept, key, req, out>>

(* Both kinds of sweep lock one shard after the other for writing. *)
NextShard(th) ==
  LET s == sweep[th].shard
  IN  /\ ~ReadLocked(s)
      /\ pc' = [pc EXCEPT ![th] = IF LastShard(s) THEN "idle" ELSE @]
      /\ sweep' = [sweep EXCEPT ![th] =
                     IF LastShard(s) THEN NoSweep ELSE [@ EXCEPT !.shard = s + 1]]
      /\ UNCHANGED <<times, store, kept, key, req, out>>

RetainShard(th) ==
  LET dropped == {k \in DOMAIN words :
                    /\ Shard(k) = sweep[th].shard
                    /\ IsOlderThan(k, sweep[th].drop_below)}
  IN  /\ pc[th] = "retain"
      /\ words' = [k \in DOMAIN words \ dropped |-> words[k]]
      /\ NextShard(th)

ShrinkToFit(th) ==
  /\ pc[th] = "idle"
  /\ pc' = [pc EXCEPT ![th] = "shrink"]
  /\ sweep' = [sweep EXCEPT ![th] = [drop_below |-> 0, shard |-> 1]]
  /\ UNCHANGED <<times, store, words, kept, key, req, out>>

(* The table moves to a smaller allocation, with all that is in it. *)
ShrinkShard(th) ==
  /\ pc[th] = "shrink"
  /\ NextShard(th)
  /\ UNCHANGED words

-----------------------------------------------------------------------------
(* The steps that wait for nobody, and those that lock a shard for writing. *)
Proceed(th) == MeasureLocked(th) \/ Get(th) \/ Measure(th)

Exclude(th) == Entry(th) \/ RetainShard(th) \/ ShrinkShard(th)

Next ==
  \/ Tick
  \/ StepBack
  \/ \E th \in Threads :
       \/ \E k \in Keys :
            \/ CheckKey(th, k)
            \/ \E n \in Sizes : CheckKeyN(th, k, n) \/ RejectKeyN(th, k, n)
       \/ Retain(th)
       \/ ShrinkToFit(th)
       \/ Proceed(th)
       \/ Exclude(th)

Spec == Init /\ [][Next]_vars

(* A thread in a call keeps running, and one that waits for a lock gets it  *)
(* if it stays free.  Nothing is said of the order in which those who wait  *)
(* are served: readers may keep a writer out for ever.                      *)
FairSpec ==
  /\ Spec
  /\ \A th \in Threads : WF_vars(Proceed(th)) /\ WF_vars(Exclude(th))

-----------------------------------------------------------------------------
(* For callers, every key has a limiter of its own which nobody ever        *)
(* removes: what a call on the key is told, whichever path through the      *)
(* store it takes, is what one atomic test and update of `kept` says, and   *)
(* calls on other keys and sweeps do not matter to it.                      *)
ReqOf(k) == [th \in Threads |-> IF key[th] = k
                                THEN req[th] ELSE NoReq]

OutOf(k) == [th \in Threads |-> out[th][k]]

Own(k) == INSTANCE AtomicLimiter WITH
            tat <- kept[k], req <- ReqOf(k), out <- OutOf(k),
            Times <- 0 .. MaxClock

AsIfNeverRemoved ==
  /\ \A k \in Keys : Own(k)!Init
  /\ [][\A k \in Keys :
          [Own(k)!Next]_<<kept[k], ReqOf(k), OutOf(k)>>]_vars

(* "those keys that are stale" go: when retain_recent returns, no key as    *)
(* old as its mark is in the map, also none that calls have put into a      *)
(* shard after the sweep was there.                                         *)
SweepComplete ==
  [][\A th \in Threads :
       (pc[th] = "retain" /\ pc'[th] = "idle") =>
         \A k \in DOMAIN words' : words'[k] > sweep[th].drop_below]_vars

Sweeping(th) == pc[th] \in {"retain", "shrink"}

(* A thread starts something that will lock shard s. *)
Starts(s) ==
  \E th \in Threads :
    /\ pc[th] = "idle"
    /\ Sweeping(th)' \/ (InCall(th)' /\ Shard(key[th])' = s)

(* Nobody is in a call on a key of shard s, and no sweep is at it. *)
Left(s) ==
  \A th \in Threads :
    /\ InCall(th) => Shard(key[th]) # s
    /\ Sweeping(th) => sweep[th].shard # s

(* No thread waits for a lock that it holds itself, or that another one     *)
(* never leaves: once nobody starts anything in a shard any more, all that  *)
(* was going on there ends, whatever goes on in the other shards.           *)
KeyedReturns ==
  \A s \in 1 .. Shards : <>[][~Starts(s)]_vars => <>[]Left(s)
=============================================================================
