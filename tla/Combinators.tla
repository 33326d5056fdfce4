---------------------------- MODULE Combinators ----------------------------
(***************************************************************************)
(* RatelimitedStream (state/direct/streams.rs) and RatelimitedSink         *)
(* (state/direct/sinks.rs) on one limiter: each a state machine that its   *)
(* task polls.  A poll runs until it returns, and between two iterations   *)
(* of its loop other tasks use the limiter and time passes.  An inner sink *)
(* may fail, a task may use the half of a combinator that is passed        *)
(* through, and it may take the combinator apart.                          *)
(*                                                                         *)
(* The inner streams and sinks, the Delay and the executor are not part of *)
(* this code; what is assumed of them is that whoever answers Pending      *)
(* wakes the task later on, and that one task polls a combinator.          *)
(***************************************************************************)
EXTENDS Waiting, Sequences

CONSTANTS
  Streams, Sinks,
  Items,            \* the number of items of a stream, or for a sink
  MaxLag            \* bound: the time from a reference reading to its check

Users == Streams \cup Sinks

ASSUME CombinatorsAssumption ==
  /\ Streams \cap Sinks = {}
  /\ Items \in Nat
  /\ MaxLag \in Nat

VARIABLES
  lead,             \* how far ahead the limiter's tat is
  state,            \* the State of each combinator
  pc,               \* where in poll_next or poll_ready its task is
  lag,              \* how long ago `reference` was read
  owed, left,       \* until the time a refusal named, until the Delay fires
  waker,            \* who will wake the task: its inner part, its Delay
  woken,
  buf, given,       \* streams: the item held back, the items yielded
  read,             \* streams: how many items were read from the inner one
  granted,          \* sinks: whether poll_ready has returned Ready(Ok)
  sent,             \* sinks: how many items were passed to the inner one,
                    \* whether it took them or failed
  cells,            \* history: how many cells the limiter let through
  panicked

vars == <<lead, state, pc, lag, owed, left, waker, woken, buf, given, read,
          granted, sent, cells, panicked>>

delays == <<lag, owed, left>>

streams == <<buf, given, read>>

sinks == <<granted, sent>>

(* The buffer is 0 when empty; the items are 1, 2, ...  One refused cell is *)
(* never owed longer than the interval of one cell.                        *)
TypeOK ==
  /\ lead \in 0 .. Tau + T
  /\ state \in [Users -> {"ReadInner", "NotReady", "Wait", "Ready", "gone"}]
  /\ pc \in [Users -> {"out", "loop", "reference", "reset"}]
  /\ lag \in [Users -> 0 .. MaxLag]
  /\ owed \in [Users -> 0 .. T]
  /\ left \in [Users -> 0 .. T + MaxLag + JitterMax]
  /\ waker \in [Users -> SUBSET {"inner", "delay"}]
  /\ woken \in [Users -> BOOLEAN]
  /\ buf \in [Streams -> 0 .. Items]
  /\ given \in [Streams -> Seq(1 .. Items)]
  /\ read \in [Streams -> 0 .. Items]
  /\ granted \in [Sinks -> BOOLEAN]
  /\ sent \in [Sinks -> 0 .. Items]
  /\ cells \in [Users -> Nat]
  /\ panicked \in [Sinks -> BOOLEAN]

RatelimitStream == "ReadInner"

RatelimitSink == "NotReady"

Init ==
  /\ lead = 0
  /\ state = [u \in Users |-> IF u \in Streams THEN RatelimitStream
                                             ELSE RatelimitSink]
  /\ pc = [u \in Users |-> "out"]
  /\ lag = [u \in Users |-> 0]
  /\ owed = [u \in Users |-> 0]
  /\ left = [u \in Users |-> 0]
  /\ waker = [u \in Users |-> {}]
  /\ woken = [u \in Users |-> TRUE]
  /\ buf = [s \in Streams |-> 0]
  /\ given = [s \in Streams |-> <<>>]
  /\ read = [s \in Streams |-> 0]
  /\ granted = [k \in Sinks |-> FALSE]
  /\ sent = [k \in Sinks |-> 0]
  /\ cells = [u \in Users |-> 0]
  /\ panicked = [k \in Sinks |-> FALSE]

-----------------------------------------------------------------------------
(* The world outside: time, wakers, and the task's decision to poll. *)
Tick ==
  /\ \A u \in Users : pc[u] = "reference" => lag[u] < MaxLag
  /\ lead' = Closer(lead)
  /\ lag' = [u \in Users |-> IF pc[u] = "reference" THEN lag[u] + 1 ELSE 0]
  /\ owed' = [u \in Users |-> Closer(owed[u])]
  /\ left' = [u \in Users |-> Closer(left[u])]
  /\ UNCHANGED <<state, pc, waker, woken, streams, sinks, cells, panicked>>

WakeUp(u, by) ==
  /\ by \in waker[u]
  /\ by = "delay" => left[u] = 0
  /\ waker' = [waker EXCEPT ![u] = @ \ {by}]
  /\ woken' = [woken EXCEPT ![u] = TRUE]
  /\ UNCHANGED <<lead, state, pc, delays, streams, sinks, cells, panicked>>

(* A task may poll at any time; one whose work is done does not. *)
Poll(u) ==
  /\ pc[u] = "out" /\ state[u] # "gone"
  /\ u \in Sinks => sent[u] < Items
  /\ pc' = [pc EXCEPT ![u] = "loop"]
  /\ woken' = [woken EXCEPT ![u] = FALSE]
  /\ UNCHANGED <<lead, state, delays, waker, streams, sinks, cells, panicked>>

Pending(u, by) ==
  /\ pc' = [pc EXCEPT ![u] = "out"]
  /\ waker' = [waker EXCEPT ![u] = @ \cup {by}]
  /\ UNCHANGED woken

(* A task that gets what it polled for goes on by itself. *)
Ready(u) ==
  /\ pc' = [pc EXCEPT ![u] = "out"]
  /\ woken' = [woken EXCEPT ![u] = TRUE]
  /\ UNCHANGED waker

-----------------------------------------------------------------------------
(* State::NotReady, the same in poll_next and poll_ready. *)
ReadReference(u) ==
  /\ pc[u] = "loop" /\ state[u] = "NotReady"
  /\ pc' = [pc EXCEPT ![u] = "reference"]
  /\ lag' = [lag EXCEPT ![u] = 0]
  /\ UNCHANGED <<lead, state, owed, left, waker, woken, streams, sinks,
                 cells, panicked>>

(* Faulty: the lag is taken off the wait, not added to it. *)
WaitFromCheck(u, wait, jitter) == SaturatingSub(wait + jitter, lag[u])

(* wait_time_with_offset counts from the reference reading. *)
WaitFrom(u, wait, jitter) == wait + jitter + lag[u]

(* `word` may be one that others have replaced since. *)
Refuse(u) ==
  /\ pc[u] = "reference"
  /\ \E word \in 0 .. lead :
       /\ ~Passes(word, 0)
       /\ owed' = [owed EXCEPT ![u] = Owed(word, 0)]
       /\ \E jitter \in JitterGet :
            left' = [left EXCEPT ![u] = WaitFrom(u, Owed(word, 0), jitter)]
  /\ lag' = [lag EXCEPT ![u] = 0]
  /\ pc' = [pc EXCEPT ![u] = "reset"]
  /\ UNCHANGED <<lead, state, waker, woken, streams, sinks, cells, panicked>>

(* Faulty: returns Pending without polling the Delay it has just reset. *)
PollDelayAfterResetUnpolled(u) ==
  /\ pc[u] = "reset"
  /\ state' = [state EXCEPT ![u] = "Wait"]
  /\ pc' = [pc EXCEPT ![u] = "out"]
  /\ UNCHANGED <<lead, delays, waker, woken, streams, sinks, cells, panicked>>

(* A Delay that has fired already is waited for no more: the loop goes on   *)
(* in state NotReady.                                                       *)
PollDelayAfterReset(u) ==
  /\ pc[u] = "reset"
  /\ \/ /\ left[u] = 0
        /\ pc' = [pc EXCEPT ![u] = "loop"]
        /\ UNCHANGED <<state, waker, woken>>
     \/ /\ left[u] > 0
        /\ state' = [state EXCEPT ![u] = "Wait"]
        /\ Pending(u, "delay")
  /\ UNCHANGED <<lead, delays, streams, sinks, cells, panicked>>

(* Faulty: forgets, after the wait, that there is an item in the buffer.    *)
AfterWaitAnew(u) == IF u \in Streams THEN "ReadInner" ELSE "NotReady"

AfterWait(u) == "NotReady"

(* State::Wait, the same in poll_next and poll_ready. *)
PollDelay(u) ==
  /\ pc[u] = "loop" /\ state[u] = "Wait"
  /\ \/ /\ left[u] = 0
        /\ state' = [state EXCEPT ![u] = AfterWait(u)]
        /\ UNCHANGED <<pc, waker, woken>>
     \/ /\ left[u] > 0
        /\ Pending(u, "delay")
        /\ UNCHANGED state
  /\ UNCHANGED <<lead, delays, streams, sinks, cells, panicked>>

-----------------------------------------------------------------------------
(* State::ReadInner of a stream. *)
InnerPending(s) ==
  /\ pc[s] = "loop" /\ state[s] = "ReadInner"
  /\ read[s] < Items
  /\ Pending(s, "inner")
  /\ UNCHANGED <<lead, state, delays, streams, sinks, cells, panicked>>

InnerItem(s) ==
  /\ pc[s] = "loop" /\ state[s] = "ReadInner"
  /\ read[s] < Items
  /\ read' = [read EXCEPT ![s] = @ + 1]
  /\ buf' = [buf EXCEPT ![s] = read[s] + 1]
  /\ state' = [state EXCEPT ![s] = "NotReady"]
  /\ UNCHANGED <<lead, pc, delays, waker, woken, given, sinks, cells, panicked>>

InnerEnd(s) ==
  /\ pc[s] = "loop" /\ state[s] = "ReadInner"
  /\ read[s] = Items
  /\ pc' = [pc EXCEPT ![s] = "out"]
  /\ UNCHANGED <<lead, state, delays, waker, woken, streams, sinks, cells,
                 panicked>>

Yield(s) ==
  /\ pc[s] = "reference"
  /\ Passes(lead, 0)
  /\ lead' = Stored(lead, 0)
  /\ cells' = [cells EXCEPT ![s] = @ + 1]
  /\ state' = [state EXCEPT ![s] = "ReadInner"]
  /\ given' = [given EXCEPT ![s] = IF buf[s] = 0 THEN @ ELSE Append(@, buf[s])]
  /\ buf' = [buf EXCEPT ![s] = 0]
  /\ lag' = [lag EXCEPT ![s] = 0]
  /\ Ready(s)
  /\ UNCHANGED <<owed, left, read, sinks, panicked>>

-----------------------------------------------------------------------------
Grant(k) ==
  /\ pc[k] = "reference"
  /\ Passes(lead, 0)
  /\ lead' = Stored(lead, 0)
  /\ cells' = [cells EXCEPT ![k] = @ + 1]
  /\ state' = [state EXCEPT ![k] = "Ready"]
  /\ pc' = [pc EXCEPT ![k] = "loop"]
  /\ lag' = [lag EXCEPT ![k] = 0]
  /\ UNCHANGED <<owed, left, waker, woken, streams, sinks, panicked>>

(* Faulty: gives the cell up when the inner sink is not ready, or when it   *)
(* is.                                                                      *)
InnerBusyAnew(k) ==
  /\ pc[k] = "loop" /\ state[k] = "Ready"
  /\ Pending(k, "inner")
  /\ state' = [state EXCEPT ![k] = "NotReady"]
  /\ granted' = [granted EXCEPT ![k] = FALSE]
  /\ UNCHANGED <<lead, delays, streams, sent, cells, panicked>>

InnerReadyAnew(k) ==
  /\ pc[k] = "loop" /\ state[k] = "Ready"
  /\ Ready(k)
  /\ state' = [state EXCEPT ![k] = "NotReady"]
  /\ granted' = [granted EXCEPT ![k] = TRUE]
  /\ UNCHANGED <<lead, delays, streams, sent, cells, panicked>>

(* State::Ready of a sink: what the inner sink's poll_ready answers is      *)
(* passed on.                                                               *)
InnerBusy(k) ==
  /\ pc[k] = "loop" /\ state[k] = "Ready"
  /\ Pending(k, "inner")
  /\ granted' = [granted EXCEPT ![k] = FALSE]
  /\ UNCHANGED <<lead, state, delays, streams, sent, cells, panicked>>

InnerReady(k) ==
  /\ pc[k] = "loop" /\ state[k] = "Ready"
  /\ Ready(k)
  /\ granted' = [granted EXCEPT ![k] = TRUE]
  /\ UNCHANGED <<lead, state, delays, streams, sent, cells, panicked>>

(* Its error, too; the cell stays taken for when the task polls again. *)
InnerFails(k) ==
  /\ pc[k] = "loop" /\ state[k] = "Ready"
  /\ Ready(k)
  /\ granted' = [granted EXCEPT ![k] = FALSE]
  /\ UNCHANGED <<lead, state, delays, streams, sent, cells, panicked>>

(* The task sends only after Ready(Ok); whether the inner sink then takes   *)
(* the item or fails makes no difference here.                              *)
StartSend(k) ==
  /\ pc[k] = "out" /\ granted[k]
  /\ granted' = [granted EXCEPT ![k] = FALSE]
  /\ \/ /\ state[k] = "Ready"
        /\ state' = [state EXCEPT ![k] = "NotReady"]
        /\ sent' = [sent EXCEPT ![k] = @ + 1]
        /\ UNCHANGED panicked
     \/ /\ state[k] # "Ready"
        /\ panicked' = [panicked EXCEPT ![k] = TRUE]
        /\ UNCHANGED <<state, sent>>
  /\ UNCHANGED <<lead, pc, delays, waker, woken, streams, cells>>

-----------------------------------------------------------------------------
(* The operations that go straight to what is inside: the answer Pending    *)
(* leaves one more waker there, any other changes nothing.                  *)
Inside(u) ==
  /\ pc[u] = "out" /\ state[u] # "gone"
  /\ waker' = [waker EXCEPT ![u] = @ \cup {"inner"}]
  /\ UNCHANGED <<lead, state, pc, delays, woken, streams, sinks, cells,
                 panicked>>

(* The Sink that a stream may be as well. *)
PassToSink(s) == s \in Streams /\ Inside(s)

(* poll_flush, poll_close and the Stream that a sink may be as well. *)
PassToInner(k) == k \in Sinks /\ Inside(k)

(* Faulty: does not hand back the item that is held back. *)
IntoInnerOnly(u) ==
  /\ pc[u] = "out" /\ state[u] # "gone"
  /\ state' = [state EXCEPT ![u] = "gone"]
  /\ waker' = [waker EXCEPT ![u] = {}]
  /\ granted' = [k \in Sinks |-> k # u /\ granted[k]]
  /\ buf' = [s \in Streams |-> IF s = u THEN 0 ELSE buf[s]]
  /\ UNCHANGED <<lead, pc, delays, woken, given, read, sent, cells, panicked>>

(* From now on `buf` is the item that was handed back with the inner stream.*)
IntoInner(u) ==
  /\ pc[u] = "out" /\ state[u] # "gone"
  /\ state' = [state EXCEPT ![u] = "gone"]
  /\ waker' = [waker EXCEPT ![u] = {}]
  /\ granted' = [k \in Sinks |-> k # u /\ granted[k]]
  /\ UNCHANGED <<lead, pc, delays, woken, streams, sent, cells, panicked>>

-----------------------------------------------------------------------------
Step(u) ==
  \/ \E by \in {"inner", "delay"} : WakeUp(u, by)
  \/ ReadReference(u) \/ Refuse(u) \/ PollDelayAfterReset(u) \/ PollDelay(u)
  \/ u \in Streams /\ (InnerEnd(u) \/ Yield(u))
  \/ u \in Sinks /\ (Grant(u) \/ StartSend(u))

Next ==
  \/ Tick
  \/ \E u \in Users : Poll(u) \/ Step(u) \/ IntoInner(u)
  \/ \E s \in Streams : InnerPending(s) \/ InnerItem(s) \/ PassToSink(s)
  \/ \E k \in Sinks :
       InnerBusy(k) \/ InnerReady(k) \/ InnerFails(k) \/ PassToInner(k)

Spec == Init /\ [][Next]_vars

(* Time goes on, the executor polls a task that was woken, the inner stream *)
(* or sink does not answer Pending or fail for ever, and a task does not    *)
(* poll a sink for ever without sending.                                    *)
FairSpec ==
  /\ Spec
  /\ WF_vars(Tick)
  /\ \A u \in Users : WF_vars(Step(u)) /\ WF_vars(woken[u] /\ Poll(u))
  /\ \A s \in Streams : SF_vars(InnerItem(s)) /\ WF_vars(InnerPending(s))
  /\ \A k \in Sinks :
       SF_vars(InnerReady(k)) /\ WF_vars(InnerBusy(k)) /\ SF_vars(StartSend(k))

-----------------------------------------------------------------------------
(* No item is lost, duplicated or reordered, and at most one is buffered    *)
(* ("The combinator will buffer at most one item", streams.rs:20), wherever *)
(* in its waits the stream is, whatever else uses the limiter, and when it  *)
(* is taken apart.                                                          *)
NothingLost ==
  \A s \in Streams :
    given[s] \o (IF buf[s] = 0 THEN <<>> ELSE <<buf[s]>>)
      = [i \in 1 .. read[s] |-> i]

(* Each item costs exactly one cell: a stream takes it as it yields the     *)
(* item, a sink ahead of the item, but never a second one, however often    *)
(* the inner sink is busy or fails and the task polls again before it sends.*)
OneCellPerItem ==
  /\ \A s \in Streams : cells[s] = Len(given[s])
  /\ \A k \in Sinks :
       sent[k] <= cells[k] /\ cells[k] <= sent[k] + 1

(* start_send does not panic for a task that has polled the sink to         *)
(* Ready(Ok), also if it polls again before it sends.                       *)
NoPanic == \A k \in Sinks : ~panicked[k]

(* The limiter is not asked again before the time it named; the readings of *)
(* the clock that the wait is computed from are older than the timer's.     *)
NotAskedEarly ==
  \A u \in Users :
    (pc[u] \in {"out", "loop"} /\ state[u] = "Wait") => owed[u] <= left[u]

(* No wake-up is missed: everything a stream has to yield and everything    *)
(* there is to send gets through, however the two are in each other's way,  *)
(* unless the combinator is taken apart before.                             *)
AllThrough ==
  <>(/\ \A s \in Streams : state[s] = "gone" \/ Len(given[s]) = Items
     /\ \A k \in Sinks : state[k] = "gone" \/ sent[k] = Items)
=============================================================================
