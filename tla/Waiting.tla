------------------------------ MODULE Waiting ------------------------------
(***************************************************************************)
(* What the futures and the stream and sink combinators share: a limiter   *)
(* they check, and the waits they derive from a refusal and a Jitter.      *)
(*                                                                         *)
(* Their clocks are ReasonablyRealtime: the limiter's clock and the timer  *)
(* of a Delay advance together.  Nothing depends on the absolute time, so  *)
(* each instant is kept as its distance from now: a stored tat as how far  *)
(* it lies ahead, an instant a task waits for as the time still to go.     *)
(* Time need not be bounded then.                                          *)
(*                                                                         *)
(* A check is one step, in which its clock is read: as DirectLimiter shows,*)
(* it implements a single test and update of the latest word, except that  *)
(* a refusal may be decided on a word that others have replaced since.     *)
(***************************************************************************)
EXTENDS Gcra

CONSTANTS
  MaxBurst, Replenish1Per,
  JitterMin, JitterMax      \* the two fields of the Jitter

gcra == GcraNew([max_burst |-> MaxBurst, replenish_1_per |-> Replenish1Per])

T == gcra.t

Tau == gcra.tau

ASSUME WaitingAssumption ==
  /\ MaxBurst \in 1 .. U32 - 1
  /\ Replenish1Per \in Nat
  /\ JitterMin \in Nat /\ JitterMax \in Nat
  /\ JitterMin <= JitterMax
  /\ 5 * (Tau + T) < U64

(* Some instant after Tau; which one makes no difference to the decision.   *)
(* A tat in the past, and a word never stored to, count like a tat of now.  *)
Now == Tau + 1

(* A decision on a word that lies `ahead` of now. *)
DecisionNow(ahead, add) == Decision(gcra, Now + ahead, Now, add)

Passes(ahead, add) == DecisionNow(ahead, add).ok

(* How far ahead the word is that an admission stores ... *)
Stored(ahead, add) == DecisionNow(ahead, add).state.tat - Now

(* ... and the earliest time that a refusal names. *)
Owed(ahead, add) == DecisionNow(ahead, add).state.tat - Now

(* Jitter::get: the interval's upper end is left out, unless it is empty;   *)
(* without the feature "jitter" it is always its lower end.                 *)
JitterGet ==
  IF JitterMin = JitterMax THEN {JitterMin} ELSE JitterMin .. JitterMax - 1

(* What is left of a distance when time has moved on by one. *)
Closer(distance) == SaturatingSub(distance, 1)

(* No call is ever told to wait longer than a full burst takes to refill. *)
LongestWait == Tau + T
=============================================================================
