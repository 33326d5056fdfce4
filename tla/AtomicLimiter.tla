--------------------------- MODULE AtomicLimiter ---------------------------
(***************************************************************************)
(* What a shared rate limiter promises (StateStore in state.rs, check and  *)
(* check_n in state/direct.rs): each call takes effect at one instant      *)
(* between its invocation and its return, on whole numbers that never      *)
(* overflow.  There is no atomic variable, no retry and no stale word      *)
(* here; a refusal may only understate how long there is to wait.          *)
(***************************************************************************)
EXTENDS Naturals

CONSTANTS
  Threads, Sizes,
  Times,            \* what a thread may measure
  T, Tau            \* the weight of a cell and the tolerance beyond it

VARIABLES tat, req, out

NoReq == [t0 |-> 0, n |-> 0, add |-> 0]

Outcome(kind, at, add) == [kind |-> kind, at |-> at, add |-> add]

Init ==
  /\ tat = 0
  /\ req = [th \in Threads |-> NoReq]
  /\ out = [th \in Threads |-> Outcome("none", 0, 0)]

Invoke(th, n) ==
  /\ req[th] = NoReq
  /\ T * (n - 1) <= Tau
  /\ \E t0 \in Times :
       req' = [req EXCEPT ![th] = [t0 |-> t0, n |-> n, add |-> T * (n - 1)]]
  /\ UNCHANGED <<tat, out>>

(* A batch larger than the bucket can never go through; the caller is told *)
(* the size of the largest that can.                                       *)
Reject(th, n) ==
  /\ req[th] = NoReq
  /\ T * (n - 1) > Tau
  /\ \E c \in 1 .. n :
       /\ T * (c - 1) <= Tau /\ Tau < T * c
       /\ out' = [out EXCEPT ![th] = Outcome("insufficient", c, 0)]
  /\ UNCHANGED <<tat, req>>

(* A bucket that was never used, or that has drained, starts afresh at t0. *)
From(t0) == IF tat > t0 THEN tat ELSE t0

Fits(r) == From(r.t0) + r.add <= r.t0 + Tau

Return(th, outcome) ==
  /\ req' = [req EXCEPT ![th] = NoReq]
  /\ out' = [out EXCEPT ![th] = outcome]

Admit(th) ==
  /\ req[th] # NoReq
  /\ Fits(req[th])
  /\ tat' = From(req[th].t0) + T * req[th].n
  /\ Return(th, Outcome("allowed", 0, 0))

Deny(th) ==
  /\ req[th] # NoReq
  /\ ~Fits(req[th])
  /\ \E at \in req[th].t0 + 1 .. tat + req[th].add - Tau :
       Return(th, Outcome("not_until", at, req[th].add))
  /\ UNCHANGED tat

Next ==
  \E th \in Threads :
    \/ \E n \in Sizes \cup {1} : Invoke(th, n)
    \/ \E n \in Sizes : Reject(th, n)
    \/ Admit(th)
    \/ Deny(th)

Spec == Init /\ [][Next]_<<tat, req, out>>
=============================================================================
