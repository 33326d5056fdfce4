---------------------------- MODULE LeakyBucket ----------------------------
(***************************************************************************)
(* The meter that governor/README.md says GCRA is functionally equivalent  *)
(* to: a bucket that holds `size` cells of a given weight and drains one   *)
(* unit of weight per unit of time.  It keeps a level, where the code keeps*)
(* a theoretical arrival time.                                             *)
(***************************************************************************)
EXTENDS Naturals

CONSTANT Sizes      \* how many cells are poured at once

VARIABLES
  weight, size,     \* fixed when the bucket is made
  now, level,
  verdict           \* on what was poured last

bucket == <<weight, size, now, level, verdict>>

Init ==
  /\ weight \in Nat \ {0}
  /\ size \in Nat \ {0}
  /\ now \in Nat
  /\ level = 0
  /\ verdict = "none"

Fits(n) == level + n * weight <= size * weight

Drain ==
  /\ now' \in Nat
  /\ now' > now
  /\ level' = IF level > now' - now THEN level - (now' - now) ELSE 0
  /\ UNCHANGED <<weight, size, verdict>>

Pour(n) ==
  /\ Fits(n)
  /\ level' = level + n * weight
  /\ verdict' = "allowed"
  /\ UNCHANGED <<weight, size, now>>

Spill(n) ==
  /\ ~Fits(n)
  /\ verdict' = "refused"
  /\ UNCHANGED <<weight, size, now, level>>

Next == Drain \/ \E n \in Sizes : Pour(n) \/ Spill(n)

Spec == Init /\ [][Next]_bucket
=============================================================================
