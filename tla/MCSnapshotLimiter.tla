------------------------- MODULE MCSnapshotLimiter -------------------------
(* Model-checking instances of SnapshotLimiter, on quotas the constructors *)
(* return; Second is 6 in their configurations.                            *)
EXTENDS SnapshotLimiter

Constructed ==
  { PerSecond(2), PerSecond(4), AllowBurst(PerMinute(90), 2),
    AllowBurst(PerHour(4000), 3), WithPeriod(3), AllowBurst(WithPeriod(1), 4),
    QuotaNew(3, 7) }

(* More cells a second than there are nanoseconds in it. *)
TooFast == { PerSecond(8) }

Slow == { AllowBurst(WithPeriod(4), 2) }
=============================================================================
