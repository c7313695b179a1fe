\* One row, two workers with skewed clocks, statements that land late, faults. Under fairness.
SPECIFICATION FairSpec
CONSTANTS
  Workers = {w1, w2}
  Events = {e1}
  Keys = {k1}
  w1 = w1
  w2 = w2
  e1 = e1
  k1 = k1
  k2 = k2
  k3 = k3
  Routes <- OneRoute
  Known <- BothKnow
  Skew <- SkewedClocks
  MaxAttempts = 2
  LeaseTime = 2
  RetryBase = 1
  RetryCap = 1
  BatchSize = 2
  MaxDelay = 1
  MaxFaults = 1
  Horizon = 1
  NULL = NULL
INVARIANTS
  TypeOK
  SingleOwner
  DoneIsDelivered
  DroppedForCause
  AttemptsAccounted
  OncePerTick
PROPERTIES
  TerminalIsFinal
  BackoffKept
  KeepsPromise
  EventuallySettled
