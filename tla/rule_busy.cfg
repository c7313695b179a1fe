\* The outbox lease expires before the rule lease of a crashed replica.
SPECIFICATION RuleSpec
CONSTANTS
  Workers = {w1, w2}
  Events = {e1}
  Keys = {k1}
  w1 = w1
  w2 = w2
  e1 = e1
  k1 = k1
  Routes <- OneRoute
  Known <- BothKnow
  Skew <- SameClocks
  NumRules = 1
  MaxAttempts = 2
  LeaseTime = 1
  SinkLease = 2
  RetryBase = 1
  RetryCap = 1
  BatchSize = 1
  MaxDelay = 0
  MaxFaults = 1
  Horizon = 0
  NULL = NULL
INVARIANTS
  BusyNotDone
