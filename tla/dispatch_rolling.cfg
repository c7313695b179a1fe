\* A rolling deploy of two replicas: three rows, of which w2 knows one and nobody knows the last.
SPECIFICATION Spec
CONSTANTS
  Workers = {w1, w2}
  Events = {e1}
  Keys = {k1, k2, k3}
  w1 = w1
  w2 = w2
  e1 = e1
  k1 = k1
  k2 = k2
  k3 = k3
  Routes <- AllRoutes
  Known <- RollingDeploy
  Skew <- SameClocks
  MaxAttempts = 1
  LeaseTime = 1
  RetryBase = 1
  RetryCap = 1
  BatchSize = 3
  MaxDelay = 0
  MaxFaults = 1
  Horizon = 0
  NULL = NULL
INVARIANTS
  UnknownKeysWait
PROPERTIES
  TickDrains
