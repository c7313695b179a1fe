\* An execution and two retries of it, which race, and one delivery at a time.
SPECIFICATION Spec
CONSTANTS
  x1 = x1
  x2 = x2
  x3 = x3
  d1 = d1
  d2 = d2
  d3 = d3
  First = x1
  Execs = {x1, x2, x3}
  Workers = {d1}
  Tail = 1
  MaxAttempts = 1
  MaxTries = 1
  MaxFaults = 2
  NULL = NULL
SYMMETRY Retries
INVARIANTS
  OneLiveApproval
CHECK_DEADLOCK FALSE
