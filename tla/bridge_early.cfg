\* The approver is quicker than the UPDATE that links the bridge; no fault.
SPECIFICATION Spec
CONSTANTS
  x1 = x1
  x2 = x2
  x3 = x3
  d1 = d1
  d2 = d2
  d3 = d3
  First = x1
  Execs = {x1}
  Workers = {d1}
  Tail = 1
  MaxAttempts = 2
  MaxTries = 2
  MaxFaults = 0
  NULL = NULL
INVARIANTS
  CompletionNotLost
CHECK_DEADLOCK FALSE
