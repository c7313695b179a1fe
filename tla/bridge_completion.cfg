\* One execution, two deliveries beside each other, up to three in all, and two faults.
SPECIFICATION Spec
CONSTANTS
  x1 = x1
  x2 = x2
  x3 = x3
  d1 = d1
  d2 = d2
  d3 = d3
  First = x1
  Execs = {x1}
  Workers = {d1, d2}
  Tail = 2
  MaxAttempts = 2
  MaxTries = 3
  MaxFaults = 2
  NULL = NULL
SYMMETRY Deliveries
INVARIANTS
  TypeOK
  SingleHolder
  ResumedByHolder
  ConsumedMeansCarried
PROPERTIES
  NeverReopened
  KeepsPromise
CHECK_DEADLOCK FALSE
