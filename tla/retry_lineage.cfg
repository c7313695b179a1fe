\* A rule with one action of each kind, its first run and two retries, in turn
\* or side by side, and two faults.
SPECIFICATION Spec
CONSTANTS
  Kinds <- AllKinds
  MaxRuns = 3
  LineageDepth = 2
  MaxFaults = 2
INVARIANTS
  RetryTypeOK
  AtMostOnce
  OnceWithoutOverlap
  SuccessIsExplained
\* The lineage ends once every run has.
CHECK_DEADLOCK FALSE
