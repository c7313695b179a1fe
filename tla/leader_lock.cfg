\* Two replicas; two edits, or one edit beside one fault.  An answer may be
\* under way until the lease it tells of is over.
SPECIFICATION Spec
CONSTANTS
  r1 = r1
  r2 = r2
  r3 = r3
  Replica = {r1, r2}
  TTL = 4
  MaxDelay = 1
  MaxVersion = 2
  MaxFaults = 1
  NULL = NULL
SYMMETRY Replicas
CONSTRAINT Bounded
INVARIANTS
  LeaderTypeOK
  SingleLeader
  DisagreementBounded
  TimersSilent
  TimersCurrent
