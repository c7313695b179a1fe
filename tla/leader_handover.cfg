\* Two replicas and no fault; a leader may be shut down.
SPECIFICATION FairSpec
CONSTANTS
  r1 = r1
  r2 = r2
  r3 = r3
  Replica = {r1, r2}
  TTL = 4
  MaxDelay = 1
  MaxVersion = 0
  MaxFaults = 0
  NULL = NULL
PROPERTIES
  Handover
