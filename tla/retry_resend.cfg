\* A webhook that failed and two retries at once.
SPECIFICATION Spec
CONSTANTS
  Kinds <- OneWebhook
  MaxRuns = 3
  LineageDepth = 2
  MaxFaults = 0
INVARIANTS
  DeliveredOnce
CHECK_DEADLOCK FALSE
