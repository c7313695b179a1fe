\* One replica whose timed-out calls go on beside the redelivery, two rules and
\* one fault, under fairness.
SPECIFICATION FairRuleSpec
CONSTANTS
  Workers = {w1}
  Events = {e1}
  Keys = {k1}
  w1 = w1
  w2 = w2
  e1 = e1
  k1 = k1
  Routes <- OneRoute
  Known <- BothKnow
  Skew <- SameClocks
  NumRules = 2
  MaxAttempts = 2
  LeaseTime = 1
  SinkLease = 1
  RetryBase = 1
  RetryCap = 1
  BatchSize = 1
  MaxDelay = 0
  MaxFaults = 1
  Horizon = 0
  NULL = NULL
INVARIANTS
  RuleTypeOK
  RuleSingleOwner
  DoneMeansRun
  RunsBounded
PROPERTIES
  NoRerun
  RulesEventuallyRun
