\* The ticks of two replicas at one row, a tick with a batch of two rows, an edited webhook, and one without retries.
SPECIFICATION FairSpec
CONSTANTS
  d1 = d1
  d2 = d2
  w1 = w1
  w2 = w2
  Delivery = {d1, d2}
  Replica = {w1, w2}
  Setups <- AllSetups
  MaxRetries = 2
  MaxFailures = 2
INVARIANTS
  WebhookTypeOK
  TriesBounded
  OutcomeExplained
PROPERTIES
  Settles
  SuccessKept
  DisabledForCause
CHECK_DEADLOCK FALSE
