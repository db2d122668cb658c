CONSTANTS
  ItemCount = 2
  Outcomes = {clear}
  Causes = {cause}
  Subscribers = {}
  None = None
  Workers = {w1}
  MAX_ATTEMPTS = 2
  MaxRetries = 2
  Deployments = {"configured", "misconfigured"}
  Readings = {"read", "refused", "rate-limited", "quota-exhausted", "permanent", "transient"}
  MaxFaults = 1
  MaxCrashes = 2
  MaxExpiries = 0
  MaxResets = 0
SPECIFICATION FairSpec
CHECK_DEADLOCK FALSE
INVARIANTS OneVerdictUnlessOverlap RedeliveriesSuffice
PROPERTIES JobFinishes QueueDrains
