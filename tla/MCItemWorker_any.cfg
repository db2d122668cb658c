CONSTANTS
  ItemCount = 2
  Outcomes = {clear}
  Causes = {cause}
  Subscribers = {}
  None = None
  Workers = {w1,w2}
  MAX_ATTEMPTS = 2
  MaxRetries = 2
  Deployments = {"configured", "misconfigured", "unbound"}
  Readings = {"read", "refused", "quota-exhausted"}
  MaxFaults = 1
  MaxCrashes = 0
  MaxExpiries = 1
  MaxResets = 1
SPECIFICATION Spec
CHECK_DEADLOCK FALSE
SYMMETRY WorkerSymmetry
INVARIANTS DurableBeforeLedger CompletedIsBacked ChainedVerdictsExist AbortHasNoSurvivors
