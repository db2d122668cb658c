CONSTANTS
  ItemCount = 2
  Outcomes = {clear}
  Causes = {cause}
  Subscribers = {}
  None = None
  Workers = {w1,w2}
  MAX_ATTEMPTS = 2
  MaxRetries = 2
  Deployments = {"configured"}
  Readings = {"read", "transient"}
  MaxFaults = 0
  MaxCrashes = 0
  MaxExpiries = 1
  MaxResets = 1
SPECIFICATION FairSpec
CHECK_DEADLOCK FALSE
PROPERTY JobFinishes
