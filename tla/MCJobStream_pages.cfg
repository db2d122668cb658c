CONSTANTS
  ItemCount = 2
  Outcomes = {clear}
  Causes = {fault, stopped}
  Subscribers = {p1}
  None = None
  MaxStarts = 2
  MaxInFlight = 1
  MaxDrops = 1
  MaxResyncs = 1
SPECIFICATION Spec
INVARIANTS PageTracksLedger NoFalseFinish
PROPERTIES SettledIsFinal FinishReachesPages
