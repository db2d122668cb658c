CONSTANTS
  Presses = {p1,p2}
  Size = 2
  Readable = {{2},{1,2}}
  Caps = {0,2}
  None = None
  MaxFaults = 1
  MaxResets = 1
SPECIFICATION FairSpec
CHECK_DEADLOCK FALSE
INVARIANTS SentJobsEnd AbortedHasNoSurvivors TwoJobsOnlyByOverlap
PROPERTIES AnsweredJobEnds
