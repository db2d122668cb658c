CONSTANTS
  Batch = {b1,b2}
  Single = {s1}
  MaxFaults = 1
  Sweepers = {nightly}
  PURGE_BATCH = 2
  Stuck = {b2}
SPECIFICATION FairSpec
CHECK_DEADLOCK FALSE
INVARIANTS PurgedMeansGone UnlistedOnlyByFailure ShownReviewsJudged
PROPERTIES DueIsPurged
