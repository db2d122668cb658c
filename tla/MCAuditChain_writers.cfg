CONSTANTS
  Calls = {c1, c2, c3, c4}
  Forbidden = {c4}
  Attempts = 2
  PageSize = 2
  Digests <- MCDigests
  GENESIS <- MCGenesis
  ChainDigest <- MCDigest
  MaxThrows = 1
SPECIFICATION Spec
CHECK_DEADLOCK FALSE
INVARIANTS ChainIntact ReadingHolds
PROPERTY KeepsTheLog
