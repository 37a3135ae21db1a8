CONSTANTS
  Buffer = {b1, b2, b3}
  NULL = NULL
SPECIFICATION FairSpec
INVARIANTS
  LocksReturned
  LatestShown
PROPERTIES
  SwapReturns
CHECK_DEADLOCK FALSE
