SPECIFICATION MCSpec
CONSTANTS
  Accounts = {1, 2}
  MaxUint = 3
  Precision = 1
  Genesis = {1}
  Limits <- MCLimits
  Deltas <- MCDeltas
  MaxSets = 2
CHECK_DEADLOCK FALSE
INVARIANT RamWithinLimit
INVARIANT TotalsAreSums
INVARIANT ShouldNeverFail
INVARIANT ValidatorAgrees
INVARIANT TwiceItsShare
PROPERTY FollowsLoad
