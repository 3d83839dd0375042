SPECIFICATION MCSpec
CONSTANTS
  NoDb = NoDb
  NoFile = NoFile
  MaxBlocks = 5
  MaxStops = 0
  WritesFail = FALSE
  StartAt = 3
  Requests = {r1, r2}
SYMMETRY Symmetry
CHECK_DEADLOCK FALSE
INVARIANT StateIsBest
INVARIANT RootIsLogHead
INVARIANT StartsAgainFromBlocks
PROPERTY FailedPushRestores
PROPERTY SnapshotsAnswered
