SPECIFICATION MCSpec
CONSTANTS
  Names = {"a", "b"}
  Keys = {1, 2}
  MaxPasswords = 2
  Nothing = Nothing
CHECK_DEADLOCK FALSE
INVARIANT NothingSkipped
INVARIANT KeysAreKept
PROPERTY CatchesUp
PROPERTY AllWritten
