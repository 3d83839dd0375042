SPECIFICATION Spec
CONSTANTS
  Permissions = {p, q}
  Authorities = {1, 2}
  Kinds = {"updateauth", "deleteauth"}
  MaxChanges = 2
  MaxTime = 4
  MaxSwitches = 1
  Nothing = Nothing
INVARIANT IndexIsState
CHECK_DEADLOCK FALSE
