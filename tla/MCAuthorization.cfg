SPECIFICATION MCSpec
CONSTANTS
  Custom = {"p", "q"}
  Types = {"t"}
  MaxActions = 2
  Nothing = Nothing
INVARIANT ReferencesResolve
INVARIANT PowerIsDeclared
INVARIANT CheckerAgrees
INVARIANT RootIsMerkle
PROPERTY DeadlinesHold
CHECK_DEADLOCK FALSE
