SPECIFICATION MCSpec
CONSTANTS
  Labels = {1, 2}
  MaxNum = 3
  MaxAccepts = 3
  MaxAsks = 2
  MaxDrops = 1
  Ends = {3, 9}
  Flights = {1, 2}
CHECK_DEADLOCK FALSE
INVARIANT LogsSurvive
INVARIANT ServesClient
PROPERTY ImplementLogs
PROPERTY Delivers
