SPECIFICATION MCSpec
CONSTANTS
  Schedule <- MCSchedule
  Reps = 2
  Local = {"p"}
  Early = 0
  EarlyLast = 1
  None = None
  MaxHeadAge = 4
  MaxLag = 1
  MaxLead = 2
  MaxFaults = 3
INVARIANT AnsweredOnce
INVARIANT AcceptedNotLost
INVARIANT LoopStaysAlive
PROPERTY OwnSlots
PROPERTY LoopsForever
