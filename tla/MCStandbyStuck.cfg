SPECIFICATION MCSpec
CONSTANTS
  alpha = alpha
  beta = beta
  gamma = gamma
  delta = delta
  Genesis = sys
  Schedule <- Four
  producer_repetitions = 1
  maximum_tracked_dpos_confirmations = 4
  MaxSlots = 11
  MaxRestarts = 1
CHECK_DEADLOCK FALSE
INVARIANT ProposalCanMove
