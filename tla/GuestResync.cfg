\* A page reloaded in the second round.
SPECIFICATION Spec
CONSTANTS
  PerRound = 2
  MaxRound = 1
  MaxDraws = 2
  MaxLosses = 0
  MaxAhead = 4
  MaxReloads = 1
  RendersFirst = TRUE
CHECK_DEADLOCK FALSE
PROPERTIES
  SyncCompletesCanvas
