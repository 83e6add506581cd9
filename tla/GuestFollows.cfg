\* Two rounds of two strokes, the second after the first or in its place; a relay that
\* loses a frame, or a log read that fails; a reload; a host that pauses after two frames.
SPECIFICATION FairSpec
CONSTANTS
  PerRound = 2
  MaxRound = 1
  MaxDraws = 2
  MaxLosses = 1
  MaxAhead = 2
  MaxReloads = 1
  RendersFirst = TRUE
CHECK_DEADLOCK FALSE
INVARIANTS
  TypeOK
  PaintedOnce
  SettledPageIsComplete
PROPERTIES
  ViewCatchesUp
