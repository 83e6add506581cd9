\* Liveness, so no symmetry: players who play, a host that waits, no losses.
SPECIFICATION FairSpec
CONSTANTS
  Players = {ann, bob}
  Cards = {c1, c2}
  Calls = {k1}
  MaxLosses = 0
  NoOne = NoOne
  NoCard = NoCard
  HostWaits = TRUE
  Options <- TableOptions
  ConfigChoices <- StepwiseGame
PROPERTIES
  GameEnds
