\* Two START_ROUND clicks: the second answer lands on a running round.
SPECIFICATION Spec
CONSTANTS
  Players = {ann, bob}
  Cards = {c1, c2}
  Calls = {k1, k2}
  MaxLosses = 0
  NoOne = NoOne
  NoCard = NoCard
  HostWaits = FALSE
  Options <- TableOptions
  ConfigChoices <- ShortGame
SYMMETRY Symmetry
PROPERTIES
  DrawFindsStatusFrozen
