\* Three players, three cards, a host that waits for each draw, one lost answer: up
\* to three rounds, ties and plain majorities, a late joiner left out of round 0.
SPECIFICATION Spec
CONSTANTS
  Players = {ann, bob, cyd}
  Cards = {c1, c2, c3}
  Calls = {k1}
  MaxLosses = 1
  NoOne = NoOne
  NoCard = NoCard
  HostWaits = TRUE
  Options <- AllOptions
  ConfigChoices <- ShortGame
SYMMETRY Symmetry
INVARIANTS
  TypeOK
  EveryoneDrew
  VerdictMatchesBallots
  ScoresExplained
  RevealMatchesRounds
  DealtOnce
  RoundOnTrack
PROPERTIES
  PhasesKept
