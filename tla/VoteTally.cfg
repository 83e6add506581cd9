\* Four players, the default min_players: the smallest number with a 2-2 tie,
\* a 2-1-1 lead and a four-way tie among its ballots.
SPECIFICATION Spec
CONSTANTS
  Players = {ann, bob, cyd, dan}
  NoOne = NoOne
INVARIANTS
  TallyTypeOK
  LoopInvariant
  VerdictIsPlurality
\* The loop ends.
CHECK_DEADLOCK FALSE
