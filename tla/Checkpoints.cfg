\* Two rounds of three strokes, the second in the place of the first or after it, a flush
\* after two strokes, two posts per flush of which one may be lost, or one reading of the
\* log, one error of the storage.
SPECIFICATION DispatcherSpec
CONSTANTS
  ann = ann
  RoomIds = {r1}
  Codes = {k1}
  Names = {ann}
  Rank <- ById
  Slots = {s1, s2}
  MaxVersion = 6
  MaxFailures = 1
  NoName = NoName
  NoRoom = NoRoom
  Threshold = 2
  TailSize = 2
  Attempts = 2
  RoundStrokes = 3
  MaxRounds = 2
  MaxLosses = 1
INVARIANTS
  DispatcherTypeOK
  FinishedMatchesSnapshot
  TailReachesState
  NothingForgotten
  FlushesAdvance
PROPERTIES
  ImplementsRegistry
  CheckpointsAdvance
  LastStateStored
CHECK_DEADLOCK FALSE
