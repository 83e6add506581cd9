\* Three players; a socket drops or the host is cleared once.
SPECIFICATION FailoverSpec
CONSTANTS
  ann = ann
  bob = bob
  cyd = cyd
  RoomIds = {r1}
  Codes = {k1}
  Names = {ann, bob, cyd}
  Rank <- ById
  Slots = {}
  MaxVersion = 1
  MaxFailures = 0
  Founder = ann
  NoName = NoName
  NoRoom = NoRoom
  Floors <- TwoFloors
  Clearable = TRUE
  MaxOpenings = 3
  MaxMishaps = 1
INVARIANTS
  FailoverTypeOK
  OneHostAnnounced
  TimerMeansHostGone
PROPERTIES
  ClaimsImprove
  AnnouncedTakesOver
  KnownGuestsReconnect
CHECK_DEADLOCK FALSE
