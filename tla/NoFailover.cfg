\* The host leaves and its guests claim the room, as the handlers run: nothing clears the host.
SPECIFICATION FailoverSpec
CONSTANTS
  ann = ann
  bob = bob
  cyd = cyd
  RoomIds = {r1}
  Codes = {k1}
  Names = {ann, bob}
  Rank <- ById
  Slots = {}
  MaxVersion = 1
  MaxFailures = 0
  NoName = NoName
  NoRoom = NoRoom
  Founder = ann
  Floors <- TwoFloors
  Clearable = FALSE
  MaxOpenings = 2
  MaxMishaps = 0
PROPERTIES
  HostReplaced
CHECK_DEADLOCK FALSE
