\* A quick disconnect or a sweep overtakes a registration.
SPECIFICATION Spec
CONSTANTS
  a1 = a1
  a2 = a2
  b1 = b1
  ann = ann
  bob = bob
  red = red
  blue = blue
  Conns <- Reload
  Players <- TwoPlayers
  Rooms = {red, blue}
  PlayerOf <- WhoReloads
  RoomOf <- OneRoom
  ChannelCap = 4
  CloseCap = 4
  SendCap = 2
  BindsFirst = FALSE
  NoConn = NoConn
INVARIANTS
  HubSurvives
CHECK_DEADLOCK FALSE
