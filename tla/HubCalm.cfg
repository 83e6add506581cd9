\* Registrations that are not overtaken, with place for every close request.  The
\* system stops once every connection is gone and every room reaped.
SPECIFICATION FairSpec
CONSTANTS
  a1 = a1
  a2 = a2
  b1 = b1
  ann = ann
  bob = bob
  red = red
  blue = blue
  Conns <- Reload
  Players <- TwoPlayers
  Rooms = {red, blue}
  PlayerOf <- WhoReloads
  RoomOf <- OwnRooms
  ChannelCap = 2
  CloseCap = 2
  SendCap = 1
  BindsFirst = TRUE
  NoConn = NoConn
INVARIANTS
  TypeOK
  HubSurvives
  MapsAgree
  LiveConnectionsKnown
PROPERTIES
  BoundUntilGone
  UnregisteredForgotten
  ReapedRoomsEmptied
CHECK_DEADLOCK FALSE
