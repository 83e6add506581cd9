\* Two posts of one room overlap, the storage fails once, the room is swept.  Every
\* room is used once: the system stops.
SPECIFICATION Spec
CONSTANTS
  ann = ann
  RoomIds = {r1, r2}
  Codes = {k1}
  Names = {ann}
  Rank <- ById
  Slots = {s1, s2}
  MaxVersion = 2
  MaxFailures = 1
  NoName = NoName
  NoRoom = NoRoom
SYMMETRY Symmetry
INVARIANTS
  TypeOK
  SnapshotIsCurrent
  NoOrphanCheckpoint
CHECK_DEADLOCK FALSE
