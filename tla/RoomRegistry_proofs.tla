------------------------ MODULE RoomRegistry_proofs ------------------------
(* For any rooms, codes, names, posts in flight and storage errors: types,   *)
(* the inverse of the codes, and that checkpoints are current and go with    *)
(* their rooms.  AllSpec adds the operations that the run leaves to the      *)
(* modules with real pages: joins, claims, and the clearing of a host.       *)
EXTENDS RoomRegistry, FiniteSetTheorems, TLAPS

-----------------------------------------------------------------------------
\* Every operation of the manager

Seats ==
  \/ \E code \in Codes, name \in Names : RegisterPlayer(code, name)
  \/ \E r \in RoomIds, p \in Names, tuple \in Int \X Int : ClaimHost(r, p, tuple)
  \/ \E r \in RoomIds : UpdateHost(r) \/ ClaimLapses(r)

\* Posts of anybody the handler takes for the host, not only of the creator's page.
AnyPost ==
  \E s \in Slots, r \in RoomIds, caller \in Names, version \in 0..MaxVersion, over \in BOOLEAN :
    PostSnapshot(s, r, caller, version, over)

AllNext == Next \/ Seats \/ AnyPost

AllSpec == Init /\ [][AllNext]_vars

-----------------------------------------------------------------------------
\* The invariant

\* Checkpoints without a room that nobody is about to drop.
Orphans == {r \in RoomIds \ (live \cup reaped) : stored[r] # NoCheckpoint}

\* Rooms that were created have a creator, so that an unborn room is in no set; and
\* nothing is stored for it.
BornRooms ==
  /\ byCode \in [Codes -> RoomIds \cup {NoRoom}]
  /\ \A r \in live \cup reaped : room[r].creator \in Names
  /\ \A r \in RoomIds : room[r] # Unborn => room[r].creator \in Names
  /\ \A r \in RoomIds : room[r] = Unborn => stored[r] = NoCheckpoint
  /\ IsFiniteSet(Orphans)

Inv == TypeOK /\ BornRooms /\ SnapshotIsCurrent /\ NoOrphanCheckpoint

-----------------------------------------------------------------------------
\* A record of a room not created yet has its type.
LEMMA UnbornRoom == Unborn \in Room
<1>1. NoClaim \in Claim /\ 0 \in 0..MaxVersion
  BY RegistryAssumption DEF NoClaim, Claim
<1> QED
  BY <1>1 DEF Unborn, Room

\* The invariant holds at first.
LEMMA InitInv == Init => Inv
<1> SUFFICES ASSUME Init PROVE Inv
  OBVIOUS
<1> USE RegistryAssumption
<1>1. Unborn \in Room
  BY UnbornRoom
<1>2. TypeOK
  BY <1>1 DEF Init, TypeOK, NoCheckpoint, Checkpoint, IdlePost
<1>3. Orphans = {}
  BY DEF Init, Orphans
<1>4. IsFiniteSet(Orphans) /\ Cardinality(Orphans) = 0
  BY <1>3, FS_EmptySet
<1>5. BornRooms
  BY <1>4 DEF Init, BornRooms
<1> QED
  BY <1>2, <1>4, <1>5 DEF Init, Inv, SnapshotIsCurrent, NoOrphanCheckpoint, Orphans

\* Orphans stay few when no room becomes one.
LEMMA FewOrphans ==
  ASSUME Inv, Orphans' \subseteq Orphans, failures' \in Nat, failures' >= failures
  PROVE  IsFiniteSet(Orphans)' /\ NoOrphanCheckpoint'
<1>1. IsFiniteSet(Orphans) /\ Cardinality(Orphans) <= failures
  BY DEF Inv, BornRooms, NoOrphanCheckpoint, Orphans
<1>2. IsFiniteSet(Orphans') /\ Cardinality(Orphans') <= Cardinality(Orphans)
  BY <1>1, FS_Subset
<1>3. Cardinality(Orphans) \in Nat /\ Cardinality(Orphans') \in Nat /\ failures \in Nat
  BY <1>1, <1>2, FS_CardinalityType, RegistryAssumption DEF Inv, TypeOK
<1> QED
  BY <1>1, <1>2, <1>3 DEF NoOrphanCheckpoint, Orphans

\* A live room was created.
LEMMA LiveIsBorn == Inv => \A r \in live : r \in RoomIds /\ room[r] # Unborn
BY RegistryAssumption DEF Inv, TypeOK, BornRooms, Unborn

\* Touching a record leaves what the invariant is about.
LEMMA TouchedRoom ==
  ASSUME NEW x \in Room
  PROVE  /\ Touched(x) \in Room
         /\ Touched(x).code = x.code /\ Touched(x).creator = x.creator
         /\ Touched(x).version = x.version
BY DEF Room, Touched

-----------------------------------------------------------------------------
\* Rooms and players

\* CreateRoom: the room was in no set, and the code led nowhere.
LEMMA CreateRoomInv ==
  ASSUME Inv, NEW r \in RoomIds, NEW code \in Codes, NEW name \in Names,
         CreateRoom(r, code, name)
  PROVE  Inv'
<1> USE RegistryAssumption
<1>1. r \notin live \cup reaped /\ stored[r] = NoCheckpoint
  <2>1. room[r] = Unborn /\ Unborn.creator = NoName
    BY DEF CreateRoom, Unborn
  <2> QED
    BY <2>1 DEF Inv, BornRooms
<1> DEFINE new == [Unborn EXCEPT !.code = code, !.creator = name,
                                 !.host = name, !.players = {name}]
<1>2. new \in Room /\ new.code = code /\ new.creator = name /\ new.version = 0
  <2>1. new.code = code /\ new.creator = name /\ new.version = 0
    BY DEF Unborn
  <2>2. new \in Room
    BY UnbornRoom DEF Room
  <2> QED
    BY <2>1, <2>2
<1>3. /\ room' = [room EXCEPT ![r] = new] /\ live' = live \cup {r}
      /\ byCode' = [byCode EXCEPT ![code] = r] /\ byCode[code] = NoRoom
      /\ game' = [game EXCEPT ![r].there = TRUE]
      /\ UNCHANGED <<stored, posts, reaped, failures>>
  BY DEF CreateRoom
<1> HIDE DEF new
<1>4. room' \in [RoomIds -> Room] /\ byCode' \in [Codes -> RoomIds \cup {NoRoom}]
  BY <1>2, <1>3 DEF Inv, TypeOK, BornRooms
<1>5. \A c \in Codes, q \in RoomIds : byCode'[c] = q <=> q \in live' /\ room'[q].code = c
  <2> TAKE c \in Codes, q \in RoomIds
  <2>1. byCode[c] = q <=> q \in live /\ room[q].code = c
    BY DEF Inv, TypeOK
  <2>2. CASE q = r
    BY <1>1, <1>2, <1>3, <2>1, <2>2 DEF Inv, TypeOK, BornRooms
  <2>3. CASE q # r
    BY <1>2, <1>3, <2>1, <2>3 DEF Inv, TypeOK, BornRooms
  <2> QED
    BY <2>2, <2>3
<1>6. TypeOK'
  <2> DEFINE opened == [game[r] EXCEPT !.there = TRUE]
  <2>0. game' = [game EXCEPT ![r] = opened]
    BY <1>3
  <2>1. opened \in [version : 0..MaxVersion, there : BOOLEAN]
    <3>1. game[r] \in [version : 0..MaxVersion, there : BOOLEAN]
      BY DEF Inv, TypeOK
    <3> QED
      BY <3>1
  <2> HIDE DEF opened
  <2>2. game' \in [RoomIds -> [version : 0..MaxVersion, there : BOOLEAN]]
    BY <2>0, <2>1 DEF Inv, TypeOK
  <2> QED
    BY <1>1, <1>3, <1>4, <1>5, <2>2 DEF Inv, TypeOK
<1>7. Orphans' \subseteq Orphans /\ failures' \in Nat
  BY <1>3 DEF Orphans, Inv, TypeOK
<1>8. IsFiniteSet(Orphans)' /\ NoOrphanCheckpoint'
  BY <1>3, <1>7, FewOrphans
<1>9. BornRooms'
  BY <1>1, <1>2, <1>3, <1>4, <1>8 DEF Inv, TypeOK, BornRooms
<1>10. SnapshotIsCurrent'
  BY <1>1, <1>2, <1>3 DEF Inv, TypeOK, SnapshotIsCurrent, NoCheckpoint
<1> QED
  BY <1>6, <1>8, <1>9, <1>10 DEF Inv

\* What all steps have in common that only touch the record of one room, and keep its
\* code, its creator and its version.
LEMMA RecordInv ==
  ASSUME Inv, NEW r \in RoomIds, NEW new \in Room, room[r] # Unborn,
         room' = [room EXCEPT ![r] = new],
         new.code = room[r].code, new.creator = room[r].creator,
         new.version = room[r].version,
         UNCHANGED <<live, byCode, stored, game, reaped, failures>>,
         posts' \in [Slots -> [stage : {"idle", "checked", "saved"},
                               room : RoomIds \cup {NoRoom},
                               version : 0..MaxVersion, over : BOOLEAN]]
  PROVE  Inv'
<1> USE RegistryAssumption
<1>1. room' \in [RoomIds -> Room]
  BY DEF Inv, TypeOK
<1>2. \A q \in RoomIds : /\ room'[q].code = room[q].code
                         /\ room'[q].creator = room[q].creator
                         /\ room'[q].version = room[q].version
  BY <1>1 DEF Inv, TypeOK
<1>3. TypeOK'
  BY <1>1, <1>2 DEF Inv, TypeOK
<1>4. IsFiniteSet(Orphans)' /\ NoOrphanCheckpoint'
  BY FewOrphans DEF Orphans, Inv, TypeOK
<1>5. BornRooms'
  <2>1. new # Unborn
    BY DEF Inv, BornRooms, Unborn
  <2> QED
    BY <1>1, <1>2, <1>4, <2>1 DEF Inv, TypeOK, BornRooms
<1>6. SnapshotIsCurrent'
  BY <1>1, <1>2 DEF Inv, TypeOK, SnapshotIsCurrent
<1> QED
  BY <1>3, <1>4, <1>5, <1>6 DEF Inv

\* Joins, claims, a cleared host, a claim that lapses.
LEMMA SeatsInv == Inv /\ Seats => Inv'
<1> SUFFICES ASSUME Inv, Seats PROVE Inv'
  OBVIOUS
<1> USE RegistryAssumption
<1>1. ASSUME NEW code \in Codes, NEW name \in Names, RegisterPlayer(code, name)
      PROVE  Inv'
  <2> DEFINE r == byCode[code]
             joined == [room[r] EXCEPT !.players = @ \cup {name}]
  <2>1. r \in RoomIds /\ r \in live /\ room[r] \in Room
    BY <1>1 DEF RegisterPlayer, Inv, TypeOK, BornRooms
  <2>2. /\ room' = [room EXCEPT ![r] = Touched(joined)]
        /\ UNCHANGED <<live, byCode, stored, posts, game, reaped, failures>>
    BY <1>1 DEF RegisterPlayer
  <2>3. joined \in Room /\ joined.code = room[r].code /\ joined.creator = room[r].creator
        /\ joined.version = room[r].version
    BY <2>1 DEF Room
  <2> HIDE DEF r, joined
  <2>4. Touched(joined) \in Room /\ Touched(joined).code = room[r].code
        /\ Touched(joined).creator = room[r].creator
        /\ Touched(joined).version = room[r].version
    BY <2>3, TouchedRoom
  <2> QED
    BY <2>1, <2>2, <2>4, LiveIsBorn, RecordInv DEF Inv, TypeOK
<1>2. ASSUME NEW r \in RoomIds, NEW p \in Names, NEW tuple \in Int \X Int,
             ClaimHost(r, p, tuple)
      PROVE  Inv'
  <2> DEFINE claim == [by |-> p, tuple |-> tuple, recent |-> TRUE]
             seated == [room[r] EXCEPT !.host = p, !.claim = claim]
             new == IF room[r].host = p THEN room[r] ELSE seated
  <2>1. r \in live /\ room[r] \in Room
    BY <1>2 DEF ClaimHost, Endorses, Inv, TypeOK
  <2>2. /\ room' = [room EXCEPT ![r] = Touched(new)]
        /\ UNCHANGED <<live, byCode, stored, posts, game, reaped, failures>>
    BY <1>2 DEF ClaimHost
  <2>3. claim \in Claim
    BY DEF Claim
  <2> HIDE DEF claim
  <2>4. seated \in Room /\ seated.code = room[r].code /\ seated.creator = room[r].creator
        /\ seated.version = room[r].version
    BY <2>1, <2>3 DEF Room
  <2> HIDE DEF seated
  <2>5. new \in Room /\ new.code = room[r].code /\ new.creator = room[r].creator
        /\ new.version = room[r].version
    BY <2>1, <2>4
  <2> HIDE DEF new
  <2>6. Touched(new) \in Room /\ Touched(new).code = room[r].code
        /\ Touched(new).creator = room[r].creator
        /\ Touched(new).version = room[r].version
    BY <2>5, TouchedRoom
  <2> QED
    BY <2>1, <2>2, <2>6, LiveIsBorn, RecordInv DEF Inv, TypeOK
<1>3. ASSUME NEW r \in RoomIds, UpdateHost(r)
      PROVE  Inv'
  <2> DEFINE new == [room[r] EXCEPT !.host = NoName]
  <2>1. r \in live /\ room[r] \in Room
    BY <1>3 DEF UpdateHost, Inv, TypeOK
  <2>2. /\ room' = [room EXCEPT ![r] = Touched(new)]
        /\ UNCHANGED <<live, byCode, stored, posts, game, reaped, failures>>
    BY <1>3 DEF UpdateHost
  <2>3. new \in Room /\ new.code = room[r].code /\ new.creator = room[r].creator
        /\ new.version = room[r].version
    BY <2>1 DEF Room
  <2> HIDE DEF new
  <2>4. Touched(new) \in Room /\ Touched(new).code = room[r].code
        /\ Touched(new).creator = room[r].creator
        /\ Touched(new).version = room[r].version
    BY <2>3, TouchedRoom
  <2> QED
    BY <2>1, <2>2, <2>4, LiveIsBorn, RecordInv DEF Inv, TypeOK
<1>4. ASSUME NEW r \in RoomIds, ClaimLapses(r)
      PROVE  Inv'
  <2> DEFINE claim == [room[r].claim EXCEPT !.recent = FALSE]
             new == [room[r] EXCEPT !.claim = claim]
  <2>0. room[r] \in Room /\ claim \in Claim
    <3>1. room[r] \in Room /\ room[r].claim \in Claim
      BY DEF Inv, TypeOK, Room
    <3> QED
      BY <3>1 DEF Claim
  <2> HIDE DEF claim
  <2>1. new \in Room /\ new.code = room[r].code /\ new.creator = room[r].creator
        /\ new.version = room[r].version
    BY <2>0 DEF Room
  <2>2. /\ room[r] # Unborn /\ room' = [room EXCEPT ![r] = new]
        /\ UNCHANGED <<live, byCode, stored, posts, game, reaped, failures>>
    BY <1>4 DEF ClaimLapses, Unborn, NoClaim, claim
  <2> HIDE DEF new
  <2>3. posts' \in [Slots -> [stage : {"idle", "checked", "saved"},
                              room : RoomIds \cup {NoRoom},
                              version : 0..MaxVersion, over : BOOLEAN]]
    BY <2>2 DEF Inv, TypeOK
  <2> QED
    BY <2>1, <2>2, <2>3, RecordInv
<1> QED
  BY <1>1, <1>2, <1>3, <1>4 DEF Seats

-----------------------------------------------------------------------------
\* Snapshots

Posts == [stage : {"idle", "checked", "saved"}, room : RoomIds \cup {NoRoom},
          version : 0..MaxVersion, over : BOOLEAN]
Games == [version : 0..MaxVersion, there : BOOLEAN]

\* A step that leaves the rooms and the checkpoints alone.
LEMMA QuietInv ==
  ASSUME Inv, UNCHANGED <<live, room, byCode, stored, reaped>>,
         posts' \in [Slots -> Posts], game' \in [RoomIds -> Games],
         failures' \in 0..MaxFailures, failures' >= failures
  PROVE  Inv'
<1> USE RegistryAssumption
<1>1. TypeOK'
  BY DEF Inv, TypeOK, Posts, Games
<1>2. IsFiniteSet(Orphans)' /\ NoOrphanCheckpoint'
  BY FewOrphans DEF Orphans
<1>3. BornRooms' /\ SnapshotIsCurrent'
  BY <1>2 DEF Inv, BornRooms, SnapshotIsCurrent
<1> QED
  BY <1>1, <1>2, <1>3 DEF Inv

\* The host's game.
LEMMA PagesInv ==
  ASSUME Inv, NEW r \in RoomIds, GameMoves(r) \/ HostDisappears(r)
  PROVE  Inv'
<1> USE RegistryAssumption
<1>1. posts \in [Slots -> Posts] /\ game \in [RoomIds -> Games] /\ failures \in 0..MaxFailures
  BY DEF Inv, TypeOK, Posts, Games
<1>2. game' \in [RoomIds -> Games]
  <2> DEFINE moved == [game[r] EXCEPT !.version = @ + 1]
             left == [game[r] EXCEPT !.there = FALSE]
  <2>1. game[r] \in Games
    BY <1>1
  <2>2. left \in Games
    BY <2>1 DEF Games
  <2>3. CASE HostDisappears(r)
    <3>1. game' = [game EXCEPT ![r] = left]
      BY <2>3 DEF HostDisappears
    <3> QED
      BY <1>1, <2>2, <3>1
  <2>4. CASE GameMoves(r)
    <3>1. game' = [game EXCEPT ![r] = moved] /\ game[r].version < MaxVersion
      BY <2>4 DEF GameMoves
    <3>2. moved \in Games
      BY <2>1, <3>1 DEF Games
    <3> HIDE DEF moved
    <3> QED
      BY <1>1, <3>1, <3>2
  <2> QED
    BY <2>3, <2>4
<1> QED
  BY <1>1, <1>2, QuietInv DEF GameMoves, HostDisappears

\* The callers of handleSaveSnap, whoever they are and whatever they post.
LEMMA SnapshotPostedInv ==
  ASSUME Inv, NEW s \in Slots, NEW r \in RoomIds, NEW caller,
         NEW version \in 0..MaxVersion, NEW over \in BOOLEAN,
         PostSnapshot(s, r, caller, version, over)
  PROVE  Inv'
<1>1. posts \in [Slots -> Posts] /\ game \in [RoomIds -> Games] /\ failures \in 0..MaxFailures
  BY DEF Inv, TypeOK, Posts, Games
<1>2. posts' \in [Slots -> Posts]
  BY <1>1 DEF PostSnapshot, Posts
<1> QED
  BY <1>1, <1>2, RegistryAssumption, QuietInv DEF PostSnapshot

\* Whatever becomes of a post, its slot keeps its type.
LEMMA PostTypes ==
  ASSUME Inv, NEW s \in Slots
  PROVE  /\ [posts EXCEPT ![s] = IdlePost] \in [Slots -> Posts]
         /\ [posts EXCEPT ![s].stage = "saved"] \in [Slots -> Posts]
<1>1. posts \in [Slots -> Posts] /\ posts[s] \in Posts
  BY DEF Inv, TypeOK, Posts
<1>2. IdlePost \in Posts
  BY RegistryAssumption DEF IdlePost, Posts
<1>3. [posts[s] EXCEPT !.stage = "saved"] \in Posts
  BY <1>1 DEF Posts
<1> QED
  BY <1>1, <1>2, <1>3

\* The save brings record and checkpoint to the same version.
LEMMA SaveInv ==
  ASSUME Inv, NEW s \in Slots, SaveCheckpoint(s)
  PROVE  Inv'
<1> USE RegistryAssumption
<1> DEFINE r == posts[s].room
           version == posts[s].version
           counted == [room[r] EXCEPT !.version = version]
           saved == [version |-> version, over |-> posts[s].over]
<1>1. posts[s] \in Posts
  BY DEF Inv, TypeOK, Posts
<1>2. /\ r \in live /\ r \in RoomIds /\ room[r] \in Room /\ room[r] # Unborn
      /\ version \in 0..MaxVersion
  BY <1>1, LiveIsBorn DEF SaveCheckpoint, Inv, TypeOK, Posts
<1>3. /\ stored' = [stored EXCEPT ![r] = saved]
      /\ room' = [room EXCEPT ![r] = Touched(counted)]
      /\ posts' = [posts EXCEPT ![s].stage = "saved"]
      /\ UNCHANGED <<live, byCode, game, reaped, failures>>
  BY DEF SaveCheckpoint
<1>4. saved \in Checkpoint /\ saved.version = version
  BY <1>1 DEF Checkpoint, Posts
<1> HIDE DEF saved
<1>5. counted \in Room /\ counted.code = room[r].code /\ counted.creator = room[r].creator
      /\ counted.version = version
  BY <1>2 DEF Room
<1> HIDE DEF counted, version, r
<1>6. /\ Touched(counted) \in Room /\ Touched(counted).code = room[r].code
      /\ Touched(counted).creator = room[r].creator /\ Touched(counted).version = version
  BY <1>5, TouchedRoom
<1>7. TypeOK'
  <2>1. room' \in [RoomIds -> Room] /\ stored' \in [RoomIds -> Checkpoint]
    BY <1>2, <1>3, <1>4, <1>6 DEF Inv, TypeOK
  <2>2. \A q \in RoomIds : room'[q].code = room[q].code
    BY <1>2, <1>3, <1>6 DEF Inv, TypeOK
  <2> QED
    BY <1>3, <2>1, <2>2, PostTypes DEF Inv, TypeOK, Posts
<1>8. IsFiniteSet(Orphans)' /\ NoOrphanCheckpoint'
  <2>1. Orphans' \subseteq Orphans
    BY <1>2, <1>3 DEF Orphans, Inv, TypeOK
  <2> QED
    BY <1>3, <2>1, FewOrphans DEF Inv, TypeOK
<1>9. BornRooms'
  <2>1. Touched(counted).creator \in Names
    BY <1>2, <1>6 DEF Inv, BornRooms
  <2>2. Touched(counted) # Unborn
    BY <2>1 DEF Unborn
  <2> QED
    BY <1>2, <1>3, <1>8, <2>1, <2>2 DEF Inv, TypeOK, BornRooms
<1>10. SnapshotIsCurrent'
  BY <1>2, <1>3, <1>4, <1>6 DEF Inv, TypeOK, SnapshotIsCurrent
<1> QED
  BY <1>7, <1>8, <1>9, <1>10 DEF Inv

\* Refused and failed posts, and the tag.
LEMMA PostInv ==
  ASSUME Inv, NEW s \in Slots, Post(s)
  PROVE  Inv'
<1> USE RegistryAssumption
<1>1. posts \in [Slots -> Posts] /\ game \in [RoomIds -> Games] /\ failures \in 0..MaxFailures
  BY DEF Inv, TypeOK, Posts, Games
<1>2. CASE SnapshotRefused(s)
  <2>1. posts' \in [Slots -> Posts]
    BY <1>2, PostTypes DEF SnapshotRefused
  <2> QED
    BY <1>1, <1>2, <2>1, QuietInv DEF SnapshotRefused
<1>3. CASE SnapshotFails(s)
  <2>1. posts' \in [Slots -> Posts]
    BY <1>3, PostTypes DEF SnapshotFails
  <2> QED
    BY <1>1, <1>3, <2>1, QuietInv DEF SnapshotFails
<1>4. CASE SaveCheckpoint(s)
  BY <1>4, SaveInv
<1>5. CASE SetFinished(s)
  <2> DEFINE r == posts[s].room
             tagged == [room[r] EXCEPT !.finished = posts[s].over]
  <2>1. CASE r \notin live
    <3>1. /\ posts' = [posts EXCEPT ![s] = IdlePost]
          /\ UNCHANGED <<live, room, byCode, stored, game, reaped, failures>>
      BY <1>5, <2>1 DEF SetFinished
    <3>2. posts' \in [Slots -> Posts]
      BY <3>1, PostTypes
    <3> QED
      BY <1>1, <3>1, <3>2, QuietInv
  <2>2. CASE r \in live
    <3>1. r \in RoomIds /\ room[r] \in Room /\ room[r] # Unborn /\ posts[s].over \in BOOLEAN
      BY <1>1, <2>2, LiveIsBorn DEF Inv, TypeOK, Posts
    <3>2. /\ room' = [room EXCEPT ![r] = Touched(tagged)]
          /\ posts' = [posts EXCEPT ![s] = IdlePost]
          /\ UNCHANGED <<live, byCode, stored, game, reaped, failures>>
      BY <1>5, <2>2 DEF SetFinished
    <3>3. tagged \in Room /\ tagged.code = room[r].code /\ tagged.creator = room[r].creator
          /\ tagged.version = room[r].version
      BY <3>1 DEF Room
    <3> HIDE DEF r, tagged
    <3>4. Touched(tagged) \in Room /\ Touched(tagged).code = room[r].code
          /\ Touched(tagged).creator = room[r].creator
          /\ Touched(tagged).version = room[r].version
      BY <3>3, TouchedRoom
    <3>5. posts' \in [Slots -> Posts]
      BY <3>2, PostTypes
    <3> QED
      BY <3>1, <3>2, <3>4, <3>5, RecordInv DEF Posts
  <2> QED
    BY <2>1, <2>2
<1> QED
  BY <1>2, <1>3, <1>4, <1>5 DEF Post

-----------------------------------------------------------------------------
\* Time and the sweeper

LEMMA TimeInv ==
  ASSUME Inv, NEW r \in RoomIds, TimePasses(r)
  PROVE  Inv'
<1> USE RegistryAssumption
<1> DEFINE rested == [room[r] EXCEPT !.age = @ + 1]
           claim == [room[r].claim EXCEPT !.recent = FALSE]
           new == [rested EXCEPT !.claim = claim]
<1>1. room[r] \in Room /\ room[r] # Unborn /\ room[r].age \in 0..1
  BY LiveIsBorn DEF TimePasses, Inv, TypeOK, Room
<1>2. /\ room' = [room EXCEPT ![r] = new]
      /\ UNCHANGED <<live, byCode, stored, posts, game, reaped, failures>>
  <2> DEFINE middle == [room EXCEPT ![r] = rested]
  <2>1. room' = [middle EXCEPT ![r].claim.recent = FALSE]
    BY DEF TimePasses
  <2>2. middle[r] = rested /\ rested.claim = room[r].claim
    BY <1>1 DEF Inv, TypeOK, Room
  <2>3. room' = [middle EXCEPT ![r] = new]
    BY <2>1, <2>2
  <2>4. room' = [room EXCEPT ![r] = new]
    BY <2>3 DEF Inv, TypeOK
  <2> QED
    BY <2>4 DEF TimePasses
<1>3. rested \in Room /\ rested.code = room[r].code /\ rested.creator = room[r].creator
      /\ rested.version = room[r].version
  BY <1>1 DEF Room
<1>4. claim \in Claim
  <2>1. room[r].claim \in Claim
    BY <1>1 DEF Room
  <2> QED
    BY <2>1 DEF Claim
<1> HIDE DEF rested, claim
<1>5. new \in Room /\ new.code = room[r].code /\ new.creator = room[r].creator
      /\ new.version = room[r].version
  BY <1>3, <1>4 DEF Room
<1> HIDE DEF new
<1> QED
  BY <1>1, <1>2, <1>5, RecordInv DEF Inv, TypeOK

\* The rooms leave the maps together, and are all still to be dropped.
LEMMA SweepInv == Inv /\ Sweep => Inv'
<1> SUFFICES ASSUME Inv, Sweep PROVE Inv'
  OBVIOUS
<1> USE RegistryAssumption
<1>1. Expired \subseteq live /\ live \subseteq RoomIds
  BY DEF Expired, Inv, TypeOK
<1>2. /\ reaped = {} /\ live' = live \ Expired /\ reaped' = Expired
      /\ byCode' = [c \in Codes |-> IF byCode[c] \in Expired THEN NoRoom ELSE byCode[c]]
      /\ UNCHANGED <<room, stored, posts, game, failures>>
  BY DEF Sweep
<1>3. live' \cup reaped' = live \cup reaped
  BY <1>1, <1>2
<1>4. \A c \in Codes, r \in RoomIds : byCode'[c] = r <=> r \in live' /\ room'[r].code = c
  <2> TAKE c \in Codes, r \in RoomIds
  <2>1. byCode[c] = r <=> r \in live /\ room[r].code = c
    BY DEF Inv, TypeOK
  <2>2. byCode'[c] = IF byCode[c] \in Expired THEN NoRoom ELSE byCode[c]
    BY <1>2
  <2> QED
    BY <1>1, <1>2, <2>1, <2>2
<1>5. TypeOK'
  BY <1>1, <1>2, <1>4 DEF Inv, TypeOK
<1>6. IsFiniteSet(Orphans)' /\ NoOrphanCheckpoint'
  BY <1>2, <1>3, FewOrphans DEF Orphans, Inv, TypeOK
<1>7. BornRooms' /\ SnapshotIsCurrent'
  BY <1>1, <1>2, <1>3, <1>6 DEF Inv, TypeOK, BornRooms, SnapshotIsCurrent
<1> QED
  BY <1>5, <1>6, <1>7 DEF Inv

\* A drop that fails leaves one more orphan, and one more failure.
LEMMA DropInv ==
  ASSUME Inv, NEW r \in RoomIds, DropCheckpoint(r)
  PROVE  Inv'
<1> USE RegistryAssumption
<1>1. /\ r \in reaped /\ r \notin live /\ reaped' = reaped \ {r}
      /\ UNCHANGED <<live, room, byCode, posts, game>>
  BY DEF DropCheckpoint, Inv, TypeOK
<1>2. CASE stored' = [stored EXCEPT ![r] = NoCheckpoint] /\ UNCHANGED failures
  <2>1. stored' \in [RoomIds -> Checkpoint] /\ stored'[r] = NoCheckpoint
        /\ \A q \in RoomIds \ {r} : stored'[q] = stored[q]
    BY <1>2 DEF Inv, TypeOK, Checkpoint, NoCheckpoint
  <2>2. Orphans' \subseteq Orphans
    BY <1>1, <2>1 DEF Orphans
  <2>3. IsFiniteSet(Orphans)' /\ NoOrphanCheckpoint'
    BY <1>2, <2>2, FewOrphans DEF Inv, TypeOK
  <2>4. TypeOK'
    BY <1>1, <1>2, <2>1 DEF Inv, TypeOK
  <2>5. BornRooms'
    BY <1>1, <2>1, <2>3 DEF Inv, BornRooms
  <2>6. SnapshotIsCurrent'
    BY <1>1, <2>1 DEF Inv, TypeOK, SnapshotIsCurrent
  <2> QED
    BY <2>3, <2>4, <2>5, <2>6 DEF Inv
<1>3. CASE failures < MaxFailures /\ failures' = failures + 1 /\ UNCHANGED stored
  <2>1. Orphans' \subseteq Orphans \cup {r}
    BY <1>1, <1>3 DEF Orphans
  <2>2. IsFiniteSet(Orphans) /\ Cardinality(Orphans) <= failures
    BY DEF Inv, BornRooms, NoOrphanCheckpoint, Orphans
  <2>3. IsFiniteSet(Orphans \cup {r})
        /\ Cardinality(Orphans \cup {r}) <= Cardinality(Orphans) + 1
    <3>1. Cardinality(Orphans) \in Nat
      BY <2>2, FS_CardinalityType
    <3>2. CASE r \in Orphans
      <4>1. Orphans \cup {r} = Orphans
        BY <3>2
      <4> QED
        BY <2>2, <3>1, <4>1
    <3>3. CASE r \notin Orphans
      <4>1. IsFiniteSet(Orphans \cup {r}) /\ Cardinality(Orphans \cup {r}) = Cardinality(Orphans) + 1
        BY <2>2, <3>3, FS_AddElement, Zenon
      <4> QED
        BY <3>1, <4>1
    <3> QED
      BY <3>2, <3>3
  <2>4. IsFiniteSet(Orphans') /\ Cardinality(Orphans') <= Cardinality(Orphans \cup {r})
    BY <2>1, <2>3, FS_Subset
  <2>5. Cardinality(Orphans) \in Nat /\ Cardinality(Orphans') \in Nat
        /\ Cardinality(Orphans \cup {r}) \in Nat /\ failures \in 0..MaxFailures
    BY <2>2, <2>3, <2>4, FS_CardinalityType DEF Inv, TypeOK
  <2>6. NoOrphanCheckpoint'
    BY <1>3, <2>2, <2>3, <2>4, <2>5 DEF NoOrphanCheckpoint, Orphans
  <2>7. TypeOK'
    BY <1>1, <1>3, <2>5 DEF Inv, TypeOK
  <2>8. BornRooms' /\ SnapshotIsCurrent'
    BY <1>1, <1>3, <2>4 DEF Inv, BornRooms, SnapshotIsCurrent
  <2> QED
    BY <2>6, <2>7, <2>8 DEF Inv
<1> QED
  BY <1>2, <1>3 DEF DropCheckpoint

-----------------------------------------------------------------------------
\* The theorems

LEMMA NextInv == Inv /\ [AllNext]_vars => Inv'
<1> SUFFICES ASSUME Inv, [AllNext]_vars PROVE Inv'
  OBVIOUS
<1>1. CASE UNCHANGED vars
  BY <1>1 DEF vars, Inv, TypeOK, BornRooms, Orphans, SnapshotIsCurrent, NoOrphanCheckpoint
<1>2. CASE Seats
  BY <1>2, SeatsInv
<1>3. CASE AnyPost
  <2>1. PICK s \in Slots, r \in RoomIds, caller \in Names, version \in 0..MaxVersion,
              over \in BOOLEAN : PostSnapshot(s, r, caller, version, over)
    BY <1>3 DEF AnyPost
  <2> QED
    BY <2>1, SnapshotPostedInv
<1>4. CASE Next
  <2>1. CASE \E r \in RoomIds, code \in Codes, name \in Names : CreateRoom(r, code, name)
    BY <2>1, CreateRoomInv
  <2>2. CASE \E r \in RoomIds : GameMoves(r) \/ HostDisappears(r)
    BY <2>2, PagesInv
  <2>3. CASE \E r \in RoomIds : TimePasses(r)
    BY <2>3, TimeInv
  <2>4. CASE \E r \in RoomIds : DropCheckpoint(r)
    BY <2>4, DropInv
  <2>5. ASSUME NEW s \in Slots, NEW r \in RoomIds, HostPosts(s, r)
        PROVE  Inv'
    <3>1. game[r].version \in 0..MaxVersion
      BY DEF Inv, TypeOK
    <3>2. PICK version \in 1..game[r].version, over \in BOOLEAN :
            PostSnapshot(s, r, room[r].creator, version, over)
      BY <2>5 DEF HostPosts
    <3>3. version \in 0..MaxVersion
      BY <3>1, RegistryAssumption
    <3> QED
      BY <3>2, <3>3, SnapshotPostedInv
  <2>6. CASE \E s \in Slots : Post(s)
    BY <2>6, PostInv
  <2>7. CASE Sweep
    BY <2>7, SweepInv
  <2> QED
    BY <1>4, <2>1, <2>2, <2>3, <2>4, <2>5, <2>6, <2>7 DEF Next
<1> QED
  BY <1>1, <1>2, <1>3, <1>4 DEF AllNext

\* Whatever is called, in any order, the registry keeps its invariant.
THEOREM RegistryInvariant == AllSpec => []Inv
BY InitInv, NextInv, PTL DEF AllSpec

\* The pages of the run are some of those the theorem is about.
LEMMA SpecInv == Spec => []Inv
<1>1. [Next]_vars => [AllNext]_vars
  BY DEF AllNext
<1> QED
  BY <1>1, InitInv, NextInv, PTL DEF Spec

\* Types, and a code leads to one room: manager.go keeps byID and byCode together.
THEOREM RegistryTypeCorrect == Spec => []TypeOK
BY SpecInv, PTL DEF Inv

\* The version a live room reports is that of its checkpoint, whatever posts overlap and
\* however often the storage fails (SaveCheckpoint).
THEOREM CheckpointCurrent == Spec => []SnapshotIsCurrent
BY SpecInv, PTL DEF Inv

\* Checkpoints go with their rooms, but for those the storage refused to drop (SweepOnce).
THEOREM CheckpointsGo == Spec => []NoOrphanCheckpoint
BY SpecInv, PTL DEF Inv
=============================================================================
