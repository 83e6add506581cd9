---------------------------- MODULE RoomRegistry ----------------------------
(***************************************************************************)
(* The server's room registry (internal/rooms/manager.go) and the handlers *)
(* that call it (internal/server/handlers_p2p.go).  Every method is one    *)
(* critical section; a POST of a snapshot takes three of them, and a sweep *)
(* deletes checkpoints after it has let the lock go.  Next drives the rooms *)
(* and their snapshots with a careless host page.  The page as it is, and  *)
(* guests that join and claim, are in CheckpointDispatcher and Failover.   *)
(*                                                                         *)
(* RegisterPlayer finds players by name, so within a room a name stands    *)
(* for the player.  Time is abstracted to what the code compares it with:  *)
(* how long a room has rested (age) and whether a claim is still recent.   *)
(***************************************************************************)
EXTENDS Integers, FiniteSets

CONSTANTS RoomIds,     \* each is used once
          Codes,
          Names,
          Rank,        \* the order of the player ids
          Slots,       \* snapshot posts in flight: bounds their number
          MaxVersion,  \* bound on the versions of a game
          MaxFailures, \* bound on the errors of the storage
          NoName,
          NoRoom

ASSUME RegistryAssumption ==
  /\ NoName \notin Names /\ NoRoom \notin RoomIds
  /\ Rank \in [Names -> Nat] /\ \A p, q \in Names : Rank[p] = Rank[q] => p = q
  /\ MaxVersion \in Nat /\ MaxFailures \in Nat

VARIABLES live,     \* rooms in byID
          room,     \* their records
          byCode,
          stored,   \* the checkpoint of a room in storage; version 0: none
          posts,    \* handleSaveSnap calls in flight
          game,     \* the host page of a room: version, still there
          reaped,   \* evicted rooms whose checkpoint SweepOnce has yet to drop
          failures  \* errors of the storage so far

vars == <<live, room, byCode, stored, posts, game, reaped, failures>>

NoClaim == [by |-> NoName, tuple |-> <<0, 0>>, recent |-> FALSE]

Unborn == [code |-> NoRoom, creator |-> NoName, host |-> NoName, players |-> {},
           version |-> 0, finished |-> FALSE, age |-> 0, claim |-> NoClaim]

NoCheckpoint == [version |-> 0, over |-> FALSE]

IdlePost == [stage |-> "idle", room |-> NoRoom, version |-> 0, over |-> FALSE]

Init ==
  /\ live = {}
  /\ room = [r \in RoomIds |-> Unborn]
  /\ byCode = [c \in Codes |-> NoRoom]
  /\ stored = [r \in RoomIds |-> NoCheckpoint]
  /\ posts = [s \in Slots |-> IdlePost]
  /\ game = [r \in RoomIds |-> [version |-> 0, there |-> FALSE]]
  /\ reaped = {}
  /\ failures = 0

\* UpdatedAt = now, with the other fields of a record.
Touched(record) == [record EXCEPT !.age = 0]

-----------------------------------------------------------------------------
\* Rooms and players

\* mintCode tries codes until it finds a free one.
CreateRoom(r, code, name) ==
  /\ room[r] = Unborn
  /\ byCode[code] = NoRoom
  /\ live' = live \cup {r}
  /\ room' = [room EXCEPT ![r] = [Unborn EXCEPT !.code = code, !.creator = name,
                                                !.host = name, !.players = {name}]]
  /\ byCode' = [byCode EXCEPT ![code] = r]
  /\ game' = [game EXCEPT ![r].there = TRUE]
  /\ UNCHANGED <<stored, posts, reaped, failures>>

\* handleJoinRoom: a known name gets the player it had, and nothing changes.
RegisterPlayer(code, name) ==
  LET r == byCode[code]
  IN  /\ r # NoRoom
      /\ name \notin room[r].players
      /\ room' = [room EXCEPT ![r] = Touched([@ EXCEPT !.players = room[r].players \cup {name}])]
      /\ UNCHANGED <<live, byCode, stored, posts, game, reaped, failures>>

-----------------------------------------------------------------------------
\* Snapshots

\* The host's engine broadcasts: a new version.
GameMoves(r) ==
  /\ r \in live
  /\ game[r].there
  /\ game[r].version < MaxVersion
  /\ game' = [game EXCEPT ![r].version = @ + 1]
  /\ UNCHANGED <<live, room, byCode, stored, posts, reaped, failures>>

\* handleSaveSnap: the room exists and the caller is its host.
PostSnapshot(s, r, caller, version, over) ==
  /\ r \in live
  /\ posts[s].stage = "idle"
  /\ room[r].host = caller
  /\ posts' = [posts EXCEPT ![s] = [stage |-> "checked", room |-> r,
                                    version |-> version, over |-> over]]
  /\ UNCHANGED <<live, room, byCode, stored, game, reaped, failures>>

\* A careless page of the creator posts any state it has had, over or not, although
\* its earlier calls still run.
HostPosts(s, r) ==
  /\ game[r].there
  /\ \E version \in 1..game[r].version, over \in BOOLEAN :
       PostSnapshot(s, r, room[r].creator, version, over)

\* 409: the room is gone, the version is not newer, or the storage fails.
SnapshotRefused(s) ==
  /\ posts[s].stage = "checked"
  /\ posts[s].room \notin live \/ posts[s].version <= room[posts[s].room].version
  /\ posts' = [posts EXCEPT ![s] = IdlePost]
  /\ UNCHANGED <<live, room, byCode, stored, game, reaped, failures>>

SnapshotFails(s) ==
  /\ posts[s].stage = "checked"
  /\ posts[s].room \in live /\ posts[s].version > room[posts[s].room].version
  /\ failures < MaxFailures
  /\ failures' = failures + 1
  /\ posts' = [posts EXCEPT ![s] = IdlePost]
  /\ UNCHANGED <<live, room, byCode, stored, game, reaped>>

\* Mutant: the room is looked up by the handler only, not under the lock.
SaveCheckpointUnchecked(s) ==
  LET r == posts[s].room
  IN  /\ posts[s].stage = "checked"
      /\ posts[s].version > room[r].version
      /\ stored' = [stored EXCEPT ![r] = [version |-> posts[s].version, over |-> posts[s].over]]
      /\ room' = [room EXCEPT ![r] = Touched([@ EXCEPT !.version = posts[s].version])]
      /\ posts' = [posts EXCEPT ![s].stage = "saved"]
      /\ UNCHANGED <<live, byCode, game, reaped, failures>>

\* Mutant: late snapshots are accepted.
SaveCheckpointLate(s) ==
  LET r == posts[s].room
  IN  /\ posts[s].stage = "checked"
      /\ r \in live
      /\ stored' = [stored EXCEPT ![r] = [version |-> posts[s].version, over |-> posts[s].over]]
      /\ room' = [room EXCEPT ![r] = Touched([@ EXCEPT !.version = posts[s].version])]
      /\ posts' = [posts EXCEPT ![s].stage = "saved"]
      /\ UNCHANGED <<live, byCode, game, reaped, failures>>

\* Mutant: the record of the room does not learn the saved version.
SaveCheckpointUncounted(s) ==
  LET r == posts[s].room
  IN  /\ posts[s].stage = "checked"
      /\ r \in live
      /\ posts[s].version > room[r].version
      /\ stored' = [stored EXCEPT ![r] = [version |-> posts[s].version, over |-> posts[s].over]]
      /\ room' = [room EXCEPT ![r] = Touched(@)]
      /\ posts' = [posts EXCEPT ![s].stage = "saved"]
      /\ UNCHANGED <<live, byCode, game, reaped, failures>>

SaveCheckpoint(s) ==
  LET r == posts[s].room
  IN  /\ posts[s].stage = "checked"
      /\ r \in live
      /\ posts[s].version > room[r].version
      /\ stored' = [stored EXCEPT ![r] = [version |-> posts[s].version, over |-> posts[s].over]]
      /\ room' = [room EXCEPT ![r] = Touched([@ EXCEPT !.version = posts[s].version])]
      /\ posts' = [posts EXCEPT ![s].stage = "saved"]
      /\ UNCHANGED <<live, byCode, game, reaped, failures>>

\* Mutant: the tag is only ever set.
SetFinishedForGood(s) ==
  LET r == posts[s].room
  IN  /\ posts[s].stage = "saved"
      /\ room' = IF r \in live
                 THEN [room EXCEPT ![r] = Touched([@ EXCEPT !.finished = @ \/ posts[s].over])]
                 ELSE room
      /\ posts' = [posts EXCEPT ![s] = IdlePost]
      /\ UNCHANGED <<live, byCode, stored, game, reaped, failures>>

\* The third critical section: the tag follows the snapshot just saved.
SetFinished(s) ==
  LET r == posts[s].room
  IN  /\ posts[s].stage = "saved"
      /\ room' = IF r \in live
                 THEN [room EXCEPT ![r] = Touched([@ EXCEPT !.finished = posts[s].over])]
                 ELSE room
      /\ posts' = [posts EXCEPT ![s] = IdlePost]
      /\ UNCHANGED <<live, byCode, stored, game, reaped, failures>>

-----------------------------------------------------------------------------
\* The host of a room

\* Mutant: more strokes win whatever the version.
TupleBeatsByStrokes(t, p, u, q) ==
  \/ t[2] > u[2]
  \/ t[2] = u[2] /\ t[1] > u[1]
  \/ t = u /\ Rank[p] < Rank[q]

\* tupleBeats: a newer version, then more strokes, then the smaller player id.
TupleBeats(t, p, u, q) ==
  \/ t[1] > u[1]
  \/ t[1] = u[1] /\ t[2] > u[2]
  \/ t = u /\ Rank[p] < Rank[q]

\* The cases in which a claim is endorsed: the host's own, any for a room without a
\* host, and within the grace window of the last endorsed claim a better one.
Endorses(r, p, tuple) ==
  /\ r \in live
  /\ \/ room[r].host \in {p, NoName}
     \/ /\ room[r].claim.recent
        /\ TupleBeats(tuple, p, room[r].claim.tuple, room[r].claim.by)

\* ClaimHost.  The host's own claim only counts as activity; a claim that is turned
\* down changes nothing.
ClaimHost(r, p, tuple) ==
  /\ Endorses(r, p, tuple)
  /\ room' = [room EXCEPT ![r] = Touched(
       IF @.host = p THEN @
       ELSE [@ EXCEPT !.host = p, !.claim = [by |-> p, tuple |-> tuple, recent |-> TRUE]])]
  /\ UNCHANGED <<live, byCode, stored, posts, game, reaped, failures>>

\* UpdateHost(room, ""): exported, and called by tests only.
UpdateHost(r) ==
  /\ r \in live
  /\ room[r].host # NoName
  /\ room' = [room EXCEPT ![r] = Touched([@ EXCEPT !.host = NoName])]
  /\ UNCHANGED <<live, byCode, stored, posts, game, reaped, failures>>

\* The browser of the creator goes away.  The server has no part in it.
HostDisappears(r) ==
  /\ game[r].there
  /\ game' = [game EXCEPT ![r].there = FALSE]
  /\ UNCHANGED <<live, room, byCode, stored, posts, reaped, failures>>

-----------------------------------------------------------------------------
\* Time and the sweeper

\* A room rests: past FinishedGrace, then past IdleTTL.  A minute is more than the
\* two seconds a claim is recent.
TimePasses(r) ==
  /\ r \in live
  /\ room[r].age < 2
  /\ room' = [room EXCEPT ![r].age = @ + 1, ![r].claim.recent = FALSE]
  /\ UNCHANGED <<live, byCode, stored, posts, game, reaped, failures>>

ClaimLapses(r) ==
  /\ room[r].claim.recent
  /\ room' = [room EXCEPT ![r].claim.recent = FALSE]
  /\ UNCHANGED <<live, byCode, stored, posts, game, reaped, failures>>

Expired == {r \in live : room[r].age = 2 \/ (room[r].finished /\ room[r].age = 1)}

\* Mutant: the code of an evicted room is not given back.
SweepKeepsCodes ==
  /\ reaped = {}
  /\ Expired # {}
  /\ live' = live \ Expired
  /\ reaped' = Expired
  /\ UNCHANGED <<room, byCode, stored, posts, game, failures>>

\* SweepOnce under the lock: every expired room leaves both maps.
Sweep ==
  /\ reaped = {}
  /\ Expired # {}
  /\ live' = live \ Expired
  /\ byCode' = [c \in Codes |-> IF byCode[c] \in Expired THEN NoRoom ELSE byCode[c]]
  /\ reaped' = Expired
  /\ UNCHANGED <<room, stored, posts, game, failures>>

\* SweepOnce after it: one checkpoint after the other; an error is only logged.
DropCheckpoint(r) ==
  /\ r \in reaped
  /\ reaped' = reaped \ {r}
  /\ \/ /\ stored' = [stored EXCEPT ![r] = NoCheckpoint]
        /\ UNCHANGED failures
     \/ /\ failures < MaxFailures
        /\ failures' = failures + 1
        /\ UNCHANGED stored
  /\ UNCHANGED <<live, room, byCode, posts, game>>

-----------------------------------------------------------------------------
Post(s) == SnapshotRefused(s) \/ SnapshotFails(s) \/ SaveCheckpoint(s) \/ SetFinished(s)

Next ==
  \/ \E r \in RoomIds, code \in Codes, name \in Names : CreateRoom(r, code, name)
  \/ \E r \in RoomIds : \/ GameMoves(r) \/ HostDisappears(r)
                        \/ TimePasses(r) \/ DropCheckpoint(r)
  \/ \E s \in Slots, r \in RoomIds : HostPosts(s, r)
  \/ \E s \in Slots : Post(s)
  \/ Sweep

Spec == Init /\ [][Next]_vars

-----------------------------------------------------------------------------
\* Properties

Checkpoint == [version : 0..MaxVersion, over : BOOLEAN]
Claim == [by : Names \cup {NoName}, tuple : Int \X Int, recent : BOOLEAN]
Room == [code : Codes \cup {NoRoom}, creator : Names \cup {NoName},
         host : Names \cup {NoName}, players : SUBSET Names, version : 0..MaxVersion,
         finished : BOOLEAN, age : 0..2, claim : Claim]

\* Types, and the codes: byCode is the inverse of the codes of the live rooms, so a
\* code leads to one room and is free again once its room is evicted.
TypeOK ==
  /\ live \subseteq RoomIds /\ reaped \subseteq RoomIds \ live
  /\ room \in [RoomIds -> Room]
  /\ \A c \in Codes, r \in RoomIds : byCode[c] = r <=> r \in live /\ room[r].code = c
  /\ stored \in [RoomIds -> Checkpoint]
  /\ posts \in [Slots -> [stage : {"idle", "checked", "saved"}, room : RoomIds \cup {NoRoom},
                          version : 0..MaxVersion, over : BOOLEAN]]
  /\ game \in [RoomIds -> [version : 0..MaxVersion, there : BOOLEAN]]
  /\ failures \in 0..MaxFailures

\* The version a live room reports is that of the checkpoint a rejoining page would
\* load, whatever posts overlap or fail (SaveCheckpoint saves inside the lock).
SnapshotIsCurrent == \A r \in live : room[r].version = stored[r].version

\* A checkpoint belongs to a room, or is about to be dropped, or the storage refused
\* to drop it: no post in flight brings it back (SweepOnce against handleSaveSnap).
NoOrphanCheckpoint ==
  Cardinality({r \in RoomIds \ (live \cup reaped) : stored[r] # NoCheckpoint}) <= failures
=============================================================================
