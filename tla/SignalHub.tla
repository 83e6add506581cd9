----------------------------- MODULE SignalHub -----------------------------
(***************************************************************************)
(* The signaling hub (internal/signal): a loop that selects, in no order,  *)
(* among channels that other goroutines fill.  A WebSocket handler pushes  *)
(* a connection on three of them, one after the other, and starts its      *)
(* pumps; the reader pushes it on a fourth when the socket dies; the room  *)
(* sweeper asks for a whole room to be closed.                             *)
(*                                                                         *)
(* Abstracted: the frames and who sends them.  A frame for any player, or  *)
(* for any room, may be waiting in Direct or BroadcastRoom at any time.    *)
(* The select's Broadcast case is left out: nothing sends on that channel. *)
(***************************************************************************)
EXTENDS Naturals, Sequences, FiniteSets

CONSTANTS Conns,      \* connections: one *Client each
          Players,
          Rooms,
          PlayerOf,   \* the player of a connection
          RoomOf,     \* and its room
          ChannelCap, \* buffer of Register, Unregister, BindPlayer, BindRoom
          CloseCap,   \* buffer of CloseRoom
          SendCap,    \* buffer of a client's send channel
          BindsFirst, \* TRUE: nothing else happens while a connection registers
          NoConn

\* A player id is minted by RegisterPlayer for one room, and handleSignalWS looks it up
\* in the roster of that room.
ASSUME IdentityAssumption ==
  /\ PlayerOf \in [Conns -> Players]
  /\ RoomOf \in [Conns -> Rooms]
  /\ \A c, d \in Conns : PlayerOf[c] = PlayerOf[d] => RoomOf[c] = RoomOf[d]
  /\ NoConn \notin Conns
ASSUME CapAssumption ==
  /\ ChannelCap \in Nat \ {0} /\ CloseCap \in Nat \ {0} /\ SendCap \in Nat \ {0}
  /\ BindsFirst \in BOOLEAN

VARIABLES open,      \* rooms the registry still has
          stage,     \* where the goroutines of a connection are
          register, bindPlayer, bindRoom, unregister, closeRoom,  \* channels
          clients,   \* h.clients
          byPlayer,  \* h.clientsByPlayerID
          byRoom,    \* the connections of h.clientsByRoom, under RoomOf
          pending,   \* length of a client's send buffer
          closed,    \* the clients whose send channel is closed
          panicked   \* the hub goroutine, and the process with it, died

channels == <<register, bindPlayer, bindRoom, unregister, closeRoom>>
maps == <<clients, byPlayer, byRoom>>
sends == <<pending, closed>>
vars == <<open, stage, channels, maps, sends, panicked>>

\* ServeWs: "new" until the room is looked up, then one stage per push.  From
\* "pumping" on both pumps run; "leaving" once the socket is dead, "gone" once the
\* reader has pushed Unregister.
Stages == {"new", "validated", "registered", "bound", "pumping", "leaving", "gone"}

Init ==
  /\ open = Rooms
  /\ stage = [c \in Conns |-> "new"]
  /\ register = <<>> /\ bindPlayer = <<>> /\ bindRoom = <<>>
  /\ unregister = <<>> /\ closeRoom = <<>>
  /\ clients = {}
  /\ byPlayer = [p \in Players |-> NoConn]
  /\ byRoom = {}
  /\ pending = [c \in Conns |-> 0]
  /\ closed = {}
  /\ panicked = FALSE

-----------------------------------------------------------------------------
\* A panic in any goroutine ends the process.
Running == ~panicked

InQueue(c, queue) == \E i \in DOMAIN queue : queue[i] = c

\* Between the look-up of its room and the hub's last registration step.
Registering(c) ==
  \/ stage[c] \in {"validated", "registered", "bound"}
  \/ InQueue(c, register) \/ InQueue(c, bindPlayer) \/ InQueue(c, bindRoom)

\* Guard of everything that may overtake a registration.
Calm == BindsFirst => \A c \in Conns : ~Registering(c)

\* Mutant: the drop of an old connection unbinds the player's new one.
DropByPlayerId(S) ==
  LET gone == S \cap clients
  IN  /\ clients' = clients \ gone
      /\ byPlayer' = [p \in Players |->
           IF \E c \in gone : PlayerOf[c] = p THEN NoConn ELSE byPlayer[p]]
      /\ byRoom' = byRoom \ gone
      /\ closed' = closed \cup gone

\* Mutant: the room keeps the connection that is dropped.
DropKeepsRoom(S) ==
  LET gone == S \cap clients
  IN  /\ clients' = clients \ gone
      /\ byPlayer' = [p \in Players |-> IF byPlayer[p] \in gone THEN NoConn ELSE byPlayer[p]]
      /\ closed' = closed \cup gone
      /\ UNCHANGED byRoom

\* Mutant: a slow client is forgotten and its channel stays open.
DropSilently(S) ==
  LET gone == S \cap clients
  IN  /\ clients' = clients \ gone
      /\ byPlayer' = [p \in Players |-> IF byPlayer[p] \in gone THEN NoConn ELSE byPlayer[p]]
      /\ byRoom' = byRoom \ gone
      /\ UNCHANGED closed

\* Removes the connections of S that are registered from every map and closes
\* their channels: dropClient, for one or for many.
Drop(S) ==
  LET gone == S \cap clients
  IN  /\ clients' = clients \ gone
      /\ byPlayer' = [p \in Players |-> IF byPlayer[p] \in gone THEN NoConn ELSE byPlayer[p]]
      /\ byRoom' = byRoom \ gone
      /\ closed' = closed \cup gone

Panic ==
  /\ panicked' = TRUE
  /\ UNCHANGED <<maps, sends>>

\* trySend to each connection of S: sending on a closed channel panics, a client
\* whose buffer is full is dropped.
TrySend(S) ==
  LET full == {c \in S : pending[c] = SendCap}
  IN  \/ /\ S \cap closed # {}
         /\ Panic
      \/ /\ S \cap closed = {}
         /\ pending' = [c \in Conns |-> IF c \in S \ full THEN pending[c] + 1 ELSE pending[c]]
         /\ Drop(full)
         /\ UNCHANGED panicked

-----------------------------------------------------------------------------
\* The WebSocket handler and the pumps of a connection

\* handleSignalWS: the room exists and the player is in its roster.
Validate(c) ==
  /\ Running
  /\ stage[c] = "new"
  /\ RoomOf[c] \in open
  /\ stage' = [stage EXCEPT ![c] = "validated"]
  /\ UNCHANGED <<open, channels, maps, sends, panicked>>

PushRegister(c) ==
  /\ Running
  /\ stage[c] = "validated"
  /\ Len(register) < ChannelCap
  /\ register' = Append(register, c)
  /\ stage' = [stage EXCEPT ![c] = "registered"]
  /\ UNCHANGED <<open, bindPlayer, bindRoom, unregister, closeRoom, maps, sends, panicked>>

PushBindPlayer(c) ==
  /\ Running
  /\ stage[c] = "registered"
  /\ Len(bindPlayer) < ChannelCap
  /\ bindPlayer' = Append(bindPlayer, c)
  /\ stage' = [stage EXCEPT ![c] = "bound"]
  /\ UNCHANGED <<open, register, bindRoom, unregister, closeRoom, maps, sends, panicked>>

\* The last push; both pumps start.
PushBindRoom(c) ==
  /\ Running
  /\ stage[c] = "bound"
  /\ Len(bindRoom) < ChannelCap
  /\ bindRoom' = Append(bindRoom, c)
  /\ stage' = [stage EXCEPT ![c] = "pumping"]
  /\ UNCHANGED <<open, register, bindPlayer, unregister, closeRoom, maps, sends, panicked>>

\* The peer goes away, a ping fails or a write does.
Disconnect(c) ==
  /\ Running
  /\ Calm
  /\ stage[c] = "pumping"
  /\ stage' = [stage EXCEPT ![c] = "leaving"]
  /\ UNCHANGED <<open, channels, maps, sends, panicked>>

\* Mutant: the writer does not look whether the channel is closed.
WriteFrameUnchecked(c) ==
  /\ Running
  /\ stage[c] = "pumping"
  /\ pending[c] > 0 \/ c \in closed
  /\ pending' = [pending EXCEPT ![c] = @ - 1]
  /\ UNCHANGED <<open, stage, channels, maps, closed, panicked>>

\* writePump: one frame to the socket.
WriteFrame(c) ==
  /\ Running
  /\ stage[c] = "pumping"
  /\ pending[c] > 0
  /\ pending' = [pending EXCEPT ![c] = @ - 1]
  /\ UNCHANGED <<open, stage, channels, maps, closed, panicked>>

\* writePump: the channel is closed and drained; it closes the socket.
HangUp(c) ==
  /\ Running
  /\ stage[c] = "pumping"
  /\ c \in closed /\ pending[c] = 0
  /\ stage' = [stage EXCEPT ![c] = "leaving"]
  /\ UNCHANGED <<open, channels, maps, sends, panicked>>

\* readPump ends.
PushUnregister(c) ==
  /\ Running
  /\ stage[c] = "leaving"
  /\ Len(unregister) < ChannelCap
  /\ unregister' = Append(unregister, c)
  /\ stage' = [stage EXCEPT ![c] = "gone"]
  /\ UNCHANGED <<open, register, bindPlayer, bindRoom, closeRoom, maps, sends, panicked>>

\* Mutant: an unbuffered CloseRoom, on which a busy hub is never found waiting.
SweepRoomUnbuffered(r) ==
  /\ Running
  /\ Calm
  /\ r \in open
  /\ open' = open \ {r}
  /\ closeRoom' = IF closeRoom = <<>> /\ unregister = <<>> THEN <<r>> ELSE closeRoom
  /\ UNCHANGED <<stage, register, bindPlayer, bindRoom, unregister, maps, sends, panicked>>

\* SweepOnce has evicted the room; OnRoomDeleted asks for its close, without
\* waiting: a full buffer loses the request.
SweepRoom(r) ==
  /\ Running
  /\ Calm
  /\ r \in open
  /\ open' = open \ {r}
  /\ closeRoom' = IF Len(closeRoom) < CloseCap THEN Append(closeRoom, r) ELSE closeRoom
  /\ UNCHANGED <<stage, register, bindPlayer, bindRoom, unregister, maps, sends, panicked>>

-----------------------------------------------------------------------------
\* The cases of Hub.Run

HubRegister ==
  /\ Running
  /\ register # <<>>
  /\ clients' = clients \cup {Head(register)}
  /\ register' = Tail(register)
  /\ UNCHANGED <<open, stage, bindPlayer, bindRoom, unregister, closeRoom, byPlayer,
                 byRoom, sends, panicked>>

HubBindPlayer ==
  /\ Running
  /\ bindPlayer # <<>>
  /\ byPlayer' = [byPlayer EXCEPT ![PlayerOf[Head(bindPlayer)]] = Head(bindPlayer)]
  /\ bindPlayer' = Tail(bindPlayer)
  /\ UNCHANGED <<open, stage, register, bindRoom, unregister, closeRoom, clients,
                 byRoom, sends, panicked>>

HubBindRoom ==
  /\ Running
  /\ bindRoom # <<>>
  /\ byRoom' = byRoom \cup {Head(bindRoom)}
  /\ bindRoom' = Tail(bindRoom)
  /\ UNCHANGED <<open, stage, register, bindPlayer, unregister, closeRoom, clients,
                 byPlayer, sends, panicked>>

HubUnregister ==
  /\ Running
  /\ unregister # <<>>
  /\ Drop({Head(unregister)})
  /\ unregister' = Tail(unregister)
  /\ UNCHANGED <<open, stage, register, bindPlayer, bindRoom, closeRoom, pending, panicked>>

HubDirect(p) ==
  /\ Running
  /\ Calm
  /\ byPlayer[p] # NoConn
  /\ TrySend({byPlayer[p]})
  /\ UNCHANGED <<open, stage, channels>>

InRoom(r) == {c \in byRoom : RoomOf[c] = r}

HubBroadcast(r) ==
  /\ Running
  /\ Calm
  /\ InRoom(r) # {}
  /\ TrySend(InRoom(r))
  /\ UNCHANGED <<open, stage, channels>>

\* Mutant: the connections of the room are closed and stay in h.clients.
HubCloseRoomKeepsClients ==
  LET r == Head(closeRoom)
      leaving == InRoom(r)
  IN  /\ Running
      /\ closeRoom # <<>>
      /\ Calm
      /\ closeRoom' = Tail(closeRoom)
      /\ IF leaving \cap closed # {} THEN Panic
         ELSE /\ closed' = closed \cup leaving
              /\ pending' = [c \in Conns |->
                   IF c \in leaving /\ pending[c] < SendCap THEN pending[c] + 1 ELSE pending[c]]
              /\ byRoom' = byRoom \ leaving
              /\ UNCHANGED <<clients, byPlayer, panicked>>
      /\ UNCHANGED <<open, stage, register, bindPlayer, bindRoom, unregister>>

\* Every connection of the room gets a close frame if there is place for it and
\* has its channel closed, without dropClient's guard: a channel that is closed
\* already panics.  Its player is unbound whichever connection is bound.
HubCloseRoom ==
  LET r == Head(closeRoom)
      leaving == InRoom(r)
  IN  /\ Running
      /\ closeRoom # <<>>
      /\ Calm
      /\ closeRoom' = Tail(closeRoom)
      /\ IF leaving \cap closed # {} THEN Panic
         ELSE /\ closed' = closed \cup leaving
              /\ pending' = [c \in Conns |->
                   IF c \in leaving /\ pending[c] < SendCap THEN pending[c] + 1 ELSE pending[c]]
              /\ clients' = clients \ leaving
              /\ byPlayer' = [p \in Players |->
                   IF \E c \in leaving : PlayerOf[c] = p THEN NoConn ELSE byPlayer[p]]
              /\ byRoom' = byRoom \ leaving
              /\ UNCHANGED panicked
      /\ UNCHANGED <<open, stage, register, bindPlayer, bindRoom, unregister>>

-----------------------------------------------------------------------------
Handler(c) == Validate(c) \/ PushRegister(c) \/ PushBindPlayer(c) \/ PushBindRoom(c)
Pump(c) == WriteFrame(c) \/ HangUp(c) \/ PushUnregister(c)

Hub ==
  \/ HubRegister \/ HubBindPlayer \/ HubBindRoom \/ HubUnregister \/ HubCloseRoom
  \/ \E p \in Players : HubDirect(p)
  \/ \E r \in Rooms : HubBroadcast(r)

Next ==
  \/ \E c \in Conns : Handler(c) \/ Pump(c) \/ Disconnect(c)
  \/ \E r \in Rooms : SweepRoom(r)
  \/ Hub

Spec == Init /\ [][Next]_vars

\* A ready case of a select is chosen sooner or later (Go chooses at random), and
\* a goroutine that can run does.
FairSpec ==
  /\ Spec
  /\ WF_vars(HubRegister)
  /\ WF_vars(HubBindPlayer)
  /\ WF_vars(HubBindRoom)
  /\ WF_vars(HubUnregister)
  /\ WF_vars(HubCloseRoom)
  /\ \A c \in Conns :
       /\ WF_vars(PushRegister(c) \/ PushBindPlayer(c) \/ PushBindRoom(c))
       /\ WF_vars(PushUnregister(c))
       /\ WF_vars(Pump(c))

-----------------------------------------------------------------------------
\* Properties

QueueOf == UNION {[1..n -> Conns] : n \in 0..ChannelCap}

\* The maps hold connections, and no buffer holds more than its capacity.
TypeOK ==
  /\ open \subseteq Rooms
  /\ stage \in [Conns -> Stages]
  /\ \A queue \in {register, bindPlayer, bindRoom, unregister} : queue \in QueueOf
  /\ closeRoom \in UNION {[1..n -> Rooms] : n \in 0..CloseCap}
  /\ clients \subseteq Conns /\ byRoom \subseteq Conns /\ closed \subseteq Conns
  /\ byPlayer \in [Players -> Conns \cup {NoConn}]
  /\ pending \in [Conns -> 0..SendCap]
  /\ panicked \in BOOLEAN

\* The hub loop never sends on, or closes, a channel that is closed: "safe close -
\* guard against double close" (hub.go 168) for the whole hub.
HubSurvives == ~panicked

\* The three maps tell the same story of a connection that has registered, and no
\* closed connection can be found in them (hub.go 68-125 against 152-171).
MapsAgree ==
  /\ (clients \cup byRoom) \cap closed = {}
  /\ \A c \in Conns : ~Registering(c) => (c \in clients <=> c \in byRoom)
  /\ \A p \in Players :
       /\ byPlayer[p] \notin closed
       /\ byPlayer[p] # NoConn /\ ~Registering(byPlayer[p]) => byPlayer[p] \in clients

\* A connection whose pumps run is never forgotten by the hub, unless its channel
\* is closed, which makes the writer hang up: nobody stays connected and deaf,
\* whatever the order of registrations, disconnects and closes.
LiveConnectionsKnown ==
  \A c \in Conns :
    ~panicked /\ stage[c] = "pumping" /\ ~Registering(c) /\ c \notin closed
      => c \in clients \cap byRoom

\* The connection frames for a player go to stays the one until it is dropped or a
\* newer one takes its place: the end of an old connection does not unbind the
\* new one (hub.go 157-161, which compares the connection and not the id).
BoundUntilGone ==
  [][\A p \in Players :
       byPlayer[p] # NoConn /\ byPlayer'[p] = NoConn => byPlayer[p] \notin clients']_vars

Forgotten(c) == c \notin clients \cup byRoom /\ \A p \in Players : byPlayer[p] # c

\* A connection whose reader has ended leaves the hub's maps for good.
UnregisteredForgotten == \A c \in Conns : stage[c] = "gone" ~> []Forgotten(c)

\* "When a room is reaped, close any still-open WS sessions so the hub doesn't carry
\* orphaned per-connection buffers/goroutines" (server.go 53-56).
ReapedRoomsEmptied ==
  \A r \in Rooms : r \notin open ~> [](\A c \in Conns : RoomOf[c] = r => Forgotten(c))
=============================================================================
