-------------------------- MODULE SignalHub_proofs --------------------------
(* For any connections, players, rooms and buffer sizes, and with the select *)
(* taking ready channels in any order: the types of the hub, and that it     *)
(* never forgets a live connection without closing its channel.  When        *)
(* nothing overtakes a registration (BindsFirst), also that the hub never    *)
(* panics, that its maps agree, and that a player stays bound.               *)
EXTENDS SignalHub, TLAPS

-----------------------------------------------------------------------------
\* Queues

\* A push is found in the queue, and hides nobody who was there.
LEMMA Pushed ==
  ASSUME NEW S, NEW q \in Seq(S), NEW x \in S
  PROVE  /\ Append(q, x) \in Seq(S) /\ Len(Append(q, x)) = Len(q) + 1
         /\ InQueue(x, Append(q, x))
         /\ \A e : InQueue(e, q) => InQueue(e, Append(q, x))
<1>1. /\ Append(q, x) \in Seq(S) /\ Len(Append(q, x)) = Len(q) + 1
      /\ Append(q, x)[Len(q) + 1] = x
      /\ \A i \in 1 .. Len(q) : Append(q, x)[i] = q[i]
  OBVIOUS
<1>2. DOMAIN Append(q, x) = 1 .. Len(q) + 1 /\ DOMAIN q = 1 .. Len(q) /\ Len(q) \in Nat
  BY <1>1
<1> QED
  BY <1>1, <1>2 DEF InQueue

\* Taking the head leaves everybody else in the queue.
LEMMA Taken ==
  ASSUME NEW S, NEW q \in Seq(S), q # <<>>
  PROVE  /\ Head(q) \in S /\ Tail(q) \in Seq(S) /\ Len(Tail(q)) = Len(q) - 1
         /\ Len(q) \in Nat \ {0}
         /\ \A e : InQueue(e, q) => e = Head(q) \/ InQueue(e, Tail(q))
<1>1. /\ Head(q) \in S /\ Tail(q) \in Seq(S) /\ Len(Tail(q)) = Len(q) - 1
      /\ Len(q) \in Nat \ {0} /\ Head(q) = q[1]
      /\ \A i \in 1 .. Len(q) - 1 : Tail(q)[i] = q[i + 1]
  OBVIOUS
<1>2. DOMAIN Tail(q) = 1 .. Len(q) - 1 /\ DOMAIN q = 1 .. Len(q)
  BY <1>1
<1>3. ASSUME NEW i \in DOMAIN q, i # 1
      PROVE  InQueue(q[i], Tail(q))
  <2>1. i - 1 \in DOMAIN Tail(q) /\ Tail(q)[i - 1] = q[i]
    BY <1>1, <1>2, <1>3
  <2> QED
    BY <2>1 DEF InQueue
<1> QED
  BY <1>1, <1>3 DEF InQueue

\* A sequence within a capacity is one of the contents the channel can have.
LEMMA Bounded ==
  ASSUME NEW S, NEW cap \in Nat, NEW q \in Seq(S), Len(q) <= cap
  PROVE  q \in UNION {[1..n -> S] : n \in 0..cap}
<1>1. Len(q) \in 0..cap /\ q \in [1..Len(q) -> S]
  OBVIOUS
<1> QED
  BY <1>1

-----------------------------------------------------------------------------
\* The invariant

Held(queue, S, cap) == queue \in Seq(S) /\ Len(queue) <= cap

HubTypes ==
  /\ open \subseteq Rooms
  /\ stage \in [Conns -> Stages]
  /\ Held(register, Conns, ChannelCap) /\ Held(bindPlayer, Conns, ChannelCap)
  /\ Held(bindRoom, Conns, ChannelCap) /\ Held(unregister, Conns, ChannelCap)
  /\ Held(closeRoom, Rooms, CloseCap)
  /\ clients \subseteq Conns /\ byRoom \subseteq Conns /\ closed \subseteq Conns
  /\ byPlayer \in [Players -> Conns \cup {NoConn}]
  /\ pending \in [Conns -> 0..SendCap]
  /\ panicked \in BOOLEAN

\* A connection whose Register has been handled is in h.clients, one whose BindRoom
\* has been handled is in its room, unless its channel was closed: even when the
\* steps of a registration are overtaken by its end.
Accounted ==
  \A c \in Conns :
    /\ stage[c] \notin {"new", "validated"} /\ ~InQueue(c, register)
         => c \in clients \cup closed
    /\ stage[c] \in {"pumping", "leaving", "gone"} /\ ~InQueue(c, bindRoom)
         => c \in byRoom \cup closed

Inv == HubTypes /\ Accounted

\* A goroutine's own step leaves the maps alone; what it may not do is skip a push.
LEMMA StageStep ==
  ASSUME Inv, NEW c \in Conns, NEW s \in Stages,
         stage' = [stage EXCEPT ![c] = s],
         UNCHANGED <<maps, closed>>,
         \A d \in Conns : InQueue(d, register) => InQueue(d, register)',
         \A d \in Conns : InQueue(d, bindRoom) => InQueue(d, bindRoom)',
         stage[c] \in {"new", "validated"} /\ s \notin {"new", "validated"}
           => InQueue(c, register)',
         stage[c] \notin {"pumping", "leaving", "gone"} /\ s \in {"pumping", "leaving", "gone"}
           => InQueue(c, bindRoom)'
  PROVE  Accounted'
<1> USE DEF Inv, HubTypes
<1>1. /\ stage'[c] = s
      /\ \A d \in Conns \ {c} : stage'[d] = stage[d]
  OBVIOUS
<1> QED
  BY <1>1 DEF Accounted, maps

\* Whoever leaves the maps has its channel closed.
LEMMA MapStep ==
  ASSUME Inv, UNCHANGED <<stage, register, bindRoom>>,
         closed \subseteq closed',
         clients \subseteq clients' \cup closed',
         byRoom \subseteq byRoom' \cup closed'
  PROVE  Accounted'
BY DEF Inv, Accounted, InQueue

\* dropClient keeps the types and closes what it forgets.
LEMMA DropStep ==
  ASSUME HubTypes, NEW S \in SUBSET Conns, Drop(S)
  PROVE  /\ clients' \subseteq Conns /\ byRoom' \subseteq Conns /\ closed' \subseteq Conns
         /\ byPlayer' \in [Players -> Conns \cup {NoConn}]
         /\ closed \subseteq closed'
         /\ clients \subseteq clients' \cup closed'
         /\ byRoom \subseteq byRoom' \cup closed'
BY DEF HubTypes, Drop

\* So does a frame for any set of connections, also when it panics the hub.
LEMMA TrySendInv ==
  ASSUME Inv, NEW S \in SUBSET Conns, TrySend(S), UNCHANGED <<open, stage, channels>>
  PROVE  Inv'
<1> DEFINE full == {c \in S : pending[c] = SendCap}
<1>0. HubTypes
  BY DEF Inv
<1>1. CASE Panic
  <2>1. HubTypes'
    BY <1>0, <1>1 DEF HubTypes, Panic, maps, sends, channels, Held
  <2>2. Accounted'
    BY <1>1, MapStep DEF Panic, maps, sends, channels
  <2> QED
    BY <2>1, <2>2 DEF Inv
<1>2. CASE /\ pending' = [c \in Conns |-> IF c \in S \ full THEN pending[c] + 1 ELSE pending[c]]
           /\ Drop(full)
           /\ UNCHANGED panicked
  <2>1. full \in SUBSET Conns
    OBVIOUS
  <2>2. pending' \in [Conns -> 0..SendCap]
    <3>1. SendCap \in Nat
      BY CapAssumption
    <3>2. ASSUME NEW c \in S, pending[c] # SendCap
          PROVE  pending[c] + 1 \in 0..SendCap
      BY <1>0, <3>1, <3>2 DEF HubTypes
    <3> QED
      BY <1>0, <1>2, <3>1, <3>2 DEF HubTypes
  <2>3. HubTypes'
    BY <1>0, <1>2, <2>1, <2>2, DropStep DEF HubTypes, channels, Held
  <2>4. Accounted'
    BY <1>0, <1>2, <2>1, DropStep, MapStep DEF channels
  <2> QED
    BY <2>3, <2>4 DEF Inv
<1> QED
  BY <1>1, <1>2 DEF TrySend

-----------------------------------------------------------------------------
\* The handlers and the pumps

LEMMA ValidateInv == ASSUME Inv, NEW c \in Conns, Validate(c) PROVE Inv'
<1>1. /\ stage[c] = "new" /\ stage' = [stage EXCEPT ![c] = "validated"]
      /\ UNCHANGED <<open, channels, maps, sends, panicked>>
  BY DEF Validate
<1>2. HubTypes'
  BY <1>1 DEF Inv, HubTypes, Held, channels, maps, sends, Stages
<1>3. Accounted'
  BY <1>1, StageStep DEF Stages, channels, sends, InQueue
<1> QED
  BY <1>2, <1>3 DEF Inv

LEMMA PushRegisterInv == ASSUME Inv, NEW c \in Conns, PushRegister(c) PROVE Inv'
<1>0. register \in Seq(Conns)
  BY DEF Inv, HubTypes, Held
<1>1. /\ stage[c] = "validated" /\ stage' = [stage EXCEPT ![c] = "registered"]
      /\ Len(register) < ChannelCap /\ register' = Append(register, c)
      /\ UNCHANGED <<open, bindPlayer, bindRoom, unregister, closeRoom, maps, sends, panicked>>
  BY DEF PushRegister
<1>2. /\ Held(register, Conns, ChannelCap)'
      /\ InQueue(c, register)'
      /\ \A d : InQueue(d, register) => InQueue(d, register)'
  <2>1. ChannelCap \in Nat /\ Len(register) \in Nat
    BY <1>0, CapAssumption
  <2>2. /\ Append(register, c) \in Seq(Conns) /\ Len(Append(register, c)) = Len(register) + 1
        /\ InQueue(c, Append(register, c))
        /\ \A d : InQueue(d, register) => InQueue(d, Append(register, c))
    BY <1>0, Pushed
  <2>3. Held(register, Conns, ChannelCap)'
    BY <1>1, <2>1, <2>2 DEF Held
  <2> QED
    BY <1>1, <2>2, <2>3 DEF InQueue
<1>3. HubTypes'
  BY <1>1, <1>2 DEF Inv, HubTypes, Held, maps, sends, Stages
<1>4. Accounted'
  BY <1>1, <1>2, StageStep DEF Stages, sends, InQueue
<1> QED
  BY <1>3, <1>4 DEF Inv

LEMMA PushBindPlayerInv == ASSUME Inv, NEW c \in Conns, PushBindPlayer(c) PROVE Inv'
<1>0. bindPlayer \in Seq(Conns)
  BY DEF Inv, HubTypes, Held
<1>1. /\ stage[c] = "registered" /\ stage' = [stage EXCEPT ![c] = "bound"]
      /\ Len(bindPlayer) < ChannelCap /\ bindPlayer' = Append(bindPlayer, c)
      /\ UNCHANGED <<open, register, bindRoom, unregister, closeRoom, maps, sends, panicked>>
  BY DEF PushBindPlayer
<1>2. Held(bindPlayer, Conns, ChannelCap)'
  <2>1. ChannelCap \in Nat /\ Len(bindPlayer) \in Nat
    BY <1>0, CapAssumption
  <2> QED
    BY <1>0, <1>1, <2>1, Pushed DEF Held
<1>3. HubTypes'
  BY <1>1, <1>2 DEF Inv, HubTypes, Held, maps, sends, Stages
<1>4. Accounted'
  BY <1>1, StageStep DEF Stages, sends, InQueue
<1> QED
  BY <1>3, <1>4 DEF Inv

LEMMA PushBindRoomInv == ASSUME Inv, NEW c \in Conns, PushBindRoom(c) PROVE Inv'
<1>0. bindRoom \in Seq(Conns)
  BY DEF Inv, HubTypes, Held
<1>1. /\ stage[c] = "bound" /\ stage' = [stage EXCEPT ![c] = "pumping"]
      /\ Len(bindRoom) < ChannelCap /\ bindRoom' = Append(bindRoom, c)
      /\ UNCHANGED <<open, register, bindPlayer, unregister, closeRoom, maps, sends, panicked>>
  BY DEF PushBindRoom
<1>2. /\ Held(bindRoom, Conns, ChannelCap)'
      /\ InQueue(c, bindRoom)'
      /\ \A d : InQueue(d, bindRoom) => InQueue(d, bindRoom)'
  <2>1. ChannelCap \in Nat /\ Len(bindRoom) \in Nat
    BY <1>0, CapAssumption
  <2>2. /\ Append(bindRoom, c) \in Seq(Conns) /\ Len(Append(bindRoom, c)) = Len(bindRoom) + 1
        /\ InQueue(c, Append(bindRoom, c))
        /\ \A d : InQueue(d, bindRoom) => InQueue(d, Append(bindRoom, c))
    BY <1>0, Pushed
  <2>3. Held(bindRoom, Conns, ChannelCap)'
    BY <1>1, <2>1, <2>2 DEF Held
  <2> QED
    BY <1>1, <2>2, <2>3 DEF InQueue
<1>3. HubTypes'
  BY <1>1, <1>2 DEF Inv, HubTypes, Held, maps, sends, Stages
<1>4. Accounted'
  BY <1>1, <1>2, StageStep DEF Stages, sends, InQueue
<1> QED
  BY <1>3, <1>4 DEF Inv

\* The socket dies, or the writer finds its channel closed.
LEMMA LeaveInv ==
  ASSUME Inv, NEW c \in Conns, Disconnect(c) \/ HangUp(c)
  PROVE  Inv'
<1>1. /\ stage[c] = "pumping" /\ stage' = [stage EXCEPT ![c] = "leaving"]
      /\ UNCHANGED <<open, channels, maps, sends, panicked>>
  BY DEF Disconnect, HangUp
<1>2. HubTypes'
  BY <1>1 DEF Inv, HubTypes, Held, channels, maps, sends, Stages
<1>3. Accounted'
  BY <1>1, StageStep DEF Stages, channels, sends, InQueue
<1> QED
  BY <1>2, <1>3 DEF Inv

LEMMA WriteFrameInv == ASSUME Inv, NEW c \in Conns, WriteFrame(c) PROVE Inv'
<1>1. /\ pending[c] > 0 /\ pending' = [pending EXCEPT ![c] = @ - 1]
      /\ UNCHANGED <<open, stage, channels, maps, closed, panicked>>
  BY DEF WriteFrame
<1>2. HubTypes'
  <2>1. SendCap \in Nat
    BY CapAssumption
  <2> QED
    BY <1>1, <2>1 DEF Inv, HubTypes, Held, channels, maps
<1>3. Accounted'
  BY <1>1, MapStep DEF channels, maps
<1> QED
  BY <1>2, <1>3 DEF Inv

LEMMA PushUnregisterInv == ASSUME Inv, NEW c \in Conns, PushUnregister(c) PROVE Inv'
<1>0. unregister \in Seq(Conns)
  BY DEF Inv, HubTypes, Held
<1>1. /\ stage[c] = "leaving" /\ stage' = [stage EXCEPT ![c] = "gone"]
      /\ Len(unregister) < ChannelCap /\ unregister' = Append(unregister, c)
      /\ UNCHANGED <<open, register, bindPlayer, bindRoom, closeRoom, maps, sends, panicked>>
  BY DEF PushUnregister
<1>2. Held(unregister, Conns, ChannelCap)'
  <2>1. ChannelCap \in Nat /\ Len(unregister) \in Nat
    BY <1>0, CapAssumption
  <2> QED
    BY <1>0, <1>1, <2>1, Pushed DEF Held
<1>3. HubTypes'
  BY <1>1, <1>2 DEF Inv, HubTypes, Held, maps, sends, Stages
<1>4. Accounted'
  BY <1>1, StageStep DEF Stages, sends, InQueue
<1> QED
  BY <1>3, <1>4 DEF Inv

LEMMA SweepRoomInv == ASSUME Inv, NEW r \in Rooms, SweepRoom(r) PROVE Inv'
<1>0. closeRoom \in Seq(Rooms) /\ CloseCap \in Nat /\ Len(closeRoom) \in Nat
  BY CapAssumption DEF Inv, HubTypes, Held
<1>1. /\ open' = open \ {r}
      /\ closeRoom' = IF Len(closeRoom) < CloseCap THEN Append(closeRoom, r) ELSE closeRoom
      /\ UNCHANGED <<stage, register, bindPlayer, bindRoom, unregister, maps, sends, panicked>>
  BY DEF SweepRoom
<1>2. Held(closeRoom, Rooms, CloseCap)'
  BY <1>0, <1>1, Pushed DEF Inv, HubTypes, Held
<1>3. HubTypes'
  BY <1>1, <1>2 DEF Inv, HubTypes, Held, maps, sends
<1>4. Accounted'
  BY <1>1, MapStep DEF maps, sends
<1> QED
  BY <1>3, <1>4 DEF Inv

-----------------------------------------------------------------------------
\* The hub

LEMMA HubRegisterInv == ASSUME Inv, HubRegister PROVE Inv'
<1>0. register \in Seq(Conns) /\ ChannelCap \in Nat
  BY CapAssumption DEF Inv, HubTypes, Held
<1>1. /\ register # <<>> /\ register' = Tail(register)
      /\ clients' = clients \cup {Head(register)}
      /\ UNCHANGED <<open, stage, bindPlayer, bindRoom, unregister, closeRoom, byPlayer,
                     byRoom, sends, panicked>>
  BY DEF HubRegister
<1>2. /\ Held(register, Conns, ChannelCap)' /\ Head(register) \in Conns
      /\ \A d : InQueue(d, register) => d = Head(register) \/ InQueue(d, register)'
  <2>1. /\ Head(register) \in Conns /\ Tail(register) \in Seq(Conns)
        /\ Len(Tail(register)) = Len(register) - 1 /\ Len(register) \in Nat
        /\ \A d : InQueue(d, register) => d = Head(register) \/ InQueue(d, Tail(register))
    BY <1>0, <1>1, Taken
  <2>2. Len(register) <= ChannelCap
    BY DEF Inv, HubTypes, Held
  <2> QED
    BY <1>0, <1>1, <2>1, <2>2 DEF Held, InQueue
<1>3. HubTypes'
  BY <1>1, <1>2 DEF Inv, HubTypes, Held, sends
<1>4. Accounted'
  BY <1>1, <1>2 DEF Inv, Accounted, sends, InQueue
<1> QED
  BY <1>3, <1>4 DEF Inv

LEMMA HubBindPlayerInv == ASSUME Inv, HubBindPlayer PROVE Inv'
<1>0. bindPlayer \in Seq(Conns) /\ ChannelCap \in Nat
  BY CapAssumption DEF Inv, HubTypes, Held
<1>1. /\ bindPlayer # <<>> /\ bindPlayer' = Tail(bindPlayer)
      /\ byPlayer' = [byPlayer EXCEPT ![PlayerOf[Head(bindPlayer)]] = Head(bindPlayer)]
      /\ UNCHANGED <<open, stage, register, bindRoom, unregister, closeRoom, clients,
                     byRoom, sends, panicked>>
  BY DEF HubBindPlayer
<1>2. Held(bindPlayer, Conns, ChannelCap)' /\ Head(bindPlayer) \in Conns
  BY <1>0, <1>1, Taken DEF Inv, HubTypes, Held
<1>3. HubTypes'
  BY <1>1, <1>2 DEF Inv, HubTypes, Held, sends
<1>4. Accounted'
  BY <1>1, MapStep DEF sends
<1> QED
  BY <1>3, <1>4 DEF Inv

LEMMA HubBindRoomInv == ASSUME Inv, HubBindRoom PROVE Inv'
<1>0. bindRoom \in Seq(Conns) /\ ChannelCap \in Nat
  BY CapAssumption DEF Inv, HubTypes, Held
<1>1. /\ bindRoom # <<>> /\ bindRoom' = Tail(bindRoom)
      /\ byRoom' = byRoom \cup {Head(bindRoom)}
      /\ UNCHANGED <<open, stage, register, bindPlayer, unregister, closeRoom, clients,
                     byPlayer, sends, panicked>>
  BY DEF HubBindRoom
<1>2. /\ Held(bindRoom, Conns, ChannelCap)' /\ Head(bindRoom) \in Conns
      /\ \A d : InQueue(d, bindRoom) => d = Head(bindRoom) \/ InQueue(d, bindRoom)'
  <2>1. /\ Head(bindRoom) \in Conns /\ Tail(bindRoom) \in Seq(Conns)
        /\ Len(Tail(bindRoom)) = Len(bindRoom) - 1 /\ Len(bindRoom) \in Nat
        /\ \A d : InQueue(d, bindRoom) => d = Head(bindRoom) \/ InQueue(d, Tail(bindRoom))
    BY <1>0, <1>1, Taken
  <2>2. Len(bindRoom) <= ChannelCap
    BY DEF Inv, HubTypes, Held
  <2> QED
    BY <1>0, <1>1, <2>1, <2>2 DEF Held, InQueue
<1>3. HubTypes'
  BY <1>1, <1>2 DEF Inv, HubTypes, Held, sends
<1>4. Accounted'
  BY <1>1, <1>2 DEF Inv, Accounted, sends, InQueue
<1> QED
  BY <1>3, <1>4 DEF Inv

LEMMA HubUnregisterInv == ASSUME Inv, HubUnregister PROVE Inv'
<1>0. unregister \in Seq(Conns) /\ ChannelCap \in Nat /\ HubTypes
  BY CapAssumption DEF Inv, HubTypes, Held
<1>1. /\ unregister # <<>> /\ unregister' = Tail(unregister)
      /\ Drop({Head(unregister)})
      /\ UNCHANGED <<open, stage, register, bindPlayer, bindRoom, closeRoom, pending, panicked>>
  BY DEF HubUnregister
<1>2. Held(unregister, Conns, ChannelCap)' /\ {Head(unregister)} \in SUBSET Conns
  BY <1>0, <1>1, Taken DEF HubTypes, Held
<1>3. HubTypes'
  BY <1>0, <1>1, <1>2, DropStep DEF HubTypes, Held
<1>4. Accounted'
  BY <1>0, <1>1, <1>2, DropStep, MapStep
<1> QED
  BY <1>3, <1>4 DEF Inv

\* CloseRoom empties a room without dropClient, or panics.
LEMMA HubCloseRoomInv == ASSUME Inv, HubCloseRoom PROVE Inv'
<1> DEFINE leaving == InRoom(Head(closeRoom))
<1>0. closeRoom \in Seq(Rooms) /\ CloseCap \in Nat /\ SendCap \in Nat /\ HubTypes
  BY CapAssumption DEF Inv, HubTypes, Held
<1>1. /\ closeRoom # <<>> /\ closeRoom' = Tail(closeRoom)
      /\ UNCHANGED <<open, stage, register, bindPlayer, bindRoom, unregister>>
  BY DEF HubCloseRoom
<1>2. Held(closeRoom, Rooms, CloseCap)' /\ leaving \subseteq Conns
  BY <1>0, <1>1, Taken DEF HubTypes, Held, InRoom
<1>3. CASE Panic
  <2>1. HubTypes'
    BY <1>0, <1>1, <1>2, <1>3 DEF HubTypes, Panic, maps, sends, Held
  <2>2. Accounted'
    BY <1>1, <1>3, MapStep DEF Panic, maps, sends
  <2> QED
    BY <2>1, <2>2 DEF Inv
<1>4. CASE /\ closed' = closed \cup leaving
           /\ pending' = [c \in Conns |->
                IF c \in leaving /\ pending[c] < SendCap THEN pending[c] + 1 ELSE pending[c]]
           /\ clients' = clients \ leaving
           /\ byPlayer' = [p \in Players |->
                IF \E c \in leaving : PlayerOf[c] = p THEN NoConn ELSE byPlayer[p]]
           /\ byRoom' = byRoom \ leaving
           /\ UNCHANGED panicked
  <2>1. pending' \in [Conns -> 0..SendCap]
    <3>1. ASSUME NEW c \in Conns, pending[c] < SendCap
          PROVE  pending[c] + 1 \in 0..SendCap
      BY <1>0, <3>1 DEF HubTypes
    <3> QED
      BY <1>0, <1>4, <3>1 DEF HubTypes
  <2>2. byPlayer' \in [Players -> Conns \cup {NoConn}]
    BY <1>0, <1>4 DEF HubTypes
  <2>3. HubTypes'
    BY <1>0, <1>1, <1>2, <1>4, <2>1, <2>2 DEF HubTypes, Held
  <2>4. Accounted'
    BY <1>1, <1>4, MapStep
  <2> QED
    BY <2>3, <2>4 DEF Inv
<1> QED
  BY <1>3, <1>4 DEF HubCloseRoom

LEMMA FramesInv ==
  ASSUME Inv, (\E p \in Players : HubDirect(p)) \/ (\E r \in Rooms : HubBroadcast(r))
  PROVE  Inv'
<1>1. ASSUME NEW p \in Players, HubDirect(p)
      PROVE  Inv'
  <2>1. {byPlayer[p]} \in SUBSET Conns
    BY <1>1 DEF HubDirect, Inv, HubTypes
  <2> QED
    BY <1>1, <2>1, TrySendInv DEF HubDirect
<1>2. ASSUME NEW r \in Rooms, HubBroadcast(r)
      PROVE  Inv'
  <2>1. InRoom(r) \in SUBSET Conns
    BY DEF InRoom, Inv, HubTypes
  <2> QED
    BY <1>2, <2>1, TrySendInv DEF HubBroadcast
<1> QED
  BY <1>1, <1>2

-----------------------------------------------------------------------------
LEMMA InitInv == Init => Inv
<1> SUFFICES ASSUME Init PROVE Inv
  OBVIOUS
<1>1. <<>> \in Seq(Conns) /\ <<>> \in Seq(Rooms) /\ Len(<<>>) = 0
  OBVIOUS
<1>2. HubTypes
  <2>1. /\ Held(register, Conns, ChannelCap) /\ Held(bindPlayer, Conns, ChannelCap)
        /\ Held(bindRoom, Conns, ChannelCap) /\ Held(unregister, Conns, ChannelCap)
        /\ Held(closeRoom, Rooms, CloseCap)
    BY <1>1, CapAssumption DEF Init, Held
  <2>2. pending \in [Conns -> 0..SendCap] /\ stage \in [Conns -> Stages]
    BY CapAssumption DEF Init, Stages
  <2> QED
    BY <2>1, <2>2 DEF Init, HubTypes
<1>3. Accounted
  BY DEF Init, Accounted
<1> QED
  BY <1>2, <1>3 DEF Inv

LEMMA StepInv == Inv /\ [Next]_vars => Inv'
<1> SUFFICES ASSUME Inv, [Next]_vars PROVE Inv'
  OBVIOUS
<1>1. ASSUME NEW c \in Conns, Handler(c) PROVE Inv'
  BY <1>1, ValidateInv, PushRegisterInv, PushBindPlayerInv, PushBindRoomInv DEF Handler
<1>2. ASSUME NEW c \in Conns, Pump(c) \/ Disconnect(c) PROVE Inv'
  BY <1>2, WriteFrameInv, LeaveInv, PushUnregisterInv DEF Pump
<1>3. ASSUME NEW r \in Rooms, SweepRoom(r) PROVE Inv'
  BY <1>3, SweepRoomInv
<1>4. CASE Hub
  BY <1>4, HubRegisterInv, HubBindPlayerInv, HubBindRoomInv, HubUnregisterInv,
     HubCloseRoomInv, FramesInv DEF Hub
<1>5. CASE UNCHANGED vars
  BY <1>5 DEF vars, channels, maps, sends, Inv, HubTypes, Held, Accounted, InQueue
<1> QED
  BY <1>1, <1>2, <1>3, <1>4, <1>5 DEF Next

THEOREM InvHolds == Spec => []Inv
<1> QED
  BY InitInv, StepInv, PTL DEF Spec

\* The maps hold connections and no channel more than its capacity: for any number
\* of connections and rooms, also when registrations are overtaken.
THEOREM HubTypeCorrect == Spec => []TypeOK
<1>1. Inv => TypeOK
  <2> SUFFICES ASSUME Inv PROVE TypeOK
    OBVIOUS
  <2>1. ChannelCap \in Nat /\ CloseCap \in Nat
    BY CapAssumption
  <2>2. /\ register \in QueueOf /\ bindPlayer \in QueueOf
        /\ bindRoom \in QueueOf /\ unregister \in QueueOf
    BY <2>1, Bounded DEF Inv, HubTypes, Held, QueueOf
  <2>3. closeRoom \in UNION {[1..n -> Rooms] : n \in 0..CloseCap}
    BY <2>1, Bounded DEF Inv, HubTypes, Held
  <2> QED
    BY <2>2, <2>3 DEF Inv, HubTypes, TypeOK
<1> QED
  BY InvHolds, <1>1, PTL

\* No connection stays open and deaf: whatever overtakes a registration, a
\* connection with running pumps and an open channel is in the hub's maps.
THEOREM LiveConnectionsNeverLost == Spec => []LiveConnectionsKnown
<1>1. Inv => LiveConnectionsKnown
  BY DEF Inv, Accounted, LiveConnectionsKnown, Registering
<1> QED
  BY InvHolds, <1>1, PTL

-----------------------------------------------------------------------------
\* Registrations that nothing overtakes

Waits(c) == InQueue(c, register) \/ InQueue(c, bindPlayer) \/ InQueue(c, bindRoom)

Served == {"pumping", "leaving", "gone"}

\* A connection waits on a channel only where its handler has pushed it; the maps hold
\* nobody before that; and a channel is closed only once its registration is complete.
Orderly ==
  /\ ~panicked
  /\ \A c \in Conns :
       /\ Waits(c) => stage[c] \in {"registered", "bound", "pumping"}
       /\ InQueue(c, bindRoom) => stage[c] = "pumping"
       /\ c \in clients => stage[c] \notin {"new", "validated"}
       /\ c \in byRoom => stage[c] \in Served
       /\ InQueue(c, unregister) => stage[c] = "gone"
       /\ c \in closed => /\ stage[c] \in Served /\ ~Waits(c)
                          /\ c \notin clients \cup byRoom
  /\ \A p \in Players : byPlayer[p] # NoConn =>
       /\ byPlayer[p] \notin closed
       /\ PlayerOf[byPlayer[p]] = p
       /\ stage[byPlayer[p]] \notin {"new", "validated"}

CalmInv == Inv /\ Orderly

\* Who is in a queue after a push, and after the head was taken.
LEMMA Members ==
  ASSUME NEW q \in Seq(Conns)
  PROVE  /\ \A x \in Conns : \A e : InQueue(e, Append(q, x)) <=> e = x \/ InQueue(e, q)
         /\ q # <<>> => /\ Head(q) \in Conns /\ InQueue(Head(q), q)
                        /\ \A e : InQueue(e, Tail(q)) => InQueue(e, q)
<1>1. ASSUME NEW x \in Conns, NEW e, InQueue(e, Append(q, x)), e # x
      PROVE  InQueue(e, q)
  <2>1. PICK i \in DOMAIN Append(q, x) : Append(q, x)[i] = e
    BY <1>1 DEF InQueue
  <2>2. i \in 1..Len(q) + 1 /\ DOMAIN q = 1..Len(q) /\ Len(q) \in Nat
        /\ Append(q, x)[Len(q) + 1] = x /\ \A j \in 1..Len(q) : Append(q, x)[j] = q[j]
    BY <2>1
  <2>3. i \in DOMAIN q /\ q[i] = e
    BY <1>1, <2>1, <2>2
  <2> QED
    BY <2>3 DEF InQueue
<1>2. ASSUME q # <<>>
      PROVE  /\ Head(q) \in Conns /\ InQueue(Head(q), q)
             /\ \A e : InQueue(e, Tail(q)) => InQueue(e, q)
  <2>1. /\ Len(q) \in Nat \ {0} /\ DOMAIN q = 1..Len(q) /\ Head(q) = q[1] /\ Head(q) \in Conns
        /\ DOMAIN Tail(q) = 1..Len(q) - 1 /\ \A i \in 1..Len(q) - 1 : Tail(q)[i] = q[i + 1]
    BY <1>2
  <2>2. ASSUME NEW i \in DOMAIN Tail(q)
        PROVE  i + 1 \in DOMAIN q /\ q[i + 1] = Tail(q)[i]
    BY <2>1
  <2> QED
    BY <2>1, <2>2 DEF InQueue
<1> QED
  BY <1>1, <1>2, Pushed

\* The goroutines of a connection.
LEMMA HandlerOrderly ==
  ASSUME CalmInv, NEW c \in Conns, Handler(c)
  PROVE  Orderly'
<1>1. HubTypes /\ Orderly
  BY DEF CalmInv, Inv
<1>2. CASE Validate(c)
  <2>1. /\ stage[c] = "new" /\ stage' = [stage EXCEPT ![c] = "validated"]
        /\ UNCHANGED <<channels, maps, sends, panicked>>
    BY <1>2 DEF Validate
  <2>2. stage'[c] = "validated" /\ \A d \in Conns \ {c} : stage'[d] = stage[d]
    BY <1>1, <2>1 DEF HubTypes
  <2>3. ~Waits(c) /\ c \notin clients \cup byRoom \cup closed /\ ~InQueue(c, unregister)
        /\ ~InQueue(c, bindRoom) /\ \A p \in Players : byPlayer[p] # c
    BY <1>1, <2>1, IdentityAssumption DEF Orderly, Served
  <2> QED
    BY <1>1, <2>1, <2>2, <2>3
       DEF HubTypes, Orderly, Waits, InQueue, Served, channels, maps, sends
<1>3. CASE PushRegister(c)
  <2>1. /\ stage[c] = "validated" /\ stage' = [stage EXCEPT ![c] = "registered"]
        /\ register' = Append(register, c)
        /\ UNCHANGED <<bindPlayer, bindRoom, unregister, maps, sends, panicked>>
    BY <1>3 DEF PushRegister
  <2>2. stage'[c] = "registered" /\ \A d \in Conns \ {c} : stage'[d] = stage[d]
    BY <1>1, <2>1 DEF HubTypes, Stages
  <2>3. \A d : InQueue(d, register)' <=> d = c \/ InQueue(d, register)
    BY <1>1, <2>1, Members DEF HubTypes, Held
  <2> QED
    BY <1>1, <2>1, <2>2, <2>3, IdentityAssumption
       DEF HubTypes, Orderly, Waits, InQueue, Served, maps, sends
<1>4. CASE PushBindPlayer(c)
  <2>1. /\ stage[c] = "registered" /\ stage' = [stage EXCEPT ![c] = "bound"]
        /\ bindPlayer' = Append(bindPlayer, c)
        /\ UNCHANGED <<register, bindRoom, unregister, maps, sends, panicked>>
    BY <1>4 DEF PushBindPlayer
  <2>2. stage'[c] = "bound" /\ \A d \in Conns \ {c} : stage'[d] = stage[d]
    BY <1>1, <2>1 DEF HubTypes, Stages
  <2>3. \A d : InQueue(d, bindPlayer)' <=> d = c \/ InQueue(d, bindPlayer)
    BY <1>1, <2>1, Members DEF HubTypes, Held
  <2> QED
    BY <1>1, <2>1, <2>2, <2>3, IdentityAssumption
       DEF HubTypes, Orderly, Waits, InQueue, Served, maps, sends
<1>5. CASE PushBindRoom(c)
  <2>1. /\ stage[c] = "bound" /\ stage' = [stage EXCEPT ![c] = "pumping"]
        /\ bindRoom' = Append(bindRoom, c)
        /\ UNCHANGED <<register, bindPlayer, unregister, maps, sends, panicked>>
    BY <1>5 DEF PushBindRoom
  <2>2. stage'[c] = "pumping" /\ \A d \in Conns \ {c} : stage'[d] = stage[d]
    BY <1>1, <2>1 DEF HubTypes, Stages
  <2>3. \A d : InQueue(d, bindRoom)' <=> d = c \/ InQueue(d, bindRoom)
    BY <1>1, <2>1, Members DEF HubTypes, Held
  <2> QED
    BY <1>1, <2>1, <2>2, <2>3, IdentityAssumption
       DEF HubTypes, Orderly, Waits, InQueue, Served, maps, sends
<1> QED
  BY <1>2, <1>3, <1>4, <1>5 DEF Handler

\* A socket dies while nobody registers, or after its channel was closed.
LEMMA PumpOrderly ==
  ASSUME CalmInv, BindsFirst, NEW c \in Conns, Pump(c) \/ Disconnect(c)
  PROVE  Orderly'
<1>1. HubTypes /\ Orderly
  BY DEF CalmInv, Inv
<1>2. CASE WriteFrame(c)
  BY <1>1, <1>2 DEF WriteFrame, Orderly, Waits, InQueue, channels, maps
<1>3. CASE HangUp(c) \/ Disconnect(c)
  <2>1. /\ stage[c] = "pumping" /\ stage' = [stage EXCEPT ![c] = "leaving"]
        /\ UNCHANGED <<channels, maps, sends, panicked>>
    BY <1>3 DEF HangUp, Disconnect
  <2>2. ~Waits(c)
    BY <1>1, <1>3 DEF HangUp, Disconnect, Calm, Registering, Waits, Orderly
  <2>3. stage'[c] = "leaving" /\ \A d \in Conns \ {c} : stage'[d] = stage[d]
    BY <1>1, <2>1 DEF HubTypes, Stages
  <2> QED
    BY <1>1, <2>1, <2>2, <2>3, IdentityAssumption
       DEF HubTypes, Orderly, Waits, InQueue, Served, channels, maps, sends
<1>4. CASE PushUnregister(c)
  <2>1. /\ stage[c] = "leaving" /\ stage' = [stage EXCEPT ![c] = "gone"]
        /\ unregister' = Append(unregister, c)
        /\ UNCHANGED <<register, bindPlayer, bindRoom, maps, sends, panicked>>
    BY <1>4 DEF PushUnregister
  <2>2. stage'[c] = "gone" /\ \A d \in Conns \ {c} : stage'[d] = stage[d]
    BY <1>1, <2>1 DEF HubTypes, Stages
  <2>3. \A d : InQueue(d, unregister)' <=> d = c \/ InQueue(d, unregister)
    BY <1>1, <2>1, Members DEF HubTypes, Held
  <2> QED
    BY <1>1, <2>1, <2>2, <2>3, IdentityAssumption
       DEF HubTypes, Orderly, Waits, InQueue, Served, maps, sends
<1> QED
  BY <1>2, <1>3, <1>4 DEF Pump

\* The hub takes the registrations.
LEMMA BindOrderly ==
  ASSUME CalmInv, HubRegister \/ HubBindPlayer \/ HubBindRoom
  PROVE  Orderly'
<1>1. HubTypes /\ Orderly
  BY DEF CalmInv, Inv
<1>2. CASE HubRegister
  <2>1. /\ Head(register) \in Conns /\ InQueue(Head(register), register)
        /\ \A e : InQueue(e, register)' => InQueue(e, register)
    BY <1>1, <1>2, Members DEF HubRegister, HubTypes, Held
  <2>2. /\ clients' = clients \cup {Head(register)}
        /\ UNCHANGED <<stage, bindPlayer, bindRoom, unregister, byPlayer, byRoom, sends, panicked>>
    BY <1>2 DEF HubRegister
  <2> QED
    BY <1>1, <2>1, <2>2 DEF Orderly, Waits, InQueue, sends
<1>3. CASE HubBindPlayer
  <2> DEFINE head == Head(bindPlayer)
  <2>1. /\ head \in Conns /\ InQueue(head, bindPlayer)
        /\ \A e : InQueue(e, bindPlayer)' => InQueue(e, bindPlayer)
    BY <1>1, <1>3, Members DEF HubBindPlayer, HubTypes, Held
  <2>2. /\ byPlayer' = [byPlayer EXCEPT ![PlayerOf[head]] = head]
        /\ UNCHANGED <<stage, register, bindRoom, unregister, clients, byRoom, sends, panicked>>
    BY <1>3 DEF HubBindPlayer
  <2>3. head \notin closed /\ stage[head] \notin {"new", "validated"}
    BY <1>1, <2>1 DEF Orderly, Waits
  <2>4. \A p \in Players : byPlayer'[p] = IF p = PlayerOf[head] THEN head ELSE byPlayer[p]
    BY <1>1, <2>2 DEF HubTypes
  <2> HIDE DEF head
  <2> QED
    BY <1>1, <2>1, <2>2, <2>3, <2>4 DEF Orderly, Waits, InQueue, sends
<1>4. CASE HubBindRoom
  <2>1. /\ Head(bindRoom) \in Conns /\ InQueue(Head(bindRoom), bindRoom)
        /\ \A e : InQueue(e, bindRoom)' => InQueue(e, bindRoom)
    BY <1>1, <1>4, Members DEF HubBindRoom, HubTypes, Held
  <2>2. /\ byRoom' = byRoom \cup {Head(bindRoom)}
        /\ UNCHANGED <<stage, register, bindPlayer, unregister, clients, byPlayer, sends, panicked>>
    BY <1>4 DEF HubBindRoom
  <2> QED
    BY <1>1, <2>1, <2>2 DEF Orderly, Waits, InQueue, Served, sends
<1> QED
  BY <1>2, <1>3, <1>4

\* dropClient may drop whoever does not register any more.
LEMMA DropOrderly ==
  ASSUME CalmInv, NEW S \in SUBSET Conns, Drop(S), \A c \in S : ~Registering(c),
         UNCHANGED <<stage, register, bindPlayer, bindRoom, panicked>>,
         \A e : InQueue(e, unregister)' => InQueue(e, unregister)
  PROVE  Orderly'
<1>1. HubTypes /\ Orderly
  BY DEF CalmInv, Inv
<1>2. \A c \in S \cap clients : stage[c] \in Served /\ ~Waits(c)
  BY <1>1 DEF HubTypes, Stages, Orderly, Registering, Waits, Served
<1>3. \A p \in Players : byPlayer'[p] = IF byPlayer[p] \in S \cap clients THEN NoConn ELSE byPlayer[p]
  BY DEF Drop
<1> QED
  BY <1>1, <1>2, <1>3 DEF HubTypes, Orderly, Waits, InQueue, Drop

\* What the hub has for anybody goes to open channels.
LEMMA FrameOrderly ==
  ASSUME CalmInv, BindsFirst, Calm, NEW S \in SUBSET Conns, S \cap closed = {}, TrySend(S),
         UNCHANGED <<open, stage, channels>>
  PROVE  Orderly'
<1> DEFINE full == {c \in S : pending[c] = SendCap}
<1>1. Drop(full) /\ UNCHANGED panicked
  BY DEF TrySend
<1>2. \A c \in full : ~Registering(c)
  BY DEF Calm
<1> QED
  BY <1>1, <1>2, DropOrderly DEF channels, InQueue

LEMMA HubOrderly ==
  ASSUME CalmInv, BindsFirst, Hub
  PROVE  Orderly'
<1>1. HubTypes /\ Orderly
  BY DEF CalmInv, Inv
<1>2. CASE HubUnregister
  <2> DEFINE head == Head(unregister)
  <2>1. /\ head \in Conns /\ InQueue(head, unregister)
        /\ \A e : InQueue(e, unregister)' => InQueue(e, unregister)
    BY <1>1, <1>2, Members DEF HubUnregister, HubTypes, Held
  <2>2. stage[head] = "gone" /\ ~Waits(head)
    BY <1>1, <2>1 DEF Orderly
  <2>3. Drop({head}) /\ UNCHANGED <<stage, register, bindPlayer, bindRoom, panicked>>
    BY <1>2 DEF HubUnregister
  <2> HIDE DEF head
  <2> QED
    BY <2>1, <2>2, <2>3, DropOrderly DEF Registering, Waits
<1>3. ASSUME NEW p \in Players, HubDirect(p)
      PROVE  Orderly'
  <2>1. byPlayer[p] \in Conns /\ byPlayer[p] \notin closed
    BY <1>1, <1>3 DEF HubDirect, HubTypes, Orderly
  <2> QED
    BY <1>3, <2>1, FrameOrderly DEF HubDirect
<1>4. ASSUME NEW r \in Rooms, HubBroadcast(r)
      PROVE  Orderly'
  <2>1. InRoom(r) \subseteq Conns /\ InRoom(r) \cap closed = {}
    BY <1>1 DEF HubTypes, Orderly, InRoom
  <2> QED
    BY <1>4, <2>1, FrameOrderly DEF HubBroadcast
<1>5. CASE HubCloseRoom
  <2> DEFINE leaving == InRoom(Head(closeRoom))
  <2>1. leaving \subseteq byRoom /\ leaving \cap closed = {}
    BY <1>1 DEF Orderly, HubTypes, InRoom
  <2>2. /\ closed' = closed \cup leaving /\ clients' = clients \ leaving
        /\ byPlayer' = [p \in Players |->
             IF \E c \in leaving : PlayerOf[c] = p THEN NoConn ELSE byPlayer[p]]
        /\ byRoom' = byRoom \ leaving
        /\ UNCHANGED <<stage, register, bindPlayer, bindRoom, unregister, panicked>>
    BY <1>5, <2>1 DEF HubCloseRoom
  <2>3. \A c \in leaving : stage[c] \in Served /\ ~Waits(c)
    BY <1>1, <1>5, <2>1 DEF HubTypes, Orderly, HubCloseRoom, Calm, Registering, Waits
  <2>4. \A p \in Players : byPlayer'[p] # NoConn => byPlayer'[p] = byPlayer[p]
                                                  /\ byPlayer[p] \notin leaving
    BY <1>1, <2>2 DEF Orderly
  <2> HIDE DEF leaving
  <2> QED
    BY <1>1, <2>2, <2>3, <2>4 DEF HubTypes, Orderly, Waits, InQueue
<1> QED
  BY <1>2, <1>3, <1>4, <1>5, BindOrderly DEF Hub

LEMMA StepCalm == ASSUME BindsFirst PROVE CalmInv /\ [Next]_vars => CalmInv'
<1> SUFFICES ASSUME CalmInv, [Next]_vars PROVE CalmInv'
  OBVIOUS
<1>1. Inv'
  BY StepInv DEF CalmInv
<1>2. CASE UNCHANGED vars
  BY <1>1, <1>2
     DEF vars, channels, maps, sends, CalmInv, Inv, HubTypes, Orderly, Waits, InQueue
<1>3. ASSUME NEW r \in Rooms, SweepRoom(r) PROVE Orderly'
  BY <1>3 DEF SweepRoom, maps, sends, CalmInv, Inv, HubTypes, Orderly, Waits, InQueue
<1> QED
  BY <1>1, <1>2, <1>3, HandlerOrderly, PumpOrderly, HubOrderly DEF Next, CalmInv

LEMMA CalmHolds == ASSUME BindsFirst PROVE Spec => []CalmInv
<1>1. Init => CalmInv
  <2> SUFFICES ASSUME Init PROVE Orderly
    BY InitInv DEF CalmInv
  <2>1. \A c : ~InQueue(c, <<>>)
    BY DEF InQueue
  <2> QED
    BY <2>1 DEF Init, Orderly, Waits
<1> QED
  BY <1>1, StepCalm, PTL DEF Spec

\* Where nothing overtakes a registration the hub never panics (trySend, dropClient and
\* the CloseRoom case of Hub.Run).
THEOREM HubSurvivesCalm == ASSUME BindsFirst PROVE Spec => []HubSurvives
<1>1. CalmInv => HubSurvives
  BY DEF CalmInv, Orderly, HubSurvives
<1> QED
  BY <1>1, CalmHolds, PTL

\* And its three maps tell the same story (hub.go 68-125 against 152-171).
THEOREM MapsAgreeCalm == ASSUME BindsFirst PROVE Spec => []MapsAgree
<1>1. CalmInv => MapsAgree
  <2> SUFFICES ASSUME CalmInv PROVE MapsAgree
    OBVIOUS
  <2>1. HubTypes /\ Orderly /\ Accounted
    BY DEF CalmInv, Inv
  <2>2. ASSUME NEW c \in Conns, ~Registering(c)
        PROVE  /\ c \in clients <=> c \in byRoom
               /\ stage[c] # "new" /\ c \notin closed => c \in clients
    <3>1. ~Waits(c) /\ stage[c] \in {"new"} \cup Served
      BY <2>1, <2>2 DEF Registering, Waits, HubTypes, Stages, Served
    <3> QED
      BY <2>1, <3>1 DEF Orderly, Accounted, Waits, Served
  <2>3. ASSUME NEW p \in Players
        PROVE  /\ byPlayer[p] \notin closed
               /\ byPlayer[p] # NoConn /\ ~Registering(byPlayer[p]) => byPlayer[p] \in clients
    <3>1. CASE byPlayer[p] = NoConn
      BY <2>1, <3>1, IdentityAssumption DEF HubTypes
    <3>2. CASE byPlayer[p] # NoConn
      BY <2>1, <2>2, <3>2 DEF HubTypes, Orderly
    <3> QED
      BY <3>1, <3>2
  <2> QED
    BY <2>1, <2>2, <2>3 DEF MapsAgree, Orderly, HubTypes
<1> QED
  BY <1>1, CalmHolds, PTL

\* A player is only left without a connection when the bound one is dropped (hub.go
\* 157-161).  Where CloseRoom unbinds by player, all connections of the player go.
THEOREM BoundUntilGoneCalm == ASSUME BindsFirst PROVE Spec => BoundUntilGone
<1> DEFINE Unbound == \A p \in Players :
             byPlayer[p] # NoConn /\ byPlayer'[p] = NoConn => byPlayer[p] \notin clients'
<1>1. CalmInv /\ [Next]_vars => Unbound
  <2> SUFFICES ASSUME CalmInv, [Next]_vars, NEW p \in Players,
                      byPlayer[p] # NoConn, byPlayer'[p] = NoConn
               PROVE  byPlayer[p] \notin clients'
    OBVIOUS
  <2>1. HubTypes /\ Orderly /\ byPlayer[p] \in Conns
    BY DEF CalmInv, Inv, HubTypes
  <2>2. byPlayer' # byPlayer
    OBVIOUS
  <2>3. ASSUME NEW S, Drop(S)
        PROVE  byPlayer[p] \notin clients'
    BY <2>3 DEF Drop
  <2>4. CASE HubCloseRoom
    <3> DEFINE leaving == InRoom(Head(closeRoom))
    <3>1. /\ clients' = clients \ leaving /\ Calm
          /\ byPlayer' = [q \in Players |->
               IF \E c \in leaving : PlayerOf[c] = q THEN NoConn ELSE byPlayer[q]]
      BY <2>2, <2>4 DEF HubCloseRoom, Panic, maps
    <3>2. PICK c \in leaving : PlayerOf[c] = p
      BY <3>1
    <3>3. PlayerOf[byPlayer[p]] = p /\ c \in Conns /\ c \in byRoom
          /\ RoomOf[c] = Head(closeRoom)
      BY <2>1, <3>2 DEF Orderly, HubTypes, InRoom
    <3>4. RoomOf[byPlayer[p]] = Head(closeRoom)
      BY <2>1, <3>2, <3>3, IdentityAssumption
    <3>5. byPlayer[p] \in clients => byPlayer[p] \in byRoom
      <4>1. ~Registering(byPlayer[p]) /\ byPlayer[p] \notin closed
        BY <2>1, <3>1 DEF Calm, Orderly
      <4>2. stage[byPlayer[p]] \in Served /\ ~InQueue(byPlayer[p], bindRoom)
        BY <2>1, <4>1 DEF Registering, Orderly, HubTypes, Stages, Served
      <4> QED
        BY <2>1, <4>1, <4>2 DEF CalmInv, Inv, Accounted, Served
    <3> QED
      BY <3>1, <3>4, <3>5 DEF InRoom
  <2>5. CASE HubUnregister \/ (\E q \in Players : HubDirect(q))
                          \/ (\E r \in Rooms : HubBroadcast(r))
    BY <2>2, <2>3, <2>5 DEF HubUnregister, HubDirect, HubBroadcast, TrySend, Panic, maps
  <2>6. CASE HubBindPlayer
    <3>1. bindPlayer \in Seq(Conns) /\ Head(bindPlayer) \in Conns
      BY <2>1, <2>6, Members DEF HubTypes, Held, HubBindPlayer
    <3> QED
      BY <2>1, <2>6, <3>1, IdentityAssumption DEF HubBindPlayer, HubTypes
  <2> QED
    BY <2>2, <2>4, <2>5, <2>6
       DEF Next, Hub, Handler, Pump, Validate, PushRegister, PushBindPlayer, PushBindRoom,
           WriteFrame, HangUp, PushUnregister, Disconnect, SweepRoom, HubRegister,
           HubBindRoom, vars, maps
<1>2. CalmInv /\ [Next]_vars => [Unbound]_vars
  BY <1>1
<1> QED
  BY <1>2, CalmHolds, PTL DEF Spec, BoundUntilGone
=============================================================================
