-------------------------- MODULE Failover_proofs --------------------------
(* For any number of players, pages, lost sockets and claims: who may take   *)
(* the host seat of the room; that the pages use the registry through its    *)
(* operations only; and what each page's refs say together, among them that  *)
(* pages agree on the announced host and that a timer stands in for a host   *)
(* that is gone.                                                             *)
EXTENDS Failover, RoomRegistry_proofs

-----------------------------------------------------------------------------
\* The record of the room

RecordFields ==
  {"code", "creator", "host", "players", "version", "finished", "age", "claim"}
ClaimFields == {"by", "tuple", "recent"}

\* The room keeps the fields of its record, and its claim those of a claim.
RecordShape ==
  /\ DOMAIN room = RoomIds
  /\ DOMAIN room[Home] = RecordFields
  /\ DOMAIN room[Home].claim = ClaimFields

\* A strictly better claim, within the window of the last one.
Improves(old, new) ==
  /\ old.claim.recent
  /\ TupleBeats(new.claim.tuple, new.claim.by, old.claim.tuple, old.claim.by)

SeatKept ==
  LET old == room[Home]
      new == room'[Home]
  IN  old.host # NoName /\ new.host \notin {old.host, NoName} => Improves(old, new)

LEMMA HomeExists == Home \in RoomIds
<1>1. RoomIds # {}
  BY FailoverAssumption, FS_EmptySet
<1> QED
  BY <1>1 DEF Home

-----------------------------------------------------------------------------
\* The operations of the registry that pages and announcements lead to

LEMMA CreateKeeps ==
  ASSUME RecordShape, NEW name, CreateRoom(Home, Code, name)
  PROVE  RecordShape' /\ SeatKept
<1> DEFINE new == [Unborn EXCEPT !.code = Code, !.creator = name,
                                 !.host = name, !.players = {name}]
<1>1. room[Home].host = NoName /\ room' = [room EXCEPT ![Home] = new]
  BY DEF CreateRoom, Unborn
<1>2. DOMAIN new = RecordFields /\ DOMAIN new.claim = ClaimFields
  BY DEF Unborn, NoClaim, RecordFields, ClaimFields
<1> HIDE DEF new
<1> QED
  BY <1>1, <1>2, HomeExists DEF RecordShape, SeatKept

LEMMA RegisterKeeps ==
  ASSUME RecordShape, NEW name, RegisterPlayer(Code, name)
  PROVE  RecordShape' /\ SeatKept
<1> DEFINE r == byCode[Code]
           joined == [room[r] EXCEPT !.players = @ \cup {name}]
           new == Touched(joined)
<1>1. room' = [room EXCEPT ![r] = new]
  BY DEF RegisterPlayer
<1>2. CASE r = Home
  <2>1. DOMAIN joined = RecordFields /\ joined.claim = room[Home].claim
        /\ joined.host = room[Home].host
    BY <1>2 DEF RecordShape, RecordFields
  <2> HIDE DEF joined
  <2>2. DOMAIN new = RecordFields /\ new.claim = room[Home].claim
        /\ new.host = room[Home].host
    BY <2>1 DEF Touched, RecordFields
  <2> HIDE DEF new
  <2> QED
    BY <1>1, <1>2, <2>2, HomeExists DEF RecordShape, SeatKept
<1>3. CASE r # Home
  BY <1>1, <1>3, HomeExists DEF RecordShape, SeatKept
<1> QED
  BY <1>2, <1>3

\* The only operation that gives the seat of a host to somebody else.
LEMMA ClaimKeeps ==
  ASSUME RecordShape, NEW p, NEW tuple, ClaimHost(Home, p, tuple)
  PROVE  RecordShape' /\ SeatKept
<1> DEFINE claim == [by |-> p, tuple |-> tuple, recent |-> TRUE]
           seated == [room[Home] EXCEPT !.host = p, !.claim = claim]
           old == IF room[Home].host = p THEN room[Home] ELSE seated
           new == Touched(old)
<1>1. room' = [room EXCEPT ![Home] = new]
  BY DEF ClaimHost
<1>2. DOMAIN claim = ClaimFields /\ claim.tuple = tuple /\ claim.by = p
  BY DEF ClaimFields
<1> HIDE DEF claim
<1>3. DOMAIN seated = RecordFields /\ seated.claim = claim /\ seated.host = p
  BY DEF RecordShape, RecordFields
<1> HIDE DEF seated
<1>4. /\ DOMAIN old = RecordFields /\ DOMAIN old.claim = ClaimFields
      /\ old.host # room[Home].host => old.claim = claim
  BY <1>2, <1>3 DEF RecordShape
<1> HIDE DEF old
<1>5. DOMAIN new = RecordFields /\ new.claim = old.claim /\ new.host = old.host
  BY <1>4 DEF Touched, RecordFields
<1> HIDE DEF new
<1>6. room'[Home] = new /\ DOMAIN room' = RoomIds
  BY <1>1, HomeExists DEF RecordShape
<1>7. RecordShape'
  BY <1>4, <1>5, <1>6 DEF RecordShape
<1>8. ASSUME room[Home].host # NoName, new.host # room[Home].host
      PROVE  Improves(room[Home], new)
  <2>1. new.claim = claim /\ room[Home].host # p
    BY <1>4, <1>5, <1>8 DEF old
  <2>2. /\ room[Home].claim.recent
        /\ TupleBeats(tuple, p, room[Home].claim.tuple, room[Home].claim.by)
    BY <1>8, <2>1 DEF ClaimHost, Endorses
  <2> QED
    BY <1>2, <2>1, <2>2 DEF Improves
<1> QED
  BY <1>6, <1>7, <1>8 DEF SeatKept

LEMMA UpdateKeeps ==
  ASSUME RecordShape, UpdateHost(Home)
  PROVE  RecordShape' /\ SeatKept
<1> DEFINE cleared == [room[Home] EXCEPT !.host = NoName]
           new == Touched(cleared)
<1>1. room' = [room EXCEPT ![Home] = new]
  BY DEF UpdateHost
<1>2. DOMAIN cleared = RecordFields /\ cleared.claim = room[Home].claim /\ cleared.host = NoName
  BY DEF RecordShape, RecordFields
<1> HIDE DEF cleared
<1>3. DOMAIN new = RecordFields /\ new.claim = room[Home].claim /\ new.host = NoName
  BY <1>2 DEF Touched, RecordFields
<1> HIDE DEF new
<1> QED
  BY <1>1, <1>3, HomeExists DEF RecordShape, SeatKept

LEMMA LapseKeeps ==
  ASSUME RecordShape, ClaimLapses(Home)
  PROVE  RecordShape' /\ SeatKept
<1> DEFINE claim == [room[Home].claim EXCEPT !.recent = FALSE]
           new == [room[Home] EXCEPT !.claim = claim]
<1>1. room' = [room EXCEPT ![Home] = new]
  BY DEF ClaimLapses
<1>2. DOMAIN claim = ClaimFields
  BY DEF RecordShape
<1> HIDE DEF claim
<1>3. DOMAIN new = RecordFields /\ new.claim = claim /\ new.host = room[Home].host
  BY DEF RecordShape, RecordFields
<1> HIDE DEF new
<1> QED
  BY <1>1, <1>2, <1>3, HomeExists DEF RecordShape, SeatKept

-----------------------------------------------------------------------------
\* The theorem

LEMMA InitShape == FailoverInit => RecordShape
BY HomeExists DEF FailoverInit, Init, RecordShape, Unborn, NoClaim, RecordFields, ClaimFields

LEMMA StepShape == RecordShape /\ [FailoverNext]_allVars => RecordShape' /\ SeatKept
<1> SUFFICES ASSUME RecordShape, [FailoverNext]_allVars PROVE RecordShape' /\ SeatKept
  OBVIOUS
<1>1. CASE UNCHANGED room
  BY <1>1 DEF RecordShape, SeatKept
<1>2. CASE UNCHANGED allVars
  BY <1>1, <1>2 DEF allVars, vars
<1>3. CASE Create
  BY <1>3, CreateKeeps DEF Create
<1>4. ASSUME NEW p \in Names, Tab(p)
      PROVE  RecordShape' /\ SeatKept
  <2>1. CASE Join(p) /\ ~UNCHANGED vars
    BY <2>1, RegisterKeeps DEF Join
  <2>2. CASE ~Join(p) \/ UNCHANGED vars
    <3>1. UNCHANGED room
      BY <1>4, <2>2 DEF Tab, Lookup, Join, ColdBoot, Booted, Connect, Drop, Leave, vars
    <3> QED
      BY <1>1, <3>1
  <2> QED
    BY <2>1, <2>2
<1>5. ASSUME NEW p \in Names, Progress(p) \/ Follow(p) \/ Announce(p)
      PROVE  RecordShape' /\ SeatKept
  <2>1. UNCHANGED room
    BY <1>5 DEF Progress, Handle, RunHostFailover, Open, Follow, Announce, vars
  <2> QED
    BY <1>1, <2>1
<1>6. ASSUME NEW p \in Names, NEW q \in Names, ConnectionFails(p, q)
      PROVE  RecordShape' /\ SeatKept
  BY <1>1, <1>6 DEF ConnectionFails, vars
<1>7. ASSUME NEW claim \in claims, ServeClaim(claim)
      PROVE  RecordShape' /\ SeatKept
  <2>1. ClaimHost(Home, claim.by, claim.tuple) \/ UNCHANGED vars
    BY <1>7 DEF ServeClaim
  <2> QED
    BY <1>1, <2>1, ClaimKeeps DEF vars
<1>8. CASE ClearHost
  BY <1>8, UpdateKeeps DEF ClearHost
<1>9. CASE ClaimLapses(Home)
  BY <1>9, LapseKeeps
<1> QED
  BY <1>2, <1>3, <1>4, <1>5, <1>6, <1>7, <1>8, <1>9 DEF FailoverNext

\* Whatever pages leave, crash, come back and claim, and in whatever order the registry
\* serves their claims: only a strictly better claim displaces a host, and only within
\* the window of that host's own claim (ClaimHost, manager.go 233-268).
THEOREM OnlyBetterClaims == FailoverSpec => ClaimsImprove
<1>1. SeatKept =>
        LET old == room[Home]
            new == room'[Home]
        IN  old.host # NoName /\ new.host \notin {old.host, NoName}
              => /\ old.claim.recent
                 /\ \/ new.claim.tuple[1] > old.claim.tuple[1]
                    \/ /\ new.claim.tuple[1] = old.claim.tuple[1]
                       /\ new.claim.tuple[2] > old.claim.tuple[2]
                    \/ /\ new.claim.tuple = old.claim.tuple
                       /\ Rank[new.claim.by] < Rank[old.claim.by]
  BY DEF SeatKept, Improves, TupleBeats
<1> QED
  BY <1>1, InitShape, StepShape, PTL DEF FailoverSpec, ClaimsImprove

-----------------------------------------------------------------------------
\* What the refs of a page say together

Refs == [mode : Modes, hostId : Someone, known : SUBSET Names, timer : BOOLEAN,
         handlers : Seq({"host", "guest"}), floor : Int \X Int, online : BOOLEAN,
         hostDc : Someone, dialed : SUBSET Names, calls : SUBSET Names,
         peers : SUBSET Names]

IsOpen(g) == g.mode \in {"guest", "host"}

Has(g, side) == \E i \in DOMAIN g.handlers : g.handlers[i] = side

\* A page on one side has subscribed the handler of that side at some time; before it
\* is on any it has nothing but a mode and the host the lookup named.
Wired(g) ==
  /\ g \in Refs
  /\ g.mode = "guest" => Has(g, "guest")
  /\ g.mode = "host" => Has(g, "host")
  /\ ~IsOpen(g) => g = [Closed EXCEPT !.mode = g.mode, !.hostId = g.hostId]
  /\ g.hostDc \in {NoName, g.hostId}

\* The same between two frames: a host follows itself, and a timer, which only a guest's
\* handler starts and the next one stops, runs while the host is unknown.
Tidy(g, p) ==
  /\ Wired(g)
  /\ g.mode = "host" => g.hostId = p
  /\ g.timer => Has(g, "guest") /\ g.hostId \notin g.known

-----------------------------------------------------------------------------
\* What a page will have heard

Tells(q) == \E i \in DOMAIN q : q[i].type = "HOST_CHANGED"

\* The last announcement in q, if there is one, is of that player.
LastTells(q, who) ==
  \A i \in DOMAIN q :
    q[i].type = "HOST_CHANGED" /\ (\A j \in DOMAIN q : j > i => q[j].type # "HOST_CHANGED")
      => q[i].who = who

Agrees(g, p) == g.hostId = announced /\ (g.mode = "host" <=> p = announced)

\* A page that the last announcement reached has it before it or has acted on it.
Reached(p) ==
  /\ IsOpen(page[p])
  /\ LastTells(inbox[p], announced)
  /\ ~Tells(inbox[p]) => Agrees(page[p], p)

-----------------------------------------------------------------------------
\* The invariant

Claims == [by : Names, tuple : Int \X Int, cold : BOOLEAN]

PagesTidy ==
  \A p \in Names :
    /\ Tidy(page[p], p) /\ page[p].calls = {}
    /\ page[p] # Closed => Home \in live

FramesTyped ==
  /\ inbox \in [Names -> Seq(Frames)]
  /\ \A p \in Names : ~page[p].online => inbox[p] = <<>>

\* A cold boot's page does nothing until its claim is answered.
ClaimsTyped ==
  /\ claims \subseteq Claims
  /\ \A claim \in claims :
       claim.cold => page[claim.by].mode = "claiming" /\ claim.tuple = <<0, 0>>

HistoryTyped ==
  /\ notices \subseteq Names /\ announced \in Someone
  /\ unreached \subseteq Names /\ gone \subseteq Names

AnnouncedReached == announced # NoName => \A p \in Names \ unreached : Reached(p)

PageInv ==
  /\ page \in [Names -> Refs] /\ PagesTidy
  /\ FramesTyped /\ ClaimsTyped /\ HistoryTyped /\ AnnouncedReached

FailoverInv == Inv /\ PageInv

-----------------------------------------------------------------------------
\* Changing sides

LEMMA NoNobody == NoName \notin Names /\ NoName \in Someone /\ Names \subseteq Someone
BY RegistryAssumption DEF Someone

\* A handler is added, none is lost.
LEMMA Subscribed ==
  ASSUME NEW q \in Seq({"host", "guest"}), NEW side \in {"host", "guest"}
  PROVE  /\ Append(q, side) \in Seq({"host", "guest"})
         /\ \E i \in DOMAIN Append(q, side) : Append(q, side)[i] = side
         /\ \A s : (\E i \in DOMAIN q : q[i] = s)
                     => \E i \in DOMAIN Append(q, side) : Append(q, side)[i] = s
<1>1. /\ Append(q, side) \in Seq({"host", "guest"}) /\ Len(Append(q, side)) = Len(q) + 1
      /\ Len(q) \in Nat /\ Append(q, side)[Len(q) + 1] = side
      /\ \A i \in 1..Len(q) : Append(q, side)[i] = q[i]
  OBVIOUS
<1>2. /\ DOMAIN q = 1..Len(q) /\ DOMAIN Append(q, side) = 1..Len(q) + 1
      /\ Len(q) + 1 \in 1..Len(q) + 1 /\ 1..Len(q) \subseteq 1..Len(q) + 1
  BY <1>1
<1> QED
  BY <1>1, <1>2

LEMMA WiredAsHost ==
  ASSUME NEW g \in Refs, NEW p \in Names
  PROVE  LET h == WireHost(g, p)
         IN  /\ h \in Refs /\ h.mode = "host" /\ h.hostId = p /\ h.hostDc = NoName
             /\ h.known = g.known /\ h.timer = g.timer /\ h.online = g.online
             /\ h.calls = g.known \ {p} /\ h.handlers = Append(g.handlers, "host")
             /\ Has(h, "host") /\ \A side : Has(g, side) => Has(h, side)
<1> DEFINE h == WireHost(g, p)
<1>1. /\ g.handlers \in Seq({"host", "guest"}) /\ g.floor \in Int \X Int
      /\ g.known \in SUBSET Names
  BY DEF Refs
<1>2. SeededFloor(g.floor) \in Int \X Int
  BY <1>1 DEF SeededFloor
<1>3. Append(g.handlers, "host") \in Seq({"host", "guest"})
  BY <1>1
<1>4. /\ h \in Refs /\ h.mode = "host" /\ h.hostId = p /\ h.hostDc = NoName
      /\ h.known = g.known /\ h.timer = g.timer /\ h.online = g.online
      /\ h.calls = g.known \ {p} /\ h.handlers = Append(g.handlers, "host")
  BY <1>1, <1>2, <1>3, NoNobody DEF WireHost, Refs, Modes
<1> DEFINE q == g.handlers
<1> HIDE DEF h
<1>5. Has(h, "host") /\ \A side : Has(g, side) => Has(h, side)
  <2>1. h.handlers = Append(q, "host") /\ q \in Seq({"host", "guest"})
    BY <1>1, <1>4
  <2>2. \A side : Has(g, side) <=> \E i \in DOMAIN q : q[i] = side
    BY DEF Has
  <2> HIDE DEF q
  <2>3. /\ \E i \in DOMAIN Append(q, "host") : Append(q, "host")[i] = "host"
        /\ \A s : (\E i \in DOMAIN q : q[i] = s)
                    => \E i \in DOMAIN Append(q, "host") : Append(q, "host")[i] = s
    BY <2>1, Subscribed
  <2> QED
    BY <2>1, <2>2, <2>3 DEF Has
<1> QED
  BY <1>4, <1>5 DEF h

LEMMA WiredAsGuest ==
  ASSUME NEW g \in Refs, NEW host \in Someone
  PROVE  LET h == WireGuest(g, host)
         IN  /\ h \in Refs /\ h.mode = "guest" /\ h.hostId = host /\ h.hostDc = NoName
             /\ h.known = g.known /\ h.timer = g.timer /\ h.online = g.online
             /\ h.calls = g.calls /\ h.handlers = Append(g.handlers, "guest")
             /\ Has(h, "guest") /\ \A side : Has(g, side) => Has(h, side)
<1> DEFINE h == WireGuest(g, host)
<1>1. g.handlers \in Seq({"host", "guest"})
  BY DEF Refs
<1>2. Append(g.handlers, "guest") \in Seq({"host", "guest"})
  BY <1>1
<1>3. /\ h \in Refs /\ h.mode = "guest" /\ h.hostId = host /\ h.hostDc = NoName
      /\ h.known = g.known /\ h.timer = g.timer /\ h.online = g.online
      /\ h.calls = g.calls /\ h.handlers = Append(g.handlers, "guest")
  BY <1>1, <1>2, NoNobody DEF WireGuest, Refs, Modes
<1> HIDE DEF h
<1>4. Has(h, "guest") /\ \A side : Has(g, side) => Has(h, side)
  BY <1>1, <1>3, Subscribed DEF Has
<1> QED
  BY <1>3, <1>4 DEF h

-----------------------------------------------------------------------------
\* One handler

\* The refs that no frame touches, for a page that is open.
Kept(g, h) ==
  /\ h \in Refs /\ IsOpen(h) /\ h.online = g.online
  /\ h.mode = "guest" => Has(h, "guest")
  /\ h.mode = "host" => Has(h, "host")
  /\ h.hostDc \in {NoName, h.hostId}
  /\ \A side : Has(g, side) => Has(h, side)

SameSide(g, h) == h.mode = g.mode /\ h.hostId = g.hostId

LEMMA GuestTakes ==
  ASSUME NEW g \in Refs, IsOpen(g), Wired(g), NEW p \in Names, NEW frame \in Frames
  PROVE  LET h == GuestHears(g, p, frame)
         IN  /\ Kept(g, h)
             /\ frame.type # "HOST_CHANGED" => SameSide(g, h)
             /\ frame.type = "HOST_CHANGED" =>
                  /\ ~h.timer /\ h.hostId = frame.who
                  /\ h.mode = IF frame.who = p THEN "host" ELSE g.mode
             /\ frame.type = "PEER_JOINED" =>
                  /\ h.known = g.known \cup {frame.who}
                  /\ h.timer = (g.timer /\ frame.who # g.hostId)
             /\ frame.type = "PEER_LEFT" =>
                  /\ h.known = g.known \ {frame.who}
                  /\ h.timer = (g.timer \/ frame.who = g.hostId)
             /\ frame.type \in {"SDP_OFFER", "SDP_REOFFER"} =>
                  h.known = g.known /\ h.timer = g.timer
<1> DEFINE h == GuestHears(g, p, frame)
           who == frame.who
<1>1. /\ who \in Names
      /\ frame.type \in {"PEER_JOINED", "PEER_LEFT", "HOST_CHANGED", "SDP_OFFER", "SDP_REOFFER"}
  BY DEF Frames
<1>2. /\ g.known \in SUBSET Names /\ g.timer \in BOOLEAN /\ g.dialed \in SUBSET Names
  BY DEF Refs
<1>3. CASE frame.type = "PEER_JOINED"
  <2> DEFINE known == g.known \cup {who}
             timer == g.timer /\ who # g.hostId
  <2>1. h = SeeJoined(g, who)
    BY <1>3 DEF GuestHears
  <2>2. known \in SUBSET Names /\ timer \in BOOLEAN
    BY <1>1, <1>2
  <2>3. h = [g EXCEPT !.known = known, !.timer = timer]
    BY <2>1 DEF SeeJoined
  <2> HIDE DEF h, known, timer
  <2>4. /\ h \in Refs /\ h.mode = g.mode /\ h.hostId = g.hostId /\ h.handlers = g.handlers
        /\ h.hostDc = g.hostDc /\ h.online = g.online
        /\ h.known = known /\ h.timer = timer
    BY <2>2, <2>3 DEF Refs
  <2> QED
    BY <1>3, <2>4 DEF Kept, SameSide, Wired, IsOpen, Has, h, known, timer
<1>4. CASE frame.type = "PEER_LEFT"
  <2> DEFINE known == g.known \ {who}
             timer == g.timer \/ who = g.hostId
  <2>1. h = SeeLeft(g, who)
    BY <1>4 DEF GuestHears
  <2>2. known \in SUBSET Names /\ timer \in BOOLEAN
    BY <1>1, <1>2
  <2>3. h = [g EXCEPT !.known = known, !.timer = timer]
    BY <2>1 DEF SeeLeft
  <2> HIDE DEF h, known, timer
  <2>4. /\ h \in Refs /\ h.mode = g.mode /\ h.hostId = g.hostId /\ h.handlers = g.handlers
        /\ h.hostDc = g.hostDc /\ h.online = g.online
        /\ h.known = known /\ h.timer = timer
    BY <2>2, <2>3 DEF Refs
  <2> QED
    BY <1>4, <2>4 DEF Kept, SameSide, Wired, IsOpen, Has, h, known, timer
<1>5. CASE frame.type = "HOST_CHANGED" /\ who = p
  <2> DEFINE calm == [g EXCEPT !.timer = FALSE]
  <2>1. /\ calm \in Refs /\ calm.handlers = g.handlers /\ ~calm.timer
        /\ calm.online = g.online
    BY DEF Refs
  <2>2. h = WireHost(calm, p)
    BY <1>5 DEF GuestHears, Promote
  <2> HIDE DEF calm
  <2>3. /\ h \in Refs /\ h.mode = "host" /\ h.hostId = p /\ h.hostDc = NoName
        /\ h.timer = calm.timer /\ h.online = calm.online /\ Has(h, "host")
        /\ \A side : Has(calm, side) => Has(h, side)
    BY <2>1, <2>2, WiredAsHost
  <2> QED
    BY <1>5, <2>1, <2>3 DEF Kept, IsOpen, Has
<1>6. CASE frame.type = "HOST_CHANGED" /\ who # p
  <2>1. h = Rebind(g, who)
    BY <1>6 DEF GuestHears
  <2>2. /\ h \in Refs /\ h.mode = g.mode /\ h.hostId = who /\ h.handlers = g.handlers
        /\ h.hostDc = NoName /\ h.online = g.online /\ ~h.timer
    BY <1>1, <2>1, NoNobody DEF Rebind, Refs
  <2> QED
    BY <1>6, <2>2 DEF Kept, Wired, IsOpen, Has
<1>7. CASE frame.type \in {"SDP_OFFER", "SDP_REOFFER"}
  <2>1. h = [g EXCEPT !.dialed = @ \cup {who}] \/ h = g
    BY <1>7 DEF GuestHears
  <2>2. /\ h \in Refs /\ h.mode = g.mode /\ h.hostId = g.hostId /\ h.handlers = g.handlers
        /\ h.hostDc = g.hostDc /\ h.online = g.online
        /\ h.known = g.known /\ h.timer = g.timer
    BY <1>1, <1>2, <2>1 DEF Refs
  <2> QED
    BY <1>7, <2>2 DEF Kept, SameSide, Wired, IsOpen, Has
<1> QED
  BY <1>1, <1>3, <1>4, <1>5, <1>6, <1>7

LEMMA HostTakes ==
  ASSUME NEW g \in Refs, IsOpen(g), Wired(g), NEW p \in Names, NEW frame \in Frames
  PROVE  LET h == HostHears(g, p, frame)
         IN  /\ Kept(g, h)
             /\ h.timer = g.timer
             /\ frame.type # "HOST_CHANGED" \/ frame.who = p => SameSide(g, h)
             /\ frame.type = "HOST_CHANGED" /\ frame.who # p =>
                  h.mode = "guest" /\ h.hostId = frame.who
             /\ frame.type = "PEER_JOINED" => h.known \subseteq g.known \cup {frame.who}
             /\ frame.type = "PEER_LEFT" => h.known = g.known \ {frame.who}
             /\ frame.type \in {"SDP_OFFER", "SDP_REOFFER"} => h.known = g.known
<1> DEFINE h == HostHears(g, p, frame)
           who == frame.who
<1>1. /\ who \in Names
      /\ frame.type \in {"PEER_JOINED", "PEER_LEFT", "HOST_CHANGED", "SDP_OFFER", "SDP_REOFFER"}
  BY DEF Frames
<1>2. g.known \in SUBSET Names /\ g.calls \in SUBSET Names /\ g.peers \in SUBSET Names
  BY DEF Refs
<1>3. CASE frame.type = "PEER_JOINED" /\ who # p
  <2> DEFINE known == g.known \cup {who}
             calls == g.calls \cup {who}
  <2>1. h = [g EXCEPT !.known = known, !.calls = calls]
    BY <1>3 DEF HostHears
  <2>2. known \in SUBSET Names /\ calls \in SUBSET Names
    BY <1>1, <1>2
  <2> HIDE DEF h, known, calls
  <2>3. /\ h \in Refs /\ h.mode = g.mode /\ h.hostId = g.hostId /\ h.handlers = g.handlers
        /\ h.hostDc = g.hostDc /\ h.online = g.online /\ h.timer = g.timer
        /\ h.known = known
    BY <2>1, <2>2 DEF Refs
  <2> QED
    BY <1>3, <2>3 DEF Kept, SameSide, Wired, IsOpen, Has, h, known
<1>4. CASE frame.type = "PEER_LEFT"
  <2>1. h = [g EXCEPT !.known = @ \ {who}, !.peers = @ \ {who}]
    BY <1>4 DEF HostHears
  <2>2. /\ h \in Refs /\ h.mode = g.mode /\ h.hostId = g.hostId /\ h.handlers = g.handlers
        /\ h.hostDc = g.hostDc /\ h.online = g.online /\ h.timer = g.timer
        /\ h.known = g.known \ {who}
    BY <1>1, <1>2, <2>1 DEF Refs
  <2> QED
    BY <1>4, <2>2 DEF Kept, SameSide, Wired, IsOpen, Has
<1>5. CASE frame.type = "HOST_CHANGED" /\ who # p
  <2>1. h = WireGuest(g, who)
    BY <1>5 DEF HostHears
  <2>2. /\ h \in Refs /\ h.mode = "guest" /\ h.hostId = who /\ h.hostDc = NoName
        /\ h.timer = g.timer /\ h.online = g.online /\ Has(h, "guest")
        /\ \A side : Has(g, side) => Has(h, side)
    BY <1>1, <2>1, NoNobody, WiredAsGuest
  <2> QED
    BY <1>5, <2>2 DEF Kept, IsOpen
<1>6. CASE \/ frame.type \in {"SDP_OFFER", "SDP_REOFFER"}
           \/ frame.type \in {"PEER_JOINED", "HOST_CHANGED"} /\ who = p
  <2>1. h = g
    BY <1>6 DEF HostHears
  <2> QED
    BY <1>6, <2>1 DEF Kept, SameSide, Wired, IsOpen
<1> QED
  BY <1>1, <1>3, <1>4, <1>5, <1>6

-----------------------------------------------------------------------------
\* All handlers in turn.  Hears is defined by recursion on the number of handlers; that
\* such a function exists, and what it keeps, is shown from the least number at which it
\* would fail.

LEMMA Steps ==
  ASSUME NEW n \in Nat, NEW S, 0 \in S, \A k \in 1..n : k - 1 \in S => k \in S
  PROVE  \A k \in 0..n : k \in S
<1> DEFINE R == OpToRel(<, Nat)
           Bad == {k \in 0..n : k \notin S}
<1>1. IsWellFoundedOn(R, Nat)
  BY NatLessThanWellFounded
<1>2. \A a, b \in Nat : a < b => <<a, b>> \in R
  BY DEF OpToRel
<1> HIDE DEF R
<1>3. SUFFICES ASSUME Bad # {} PROVE FALSE
  OBVIOUS
<1>4. Bad \subseteq Nat /\ Bad \subseteq 0..n
  OBVIOUS
<1> HIDE DEF Bad
<1>5. PICK m \in Bad : \A k \in Bad : <<k, m>> \notin R
  BY <1>1, <1>3, <1>4, WFMin
<1>6. m \in 0..n /\ m \notin S /\ \A k \in 0..n : <<k, m>> \in R => k \in S
  BY <1>4, <1>5 DEF Bad
<1>7. m # 0
  BY <1>6
<1>8. /\ m \in 1..n /\ m - 1 \in 0..n
      /\ m - 1 \in Nat /\ m \in Nat /\ m - 1 < m
  BY ONLY <1>6, <1>7, n \in Nat
<1>9. <<m - 1, m>> \in R
  BY <1>2, <1>8
<1>10. m - 1 \in S
  BY <1>6, <1>8, <1>9
<1> QED
  BY <1>6, <1>8, <1>10

React(g, p, frame, side) ==
  IF side = "guest" THEN GuestHears(g, p, frame) ELSE HostHears(g, p, frame)

\* a[k] is the page after the first k handlers.
InTurn(a, n, g, p, frame) ==
  a[0] = g /\ \A k \in 1..n : a[k] = React(a[k - 1], p, frame, g.handlers[k])

\* The recursive function of Hears.
Turns(u, n, g, p, frame) ==
  u = [k \in 0..n |-> IF k = 0 THEN g ELSE React(u[k - 1], p, frame, g.handlers[k])]

LEMMA TurnsExist ==
  ASSUME NEW n \in Nat, NEW g, NEW p, NEW frame
  PROVE  \E u : Turns(u, n, g, p, frame)
<1> DEFINE F(u, k) == IF k = 0 THEN g ELSE React(u[k - 1], p, frame, g.handlers[k])
           S == {m \in 0..n : \E u : u = [k \in 0..m |-> F(u, k)]}
<1>1. 0 \in S
  <2> DEFINE u == [k \in 0..0 |-> g]
  <2>1. \A k \in 0..0 : k = 0 /\ u[k] = g
    OBVIOUS
  <2>2. \A k \in 0..0 : u[k] = F(u, k)
    BY <2>1
  <2>3. u = [k \in 0..0 |-> F(u, k)]
    BY <2>2
  <2> HIDE DEF u
  <2>4. \E v : v = [k \in 0..0 |-> F(v, k)]
    BY <2>3
  <2>5. 0 \in 0..n
    OBVIOUS
  <2> QED
    BY <2>4, <2>5
<1>2. ASSUME NEW m \in 1..n, m - 1 \in S
      PROVE  m \in S
  <2>1. PICK u : u = [k \in 0..m-1 |-> F(u, k)]
    BY <1>2
  <2> DEFINE v == [k \in 0..m |-> IF k = m THEN React(u[m - 1], p, frame, g.handlers[m])
                                  ELSE u[k]]
  <2>2. ASSUME NEW k \in 0..m
        PROVE  v[k] = F(v, k)
    <3>1. CASE k = m
      <4>1. m - 1 \in 0..m /\ m - 1 # m /\ m # 0
        OBVIOUS
      <4>2. v[m - 1] = u[m - 1]
        BY <4>1
      <4> QED
        BY <3>1, <4>1, <4>2
    <3>2. CASE k # m /\ k # 0
      <4>1. k \in 0..m-1 /\ k - 1 \in 0..m /\ k - 1 # m
        BY <3>2
      <4>2. v[k] = u[k] /\ v[k - 1] = u[k - 1]
        BY <3>2, <4>1
      <4>3. u[k] = F(u, k)
        BY <2>1, <4>1
      <4> QED
        BY <3>2, <4>2, <4>3
    <3>3. CASE k # m /\ k = 0
      <4>1. k \in 0..m-1
        BY <3>3
      <4> QED
        BY <2>1, <3>3, <4>1
    <3> QED
      BY <3>1, <3>2, <3>3
  <2>3. v = [k \in 0..m |-> F(v, k)]
    BY <2>2
  <2> HIDE DEF v
  <2> QED
    BY <2>3
<1> HIDE DEF S
<1>3. n \in 0..n /\ \A k \in 0..n : k \in S
  BY <1>1, <1>2, Steps
<1> QED
  BY <1>3 DEF S, Turns

LEMMA HearsInTurn ==
  ASSUME NEW g, NEW p, NEW frame, Len(g.handlers) \in Nat
  PROVE  \E a : InTurn(a, Len(g.handlers), g, p, frame)
                /\ Hears(g, p, frame) = a[Len(g.handlers)]
<1> DEFINE n == Len(g.handlers)
           a == CHOOSE u : Turns(u, n, g, p, frame)
<1>1. n \in Nat
  OBVIOUS
<1>2. Hears(g, p, frame) = a[n]
  BY DEF Hears, React, Turns
<1> HIDE DEF n
<1>3. Turns(a, n, g, p, frame)
  BY <1>1, TurnsExist
<1> HIDE DEF a
<1>4. InTurn(a, n, g, p, frame)
  BY <1>1, <1>3 DEF InTurn, Turns
<1> QED
  BY <1>2, <1>4 DEF n

\* What became of g when it has gone through some of its handlers: through one that its
\* time as a guest left, and one that its time as a host left, or not yet.
Midway(g, h, p, frame, guests, hosts) ==
  /\ h \in Refs /\ IsOpen(h) /\ Wired(h) /\ h.online = g.online
  /\ \A side : Has(g, side) => Has(h, side)
  /\ frame.type # "HOST_CHANGED" => SameSide(g, h)
  /\ frame.type = "HOST_CHANGED" /\ frame.who # p =>
       /\ guests \/ hosts => h.hostId = frame.who
       /\ h.mode = "host" => g.mode = "host" /\ ~hosts
       /\ h.timer => g.timer /\ ~guests
  /\ frame.type = "HOST_CHANGED" /\ frame.who = p =>
       IF guests THEN h.mode = "host" /\ h.hostId = p /\ ~h.timer
       ELSE SameSide(g, h) /\ (h.timer => g.timer)
  /\ frame.type = "PEER_JOINED" =>
       /\ h.known \subseteq g.known \cup {frame.who}
       /\ h.timer => g.timer /\ (guests => frame.who # g.hostId)
  /\ frame.type = "PEER_LEFT" =>
       /\ h.known \subseteq g.known /\ (guests \/ hosts => frame.who \notin h.known)
       /\ h.timer => g.timer \/ (guests /\ frame.who = g.hostId)
  /\ frame.type \in {"SDP_OFFER", "SDP_REOFFER"} => h.known = g.known /\ (h.timer => g.timer)

LEMMA GuestMidway ==
  ASSUME NEW g, NEW h, NEW p \in Names, NEW frame \in Frames, NEW guests, NEW hosts,
         Midway(g, h, p, frame, guests, hosts)
  PROVE  Midway(g, GuestHears(h, p, frame), p, frame, TRUE, hosts)
<1> DEFINE x == GuestHears(h, p, frame)
<1>1. h \in Refs /\ IsOpen(h) /\ Wired(h) /\ h.online = g.online
  BY DEF Midway
<1>2. /\ Kept(h, x)
      /\ frame.type # "HOST_CHANGED" => SameSide(h, x)
      /\ frame.type = "HOST_CHANGED" =>
           /\ ~x.timer /\ x.hostId = frame.who
           /\ x.mode = IF frame.who = p THEN "host" ELSE h.mode
      /\ frame.type = "PEER_JOINED" =>
           /\ x.known = h.known \cup {frame.who}
           /\ x.timer = (h.timer /\ frame.who # h.hostId)
      /\ frame.type = "PEER_LEFT" =>
           /\ x.known = h.known \ {frame.who}
           /\ x.timer = (h.timer \/ frame.who = h.hostId)
      /\ frame.type \in {"SDP_OFFER", "SDP_REOFFER"} => x.known = h.known /\ x.timer = h.timer
  BY <1>1, GuestTakes
<1> HIDE DEF x
<1>3. /\ x \in Refs /\ IsOpen(x) /\ Wired(x) /\ x.online = g.online
      /\ \A side : Has(g, side) => Has(x, side)
  BY <1>1, <1>2 DEF Midway, Kept, Wired
<1>4. frame.type # "HOST_CHANGED" => SameSide(g, x) /\ SameSide(g, h)
  BY <1>2 DEF Midway, SameSide
<1>5. frame.type = "HOST_CHANGED" /\ frame.who # p =>
        /\ x.hostId = frame.who /\ ~x.timer
        /\ x.mode = "host" => g.mode = "host" /\ ~hosts
  BY <1>2 DEF Midway
<1>6. frame.type = "PEER_JOINED" =>
        /\ x.known \subseteq g.known \cup {frame.who}
        /\ x.timer => g.timer /\ frame.who # g.hostId
  BY <1>2, <1>4 DEF Midway, SameSide
<1>7. frame.type = "PEER_LEFT" =>
        /\ x.known \subseteq g.known /\ frame.who \notin x.known
        /\ x.timer => g.timer \/ frame.who = g.hostId
  BY <1>2, <1>4 DEF Midway, SameSide
<1>8. frame.type \in {"SDP_OFFER", "SDP_REOFFER"} => x.known = g.known /\ (x.timer => g.timer)
  BY <1>2 DEF Midway
<1>9. Midway(g, x, p, frame, TRUE, hosts)
  BY <1>2, <1>3, <1>4, <1>5, <1>6, <1>7, <1>8 DEF Midway
<1> QED
  BY <1>9 DEF x

LEMMA HostMidway ==
  ASSUME NEW g, NEW h, NEW p \in Names, NEW frame \in Frames, NEW guests, NEW hosts,
         Midway(g, h, p, frame, guests, hosts)
  PROVE  Midway(g, HostHears(h, p, frame), p, frame, guests, TRUE)
<1> DEFINE x == HostHears(h, p, frame)
<1>1. h \in Refs /\ IsOpen(h) /\ Wired(h) /\ h.online = g.online
  BY DEF Midway
<1>2. /\ Kept(h, x)
      /\ x.timer = h.timer
      /\ frame.type # "HOST_CHANGED" \/ frame.who = p => SameSide(h, x)
      /\ frame.type = "HOST_CHANGED" /\ frame.who # p =>
           x.mode = "guest" /\ x.hostId = frame.who
      /\ frame.type = "PEER_JOINED" => x.known \subseteq h.known \cup {frame.who}
      /\ frame.type = "PEER_LEFT" => x.known = h.known \ {frame.who}
      /\ frame.type \in {"SDP_OFFER", "SDP_REOFFER"} => x.known = h.known
  BY <1>1, HostTakes
<1> HIDE DEF x
<1>3. /\ x \in Refs /\ IsOpen(x) /\ Wired(x) /\ x.online = g.online
      /\ \A side : Has(g, side) => Has(x, side)
  BY <1>1, <1>2 DEF Midway, Kept, Wired
<1>4. frame.type # "HOST_CHANGED" => SameSide(g, x) /\ SameSide(g, h)
  BY <1>2 DEF Midway, SameSide
<1>5. frame.type = "HOST_CHANGED" /\ frame.who # p =>
        /\ x.hostId = frame.who /\ x.mode = "guest"
        /\ x.timer => g.timer /\ ~guests
  BY <1>2 DEF Midway
<1>6. frame.type = "HOST_CHANGED" /\ frame.who = p =>
        IF guests THEN x.mode = "host" /\ x.hostId = p /\ ~x.timer
        ELSE SameSide(g, x) /\ (x.timer => g.timer)
  BY <1>2 DEF Midway, SameSide
<1>7. frame.type = "PEER_JOINED" =>
        /\ x.known \subseteq g.known \cup {frame.who}
        /\ x.timer => g.timer /\ (guests => frame.who # g.hostId)
  BY <1>2 DEF Midway
<1>8. frame.type = "PEER_LEFT" =>
        /\ x.known \subseteq g.known /\ frame.who \notin x.known
        /\ x.timer => g.timer \/ (guests /\ frame.who = g.hostId)
  BY <1>2 DEF Midway
<1>9. frame.type \in {"SDP_OFFER", "SDP_REOFFER"} => x.known = g.known /\ (x.timer => g.timer)
  BY <1>2 DEF Midway
<1>10. Midway(g, x, p, frame, guests, TRUE)
  BY <1>3, <1>4, <1>5, <1>6, <1>7, <1>8, <1>9 DEF Midway
<1> QED
  BY <1>10 DEF x

\* A page that took a frame went through a handler of each side it has been on.
LEMMA HearsMidway ==
  ASSUME NEW g, NEW p \in Names, NEW frame \in Frames, Tidy(g, p), IsOpen(g)
  PROVE  Midway(g, Hears(g, p, frame), p, frame, Has(g, "guest"), Has(g, "host"))
<1> DEFINE n == Len(g.handlers)
           Passed(k, side) == \E i \in 1..k : g.handlers[i] = side
<1>1. /\ g \in Refs /\ Wired(g) /\ g.handlers \in Seq({"host", "guest"})
      /\ n \in Nat /\ DOMAIN g.handlers = 1..n /\ \A k \in 1..n : g.handlers[k] \in {"host", "guest"}
  BY DEF Tidy, Wired, Refs
<1>2. PICK a : InTurn(a, n, g, p, frame) /\ Hears(g, p, frame) = a[n]
  BY <1>1, HearsInTurn
<1> HIDE DEF n
<1> DEFINE S == {k \in 0..n : Midway(g, a[k], p, frame, Passed(k, "guest"), Passed(k, "host"))}
<1>3. 0 \in S
  <2>1. Midway(g, g, p, frame, FALSE, FALSE)
    BY <1>1 DEF Midway, SameSide
  <2>2. Passed(0, "guest") = FALSE /\ Passed(0, "host") = FALSE /\ a[0] = g /\ 0 \in 0..n
    BY <1>1, <1>2 DEF InTurn
  <2> QED
    BY <2>1, <2>2
<1>4. ASSUME NEW k \in 1..n, k - 1 \in S
      PROVE  k \in S
  <2>1. Midway(g, a[k - 1], p, frame, Passed(k - 1, "guest"), Passed(k - 1, "host"))
    BY <1>4
  <2>2. a[k] = React(a[k - 1], p, frame, g.handlers[k]) /\ g.handlers[k] \in {"host", "guest"}
    BY <1>1, <1>2 DEF InTurn
  <2>3. \A i \in 1..k : i = k \/ i \in 1..k-1
    BY <1>1
  <2>4. 1..k-1 \subseteq 1..k /\ k \in 1..k /\ k \in 0..n
    BY <1>1
  <2>5. CASE g.handlers[k] = "guest"
    <3>1. Passed(k, "guest") = TRUE /\ Passed(k, "host") = Passed(k - 1, "host")
      BY <2>3, <2>4, <2>5
    <3>2. a[k] = GuestHears(a[k - 1], p, frame)
      BY <2>2, <2>5 DEF React
    <3> HIDE DEF Passed
    <3>3. Midway(g, a[k], p, frame, TRUE, Passed(k - 1, "host"))
      BY <2>1, <3>2, GuestMidway
    <3> QED
      BY <2>4, <3>1, <3>3
  <2>6. CASE g.handlers[k] = "host"
    <3>1. Passed(k, "host") = TRUE /\ Passed(k, "guest") = Passed(k - 1, "guest")
      BY <2>3, <2>4, <2>6
    <3>2. a[k] = HostHears(a[k - 1], p, frame)
      BY <2>2, <2>6 DEF React
    <3> HIDE DEF Passed
    <3>3. Midway(g, a[k], p, frame, Passed(k - 1, "guest"), TRUE)
      BY <2>1, <3>2, HostMidway
    <3> QED
      BY <2>4, <3>1, <3>3
  <2> QED
    BY <2>2, <2>5, <2>6
<1> HIDE DEF S
<1>5. n \in S
  <2>1. \A k \in 0..n : k \in S
    BY <1>1, <1>3, <1>4, Steps
  <2> QED
    BY <1>1, <2>1
<1>6. Passed(n, "guest") = Has(g, "guest") /\ Passed(n, "host") = Has(g, "host")
  BY <1>1 DEF Has
<1> HIDE DEF Passed
<1> QED
  BY <1>2, <1>5, <1>6 DEF S

\* A frame leaves a page tidy, and only HOST_CHANGED moves it: to the side, and to the
\* host, that it announces.
LEMMA HearsTidy ==
  ASSUME NEW g, NEW p \in Names, NEW frame \in Frames, Tidy(g, p), IsOpen(g)
  PROVE  LET h == Hears(g, p, frame)
         IN  /\ Tidy(h, p) /\ IsOpen(h) /\ h.online = g.online
             /\ frame.type # "HOST_CHANGED" => SameSide(g, h)
             /\ frame.type = "HOST_CHANGED" =>
                  h.hostId = frame.who /\ (h.mode = "host" <=> p = frame.who)
<1> DEFINE h == Hears(g, p, frame)
<1>1. Midway(g, h, p, frame, Has(g, "guest"), Has(g, "host"))
  BY HearsMidway
<1> HIDE DEF h
<1>2. /\ g.mode \in {"guest", "host"} /\ h.mode \in {"guest", "host"}
      /\ g.mode = "guest" => Has(g, "guest")
      /\ g.mode = "host" => Has(g, "host") /\ g.hostId = p
      /\ g.timer => Has(g, "guest") /\ g.hostId \notin g.known
      /\ Has(g, "guest") => Has(h, "guest")
      /\ Wired(h) /\ h.online = g.online
  BY <1>1 DEF Midway, Tidy, Wired, IsOpen
<1>3. frame.type \in {"PEER_JOINED", "PEER_LEFT", "HOST_CHANGED", "SDP_OFFER", "SDP_REOFFER"}
  BY DEF Frames
<1>4. CASE frame.type = "HOST_CHANGED" /\ frame.who # p
  <2>1. h.hostId = frame.who /\ h.mode = "guest" /\ ~h.timer
    BY <1>1, <1>2, <1>4 DEF Midway
  <2> QED
    BY <1>2, <1>4, <2>1 DEF Tidy, IsOpen, h
<1>5. CASE frame.type = "HOST_CHANGED" /\ frame.who = p
  <2>1. h.hostId = p /\ h.mode = "host" /\ ~h.timer
    BY <1>1, <1>2, <1>5 DEF Midway, SameSide
  <2> QED
    BY <1>2, <1>5, <2>1 DEF Tidy, IsOpen, h
<1>6. CASE frame.type # "HOST_CHANGED"
  <2>1. SameSide(g, h)
    BY <1>1, <1>6 DEF Midway
  <2>2. h.timer => Has(h, "guest") /\ h.hostId \notin h.known
    BY <1>1, <1>2, <1>3, <1>6, <2>1 DEF Midway, SameSide
  <2> QED
    BY <1>2, <1>6, <2>1, <2>2 DEF Tidy, IsOpen, SameSide, h
<1> QED
  BY <1>4, <1>5, <1>6

-----------------------------------------------------------------------------
\* Frames on their way

LEMMA AppendedFrame ==
  ASSUME NEW q \in Seq(Frames), NEW frame \in Frames
  PROVE  /\ Append(q, frame) \in Seq(Frames)
         /\ frame.type # "HOST_CHANGED" =>
              /\ Tells(Append(q, frame)) <=> Tells(q)
              /\ \A who : LastTells(q, who) => LastTells(Append(q, frame), who)
         /\ frame.type = "HOST_CHANGED" =>
              Tells(Append(q, frame)) /\ LastTells(Append(q, frame), frame.who)
<1> DEFINE n == Len(q)
           r == Append(q, frame)
<1>1. /\ n \in Nat /\ r \in Seq(Frames) /\ DOMAIN q = 1..n /\ DOMAIN r = 1..n+1
      /\ r[n + 1] = frame /\ \A i \in 1..n : r[i] = q[i]
  OBVIOUS
<1> HIDE DEF n, r
<1>2. /\ n + 1 \in 1..n+1 /\ 1..n \subseteq 1..n+1
      /\ \A i \in 1..n+1 : i = n + 1 \/ i \in 1..n
      /\ \A i \in 1..n : n + 1 > i
      /\ \A j \in 1..n+1 : ~(j > n + 1)
  BY <1>1
<1>3. ASSUME frame.type # "HOST_CHANGED"
      PROVE  (Tells(r) <=> Tells(q)) /\ \A who : LastTells(q, who) => LastTells(r, who)
  <2>1. (Tells(r) => Tells(q)) /\ (Tells(q) => Tells(r))
    BY <1>1, <1>2, <1>3 DEF Tells
  <2>2. ASSUME NEW who, LastTells(q, who), NEW i \in 1..n+1, r[i].type = "HOST_CHANGED",
               \A j \in 1..n+1 : j > i => r[j].type # "HOST_CHANGED"
        PROVE  r[i].who = who
    <3>1. i \in 1..n
      BY <1>1, <1>2, <1>3, <2>2
    <3>2. q[i].type = "HOST_CHANGED" /\ \A j \in 1..n : j > i => q[j].type # "HOST_CHANGED"
      BY <1>1, <1>2, <2>2, <3>1
    <3>3. q[i].who = who
      BY <1>1, <2>2, <3>1, <3>2 DEF LastTells
    <3> QED
      BY <1>1, <3>1, <3>3
  <2> QED
    BY <1>1, <2>1, <2>2 DEF LastTells
<1>4. ASSUME frame.type = "HOST_CHANGED"
      PROVE  Tells(r) /\ LastTells(r, frame.who)
  <2>1. Tells(r)
    BY <1>1, <1>2, <1>4 DEF Tells
  <2>2. ASSUME NEW i \in 1..n+1,
               \A j \in 1..n+1 : j > i => r[j].type # "HOST_CHANGED"
        PROVE  i = n + 1
    BY <1>1, <1>2, <1>4, <2>2
  <2> QED
    BY <1>1, <2>1, <2>2 DEF LastTells
<1> QED
  BY <1>1, <1>3, <1>4 DEF r

\* The next frame is taken: the last announcement is still on its way, or it was the last.
LEMMA TakenFrame ==
  ASSUME NEW q \in Seq(Frames), q # <<>>
  PROVE  /\ Head(q) \in Frames /\ Tail(q) \in Seq(Frames)
         /\ \A who : LastTells(q, who) => LastTells(Tail(q), who)
         /\ ~Tells(Tail(q)) =>
              \/ ~Tells(q) /\ Head(q).type # "HOST_CHANGED"
              \/ /\ Head(q).type = "HOST_CHANGED"
                 /\ \A who : LastTells(q, who) => Head(q).who = who
<1> DEFINE n == Len(q)
           r == Tail(q)
<1>1. /\ n \in Nat /\ n # 0 /\ r \in Seq(Frames) /\ DOMAIN q = 1..n /\ DOMAIN r = 1..n-1
      /\ Head(q) = q[1] /\ q[1] \in Frames /\ \A i \in 1..n-1 : r[i] = q[i + 1]
  OBVIOUS
<1> HIDE DEF n, r
<1>2. /\ 1 \in 1..n /\ \A i \in 1..n-1 : i + 1 \in 1..n
      /\ \A j \in 1..n : j = 1 \/ j - 1 \in 1..n-1
      /\ \A j \in 1..n : j - 1 + 1 = j
      /\ \A i \in 1..n-1, j \in 1..n : j > i + 1 => j - 1 \in 1..n-1 /\ j - 1 > i
  BY ONLY <1>1
<1>3. ASSUME NEW who, LastTells(q, who), NEW i \in 1..n-1, r[i].type = "HOST_CHANGED",
             \A j \in 1..n-1 : j > i => r[j].type # "HOST_CHANGED"
      PROVE  r[i].who = who
  <2>1. i + 1 \in 1..n /\ r[i] = q[i + 1]
    BY <1>1, <1>2
  <2>2. ASSUME NEW j \in 1..n, j > i + 1
        PROVE  q[j].type # "HOST_CHANGED"
    <3>1. j - 1 \in 1..n-1 /\ j - 1 > i /\ r[j - 1] = q[j - 1 + 1] /\ j - 1 + 1 = j
      BY <1>1, <1>2, <2>2
    <3> QED
      BY <1>3, <3>1
  <2>3. q[i + 1].who = who
    BY <1>1, <1>3, <2>1, <2>2 DEF LastTells
  <2> QED
    BY <2>1, <2>3
<1>4. \A who : LastTells(q, who) => LastTells(r, who)
  BY <1>1, <1>3 DEF LastTells
<1>5. ASSUME ~Tells(r), NEW j \in 1..n, j # 1
      PROVE  q[j].type # "HOST_CHANGED"
  <2>1. j - 1 \in 1..n-1 /\ r[j - 1] = q[j - 1 + 1] /\ j - 1 + 1 = j
    BY <1>1, <1>2, <1>5
  <2> QED
    BY <1>1, <1>5, <2>1 DEF Tells
<1>6. ASSUME ~Tells(r), q[1].type = "HOST_CHANGED", NEW who, LastTells(q, who)
      PROVE  q[1].who = who
  <2>1. \A j \in 1..n : j > 1 => j # 1
    OBVIOUS
  <2> QED
    BY <1>1, <1>2, <1>5, <1>6, <2>1 DEF LastTells
<1>7. ~Tells(r) /\ q[1].type # "HOST_CHANGED" => ~Tells(q)
  BY <1>1, <1>5 DEF Tells
<1> QED
  BY <1>1, <1>4, <1>6, <1>7 DEF r

LEMMA NothingUnderWay ==
  /\ <<>> \in Seq(Frames) /\ ~Tells(<<>>) /\ \A who : LastTells(<<>>, who)
BY DEF Tells, LastTells

-----------------------------------------------------------------------------
\* Steps of one page

LEMMA ClosedIsTidy ==
  ASSUME NEW p
  PROVE  Closed \in Refs /\ Tidy(Closed, p) /\ Closed.calls = {} /\ ~IsOpen(Closed)
<1>1. <<>> \in Seq({"host", "guest"}) /\ NoFloor \in Int \X Int
  BY DEF NoFloor
<1>2. Closed \in Refs
  BY <1>1, NoNobody DEF Closed, Refs, Modes
<1>3. Closed = [Closed EXCEPT !.mode = Closed.mode, !.hostId = Closed.hostId]
  BY DEF Closed
<1>4. Closed.mode = "closed" /\ Closed.calls = {} /\ Closed.timer = FALSE /\ Closed.hostDc = NoName
  BY DEF Closed
<1> QED
  BY <1>2, <1>3, <1>4 DEF Tidy, Wired, IsOpen

\* A page that is not open, with another mode and another host to follow.
LEMMA NotYetOpen ==
  ASSUME NEW g \in Refs, Wired(g), ~IsOpen(g), NEW p,
         NEW mode \in Modes \ {"guest", "host"}, NEW hostId \in Someone,
         NEW h, h = [g EXCEPT !.mode = mode, !.hostId = hostId]
  PROVE  /\ h \in Refs /\ Tidy(h, p) /\ h.calls = {} /\ ~h.online /\ ~g.online
         /\ g.known = {} /\ g.calls = {} /\ ~g.timer /\ g.handlers = <<>>
<1>1. g = [Closed EXCEPT !.mode = g.mode, !.hostId = g.hostId]
  BY DEF Wired
<1>2. /\ ~g.online /\ g.known = {} /\ g.calls = {} /\ ~g.timer /\ g.handlers = <<>>
      /\ g.hostDc = NoName
  BY <1>1 DEF Closed
<1>3. h = [Closed EXCEPT !.mode = mode, !.hostId = hostId]
  BY <1>1 DEF Closed
<1>4. h \in Refs /\ h.mode = mode /\ h.hostId = hostId
  BY DEF Refs
<1>5. h.calls = {} /\ ~h.online /\ ~h.timer /\ h.hostDc = NoName
  BY <1>2 DEF Refs
<1>6. Tidy(h, p)
  BY <1>3, <1>4, <1>5 DEF Tidy, Wired, IsOpen
<1> QED
  BY <1>2, <1>4, <1>5, <1>6

\* Refs that no invariant is about.
LEMMA StaysTidy ==
  ASSUME NEW g, NEW p, Tidy(g, p), IsOpen(g), NEW h \in Refs, SameSide(g, h),
         h.known = g.known, h.handlers = g.handlers, h.timer => g.timer,
         h.hostDc \in {NoName, h.hostId}
  PROVE  Tidy(h, p) /\ IsOpen(h)
<1>1. \A side : Has(h, side) <=> Has(g, side)
  BY DEF Has
<1> QED
  BY <1>1 DEF Tidy, Wired, IsOpen, SameSide

LEMMA OnePage ==
  ASSUME PageInv, NEW p \in Names, NEW h \in Refs, page' = [page EXCEPT ![p] = h],
         Tidy(h, p), h.calls = {}, h # Closed => Home \in live', Home \in live => Home \in live'
  PROVE  page' \in [Names -> Refs] /\ PagesTidy'
<1>1. page \in [Names -> Refs] /\ PagesTidy
  BY DEF PageInv
<1>2. page' \in [Names -> Refs] /\ page'[p] = h /\ \A q \in Names : q # p => page'[q] = page[q]
  BY <1>1
<1>3. ASSUME NEW q \in Names
      PROVE  Tidy(page'[q], q) /\ page'[q].calls = {} /\ (page'[q] # Closed => Home \in live')
  <2>1. CASE q = p
    BY <1>2, <2>1
  <2>2. CASE q # p
    <3>1. page'[q] = page[q]
      BY <1>2, <2>2
    <3> QED
      BY <1>1, <3>1 DEF PagesTidy
  <2> QED
    BY <2>1, <2>2
<1>4. PagesTidy' <=> \A q \in Names :
        Tidy(page'[q], q) /\ page'[q].calls = {} /\ (page'[q] # Closed => Home \in live')
  BY DEF PagesTidy
<1> QED
  BY <1>2, <1>3, <1>4

\* A page moves by itself: no frame comes or goes.
LEMMA PageMoves ==
  ASSUME PageInv, NEW p \in Names, NEW h \in Refs, page' = [page EXCEPT ![p] = h],
         Tidy(h, p), h.calls = {}, h # Closed => Home \in live', Home \in live => Home \in live',
         h.online = page[p].online, UNCHANGED <<inbox, announced>>,
         ClaimsTyped', HistoryTyped', \A q \in Names : q # p /\ q \in unreached => q \in unreached',
         announced # NoName /\ p \notin unreached' =>
           /\ IsOpen(h) /\ LastTells(inbox[p], announced)
           /\ ~Tells(inbox[p]) => Agrees(h, p)
  PROVE  PageInv'
<1>1. page' \in [Names -> Refs] /\ PagesTidy'
  BY OnePage
<1>2. page'[p] = h /\ \A q \in Names : q # p => page'[q] = page[q]
  BY DEF PageInv
<1>3. FramesTyped'
  <2>1. \A q \in Names : page'[q].online = page[q].online
    BY <1>2
  <2> QED
    BY <2>1 DEF PageInv, FramesTyped
<1>4. ASSUME announced' # NoName, NEW q \in Names \ unreached'
      PROVE  /\ IsOpen(page'[q]) /\ LastTells(inbox'[q], announced')
             /\ ~Tells(inbox'[q]) => page'[q].hostId = announced'
                                     /\ (page'[q].mode = "host" <=> q = announced')
  <2>1. CASE q = p
    BY <1>2, <1>4, <2>1 DEF Agrees
  <2>2. CASE q # p
    <3>1. Reached(q) /\ page'[q] = page[q]
      BY <1>2, <1>4, <2>2 DEF PageInv, AnnouncedReached
    <3> QED
      BY <3>1 DEF Reached, Agrees
  <2> QED
    BY <2>1, <2>2
<1>5. AnnouncedReached'
  BY <1>4 DEF AnnouncedReached, Reached, Agrees
<1> QED
  BY <1>1, <1>3, <1>5 DEF PageInv

LEMMA ClosedIsUnreached ==
  ASSUME PageInv, announced # NoName, NEW p \in Names, ~IsOpen(page[p])
  PROVE  p \in unreached
BY DEF PageInv, AnnouncedReached, Reached

LEMMA ClaimsKept ==
  ASSUME PageInv, NEW p \in Names, NEW h, page' = [page EXCEPT ![p] = h], UNCHANGED claims,
         page[p].mode # "claiming"
  PROVE  ClaimsTyped'
<1>1. \A q \in Names : q # p => page'[q] = page[q]
  BY DEF PageInv
<1>2. ASSUME NEW claim \in claims, claim.cold
      PROVE  page'[claim.by] = page[claim.by]
  <2>1. claim.by \in Names /\ page[claim.by].mode = "claiming"
    BY <1>2 DEF PageInv, ClaimsTyped, Claims
  <2> QED
    BY <1>1, <2>1
<1> QED
  BY <1>2 DEF PageInv, ClaimsTyped

LEMMA NotOpen ==
  ASSUME NEW g, Wired(g), ~IsOpen(g)
  PROVE  g.online = FALSE /\ g.timer = FALSE /\ g.handlers = <<>>
<1>1. g = [Closed EXCEPT !.mode = g.mode, !.hostId = g.hostId]
  BY DEF Wired
<1> QED
  BY <1>1 DEF Closed

LEMMA PageFacts ==
  ASSUME PageInv, NEW p \in Names
  PROVE  /\ page[p] \in Refs /\ Tidy(page[p], p) /\ Wired(page[p]) /\ page[p].calls = {}
         /\ page[p] # Closed => Home \in live
         /\ IsOpen(page[p]) <=> page[p].mode \in {"guest", "host"}
         /\ page[p].online => IsOpen(page[p])
<1>1. /\ page[p] \in Refs /\ Tidy(page[p], p) /\ Wired(page[p]) /\ page[p].calls = {}
      /\ page[p] # Closed => Home \in live
  BY DEF PageInv, PagesTidy, Tidy
<1>2. IsOpen(page[p]) <=> page[p].mode \in {"guest", "host"}
  BY DEF IsOpen
<1>3. page[p].online => IsOpen(page[p])
  BY <1>1, NotOpen
<1> QED
  BY <1>1, <1>2, <1>3

-----------------------------------------------------------------------------
\* Opening a page

LEMMA CreateInv ==
  ASSUME Inv, PageInv, Create
  PROVE  PageInv'
<1> DEFINE h == WireHost(Closed, Founder)
<1>1. Founder \in Names
  BY FailoverAssumption
<1>2. Home \notin live /\ Home \in live'
  BY HomeExists, LiveIsBorn DEF Create, CreateRoom
<1>3. page[Founder] = Closed
  BY <1>1, <1>2, PageFacts
<1>4. page' = [page EXCEPT ![Founder] = h]
  BY <1>3 DEF Create
<1>5. /\ h \in Refs /\ h.mode = "host" /\ h.hostId = Founder /\ h.hostDc = NoName
      /\ ~h.timer /\ ~h.online /\ h.calls = {} /\ Has(h, "host")
  <2>1. /\ h \in Refs /\ h.mode = "host" /\ h.hostId = Founder /\ h.hostDc = NoName
        /\ h.timer = Closed.timer /\ h.online = Closed.online
        /\ h.calls = Closed.known \ {Founder} /\ Has(h, "host")
    BY <1>1, ClosedIsTidy, WiredAsHost
  <2> HIDE DEF h
  <2> QED
    BY <2>1 DEF Closed
<1> HIDE DEF h
<1>6. Tidy(h, Founder)
  BY <1>5 DEF Tidy, Wired, IsOpen
<1>7. announced # NoName => Founder \in unreached
  BY <1>1, <1>3, ClosedIsTidy, ClosedIsUnreached
<1>8. page[Founder].mode # "claiming" /\ h.online = page[Founder].online
  <2>1. Closed.mode = "closed" /\ Closed.online = FALSE
    BY DEF Closed
  <2>2. h.online \in BOOLEAN
    BY <1>5 DEF Refs
  <2> QED
    BY <1>3, <1>5, <2>1, <2>2
<1>9. ClaimsTyped'
  BY <1>1, <1>4, <1>8, ClaimsKept DEF Create
<1>10. HistoryTyped'
  BY DEF Create, PageInv, HistoryTyped
<1> QED
  BY <1>1, <1>2, <1>4, <1>5, <1>6, <1>7, <1>8, <1>9, <1>10, PageMoves DEF Create

LEMMA LookupInv ==
  ASSUME Inv, PageInv, NEW p \in Names, Lookup(p)
  PROVE  PageInv'
<1> DEFINE h == [Closed EXCEPT !.mode = "looked", !.hostId = room[Home].host]
<1>1. page[p] = Closed /\ page' = [page EXCEPT ![p] = h]
  BY DEF Lookup
<1>2. room[Home].host \in Someone
  BY HomeExists DEF Inv, TypeOK, Room, Someone
<1>3. Wired(Closed) /\ Closed \in Refs /\ ~IsOpen(Closed)
  BY ClosedIsTidy DEF Tidy
<1>4. h \in Refs /\ Tidy(h, p) /\ h.calls = {} /\ ~h.online /\ ~Closed.online
  <2>1. "looked" \in Modes \ {"guest", "host"}
    BY DEF Modes
  <2> QED
    BY <1>2, <1>3, <2>1, NotYetOpen
<1> HIDE DEF h
<1>5. announced # NoName => p \in unreached
  BY <1>1, <1>3, ClosedIsUnreached
<1>6. page[p].mode # "claiming" /\ h.online = page[p].online
  <2>1. Closed.mode = "closed" /\ Closed.online = FALSE
    BY DEF Closed
  <2>2. h.online \in BOOLEAN
    BY <1>4 DEF Refs
  <2> QED
    BY <1>1, <1>4, <2>1, <2>2
<1>7. ClaimsTyped'
  BY <1>1, <1>6, ClaimsKept DEF Lookup
<1>8. HistoryTyped' /\ Home \in live'
  BY DEF Lookup, PageInv, HistoryTyped, vars
<1> QED
  BY <1>1, <1>4, <1>5, <1>6, <1>7, <1>8, PageMoves DEF Lookup

\* A page that is not open becomes a guest.
LEMMA NewGuest ==
  ASSUME NEW g \in Refs, Wired(g), ~IsOpen(g), NEW p, NEW host \in Someone
  PROVE  LET h == WireGuest(g, host)
         IN  /\ h \in Refs /\ Tidy(h, p) /\ IsOpen(h) /\ h.calls = {} /\ h.online = g.online
             /\ h.mode = "guest" /\ h.hostId = host
<1> DEFINE h == WireGuest(g, host)
<1>1. /\ h \in Refs /\ h.mode = "guest" /\ h.hostId = host /\ h.hostDc = NoName
      /\ h.timer = g.timer /\ h.online = g.online /\ h.calls = g.calls /\ Has(h, "guest")
  BY WiredAsGuest
<1>2. ~g.timer /\ g.calls = {}
  <2>1. g = [Closed EXCEPT !.mode = g.mode, !.hostId = g.hostId]
    BY DEF Wired
  <2> QED
    BY <2>1 DEF Closed
<1> HIDE DEF h
<1>3. Tidy(h, p) /\ IsOpen(h)
  BY <1>1, <1>2 DEF Tidy, Wired, IsOpen
<1> QED
  BY <1>1, <1>2, <1>3 DEF h

LEMMA JoinInv ==
  ASSUME Inv, PageInv, NEW p \in Names, Join(p)
  PROVE  PageInv'
<1> DEFINE g == page[p]
<1>1. g \in Refs /\ Wired(g) /\ ~IsOpen(g) /\ g.mode = "looked" /\ g # Closed
      /\ Home \in live /\ g.hostId \in Someone
  <2>1. g.mode = "looked" /\ g # Closed
    BY DEF Join, Closed
  <2> QED
    BY <2>1, PageFacts DEF Refs
<1>2. PICK h : /\ page' = [page EXCEPT ![p] = h]
               /\ \/ h = [g EXCEPT !.mode = "cold"]
                  \/ h = WireGuest(g, g.hostId)
  BY DEF Join
<1>3. h \in Refs /\ Tidy(h, p) /\ h.calls = {} /\ h.online = g.online
  <2>1. CASE h = WireGuest(g, g.hostId)
    BY <1>1, <2>1, NewGuest
  <2>2. CASE h = [g EXCEPT !.mode = "cold"]
    <3>1. h = [g EXCEPT !.mode = "cold", !.hostId = g.hostId]
      BY <1>1, <2>2 DEF Refs
    <3>2. "cold" \in Modes \ {"guest", "host"}
      BY DEF Modes
    <3>3. h \in Refs /\ Tidy(h, p) /\ h.calls = {} /\ ~h.online /\ ~g.online
      BY <1>1, <3>1, <3>2, NotYetOpen
    <3> QED
      BY <1>1, <3>3 DEF Refs
  <2> QED
    BY <1>2, <2>1, <2>2
<1>4. announced # NoName => p \in unreached
  BY <1>1, ClosedIsUnreached
<1>5. ClaimsTyped'
  BY <1>1, <1>2, ClaimsKept DEF Join
<1>6. HistoryTyped'
  BY DEF Join, PageInv, HistoryTyped
<1>7. live' = live
  BY DEF Join, RegisterPlayer, vars
<1> HIDE DEF g
<1> QED
  BY <1>1, <1>2, <1>3, <1>4, <1>5, <1>6, <1>7, PageMoves DEF Join, g

\* Another mode, for a page that is not open.
LEMMA NewMode ==
  ASSUME PageInv, NEW p \in Names, ~IsOpen(page[p]), NEW mode \in Modes \ {"guest", "host"}
  PROVE  LET h == [page[p] EXCEPT !.mode = mode]
         IN  h \in Refs /\ Tidy(h, p) /\ h.calls = {} /\ h.online = page[p].online
<1> DEFINE g == page[p]
           h == [g EXCEPT !.mode = mode]
<1>1. g \in Refs /\ Wired(g) /\ g.hostId \in Someone
  BY PageFacts DEF Refs
<1>2. h = [g EXCEPT !.mode = mode, !.hostId = g.hostId]
  BY <1>1 DEF Refs
<1>3. h.online = g.online
  BY <1>1 DEF Refs
<1> HIDE DEF h
<1>4. h \in Refs /\ Tidy(h, p) /\ h.calls = {}
  BY <1>1, <1>2, NotYetOpen
<1> QED
  BY <1>3, <1>4 DEF h

LEMMA ColdBootInv ==
  ASSUME Inv, PageInv, NEW p \in Names, ColdBoot(p)
  PROVE  PageInv'
<1> DEFINE h == [page[p] EXCEPT !.mode = "claiming"]
           claim == [by |-> p, tuple |-> <<0, 0>>, cold |-> TRUE]
<1>1. /\ page[p].mode = "cold" /\ ~IsOpen(page[p]) /\ page[p] \in Refs /\ page[p] # Closed
      /\ Home \in live
  <2>1. page[p].mode = "cold" /\ page[p] # Closed
    BY DEF ColdBoot, Closed
  <2> QED
    BY <2>1, PageFacts
<1>2. /\ page' = [page EXCEPT ![p] = h] /\ claims' = claims \cup {claim} /\ live' = live
      /\ UNCHANGED <<inbox, notices, announced, unreached, gone>>
  BY DEF ColdBoot, vars
<1>3. h \in Refs /\ Tidy(h, p) /\ h.calls = {} /\ h.online = page[p].online
  <2>1. "claiming" \in Modes \ {"guest", "host"}
    BY DEF Modes
  <2> QED
    BY <1>1, <2>1, NewMode
<1>4. h.mode = "claiming"
  BY <1>1 DEF Refs
<1> HIDE DEF h
<1>5. announced # NoName => p \in unreached
  BY <1>1, ClosedIsUnreached
<1>6. claim \in Claims /\ claim.by = p /\ claim.tuple = <<0, 0>>
  BY DEF Claims
<1> HIDE DEF claim
<1>7. page'[p] = h /\ \A q \in Names : q # p => page'[q] = page[q]
  BY <1>2 DEF PageInv
<1>8. ASSUME NEW c \in claims, c.cold
      PROVE  page'[c.by].mode = "claiming" /\ c.tuple = <<0, 0>>
  <2>1. c.by \in Names /\ page[c.by].mode = "claiming" /\ c.tuple = <<0, 0>>
    BY <1>8 DEF PageInv, ClaimsTyped, Claims
  <2> QED
    BY <1>1, <1>7, <2>1
<1>9. ClaimsTyped'
  BY <1>2, <1>4, <1>6, <1>7, <1>8 DEF PageInv, ClaimsTyped
<1>10. HistoryTyped'
  BY <1>2 DEF PageInv, HistoryTyped
<1> QED
  BY <1>1, <1>2, <1>3, <1>5, <1>9, <1>10, PageMoves

LEMMA BootedInv ==
  ASSUME Inv, PageInv, NEW p \in Names, Booted(p)
  PROVE  PageInv'
<1> DEFINE g == page[p]
<1>1. /\ g \in Refs /\ Wired(g) /\ ~IsOpen(g) /\ g.mode \in {"endorsed", "refused"} /\ g # Closed
      /\ Home \in live
  <2>1. g.mode \in {"endorsed", "refused"} /\ g # Closed
    BY DEF Booted, Closed
  <2> QED
    BY <2>1, PageFacts
<1>2. /\ UNCHANGED <<inbox, notices, claims, announced, gone>> /\ live' = live
      /\ unreached' \subseteq unreached
      /\ \A q \in Names : q # p /\ q \in unreached => q \in unreached'
  BY DEF Booted, vars
<1>3. PICK h : /\ page' = [page EXCEPT ![p] = h]
               /\ \/ h = WireHost(g, p)
                  \/ h = WireGuest(g, NoName) /\ unreached' = unreached
  BY DEF Booted
<1>4. announced # NoName => p \in unreached
  BY <1>1, ClosedIsUnreached
<1>5. inbox[p] = <<>>
  <2>1. g.online = FALSE
    BY <1>1, NotOpen
  <2> QED
    BY <2>1 DEF PageInv, FramesTyped
<1>6. /\ h \in Refs /\ Tidy(h, p) /\ h.calls = {} /\ h.online = g.online /\ IsOpen(h)
      /\ h = WireHost(g, p) => h.mode = "host" /\ h.hostId = p
  <2>1. CASE h = WireGuest(g, NoName)
    <3>1. h \in Refs /\ Tidy(h, p) /\ IsOpen(h) /\ h.calls = {} /\ h.online = g.online
          /\ h.mode = "guest"
      BY <1>1, <2>1, NewGuest, NoNobody
    <3>2. h # WireHost(g, p)
      <4>1. WireHost(g, p).mode = "host"
        BY <1>1, WiredAsHost
      <4> QED
        BY <3>1, <4>1
    <3> QED
      BY <3>1, <3>2
  <2>2. CASE h = WireHost(g, p)
    <3>1. /\ h \in Refs /\ h.mode = "host" /\ h.hostId = p /\ h.hostDc = NoName
          /\ h.timer = g.timer /\ h.online = g.online
          /\ h.calls = g.known \ {p} /\ Has(h, "host")
      BY <1>1, <2>2, WiredAsHost
    <3>2. g.known = {} /\ ~g.timer
      <4>1. g = [Closed EXCEPT !.mode = g.mode, !.hostId = g.hostId]
        BY <1>1 DEF Wired
      <4> QED
        BY <4>1 DEF Closed
    <3>3. h.calls = {} /\ ~h.timer
      BY <3>1, <3>2
    <3> HIDE DEF g
    <3>4. Tidy(h, p) /\ IsOpen(h)
      BY <3>1, <3>3 DEF Tidy, Wired, IsOpen
    <3> QED
      BY <3>1, <3>3, <3>4
  <2> QED
    BY <1>3, <2>1, <2>2
<1>7. p \notin unreached' /\ announced # NoName => announced = p /\ h = WireHost(g, p)
  <2>1. ASSUME p \notin unreached', announced # NoName
        PROVE  g.mode = "endorsed" /\ announced = p
    BY <1>4, <2>1 DEF Booted
  <2>2. ASSUME g.mode = "endorsed"
        PROVE  h = WireHost(g, p)
    <3>1. page' = [page EXCEPT ![p] = WireHost(g, p)]
      BY <2>2 DEF Booted
    <3>2. page'[p] = WireHost(g, p) /\ page'[p] = h
      BY <1>3, <3>1 DEF PageInv
    <3> QED
      BY <3>2
  <2> QED
    BY <2>1, <2>2
<1>8. g.mode # "claiming"
  BY <1>1
<1>9. ClaimsTyped'
  BY <1>2, <1>3, <1>8, ClaimsKept
<1>10. HistoryTyped'
  BY <1>2 DEF PageInv, HistoryTyped
<1>11. ASSUME announced # NoName, p \notin unreached'
       PROVE  LastTells(inbox[p], announced) /\ Agrees(h, p)
  BY <1>5, <1>6, <1>7, <1>11, NothingUnderWay DEF Agrees
<1> QED
  BY <1>1, <1>2, <1>3, <1>6, <1>9, <1>10, <1>11, PageMoves

-----------------------------------------------------------------------------
\* A page that is open changes what the invariant is not about

LEMMA OpenPageMoves ==
  ASSUME PageInv, NEW p \in Names, IsOpen(page[p]), NEW h \in Refs,
         page' = [page EXCEPT ![p] = h],
         SameSide(page[p], h), h.known = page[p].known, h.handlers = page[p].handlers,
         h.timer => page[p].timer, h.hostDc \in {NoName, h.hostId}, h.calls = {},
         h.online = page[p].online,
         ClaimsTyped', UNCHANGED <<live, inbox, notices, announced, unreached, gone>>
  PROVE  PageInv'
<1>1. Tidy(h, p) /\ IsOpen(h)
  BY PageFacts, StaysTidy
<1>2. Home \in live
  <2>1. page[p] # Closed
    BY ClosedIsTidy
  <2> QED
    BY <2>1, PageFacts
<1>3. HistoryTyped'
  BY DEF PageInv, HistoryTyped
<1>4. ASSUME announced # NoName, p \notin unreached'
      PROVE  LastTells(inbox[p], announced) /\ (~Tells(inbox[p]) => Agrees(h, p))
  <2>1. Reached(p)
    BY <1>4 DEF PageInv, AnnouncedReached
  <2> QED
    BY <2>1 DEF Reached, Agrees, SameSide
<1> QED
  BY <1>1, <1>2, <1>3, <1>4, PageMoves

LEMMA ConnectionFailsInv ==
  ASSUME Inv, PageInv, NEW p \in Names, NEW q \in Names, ConnectionFails(p, q)
  PROVE  PageInv'
<1> DEFINE g == page[p]
           peers == g.peers \ {q}
           h == [g EXCEPT !.peers = peers]
<1>1. /\ page' = [page EXCEPT ![p] = h] /\ q \in g.peers
      /\ UNCHANGED <<live, inbox, notices, claims, announced, unreached, gone>>
  BY DEF ConnectionFails, vars
<1>2. g \in Refs /\ g.hostDc \in {NoName, g.hostId} /\ g.calls = {} /\ g.peers \in SUBSET Names
  BY PageFacts DEF Wired, Refs
<1>3. g.mode # "claiming" /\ IsOpen(g)
  <2>1. ASSUME ~IsOpen(g)
        PROVE  g.peers = {}
    <3>1. g = [Closed EXCEPT !.mode = g.mode, !.hostId = g.hostId]
      BY <2>1, PageFacts DEF Wired
    <3> QED
      BY <3>1 DEF Closed
  <2>2. IsOpen(g)
    BY <1>1, <2>1
  <2> QED
    BY <2>2 DEF IsOpen
<1>4. ClaimsTyped'
  BY <1>1, <1>3, ClaimsKept
<1>5. peers \in SUBSET Names
  BY <1>2
<1> HIDE DEF peers
<1>6. /\ h \in Refs /\ SameSide(g, h) /\ h.known = g.known /\ h.handlers = g.handlers
      /\ h.timer = g.timer /\ h.hostDc = g.hostDc /\ h.hostId = g.hostId
      /\ h.calls = g.calls /\ h.online = g.online
  BY <1>2, <1>5 DEF Refs, SameSide
<1> HIDE DEF h
<1> QED
  BY <1>1, <1>2, <1>3, <1>4, <1>6, OpenPageMoves

LEMMA OpenInv ==
  ASSUME Inv, PageInv, NEW p \in Names, NEW host \in Names, Open(p, host)
  PROVE  PageInv'
<1> DEFINE g == page[p]
           dialed == g.dialed \ {host}
           dc == IF host = g.hostId THEN host ELSE g.hostDc
           h == [g EXCEPT !.dialed = dialed, !.hostDc = dc]
<1>1. /\ page' = [page EXCEPT ![p] = h] /\ host \in g.dialed
      /\ UNCHANGED <<live, inbox, notices, claims, announced, unreached, gone>>
  BY DEF Open, vars
<1>2. g \in Refs /\ g.hostDc \in {NoName, g.hostId} /\ g.calls = {} /\ g.dialed \in SUBSET Names
      /\ g.hostDc \in Someone
  BY PageFacts DEF Wired, Refs
<1>3. g.mode # "claiming" /\ IsOpen(g)
  <2>1. ASSUME ~IsOpen(g)
        PROVE  g.dialed = {}
    <3>1. g = [Closed EXCEPT !.mode = g.mode, !.hostId = g.hostId]
      BY <2>1, PageFacts DEF Wired
    <3> QED
      BY <3>1 DEF Closed
  <2>2. IsOpen(g)
    BY <1>1, <2>1
  <2> QED
    BY <2>2 DEF IsOpen
<1>4. ClaimsTyped'
  BY <1>1, <1>3, ClaimsKept
<1>5. dialed \in SUBSET Names /\ dc \in Someone /\ dc \in {NoName, g.hostId}
  BY <1>2, NoNobody
<1> HIDE DEF dialed, dc
<1>6. /\ h \in Refs /\ SameSide(g, h) /\ h.known = g.known /\ h.handlers = g.handlers
      /\ h.timer = g.timer /\ h.hostDc = dc /\ h.hostId = g.hostId
      /\ h.calls = g.calls /\ h.online = g.online
  BY <1>2, <1>5 DEF Refs, SameSide
<1> HIDE DEF h
<1> QED
  BY <1>1, <1>2, <1>3, <1>4, <1>5, <1>6, OpenPageMoves

LEMMA FollowInv ==
  ASSUME Inv, PageInv, NEW p \in Names, Follow(p)
  PROVE  PageInv'
<1> DEFINE g == page[p]
<1>1. PICK floor \in Floors : page' = [page EXCEPT ![p].floor = floor]
  BY DEF Follow
<1> DEFINE h == [g EXCEPT !.floor = floor]
<1>2. /\ page' = [page EXCEPT ![p] = h] /\ g.mode \in {"guest", "host"}
      /\ UNCHANGED <<live, inbox, notices, claims, announced, unreached, gone>>
  BY <1>1 DEF Follow, vars
<1>3. g \in Refs /\ g.hostDc \in {NoName, g.hostId} /\ g.calls = {} /\ IsOpen(g)
  BY <1>2, PageFacts DEF Wired
<1>4. ClaimsTyped'
  BY <1>2, ClaimsKept
<1>5. floor \in Int \X Int
  BY FailoverAssumption
<1>6. /\ h \in Refs /\ SameSide(g, h) /\ h.known = g.known /\ h.handlers = g.handlers
      /\ h.timer = g.timer /\ h.hostDc = g.hostDc /\ h.hostId = g.hostId
      /\ h.calls = g.calls /\ h.online = g.online
  BY <1>3, <1>5 DEF Refs, SameSide
<1> HIDE DEF h
<1> QED
  BY <1>2, <1>3, <1>4, <1>6, OpenPageMoves

LEMMA RunHostFailoverInv ==
  ASSUME Inv, PageInv, NEW p \in Names, RunHostFailover(p)
  PROVE  PageInv'
<1> DEFINE g == page[p]
           h == [g EXCEPT !.timer = FALSE]
           claim == [by |-> p, tuple |-> g.floor, cold |-> FALSE]
<1>1. /\ page' = [page EXCEPT ![p] = h] /\ g.timer
      /\ claims' \subseteq claims \cup {claim}
      /\ UNCHANGED <<live, inbox, notices, announced, unreached, gone>>
  BY DEF RunHostFailover, vars
<1>2. g \in Refs /\ g.hostDc \in {NoName, g.hostId} /\ g.calls = {} /\ g.floor \in Int \X Int
  BY PageFacts DEF Wired, Refs
<1>3. g.mode # "claiming" /\ IsOpen(g)
  <2>1. IsOpen(g)
    BY <1>1, PageFacts, NotOpen
  <2> QED
    BY <2>1 DEF IsOpen
<1>4. claim \in Claims /\ ~claim.cold
  BY <1>2 DEF Claims
<1> HIDE DEF claim
<1>5. ClaimsTyped'
  <2>1. \A q \in Names : q # p => page'[q] = page[q]
    BY <1>1 DEF PageInv
  <2>2. ASSUME NEW c \in claims', c.cold
        PROVE  page'[c.by].mode = "claiming" /\ c.tuple = <<0, 0>>
    <3>1. c \in claims
      BY <1>1, <1>4, <2>2
    <3>2. c.by \in Names /\ page[c.by].mode = "claiming" /\ c.tuple = <<0, 0>>
      BY <2>2, <3>1 DEF PageInv, ClaimsTyped, Claims
    <3> QED
      BY <1>3, <2>1, <3>2
  <2>3. claims' \subseteq Claims
    BY <1>1, <1>4 DEF PageInv, ClaimsTyped
  <2> QED
    BY <2>2, <2>3 DEF ClaimsTyped
<1>6. /\ h \in Refs /\ SameSide(g, h) /\ h.known = g.known /\ h.handlers = g.handlers
      /\ ~h.timer /\ h.hostDc = g.hostDc /\ h.hostId = g.hostId
      /\ h.calls = g.calls /\ h.online = g.online
  BY <1>2 DEF Refs, SameSide
<1> HIDE DEF h
<1> QED
  BY <1>1, <1>2, <1>3, <1>5, <1>6, OpenPageMoves

-----------------------------------------------------------------------------
\* The registry's answers

LEMMA ServeClaimInv ==
  ASSUME Inv, PageInv, NEW claim \in claims, ServeClaim(claim)
  PROVE  PageInv'
<1> DEFINE p == claim.by
           g == page[p]
<1>1. /\ p \in Names /\ claim \in Claims
      /\ claim.cold => g.mode = "claiming" /\ claim.tuple = <<0, 0>>
  BY DEF PageInv, ClaimsTyped, Claims
<1>2. /\ claims' = claims \ {claim} /\ live' = live
      /\ notices' \subseteq notices \cup {p}
      /\ UNCHANGED <<inbox, announced, unreached, gone>>
  BY DEF ServeClaim, ClaimHost, vars
<1>3. HistoryTyped'
  BY <1>1, <1>2 DEF PageInv, HistoryTyped
<1>4. CASE claim.cold
  <2>1. PICK mode \in {"endorsed", "refused"} : page' = [page EXCEPT ![p].mode = mode]
    BY <1>4 DEF ServeClaim
  <2> DEFINE h == [g EXCEPT !.mode = mode]
  <2>2. ~IsOpen(g) /\ g # Closed /\ Home \in live
    <3>1. g.mode = "claiming" /\ Closed.mode = "closed"
      BY <1>1, <1>4 DEF Closed
    <3>2. g # Closed
      BY <3>1
    <3> QED
      BY <1>1, <3>1, <3>2, PageFacts DEF IsOpen
  <2>3. h \in Refs /\ Tidy(h, p) /\ h.calls = {} /\ h.online = g.online
    <3>1. mode \in Modes \ {"guest", "host"}
      BY DEF Modes
    <3> QED
      BY <1>1, <2>2, <3>1, NewMode
  <2>4. announced # NoName => p \in unreached
    BY <1>1, <2>2, ClosedIsUnreached
  <2>5. page' = [page EXCEPT ![p] = h]
    BY <2>1
  <2> HIDE DEF h
  <2>6. ASSUME NEW c \in claims', c.cold
        PROVE  page'[c.by].mode = "claiming" /\ c.tuple = <<0, 0>>
    <3>1. /\ c \in claims /\ c # claim /\ c \in Claims /\ c.by \in Names
          /\ page[c.by].mode = "claiming" /\ c.tuple = <<0, 0>>
      BY <1>2, <2>6 DEF PageInv, ClaimsTyped, Claims
    <3>2. c.by # p
      <4>1. c.cold = TRUE /\ claim.cold = TRUE
        BY <1>1, <1>4, <2>6, <3>1 DEF Claims
      <4>2. ASSUME c.by = p
            PROVE  c = claim
        BY <1>1, <1>4, <3>1, <4>1, <4>2 DEF Claims
      <4> QED
        BY <3>1, <4>2
    <3>3. page'[c.by] = page[c.by]
      BY <2>5, <3>1, <3>2 DEF PageInv
    <3> QED
      BY <3>1, <3>3
  <2>7. ClaimsTyped'
    BY <1>2, <2>6 DEF PageInv, ClaimsTyped
  <2> HIDE DEF p
  <2> QED
    BY <1>1, <1>2, <1>3, <2>2, <2>3, <2>4, <2>5, <2>7, PageMoves
<1>5. CASE ~claim.cold
  <2>1. page' = page
    BY <1>5 DEF ServeClaim
  <2> QED
    BY <1>2, <1>3, <2>1 DEF PageInv, PagesTidy, FramesTyped, ClaimsTyped, AnnouncedReached,
       Reached, Agrees
<1> QED
  BY <1>4, <1>5

LEMMA QuietPages ==
  ASSUME PageInv, UNCHANGED <<live, page, inbox, notices, claims, announced, unreached, gone>>
  PROVE  PageInv'
BY DEF PageInv, PagesTidy, FramesTyped, ClaimsTyped, HistoryTyped, AnnouncedReached,
   Reached, Agrees

-----------------------------------------------------------------------------
\* Frames come and go

\* A page with these refs, and these frames on their way to it, has heard or will hear
\* that this player hosts.
Follows(g, p, q, who) ==
  /\ IsOpen(g) /\ LastTells(q, who)
  /\ ~Tells(q) => g.hostId = who /\ (g.mode = "host" <=> p = who)

LEMMA ReachedIsFollows ==
  /\ AnnouncedReached <=>
       (announced # NoName =>
          \A p \in Names \ unreached : Follows(page[p], p, inbox[p], announced))
  /\ AnnouncedReached' <=>
       (announced' # NoName =>
          \A p \in Names \ unreached' : Follows(page'[p], p, inbox'[p], announced'))
BY DEF AnnouncedReached, Reached, Agrees, Follows

LEMMA StillFollows ==
  ASSUME NEW g, NEW p, NEW q \in Seq(Frames), NEW who, Follows(g, p, q, who),
         NEW frame \in Frames, frame.type # "HOST_CHANGED"
  PROVE  Follows(g, p, Append(q, frame), who)
<1> DEFINE r == Append(q, frame)
<1>1. (Tells(r) <=> Tells(q)) /\ \A w : LastTells(q, w) => LastTells(r, w)
  BY AppendedFrame
<1> HIDE DEF r
<1>2. IsOpen(g) /\ LastTells(r, who)
  BY <1>1 DEF Follows
<1>3. CASE Tells(r)
  BY <1>2, <1>3 DEF Follows, r
<1>4. CASE ~Tells(r)
  <2>1. g.hostId = who /\ (g.mode = "host" <=> p = who)
    BY <1>1, <1>4 DEF Follows
  <2> QED
    BY <1>2, <2>1 DEF Follows, r
<1> QED
  BY <1>3, <1>4

LEMMA BroadcastFacts ==
  ASSUME PageInv, NEW frame \in Frames, NEW online \in SUBSET Names, Broadcast(frame, online)
  PROVE  /\ inbox' \in [Names -> Seq(Frames)]
         /\ \A q \in online : inbox'[q] = Append(inbox[q], frame)
         /\ \A q \in Names \ online : inbox'[q] = <<>>
<1>1. inbox \in [Names -> Seq(Frames)]
  BY DEF PageInv, FramesTyped
<1>2. \A q \in Names : Append(inbox[q], frame) \in Seq(Frames)
  BY <1>1, AppendedFrame
<1> QED
  BY <1>2, NothingUnderWay DEF Broadcast

\* To an online page another frame, to the others none: neither loses an announcement.
LEMMA OthersStillFollow ==
  ASSUME PageInv, NEW frame \in Frames, frame.type # "HOST_CHANGED", Broadcast(frame, Online),
         announced # NoName, NEW q \in Names \ unreached
  PROVE  Follows(page[q], q, inbox'[q], announced)
<1>1. Follows(page[q], q, inbox[q], announced) /\ inbox[q] \in Seq(Frames)
  BY ReachedIsFollows DEF PageInv, FramesTyped
<1>2. CASE q \in Online
  <2>1. inbox'[q] = Append(inbox[q], frame)
    BY <1>2, BroadcastFacts DEF Online
  <2> QED
    BY <1>1, <2>1, StillFollows
<1>3. CASE q \notin Online
  <2>1. inbox'[q] = <<>>
    BY <1>3, BroadcastFacts DEF Online
  <2>2. inbox[q] = <<>>
    BY <1>3 DEF Online, PageInv, FramesTyped
  <2> QED
    BY <1>1, <2>1, <2>2
<1> QED
  BY <1>2, <1>3

LEMMA ConnectInv ==
  ASSUME Inv, PageInv, NEW p \in Names, Connect(p)
  PROVE  PageInv'
<1> DEFINE g == page[p]
           h == [g EXCEPT !.online = TRUE]
           frame == Frame("PEER_JOINED", p)
<1>1. /\ page' = [page EXCEPT ![p] = h] /\ g.mode \in {"host", "guest"} /\ ~g.online
      /\ Broadcast(frame, Online)
      /\ UNCHANGED <<live, notices, claims, announced, unreached, gone>>
  BY DEF Connect, vars
<1>2. /\ g \in Refs /\ Tidy(g, p) /\ g.hostDc \in {NoName, g.hostId} /\ g.calls = {} /\ IsOpen(g)
      /\ g # Closed /\ Home \in live
  <2>1. IsOpen(g) /\ g # Closed
    BY <1>1, ClosedIsTidy DEF IsOpen
  <2> QED
    BY <2>1, PageFacts DEF Wired
<1>3. frame \in Frames /\ frame.type # "HOST_CHANGED"
  BY DEF Frame, Frames
<1> HIDE DEF frame
<1>4. /\ h \in Refs /\ SameSide(g, h) /\ h.known = g.known /\ h.handlers = g.handlers
      /\ h.timer = g.timer /\ h.hostDc = g.hostDc /\ h.hostId = g.hostId
      /\ h.calls = g.calls /\ h.online
  BY <1>2 DEF Refs, SameSide
<1> HIDE DEF h
<1>5. Tidy(h, p) /\ IsOpen(h)
  BY <1>2, <1>4, StaysTidy
<1>6. page' \in [Names -> Refs] /\ PagesTidy'
  BY <1>1, <1>2, <1>4, <1>5, OnePage
<1>7. page'[p] = h /\ \A q \in Names : q # p => page'[q] = page[q]
  BY <1>1 DEF PageInv
<1>8. FramesTyped'
  <2>1. Online \in SUBSET Names /\ \A q \in Names : ~page'[q].online => q \in Names \ Online
    BY <1>4, <1>7 DEF Online
  <2> QED
    BY <1>1, <1>3, <2>1, BroadcastFacts DEF FramesTyped
<1>9. ClaimsTyped'
  BY <1>1, ClaimsKept
<1>10. HistoryTyped'
  BY <1>1 DEF PageInv, HistoryTyped
<1>11. ASSUME announced' # NoName, NEW q \in Names \ unreached'
       PROVE  Follows(page'[q], q, inbox'[q], announced')
  <2>1. Follows(page[q], q, inbox'[q], announced)
    BY <1>1, <1>3, <1>11, OthersStillFollow
  <2>2. CASE q = p
    BY <1>1, <1>4, <1>5, <1>7, <2>1, <2>2 DEF Follows, SameSide
  <2>3. CASE q # p
    BY <1>1, <1>7, <2>1, <2>3
  <2> QED
    BY <2>2, <2>3
<1> QED
  BY <1>6, <1>8, <1>9, <1>10, <1>11, ReachedIsFollows DEF PageInv

LEMMA SocketDropInv ==
  ASSUME Inv, PageInv, NEW p \in Names, Drop(p)
  PROVE  PageInv'
<1> DEFINE g == page[p]
           h == [g EXCEPT !.online = FALSE]
<1>1. /\ page' = [page EXCEPT ![p] = h] /\ g.online
      /\ inbox' = [inbox EXCEPT ![p] = <<>>]
      /\ unreached' = IF Tells(inbox[p]) THEN unreached \cup {p} ELSE unreached
      /\ UNCHANGED <<live, notices, claims, announced, gone>>
  BY DEF Drop, vars, Tells
<1>2. /\ g \in Refs /\ Tidy(g, p) /\ g.hostDc \in {NoName, g.hostId} /\ g.calls = {} /\ IsOpen(g)
      /\ g # Closed /\ Home \in live /\ g.mode # "claiming"
  <2>1. IsOpen(g)
    BY <1>1, PageFacts
  <2>2. g # Closed
    BY <2>1, ClosedIsTidy
  <2>3. g.mode # "claiming"
    BY <2>1 DEF IsOpen
  <2> QED
    BY <2>1, <2>2, <2>3, PageFacts DEF Wired
<1>3. /\ h \in Refs /\ SameSide(g, h) /\ h.known = g.known /\ h.handlers = g.handlers
      /\ h.timer = g.timer /\ h.hostDc = g.hostDc /\ h.hostId = g.hostId
      /\ h.calls = g.calls /\ ~h.online
  BY <1>2 DEF Refs, SameSide
<1> HIDE DEF h
<1>4. Tidy(h, p) /\ IsOpen(h)
  BY <1>2, <1>3, StaysTidy
<1>5. page' \in [Names -> Refs] /\ PagesTidy'
  BY <1>1, <1>2, <1>3, <1>4, OnePage
<1>6. page'[p] = h /\ \A q \in Names : q # p => page'[q] = page[q]
  BY <1>1 DEF PageInv
<1>7. /\ inbox' \in [Names -> Seq(Frames)] /\ inbox'[p] = <<>>
      /\ \A q \in Names : q # p => inbox'[q] = inbox[q]
  BY <1>1, NothingUnderWay DEF PageInv, FramesTyped
<1>8. FramesTyped'
  BY <1>6, <1>7 DEF PageInv, FramesTyped
<1>9. ClaimsTyped'
  BY <1>1, <1>2, ClaimsKept
<1>10. HistoryTyped'
  BY <1>1 DEF PageInv, HistoryTyped
<1>11. ASSUME announced' # NoName, NEW q \in Names \ unreached'
       PROVE  Follows(page'[q], q, inbox'[q], announced')
  <2>1. Follows(page[q], q, inbox[q], announced) /\ (q = p => ~Tells(inbox[p]))
    BY <1>1, <1>11, ReachedIsFollows DEF PageInv
  <2>2. CASE q = p
    BY <1>1, <1>3, <1>4, <1>6, <1>7, <2>1, <2>2, NothingUnderWay DEF Follows, SameSide
  <2>3. CASE q # p
    BY <1>1, <1>6, <1>7, <2>1, <2>3
  <2> QED
    BY <2>2, <2>3
<1> QED
  BY <1>5, <1>8, <1>9, <1>10, <1>11, ReachedIsFollows DEF PageInv

LEMMA LeaveInv ==
  ASSUME Inv, PageInv, NEW p \in Names, NEW bye \in BOOLEAN, Leave(p, bye)
  PROVE  PageInv'
<1> DEFINE frame == Frame("PEER_LEFT", p)
           still == Online \ {p}
<1>1. /\ page' = [page EXCEPT ![p] = Closed] /\ page[p].mode \in {"host", "guest"}
      /\ \/ Broadcast(frame, still)
         \/ inbox' = [inbox EXCEPT ![p] = <<>>]
      /\ unreached' = unreached \cup {p} /\ gone' = gone \cup {p}
      /\ UNCHANGED <<live, notices, claims, announced>>
  BY DEF Leave, vars
<1>2. frame \in Frames /\ frame.type # "HOST_CHANGED"
  BY DEF Frame, Frames
<1> HIDE DEF frame
<1>3. page' \in [Names -> Refs] /\ PagesTidy'
  BY <1>1, ClosedIsTidy, OnePage
<1>4. page'[p] = Closed /\ \A q \in Names : q # p => page'[q] = page[q]
  BY <1>1 DEF PageInv
<1>5. /\ inbox \in [Names -> Seq(Frames)]
      /\ \A q \in Names : ~page[q].online => inbox[q] = <<>>
  BY DEF PageInv, FramesTyped
<1>6. /\ inbox' \in [Names -> Seq(Frames)] /\ inbox'[p] = <<>>
      /\ \A q \in Names : q # p =>
           \/ inbox'[q] = inbox[q]
           \/ inbox'[q] = Append(inbox[q], frame) /\ page[q].online
  <2>1. CASE Broadcast(frame, still)
    <3>1. still \in SUBSET Names /\ p \in Names \ still
          /\ (\A q \in Names : q # p => q \in still \/ (q \notin still /\ ~page[q].online))
          /\ \A q \in still : page[q].online
      BY DEF Online
    <3> HIDE DEF still
    <3>2. /\ inbox' \in [Names -> Seq(Frames)]
          /\ \A q \in still : inbox'[q] = Append(inbox[q], frame)
          /\ \A q \in Names \ still : inbox'[q] = <<>>
      BY <1>2, <2>1, <3>1, BroadcastFacts
    <3> QED
      BY <1>5, <3>1, <3>2
  <2>2. CASE inbox' = [inbox EXCEPT ![p] = <<>>]
    BY <1>5, <2>2, NothingUnderWay
  <2> QED
    BY <1>1, <2>1, <2>2
<1>7. FramesTyped'
  BY <1>4, <1>5, <1>6 DEF FramesTyped
<1>8. ClaimsTyped'
  BY <1>1, ClaimsKept
<1>9. HistoryTyped'
  BY <1>1 DEF PageInv, HistoryTyped
<1>10. ASSUME announced' # NoName, NEW q \in Names \ unreached'
       PROVE  Follows(page'[q], q, inbox'[q], announced')
  <2>1. Follows(page[q], q, inbox[q], announced) /\ q # p
    BY <1>1, <1>10, ReachedIsFollows DEF PageInv
  <2>2. Follows(page[q], q, inbox'[q], announced)
    BY <1>2, <1>5, <1>6, <2>1, StillFollows
  <2> QED
    BY <1>1, <1>4, <2>1, <2>2
<1> QED
  BY <1>3, <1>7, <1>8, <1>9, <1>10, ReachedIsFollows DEF PageInv

LEMMA AnnounceInv ==
  ASSUME Inv, PageInv, NEW p \in Names, Announce(p)
  PROVE  PageInv'
<1> DEFINE frame == Frame("HOST_CHANGED", p)
<1>1. /\ Broadcast(frame, Online) /\ announced' = p /\ unreached' = Names \ Online
      /\ notices' \subseteq notices
      /\ UNCHANGED <<live, page, claims, gone>>
  BY DEF Announce, vars
<1>2. frame \in Frames /\ frame.type = "HOST_CHANGED" /\ frame.who = p
  BY DEF Frame, Frames
<1> HIDE DEF frame
<1>3. /\ Online \in SUBSET Names /\ \A q \in Names : q \in Online <=> page[q].online
      /\ inbox \in [Names -> Seq(Frames)]
  BY DEF Online, PageInv, FramesTyped
<1>4. /\ inbox' \in [Names -> Seq(Frames)]
      /\ \A q \in Online : inbox'[q] = Append(inbox[q], frame)
      /\ \A q \in Names \ Online : inbox'[q] = <<>>
  BY <1>1, <1>2, <1>3, BroadcastFacts
<1>5. page' \in [Names -> Refs] /\ PagesTidy' /\ ClaimsTyped'
  BY <1>1 DEF PageInv, PagesTidy, ClaimsTyped
<1>6. FramesTyped'
  BY <1>1, <1>3, <1>4 DEF FramesTyped
<1>7. HistoryTyped'
  BY <1>1, NoNobody DEF PageInv, HistoryTyped
<1>8. ASSUME NEW q \in Names \ unreached'
      PROVE  Follows(page'[q], q, inbox'[q], announced')
  <2>1. q \in Names /\ q \in Online /\ page[q].online
    BY <1>1, <1>3, <1>8
  <2>2. IsOpen(page[q]) /\ inbox[q] \in Seq(Frames)
    BY <1>3, <2>1, PageFacts
  <2>3. Tells(inbox'[q]) /\ LastTells(inbox'[q], p)
    <3>1. Tells(Append(inbox[q], frame)) /\ LastTells(Append(inbox[q], frame), frame.who)
      BY <1>2, <2>2, AppendedFrame
    <3> QED
      BY <1>2, <1>4, <2>1, <3>1
  <2> QED
    BY <1>1, <2>2, <2>3 DEF Follows
<1> QED
  BY <1>5, <1>6, <1>7, <1>8, ReachedIsFollows DEF PageInv

\* How a frame is read does not turn it into an announcement, nor an announcement into
\* another frame.
LEMMA ReadingFacts ==
  ASSUME NEW p \in Names, NEW head \in Frames, NEW frame \in Readings(p, head)
  PROVE  /\ frame \in Frames /\ frame.who = head.who
         /\ frame.type = "HOST_CHANGED" <=> head.type = "HOST_CHANGED"
<1>1. CASE frame = head
  BY <1>1
<1>2. CASE frame # head
  <2>1. /\ head.type \in {"SDP_OFFER", "SDP_REOFFER"} /\ head.who \in Names
        /\ \E type \in {"SDP_OFFER", "SDP_REOFFER"} : frame = Frame(type, head.who)
    BY <1>2 DEF Readings, Frames
  <2> QED
    BY <2>1 DEF Frame, Frames
<1> QED
  BY <1>1, <1>2

\* The page that takes the frame: what it answers, and to whom, is no ref of the invariant.
Taken(g, p, frame, caller) ==
  [Hears(g, p, frame) EXCEPT !.calls = {}, !.peers = @ \cup caller]

LEMMA TakerTidy ==
  ASSUME NEW g, NEW p \in Names, NEW frame \in Frames, Tidy(g, p), IsOpen(g),
         NEW caller \in SUBSET Names
  PROVE  LET x == Taken(g, p, frame, caller)
         IN  /\ x \in Refs /\ Tidy(x, p) /\ IsOpen(x) /\ x.calls = {} /\ x.online = g.online
             /\ frame.type # "HOST_CHANGED" => SameSide(g, x)
             /\ frame.type = "HOST_CHANGED" =>
                  x.hostId = frame.who /\ (x.mode = "host" <=> p = frame.who)
<1> DEFINE h == Hears(g, p, frame)
           peers == h.peers \cup caller
           x == [h EXCEPT !.calls = {}, !.peers = peers]
<1>1. /\ Tidy(h, p) /\ IsOpen(h) /\ h.online = g.online
      /\ frame.type # "HOST_CHANGED" => SameSide(g, h)
      /\ frame.type = "HOST_CHANGED" =>
           h.hostId = frame.who /\ (h.mode = "host" <=> p = frame.who)
  BY HearsTidy
<1>2. Taken(g, p, frame, caller) = x
  BY DEF Taken
<1> HIDE DEF h
<1>3. h \in Refs /\ h.hostDc \in {NoName, h.hostId} /\ h.peers \in SUBSET Names
  BY <1>1 DEF Tidy, Wired, Refs
<1>4. peers \in SUBSET Names
  BY <1>3
<1> HIDE DEF peers
<1>5. /\ x \in Refs /\ SameSide(h, x) /\ x.known = h.known /\ x.handlers = h.handlers
      /\ x.timer = h.timer /\ x.hostDc = h.hostDc /\ x.hostId = h.hostId /\ x.mode = h.mode
      /\ x.calls = {} /\ x.online = h.online
  BY <1>3, <1>4 DEF Refs, SameSide
<1> HIDE DEF x
<1>6. Tidy(x, p) /\ IsOpen(x)
  BY <1>1, <1>3, <1>5, StaysTidy
<1>7. /\ x \in Refs /\ Tidy(x, p) /\ IsOpen(x) /\ x.calls = {} /\ x.online = g.online
      /\ frame.type # "HOST_CHANGED" => SameSide(g, x)
      /\ frame.type = "HOST_CHANGED" =>
           x.hostId = frame.who /\ (x.mode = "host" <=> p = frame.who)
  BY <1>1, <1>5, <1>6 DEF SameSide
<1> QED
  BY <1>2, <1>7 DEF h

\* The host that made the offer learns that it was answered.
LEMMA CallerTidy ==
  ASSUME PageInv, NEW q \in Names, NEW p \in Names, page[q].mode = "host"
  PROVE  LET y == [page[q] EXCEPT !.peers = @ \cup {p}]
         IN  /\ y \in Refs /\ Tidy(y, q) /\ IsOpen(y) /\ y.calls = {}
             /\ y.online = page[q].online /\ SameSide(page[q], y) /\ Home \in live
<1> DEFINE g == page[q]
           peers == g.peers \cup {p}
           y == [g EXCEPT !.peers = peers]
<1>1. /\ g \in Refs /\ Tidy(g, q) /\ g.hostDc \in {NoName, g.hostId} /\ g.calls = {}
      /\ IsOpen(g) /\ g.peers \in SUBSET Names /\ Home \in live
  <2>1. IsOpen(g) /\ g # Closed
    BY ClosedIsTidy DEF IsOpen
  <2> QED
    BY <2>1, PageFacts DEF Wired, Refs
<1>2. [page[q] EXCEPT !.peers = @ \cup {p}] = y
  OBVIOUS
<1>3. peers \in SUBSET Names
  BY <1>1
<1> HIDE DEF peers
<1>4. /\ y \in Refs /\ SameSide(g, y) /\ y.known = g.known /\ y.handlers = g.handlers
      /\ y.timer = g.timer /\ y.hostDc = g.hostDc /\ y.hostId = g.hostId
      /\ y.calls = g.calls /\ y.online = g.online
  BY <1>1, <1>3 DEF Refs, SameSide
<1> HIDE DEF y
<1>5. Tidy(y, q) /\ IsOpen(y)
  BY <1>1, <1>4, StaysTidy
<1> QED
  BY <1>1, <1>2, <1>4, <1>5

LEMMA HandleInv ==
  ASSUME Inv, PageInv, NEW p \in Names, Handle(p)
  PROVE  PageInv'
<1> DEFINE g == page[p]
<1>1. /\ inbox[p] # <<>> /\ inbox \in [Names -> Seq(Frames)]
      /\ \A q \in Names : ~page[q].online => inbox[q] = <<>>
      /\ UNCHANGED <<live, notices, claims, announced, unreached, gone>>
  BY DEF Handle, vars, PageInv, FramesTyped
<1>2. /\ g \in Refs /\ Tidy(g, p) /\ IsOpen(g) /\ g.online /\ g # Closed /\ Home \in live
      /\ g.mode # "claiming"
  <2>1. g.online /\ IsOpen(g)
    BY <1>1, PageFacts
  <2>2. g # Closed /\ g.mode # "claiming"
    BY <2>1, ClosedIsTidy DEF IsOpen
  <2> QED
    BY <2>1, <2>2, PageFacts
<1>3. /\ Head(inbox[p]) \in Frames /\ Tail(inbox[p]) \in Seq(Frames)
      /\ \A who : LastTells(inbox[p], who) => LastTells(Tail(inbox[p]), who)
      /\ ~Tells(Tail(inbox[p])) =>
           \/ ~Tells(inbox[p]) /\ Head(inbox[p]).type # "HOST_CHANGED"
           \/ /\ Head(inbox[p]).type = "HOST_CHANGED"
              /\ \A who : LastTells(inbox[p], who) => Head(inbox[p]).who = who
  BY <1>1, TakenFrame
<1> DEFINE Heard(frame) == Hears(g, p, frame)
           Called(frame) == {q \in Heard(frame).calls \ {p} : page[q].online}
           Caller(frame) == IF frame.type = "SDP_OFFER" THEN {frame.who} ELSE {}
           Offer(frame, q) ==
             Frame(IF q \in Heard(frame).peers \/ ~Plain(Heard(frame))
                   THEN "SDP_REOFFER" ELSE "SDP_OFFER", p)
           Answers(frame) == [Heard(frame) EXCEPT !.calls = {}, !.peers = @ \cup Caller(frame)]
<1>4. PICK frame \in Readings(p, Head(inbox[p])) :
        /\ page' = [q \in Names |->
             IF q = p THEN Answers(frame)
             ELSE IF q \in Caller(frame) /\ page[q].mode = "host"
                  THEN [page[q] EXCEPT !.peers = @ \cup {p}] ELSE page[q]]
        /\ inbox' = [q \in Names |->
             IF q = p THEN Tail(inbox[q])
             ELSE IF q \in Called(frame) THEN Append(inbox[q], Offer(frame, q)) ELSE inbox[q]]
  BY DEF Handle
<1>5. /\ frame \in Frames /\ frame.who = Head(inbox[p]).who
      /\ frame.type = "HOST_CHANGED" <=> Head(inbox[p]).type = "HOST_CHANGED"
  BY <1>3, ReadingFacts
<1> DEFINE x == Answers(frame)
           called == Called(frame)
           offer(q) == Offer(frame, q)
<1>6. /\ x \in Refs /\ Tidy(x, p) /\ IsOpen(x) /\ x.calls = {} /\ x.online = g.online
      /\ frame.type # "HOST_CHANGED" => SameSide(g, x)
      /\ frame.type = "HOST_CHANGED" =>
           x.hostId = frame.who /\ (x.mode = "host" <=> p = frame.who)
  <2> DEFINE c == Caller(frame)
             y == Taken(g, p, frame, c)
  <2>1. c \in SUBSET Names
    BY <1>5 DEF Frames
  <2>2. x = y
    BY DEF Taken
  <2> HIDE DEF c, x, g
  <2>3. /\ y \in Refs /\ Tidy(y, p) /\ IsOpen(y) /\ y.calls = {} /\ y.online = g.online
        /\ frame.type # "HOST_CHANGED" => SameSide(g, y)
        /\ frame.type = "HOST_CHANGED" =>
             y.hostId = frame.who /\ (y.mode = "host" <=> p = frame.who)
    <3>1. p \in Names /\ frame \in Frames /\ Tidy(g, p) /\ IsOpen(g) /\ c \in SUBSET Names
      BY <1>2, <1>5, <2>1
    <3> QED
      BY ONLY <3>1, TakerTidy
  <2> HIDE DEF y
  <2> QED
    BY <2>2, <2>3
<1>7. /\ \A q \in Names : offer(q) \in Frames /\ offer(q).type # "HOST_CHANGED"
      /\ \A q \in called : page[q].online
  BY DEF Frame, Frames
<1>8. /\ page' \in [Names -> {page'[q] : q \in Names}] /\ page'[p] = x
      /\ \A q \in Names : q # p =>
           \/ page'[q] = page[q]
           \/ page[q].mode = "host" /\ page'[q] = [page[q] EXCEPT !.peers = @ \cup {p}]
  BY <1>4
<1>9. /\ DOMAIN inbox' = Names /\ inbox' = [q \in Names |-> inbox'[q]]
      /\ inbox'[p] = Tail(inbox[p])
      /\ \A q \in Names : q # p =>
           \/ inbox'[q] = inbox[q]
           \/ inbox'[q] = Append(inbox[q], offer(q)) /\ page[q].online
  BY <1>4, <1>7
<1> HIDE DEF x, offer, called, Heard, Called, Caller, Offer, Answers
<1>10. ASSUME NEW q \in Names, q # p
       PROVE  /\ page'[q] \in Refs /\ Tidy(page'[q], q) /\ page'[q].calls = {}
              /\ page'[q] # Closed => Home \in live
              /\ page'[q].online = page[q].online /\ SameSide(page[q], page'[q])
  <2>1. CASE page'[q] = page[q]
    BY <2>1, PageFacts DEF SameSide
  <2>2. CASE page[q].mode = "host" /\ page'[q] = [page[q] EXCEPT !.peers = @ \cup {p}]
    BY <2>2, CallerTidy
  <2> QED
    BY <1>8, <1>10, <2>1, <2>2
<1>11. page' \in [Names -> Refs]
  BY <1>6, <1>8, <1>10
<1>12. PagesTidy'
  <2>1. ASSUME NEW q \in Names
        PROVE  Tidy(page'[q], q) /\ page'[q].calls = {} /\ (page'[q] # Closed => Home \in live')
    <3>1. CASE q = p
      BY <1>1, <1>2, <1>6, <1>8, <3>1
    <3>2. CASE q # p
      BY <1>1, <1>10, <3>2
    <3> QED
      BY <3>1, <3>2
  <2>2. PagesTidy' <=> \A q \in Names :
          Tidy(page'[q], q) /\ page'[q].calls = {} /\ (page'[q] # Closed => Home \in live')
    BY DEF PagesTidy
  <2> QED
    BY <2>1, <2>2
<1>13. FramesTyped'
  <2>1. ASSUME NEW q \in Names
        PROVE  /\ inbox'[q] \in Seq(Frames)
               /\ ~page'[q].online => inbox'[q] = <<>>
    <3>1. CASE q = p
      BY <1>2, <1>3, <1>6, <1>8, <1>9, <3>1
    <3>2. CASE q # p /\ inbox'[q] = inbox[q]
      BY <1>1, <1>10, <3>2
    <3>3. CASE q # p /\ inbox'[q] = Append(inbox[q], offer(q)) /\ page[q].online
      <4>1. inbox'[q] \in Seq(Frames)
        BY <1>1, <1>7, <3>3, AppendedFrame
      <4>2. page'[q].online = page[q].online
        BY <1>10, <3>3
      <4> QED
        BY <3>3, <4>1, <4>2
    <3> QED
      BY <1>9, <3>1, <3>2, <3>3
  <2> QED
    BY <1>9, <2>1 DEF FramesTyped
<1>14. ClaimsTyped'
  <2>1. ASSUME NEW c \in claims, c.cold
        PROVE  page'[c.by].mode = "claiming" /\ c.tuple = <<0, 0>>
    <3>1. c.by \in Names /\ page[c.by].mode = "claiming" /\ c.tuple = <<0, 0>>
      BY <2>1 DEF PageInv, ClaimsTyped, Claims
    <3>2. c.by # p
      BY <1>2, <3>1
    <3> QED
      BY <1>10, <3>1, <3>2 DEF SameSide
  <2> QED
    BY <1>1, <2>1 DEF PageInv, ClaimsTyped
<1>15. HistoryTyped'
  BY <1>1 DEF PageInv, HistoryTyped
<1>16. ASSUME announced' # NoName, NEW q \in Names \ unreached'
       PROVE  Follows(page'[q], q, inbox'[q], announced')
  <2>1. Follows(page[q], q, inbox[q], announced) /\ announced' = announced
    BY <1>1, <1>16, ReachedIsFollows DEF PageInv
  <2>2. CASE q = p
    <3>1. LastTells(Tail(inbox[p]), announced) /\ LastTells(inbox[p], announced)
      BY <1>3, <2>1, <2>2 DEF Follows
    <3>2. ASSUME ~Tells(Tail(inbox[p]))
          PROVE  x.hostId = announced /\ (x.mode = "host" <=> p = announced)
      <4>1. CASE ~Tells(inbox[p]) /\ Head(inbox[p]).type # "HOST_CHANGED"
        <5>1. SameSide(g, x)
          BY <1>5, <1>6, <4>1
        <5>2. g.hostId = announced /\ (g.mode = "host" <=> p = announced)
          BY <2>1, <2>2, <4>1 DEF Follows
        <5> QED
          BY <5>1, <5>2 DEF SameSide
      <4>2. CASE Head(inbox[p]).type = "HOST_CHANGED" /\ Head(inbox[p]).who = announced
        BY <1>5, <1>6, <4>2
      <4> QED
        BY <1>3, <3>1, <3>2, <4>1, <4>2
    <3>3. IsOpen(x)
      BY <1>6
    <3> QED
      BY <1>8, <1>9, <2>1, <2>2, <3>1, <3>2, <3>3 DEF Follows
  <2>3. CASE q # p
    <3>1. Follows(page[q], q, inbox'[q], announced)
      <4>1. CASE inbox'[q] = inbox[q]
        BY <2>1, <4>1
      <4>2. CASE inbox'[q] = Append(inbox[q], offer(q))
        BY <1>1, <1>7, <2>1, <4>2, StillFollows
      <4> QED
        BY <1>9, <2>3, <4>1, <4>2
    <3>2. SameSide(page[q], page'[q])
      BY <1>10, <2>3
    <3> QED
      BY <2>1, <3>1, <3>2 DEF Follows, SameSide, IsOpen
  <2> QED
    BY <2>2, <2>3
<1> QED
  BY <1>11, <1>12, <1>13, <1>14, <1>15, <1>16, ReachedIsFollows DEF PageInv

-----------------------------------------------------------------------------
\* The registry under the pages

LEMMA CodeExists == Code \in Codes
<1>1. Codes # {}
  BY FailoverAssumption, FS_EmptySet
<1> QED
  BY <1>1 DEF Code

\* What pages, announcements and time do to the registry are operations of the registry.
LEMMA StepIsRegistrys ==
  ASSUME PageInv, [FailoverNext]_allVars
  PROVE  [AllNext]_vars
<1>1. CASE UNCHANGED vars
  BY <1>1
<1>2. CASE Create
  BY <1>2, HomeExists, CodeExists, FailoverAssumption DEF Create, AllNext, Next
<1>3. ASSUME NEW p \in Names, Tab(p)
      PROVE  [AllNext]_vars
  <2>1. CASE RegisterPlayer(Code, p)
    BY <2>1, CodeExists DEF AllNext, Seats
  <2>2. CASE ~RegisterPlayer(Code, p)
    <3>1. UNCHANGED vars
      BY <1>3, <2>2 DEF Tab, Lookup, Join, ColdBoot, Booted, Connect, Drop, Leave
    <3> QED
      BY <3>1
  <2> QED
    BY <2>1, <2>2
<1>4. ASSUME NEW p \in Names, Progress(p) \/ Follow(p) \/ Announce(p)
      PROVE  [AllNext]_vars
  <2>1. UNCHANGED vars
    BY <1>4 DEF Progress, Handle, RunHostFailover, Open, Follow, Announce
  <2> QED
    BY <2>1
<1>5. ASSUME NEW p \in Names, NEW q \in Names, ConnectionFails(p, q)
      PROVE  [AllNext]_vars
  BY <1>5 DEF ConnectionFails
<1>6. ASSUME NEW claim \in claims, ServeClaim(claim)
      PROVE  [AllNext]_vars
  <2>1. ClaimHost(Home, claim.by, claim.tuple) \/ UNCHANGED vars
    BY <1>6 DEF ServeClaim
  <2>2. claim.by \in Names /\ claim.tuple \in Int \X Int
    BY DEF PageInv, ClaimsTyped, Claims
  <2> QED
    BY <2>1, <2>2, HomeExists DEF AllNext, Seats
<1>7. CASE ClearHost
  BY <1>7, HomeExists DEF ClearHost, AllNext, Seats
<1>8. CASE ClaimLapses(Home)
  BY <1>8, HomeExists DEF AllNext, Seats
<1>9. CASE UNCHANGED allVars
  BY <1>1, <1>9 DEF allVars
<1> QED
  BY <1>2, <1>3, <1>4, <1>5, <1>6, <1>7, <1>8, <1>9 DEF FailoverNext

LEMMA FailoverInitInv == FailoverInit => FailoverInv
<1> SUFFICES ASSUME FailoverInit PROVE FailoverInv
  OBVIOUS
<1>1. Inv
  BY InitInv DEF FailoverInit
<1>2. page = [p \in Names |-> Closed]
  BY DEF FailoverInit
<1>3. page \in [Names -> Refs] /\ PagesTidy
  BY <1>2, ClosedIsTidy DEF PagesTidy
<1>4. FramesTyped
  BY NothingUnderWay DEF FailoverInit, FramesTyped
<1>5. ClaimsTyped /\ HistoryTyped /\ AnnouncedReached
  BY NoNobody DEF FailoverInit, ClaimsTyped, HistoryTyped, AnnouncedReached
<1> QED
  BY <1>1, <1>3, <1>4, <1>5 DEF FailoverInv, PageInv

LEMMA FailoverNextInv == FailoverInv /\ [FailoverNext]_allVars => FailoverInv'
<1> SUFFICES ASSUME Inv, PageInv, [FailoverNext]_allVars PROVE FailoverInv'
  BY DEF FailoverInv
<1>1. Inv'
  BY StepIsRegistrys, NextInv
<1>2. ASSUME NEW p \in Names, Tab(p)
      PROVE  PageInv'
  BY <1>2, LookupInv, JoinInv, ColdBootInv, BootedInv, ConnectInv, SocketDropInv, LeaveInv DEF Tab
<1>3. ASSUME NEW p \in Names, Progress(p)
      PROVE  PageInv'
  BY <1>3, HandleInv, RunHostFailoverInv, OpenInv DEF Progress
<1>4. ASSUME ClearHost
      PROVE  PageInv'
  <2>1. /\ live' = live
        /\ UNCHANGED <<page, inbox, notices, claims, announced, unreached, gone>>
    BY <1>4 DEF ClearHost, UpdateHost
  <2> QED
    BY <2>1, QuietPages
<1>5. ASSUME ClaimLapses(Home), UNCHANGED fvars
      PROVE  PageInv'
  BY <1>5, QuietPages DEF ClaimLapses, fvars
<1>6. ASSUME UNCHANGED allVars
      PROVE  PageInv'
  BY <1>6, QuietPages DEF allVars, vars, fvars
<1>7. ASSUME NEW p \in Names, Follow(p) \/ Announce(p)
      PROVE  PageInv'
  BY <1>7, FollowInv, AnnounceInv
<1>8. PageInv'
  BY <1>2, <1>3, <1>4, <1>5, <1>6, <1>7, CreateInv, ConnectionFailsInv, ServeClaimInv
     DEF FailoverNext
<1> QED
  BY <1>1, <1>8 DEF FailoverInv

-----------------------------------------------------------------------------
\* The theorems

LEMMA FailoverInvariant == FailoverSpec => []FailoverInv
BY FailoverInitInv, FailoverNextInv, PTL DEF FailoverSpec

\* The pages, whatever they do and however their frames are lost, use the registry through
\* its operations: what is proved of every use of it (RegistryInvariant) holds under them.
THEOREM FailoverImplements == FailoverSpec => AllSpec
<1>1. FailoverInit => Init
  BY DEF FailoverInit
<1>2. FailoverInv /\ [FailoverNext]_allVars => [AllNext]_vars
  BY StepIsRegistrys DEF FailoverInv
<1> QED
  BY <1>1, <1>2, FailoverInvariant, PTL DEF FailoverSpec, AllSpec

\* The refs of a page through every change of sides: a host follows itself, a channel is
\* the host's, and a page that is not open has subscribed nothing and gets no frames
\* (P2pGameProvider.jsx 290-503).
THEOREM FailoverTypeCorrect == FailoverSpec => []FailoverTypeOK
<1>1. ASSUME FailoverInv
      PROVE  FailoverTypeOK
  <2>1. ASSUME NEW p \in Names
        PROVE  /\ page[p] \in Refs /\ page[p].calls = {}
               /\ page[p].mode \notin {"guest", "host"}
                    => page[p].handlers = <<>> /\ inbox[p] = <<>> /\ ~page[p].online
               /\ page[p].mode = "host" => page[p].hostId = p
               /\ page[p].hostDc \in {NoName, page[p].hostId}
    <3>1. /\ page[p] \in Refs /\ Tidy(page[p], p) /\ Wired(page[p]) /\ page[p].calls = {}
          /\ IsOpen(page[p]) <=> page[p].mode \in {"guest", "host"}
      BY <1>1, PageFacts DEF FailoverInv
    <3>2. ~IsOpen(page[p]) => page[p].online = FALSE /\ page[p].handlers = <<>>
      BY <3>1, NotOpen
    <3>3. ~page[p].online => inbox[p] = <<>>
      BY <1>1 DEF FailoverInv, PageInv, FramesTyped
    <3> QED
      BY <3>1, <3>2, <3>3 DEF Tidy, Wired
  <2> DEFINE Pages == [mode : Modes, hostId : Someone, known : SUBSET Names, timer : BOOLEAN,
                       handlers : Seq({"host", "guest"}), floor : Int \X Int,
                       online : BOOLEAN, hostDc : Someone, dialed : SUBSET Names,
                       calls : {{}}, peers : SUBSET Names]
  <2>2. \A p \in Names : page[p] \in Pages
    <3>1. \A g \in Refs : g.calls = {} => g \in Pages
      BY DEF Refs
    <3> QED
      BY <2>1, <3>1
  <2> HIDE DEF Pages
  <2>3. page \in [Names -> Pages]
    BY <1>1, <2>2 DEF FailoverInv, PageInv
  <2>4. /\ inbox \in [Names -> Seq(Frames)] /\ notices \subseteq Names
        /\ announced \in Someone /\ unreached \subseteq Names /\ gone \subseteq Names
    BY <1>1 DEF FailoverInv, PageInv, FramesTyped, HistoryTyped
  <2> QED
    BY <2>1, <2>3, <2>4 DEF FailoverTypeOK, Pages
<1> QED
  BY <1>1, FailoverInvariant, PTL

\* Pages that have taken all their frames agree with the last announcement that reached
\* them, through any number of promotions and demotions and whichever handlers of their
\* former sides are still subscribed (P2pGameProvider.jsx 332-347, 487-503).
THEOREM PagesAgree == FailoverSpec => []OneHostAnnounced
<1>1. ASSUME FailoverInv
      PROVE  OneHostAnnounced
  <2>1. ASSUME NEW p \in Names \ unreached, announced # NoName, inbox[p] = <<>>
        PROVE  page[p].hostId = announced /\ (page[p].mode = "host" <=> p = announced)
    BY <1>1, <2>1, NothingUnderWay, ReachedIsFollows DEF FailoverInv, PageInv, Follows
  <2> QED
    BY <2>1 DEF OneHostAnnounced
<1> QED
  BY <1>1, FailoverInvariant, PTL

\* A failover timer runs only while the host it stands in for is not among the peers the
\* page knows, whatever handlers a frame goes through (P2pGameProvider.jsx 450-454).
THEOREM TimersMeanGone == FailoverSpec => []TimerMeansHostGone
<1>1. FailoverInv => TimerMeansHostGone
  BY PageFacts DEF FailoverInv, TimerMeansHostGone, Tidy
<1> QED
  BY <1>1, FailoverInvariant, PTL
=============================================================================
