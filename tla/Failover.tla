------------------------------ MODULE Failover ------------------------------
(***************************************************************************)
(* The life of the pages of one room (frontend/components/                 *)
(* P2pGameProvider.jsx) and how they change hosts: lookup and join, the    *)
(* signaling socket, the failover timer and the election (election.ts),    *)
(* the claim at the registry, its announcement, promotion and demotion.    *)
(*                                                                         *)
(* A page is a record of the provider's refs.  Its message handlers stay   *)
(* subscribed when it changes sides, so each frame goes through all of     *)
(* them.  Frames reach a page in the order in which the hub sent them, but *)
(* the announcements of new hosts race for the hub: each is made by the    *)
(* goroutine of its claim, after the lock of the registry is released.     *)
(***************************************************************************)
EXTENDS RoomRegistry, Sequences

CONSTANTS Founder,      \* the player who creates the room
          Floors,       \* the (lastVersion, lastStrokeIndex) of a replica that has a state
          Clearable,    \* whether UpdateHost(room, "") may be called
          MaxOpenings,  \* bound on the pages opened
          MaxMishaps    \* bound on the sockets that drop and the hosts that are cleared

ASSUME FailoverAssumption ==
  /\ Cardinality(RoomIds) = 1 /\ Cardinality(Codes) = 1
  /\ Founder \in Names
  /\ Floors \subseteq Int \X Int
  /\ Clearable \in BOOLEAN /\ MaxOpenings \in Nat /\ MaxMishaps \in Nat

VARIABLES page,       \* the page of each player
          inbox,      \* the frames on their way to it
          notices,    \* the players whose HOST_CHANGED waits for the hub
          claims,     \* claims that wait for the registry
          announced,  \* the host of the last HOST_CHANGED
          unreached,  \* the pages it did not reach, or that went after it
          gone,       \* the players of whom a page went
          openings, clears, drops

fvars == <<page, inbox, notices, claims, announced, unreached, gone, openings, clears, drops>>
allVars == <<vars, fvars>>

Home == CHOOSE id \in RoomIds : TRUE
Code == CHOOSE code \in Codes : TRUE

NoFloor == <<0, -1>>

Closed == [mode |-> "closed", hostId |-> NoName, known |-> {}, timer |-> FALSE,
           handlers |-> <<>>, floor |-> NoFloor, online |-> FALSE,
           hostDc |-> NoName, dialed |-> {}, calls |-> {}, peers |-> {}]

Frame(type, who) == [type |-> type, who |-> who]

FailoverInit ==
  /\ Init
  /\ page = [p \in Names |-> Closed]
  /\ inbox = [p \in Names |-> <<>>]
  /\ notices = {} /\ claims = {}
  /\ announced = NoName /\ unreached = {}
  /\ gone = {} /\ openings = 0 /\ clears = 0 /\ drops = 0

-----------------------------------------------------------------------------
\* Becoming a host or a guest: operators on the page g of player p

\* The new engine is seeded with the replica's state, and its first broadcast, the host's
\* own JOIN_GAME, is the first state that the new replica counts.
SeededFloor(floor) == <<1, floor[2]>>

\* Mutant: the new host waits for its peers to join.
WireHostWaits(g, p) ==
  [g EXCEPT !.mode = "host", !.hostId = p, !.handlers = Append(@, "host"),
            !.floor = SeededFloor(@), !.hostDc = NoName, !.dialed = {}, !.peers = {}]

\* wireHost.  The new host calls every peer it has seen joining.
WireHost(g, p) ==
  [g EXCEPT !.mode = "host", !.hostId = p, !.handlers = Append(@, "host"),
            !.floor = SeededFloor(@), !.hostDc = NoName, !.dialed = {}, !.peers = {},
            !.calls = g.known \ {p}]

\* wireGuest; a demoted page keeps its replica, its socket and its handlers.
WireGuest(g, host) ==
  [g EXCEPT !.mode = "guest", !.hostId = host, !.handlers = Append(@, "guest"),
            !.hostDc = NoName, !.dialed = {}, !.peers = {}]

\* Mutant: a guest is promoted only while it waits for its own failover.
PromoteIfWaiting(g, p) == IF g.timer THEN WireHost([g EXCEPT !.timer = FALSE], p) ELSE g

\* promoteSelfToHost.
Promote(g, p) == WireHost([g EXCEPT !.timer = FALSE], p)

\* Mutant: the channel to the old host is kept.
RebindKeepsChannel(g, host) == [g EXCEPT !.timer = FALSE, !.hostId = host]

\* A guest waits for the call of its new host.
Rebind(g, host) == [g EXCEPT !.timer = FALSE, !.hostId = host, !.hostDc = NoName]

\* Mutant: the host's return does not stop the timer.
SeeJoinedKeepsTimer(g, who) == [g EXCEPT !.known = @ \cup {who}]

SeeJoined(g, who) == [g EXCEPT !.known = @ \cup {who}, !.timer = @ /\ who # g.hostId]

SeeLeft(g, who) == [g EXCEPT !.known = @ \ {who}, !.timer = @ \/ who = g.hostId]

\* The handler wireGuest subscribed.
GuestHears(g, p, frame) ==
  CASE frame.type = "PEER_JOINED"  -> SeeJoined(g, frame.who)
    [] frame.type = "PEER_LEFT"    -> SeeLeft(g, frame.who)
    [] frame.type = "HOST_CHANGED" -> IF frame.who = p THEN Promote(g, p)
                                      ELSE Rebind(g, frame.who)
    [] frame.type = "SDP_OFFER"    -> [g EXCEPT !.dialed = @ \cup {frame.who}]
    [] OTHER                       -> g

\* Mutant: a host never steps down.
HostHearsNoSuccessor(g, p, frame) ==
  CASE frame.type = "PEER_JOINED" /\ frame.who # p ->
         [g EXCEPT !.known = @ \cup {frame.who}, !.calls = @ \cup {frame.who}]
    [] frame.type = "PEER_LEFT" ->
         [g EXCEPT !.known = @ \ {frame.who}, !.peers = @ \ {frame.who}]
    [] OTHER -> g

\* The handler wireHost subscribed.
HostHears(g, p, frame) ==
  CASE frame.type = "PEER_JOINED" /\ frame.who # p ->
         [g EXCEPT !.known = @ \cup {frame.who}, !.calls = @ \cup {frame.who}]
    [] frame.type = "PEER_LEFT" ->
         [g EXCEPT !.known = @ \ {frame.who}, !.peers = @ \ {frame.who}]
    [] frame.type = "HOST_CHANGED" /\ frame.who # p -> WireGuest(g, frame.who)
    [] OTHER -> g

\* SignalingClient.onmessage: the handlers that were there when the frame came, in turn.
Hears(g, p, frame) ==
  LET after[k \in 0..Len(g.handlers)] ==
        IF k = 0 THEN g
        ELSE IF g.handlers[k] = "guest" THEN GuestHears(after[k - 1], p, frame)
        ELSE HostHears(after[k - 1], p, frame)
  IN  after[Len(g.handlers)]

-----------------------------------------------------------------------------
\* Opening and leaving a page

\* handleCreate.
Create ==
  /\ openings < MaxOpenings
  /\ CreateRoom(Home, Code, Founder)
  /\ page' = [page EXCEPT ![Founder] = WireHost(@, Founder)]
  /\ openings' = openings + 1
  /\ UNCHANGED <<inbox, notices, claims, announced, unreached, gone, clears, drops>>

\* handleJoin up to the answer of the lookup.
Lookup(p) ==
  /\ openings < MaxOpenings
  /\ page[p] = Closed
  /\ Home \in live
  /\ page' = [page EXCEPT ![p].mode = "looked", ![p].hostId = room[Home].host]
  /\ openings' = openings + 1
  /\ UNCHANGED <<vars, inbox, notices, claims, announced, unreached, gone, clears, drops>>

\* handleJoin after it: the player is registered, and becomes a guest of the host the
\* lookup named; with no host, and with a checkpoint (whether there is one is left open),
\* it will claim the room (cold boot).
Join(p) ==
  /\ page[p].mode = "looked"
  /\ IF p \in room[Home].players THEN UNCHANGED vars ELSE RegisterPlayer(Code, p)
  /\ \E saved \in BOOLEAN :
       page' = [page EXCEPT ![p] =
         IF @.hostId = NoName /\ saved THEN [@ EXCEPT !.mode = "cold"]
         ELSE WireGuest(@, @.hostId)]
  /\ UNCHANGED <<inbox, notices, claims, announced, unreached, gone, openings, clears, drops>>

\* The claim of a cold boot, and its answer, which comes after the announcement; refused,
\* the page is a guest of nobody.
ColdBoot(p) ==
  /\ page[p].mode = "cold"
  /\ page' = [page EXCEPT ![p].mode = "claiming"]
  /\ claims' = claims \cup {[by |-> p, tuple |-> <<0, 0>>, cold |-> TRUE]}
  /\ UNCHANGED <<vars, inbox, notices, announced, unreached, gone, openings, clears, drops>>

Booted(p) ==
  /\ \/ /\ page[p].mode = "endorsed" /\ p \notin notices
        /\ page' = [page EXCEPT ![p] = WireHost(@, p)]
        /\ unreached' = IF announced = p THEN unreached \ {p} ELSE unreached
     \/ /\ page[p].mode = "refused"
        /\ page' = [page EXCEPT ![p] = WireGuest(@, NoName)]
        /\ UNCHANGED unreached
  /\ UNCHANGED <<vars, inbox, notices, claims, announced, gone, openings, clears, drops>>

\* A broadcast of the hub: every connected page of the room gets it next; the others have
\* nothing under way to them.
Broadcast(frame, online) ==
  inbox' = [p \in Names |-> IF p \in online THEN Append(inbox[p], frame) ELSE <<>>]

Online == {p \in Names : page[p].online}

\* The socket opens, again after it dropped, and the player is announced to the others;
\* if its own PEER_JOINED reaches it, that names nobody it waits for.
Connect(p) ==
  /\ page[p].mode \in {"host", "guest"}
  /\ ~page[p].online
  /\ page' = [page EXCEPT ![p].online = TRUE]
  /\ Broadcast(Frame("PEER_JOINED", p), Online)
  /\ UNCHANGED <<vars, notices, claims, announced, unreached, gone, openings, clears, drops>>

\* What was under way to the page is lost with the socket.
Drop(p) ==
  /\ drops + clears < MaxMishaps
  /\ page[p].online
  /\ page' = [page EXCEPT ![p].online = FALSE]
  /\ inbox' = [inbox EXCEPT ![p] = <<>>]
  /\ unreached' = IF \E i \in DOMAIN inbox[p] : inbox[p][i].type = "HOST_CHANGED"
                  THEN unreached \cup {p} ELSE unreached
  /\ drops' = drops + 1
  /\ UNCHANGED <<vars, notices, claims, announced, gone, openings, clears>>

\* The page goes: its cleanup says BYE, which the router turns into a PEER_LEFT; a page
\* that crashes, or a tab that is closed, says nothing.
Leave(p, bye) ==
  /\ page[p].mode \in {"host", "guest"}
  /\ page' = [page EXCEPT ![p] = Closed]
  /\ IF bye /\ page[p].online THEN Broadcast(Frame("PEER_LEFT", p), Online \ {p})
     ELSE inbox' = [inbox EXCEPT ![p] = <<>>]
  /\ unreached' = unreached \cup {p}
  /\ gone' = gone \cup {p}
  /\ UNCHANGED <<vars, notices, claims, announced, openings, clears, drops>>

-----------------------------------------------------------------------------
\* Frames

Announce(p) ==
  /\ p \in notices
  /\ notices' = notices \ {p}
  /\ Broadcast(Frame("HOST_CHANGED", p), Online)
  /\ announced' = p
  /\ unreached' = Names \ Online
  /\ UNCHANGED <<vars, page, claims, gone, openings, clears, drops>>

\* A page that has changed sides at most once: one host stack, or one guest stack, takes
\* the offers and the answers.
Plain(g) == g.handlers \in {<<"guest">>, <<"host">>, <<"guest", "host">>}

\* An offer that opens, unless it is for a connection of which one side is gone, or more
\* than one stack of a page made it or answers it: then it opens or does not.
Readings(p, frame) ==
  IF \/ frame.type = "SDP_REOFFER"
     \/ frame.type = "SDP_OFFER" /\ (frame.who \in page[p].peers \/ ~Plain(page[p]))
  THEN {Frame(type, frame.who) : type \in {"SDP_OFFER", "SDP_REOFFER"}}
  ELSE {frame}

\* A page takes its next frame.  connectTo offers peers that are online the connection it
\* has with them if it has one; an answer makes the connection known to both sides.
Handle(p) ==
  /\ inbox[p] # <<>>
  /\ \E frame \in Readings(p, Head(inbox[p])) :
       LET heard == Hears(page[p], p, frame)
           called == {q \in heard.calls \ {p} : page[q].online}
           caller == IF frame.type = "SDP_OFFER" THEN {frame.who} ELSE {}
           Offer(q) ==
             Frame(IF q \in heard.peers \/ ~Plain(heard) THEN "SDP_REOFFER" ELSE "SDP_OFFER", p)
       IN  /\ page' = [q \in Names |->
                IF q = p THEN [heard EXCEPT !.calls = {}, !.peers = @ \cup caller]
                ELSE IF q \in caller /\ page[q].mode = "host"
                     THEN [page[q] EXCEPT !.peers = @ \cup {p}] ELSE page[q]]
           /\ inbox' = [q \in Names |->
                IF q = p THEN Tail(inbox[q])
                ELSE IF q \in called THEN Append(inbox[q], Offer(q)) ELSE inbox[q]]
  /\ UNCHANGED <<vars, notices, claims, announced, unreached, gone, openings, clears, drops>>

\* closePeer on a connection whose other side is gone.
ConnectionFails(p, q) ==
  /\ q \in page[p].peers /\ p \notin page[q].peers
  /\ page' = [page EXCEPT ![p].peers = @ \ {q}]
  /\ UNCHANGED <<vars, inbox, notices, claims, announced, unreached, gone,
                 openings, clears, drops>>

\* onPeerOpen: the channel of an accepted offer opens, and counts if it is the host's.
Open(p, h) ==
  /\ h \in page[p].dialed
  /\ page[h].mode = "host"
  /\ page' = [page EXCEPT ![p].dialed = @ \ {h},
                          ![p].hostDc = IF h = page[p].hostId THEN h ELSE @]
  /\ UNCHANGED <<vars, inbox, notices, claims, announced, unreached, gone,
                 openings, clears, drops>>

\* A page applies what its host broadcasts, a host what its own engine does: more states,
\* or more strokes.
Follow(p) ==
  /\ \/ page[p].mode = "host"
     \/ /\ page[p].mode = "guest" /\ page[p].hostDc # NoName
        /\ page[page[p].hostDc].mode = "host"
  /\ \E floor \in Floors :
       /\ floor[1] > page[p].floor[1]
       /\ page' = [page EXCEPT ![p].floor = floor]
  /\ UNCHANGED <<vars, inbox, notices, claims, announced, unreached, gone,
                 openings, clears, drops>>

-----------------------------------------------------------------------------
\* The election

\* elect on a page's own view: it knows its own floor only.
Candidates(p) == (page[p].known \ {page[p].hostId}) \cup {p}
View(p, q) == IF q = p THEN page[p].floor ELSE <<0, 0>>
Winner(p) == CHOOSE c \in Candidates(p) :
               \A d \in Candidates(p) \ {c} : TupleBeats(View(p, c), c, View(p, d), d)

\* runHostFailover: one shot, and a claim only if this page wins.
RunHostFailover(p) ==
  /\ page[p].timer
  /\ page' = [page EXCEPT ![p].timer = FALSE]
  /\ claims' = IF Winner(p) = p
               THEN claims \cup {[by |-> p, tuple |-> page[p].floor, cold |-> FALSE]}
               ELSE claims
  /\ UNCHANGED <<vars, inbox, notices, announced, unreached, gone, openings, clears, drops>>

\* handleClaimHost: an endorsed claim is announced; only a cold boot heeds the answer.
ServeClaim(claim) ==
  LET endorsed == Endorses(Home, claim.by, claim.tuple)
  IN  /\ claim \in claims
      /\ claims' = claims \ {claim}
      /\ IF endorsed
         THEN ClaimHost(Home, claim.by, claim.tuple) /\ notices' = notices \cup {claim.by}
         ELSE UNCHANGED <<vars, notices>>
      /\ page' = IF claim.cold
                 THEN [page EXCEPT ![claim.by].mode = IF endorsed THEN "endorsed" ELSE "refused"]
                 ELSE page
      /\ UNCHANGED <<inbox, announced, unreached, gone, openings, clears, drops>>

\* UpdateHost(room, "") is exported, and called by tests only: here, for a host that is gone.
ClearHost ==
  /\ Clearable
  /\ drops + clears < MaxMishaps
  /\ UpdateHost(Home)
  /\ page[room[Home].host].mode # "host"
  /\ clears' = clears + 1
  /\ UNCHANGED <<page, inbox, notices, claims, announced, unreached, gone, openings, drops>>

-----------------------------------------------------------------------------
Tab(p) ==
  \/ Lookup(p) \/ Join(p) \/ ColdBoot(p) \/ Booted(p) \/ Connect(p) \/ Drop(p)
  \/ \E bye \in BOOLEAN : Leave(p, bye)

Progress(p) == Handle(p) \/ RunHostFailover(p) \/ \E h \in Names : Open(p, h)

FailoverNext ==
  \/ Create
  \/ \E p, q \in Names : ConnectionFails(p, q)
  \/ \E p \in Names : Tab(p) \/ Progress(p) \/ Follow(p) \/ Announce(p)
  \/ \E claim \in claims : ServeClaim(claim)
  \/ ClearHost
  \/ ClaimLapses(Home) /\ UNCHANGED fvars

\* Frames and answers arrive, sockets connect, timers fire; nobody has to come, stay,
\* follow or clear the host.
FailoverSpec ==
  /\ FailoverInit /\ [][FailoverNext]_allVars
  /\ \A p \in Names : /\ WF_allVars(Progress(p))
                     /\ WF_allVars(Join(p) \/ ColdBoot(p) \/ Booted(p) \/ Connect(p))
  /\ WF_allVars(\E p \in Names : Announce(p))
  /\ WF_allVars(\E claim \in claims : ServeClaim(claim))

-----------------------------------------------------------------------------
\* Properties

Modes == {"closed", "looked", "cold", "claiming", "endorsed", "refused", "guest", "host"}
Someone == Names \cup {NoName}
Frames == [type : {"PEER_JOINED", "PEER_LEFT", "HOST_CHANGED", "SDP_OFFER", "SDP_REOFFER"},
           who : Names]

\* Types; and what the refs of a page say together: a page that is not open has neither
\* handlers nor frames, a host follows itself, and a channel is the host's.
FailoverTypeOK ==
  /\ page \in [Names -> [mode : Modes, hostId : Someone,
                         known : SUBSET Names, timer : BOOLEAN, handlers : Seq({"host", "guest"}),
                         floor : Int \X Int, online : BOOLEAN, hostDc : Someone,
                         dialed : SUBSET Names, calls : {{}},
                         peers : SUBSET Names]]
  /\ inbox \in [Names -> Seq(Frames)] /\ notices \subseteq Names
  /\ announced \in Someone /\ unreached \subseteq Names /\ gone \subseteq Names
  /\ \A p \in Names :
       /\ page[p].mode \notin {"guest", "host"}
            => page[p].handlers = <<>> /\ inbox[p] = <<>> /\ ~page[p].online
       /\ page[p].mode = "host" => page[p].hostId = p
       /\ page[p].hostDc \in {NoName, page[p].hostId}

\* Within the grace window of a claim only a strictly better claim takes the host
\* seat: "a slower arrival with a worse tuple cannot overtake a freshly endorsed
\* peer" (manager.go 233-236).
ClaimsImprove ==
  [][LET old == room[Home]
         new == room'[Home]
     IN  old.host # NoName /\ new.host \notin {old.host, NoName}
           => /\ old.claim.recent
              /\ \/ new.claim.tuple[1] > old.claim.tuple[1]
                 \/ /\ new.claim.tuple[1] = old.claim.tuple[1]
                    /\ new.claim.tuple[2] > old.claim.tuple[2]
                 \/ /\ new.claim.tuple = old.claim.tuple
                    /\ Rank[new.claim.by] < Rank[old.claim.by]]_allVars

\* Pages that have taken all their frames agree with the last announcement that reached
\* them: only the announced player hosts, however often the sides changed before
\* (P2pGameProvider 332-347 and 487-503 stay subscribed side by side).
OneHostAnnounced ==
  \A p \in Names \ unreached :
    announced # NoName /\ page[p].online /\ inbox[p] = <<>>
      => page[p].hostId = announced /\ (page[p].mode = "host" <=> p = announced)

\* A failover timer runs only while the host it stands in for is not among the peers the
\* page knows: a host that came back in the grace window has stopped it (450-454).
TimerMeansHostGone == \A p \in Names : page[p].timer => page[p].hostId \notin page[p].known

\* The announced player hosts in the end, unless it goes or another one is announced.
AnnouncedTakesOver ==
  LET waited == announced \in Online \ unreached /\ page[announced].mode # "host"
  IN  waited ~> ~waited

\* While no socket drops, every guest that the new host saw joining gets a channel to it:
\* "the signaling server won't replay PEER_JOINED for those, so we have to initiate SDP
\* offers ourselves" (379-382).  Unless either goes or was missed by the announcement, or
\* has changed sides before, or the host had another page before, whose connections its
\* peers may still hold.
Stranded ==
  {q \in Online \ unreached :
     /\ announced \in Online \ (unreached \cup gone) /\ drops = 0
     /\ page[announced].mode = "host" /\ q \in page[announced].known /\ Plain(page[announced])
     /\ page[q].mode = "guest" /\ page[q].hostDc # announced /\ Plain(page[q])}

KnownGuestsReconnect == Stranded # {} ~> Stranded = {}

\* "Host failover: when the host disappears, peers elect a new host deterministically
\* and resume the game" (README.md 29-30): somebody hosts again if a guest that knew the
\* host's leaving stays.
HostReplaced ==
  \A p \in Names : page[p].timer
    ~> ~page[p].online \/ \E q \in Names : page[q].mode = "host"
=============================================================================
