------------------------------ MODULE GuestView ------------------------------
(* What a guest's page shows of the host's game.  The host broadcasts every  *)
(* stroke and every state over the guest's data channel and, once the guest  *)
(* has used it, over the relay through the signaling server; the page reads  *)
(* one of the two.  Its Replica keeps a floor, the next stroke it expects,   *)
(* and asks the HostBridge for what it misses; its canvas paints the strokes *)
(* that pass the floor.  A state stands for the drawing of its round, which  *)
(* is its first `count` strokes.  A draw that answers late replaces a round  *)
(* the game is in, or goes back to one it has left; a stroke of a replaced   *)
(* round is not told apart from the one that takes its number.               *)
EXTENDS Integers, Sequences, SequencesExt

CONSTANTS PerRound,     \* strokes of a round, turns times artists
          MaxRound,     \* bound: the last round of the host's game
          MaxDraws,     \* bound: draws that are answered, each with a round
          MaxLosses,    \* bound: relayed frames lost and log reads that fail
          MaxAhead,     \* bound: frames on a path beyond which the host pauses
          MaxReloads,   \* bound: how often the guest reloads its page
          RendersFirst  \* TRUE: React paints a state before the next frame

ASSUME SizeAssumption ==
  PerRound \in Nat \ {0} /\ MaxRound \in Nat /\ MaxDraws \in Nat
ASSUME BoundAssumption ==
  /\ MaxLosses \in Nat /\ MaxAhead \in Nat
  /\ MaxReloads \in Nat
  /\ RendersFirst \in BOOLEAN

VARIABLES host,      \* the engine's state: round, strokes so far, phase
          asked,     \* a card was asked for for each round below this number
          draws,     \* how many draws were answered
          log,       \* how many strokes of each round the host's log has
          member,    \* the engine knows this player
          hostEnd,   \* the host's end of the data channel is open
          relayed,   \* the host relays to this player (relayPeers)
          channel,   \* frames on the data channel, to the page
          relay,     \* frames on the relay, to the page
          requests,  \* frames to the host, on each path
          reads,     \* SYNC_REQs the host is reading its log for
          path,      \* the page's transport
          replica,   \* the page's Replica
          shown,     \* the state React last rendered
          canvas,    \* the strokes on DrawCanvas, when it is mounted
          settled,   \* history: nothing disturbed the page since its round was new
          losses, reloads

drawVars == <<asked, draws>>
hostVars == <<host, drawVars, log, member, hostEnd, relayed, reads>>
pageVars == <<path, replica, shown, canvas>>
vars == <<hostVars, channel, relay, requests, pageVars, settled, losses, reloads>>

-----------------------------------------------------------------------------
\* States, strokes and frames

Phases == {"NONE", "LOBBY", "ROUND_ANNOUNCE", "DRAWING", "VOTING", "GAME_OVER"}
GameView == [round : -1 .. MaxRound, count : 0 .. PerRound, status : Phases]
NoView == [round |-> -1, count |-> 0, status |-> "NONE"]
Lobby  == [NoView EXCEPT !.status = "LOBBY"]

Stroke == [round : 0 .. MaxRound, idx : 0 .. PerRound - 1]
\* Strokes number from to upto - 1 of a round, as the log or a state holds them.
Slice(round, from, upto) ==
  [i \in 1 .. (IF upto > from THEN upto - from ELSE 0) |->
     [round |-> round, idx |-> from + i - 1]]
Drawing(s) == Slice(s.round, 0, s.count)

StateUpdate(s)  == [t |-> "STATE_UPDATE", state |-> s]
StrokeAdded(st) == [t |-> "STROKE_ADDED", stroke |-> st]
SyncRes(s, sts) == [t |-> "SYNC_RES", state |-> s, strokes |-> sts]
Frame == [t : {"STATE_UPDATE"}, state : GameView]
           \cup [t : {"STROKE_ADDED"}, stroke : Stroke]
           \cup [t : {"SYNC_RES"}, state : GameView, strokes : Seq(Stroke)]

-----------------------------------------------------------------------------
\* Replica: each operator maps a replica to the next one.  `out` collects the
\* strokes handed to the listeners, `ask` says that requestSyncHook was called.

NoFloor == [round |-> -1, idx |-> 0]
Floor == {NoFloor} \cup [round : 0 .. MaxRound, idx : 0 .. PerRound]
FreshReplica ==
  [view |-> NoView, floor |-> NoFloor, pending |-> <<>>, inFlight |-> FALSE]
Quiet(r) == [view |-> r.view, floor |-> r.floor, pending |-> r.pending,
             inFlight |-> r.inFlight, out |-> <<>>, ask |-> FALSE]
Kept(r) == [view |-> r.view, floor |-> r.floor, pending |-> r.pending,
            inFlight |-> r.inFlight]

\* The round a stroke is taken for: that of the last state, whatever its frame says.
KnownRound(r) ==
  IF r.view.round >= 0 THEN r.view.round
  ELSE IF r.floor # NoFloor THEN r.floor.round ELSE 0

Deliver(r, strokes) == [r EXCEPT !.out = @ \o strokes]

\* How many of the positions 1 .. n come before the first that is not good.
Leading(n, good) ==
  CHOOSE k \in 0 .. n : 1 .. k \subseteq good /\ (k = n \/ k + 1 \notin good)

\* Of strokes in the order of their numbers: those from number n on; and all of
\* them with st, which goes behind its equals.  pending is in that order: the code
\* sorts it before each use.
From(strokes, n) ==
  SubSeq(strokes,
         Leading(Len(strokes), {i \in DOMAIN strokes : strokes[i].idx < n}) + 1,
         Len(strokes))
Insert(strokes, st) ==
  InsertAt(strokes,
           Leading(Len(strokes), {i \in DOMAIN strokes : strokes[i].idx <= st.idx}) + 1,
           st)

\* drainPending: the loop stops at the first entry that is not the next one,
\* and what is below the floor then is thrown away.
DrainPending(r) ==
  IF r.floor = NoFloor THEN r
  ELSE LET run  == Leading(Len(r.pending),
                           {i \in DOMAIN r.pending :
                              r.pending[i].idx = r.floor.idx + i - 1})
           next == r.floor.idx + run
       IN  [Deliver(r, SubSeq(r.pending, 1, run)) EXCEPT
              !.floor.idx = next,
              !.pending   = From(@, next)]

\* Mutant: a state only moves the floor to another round, not up within its own.
ApplyStateNoSnap(r, s) ==
  LET moved == s.round # r.floor.round
  IN  [r EXCEPT
         !.view    = s,
         !.floor   = IF s.round < 0 THEN NoFloor
                     ELSE IF moved THEN [round |-> s.round, idx |-> s.count]
                     ELSE @,
         !.pending = IF moved \/ s.round < 0 THEN <<>> ELSE @]

\* A state moves the floor to its round, and up within it, never down.
ApplyState(r, s) ==
  LET moved == s.round # r.floor.round
  IN  [r EXCEPT
         !.view    = s,
         !.floor   = IF s.round < 0 THEN NoFloor
                     ELSE IF moved \/ s.count > @.idx
                          THEN [round |-> s.round, idx |-> s.count]
                          ELSE @,
         !.pending = IF moved \/ s.round < 0 THEN <<>> ELSE @]

\* applyStroke: the next stroke is delivered, a later one waits and asks for sync.
ApplyStroke(r, st) ==
  LET round == KnownRound(r)
      q     == IF r.floor = NoFloor THEN [r EXCEPT !.floor = [round |-> round, idx |-> 0]]
               ELSE r
  IN  IF round # q.floor.round \/ st.idx < q.floor.idx THEN q
      ELSE IF st.idx = q.floor.idx
           THEN DrainPending([Deliver(q, <<st>>) EXCEPT !.floor.idx = @ + 1])
           ELSE [q EXCEPT !.pending = Insert(@, st), !.ask = ~q.inFlight, !.inFlight = TRUE]

\* Mutant: every stroke of the answer is delivered, also those below the floor.
ApplySyncResUnchecked(r, s, strokes) ==
  LET round == IF s.round >= 0 THEN s.round ELSE IF r.floor # NoFloor THEN r.floor.round ELSE 0
      q     == IF r.floor.round # round
               THEN [r EXCEPT !.floor = [round |-> round, idx |-> 0], !.pending = <<>>]
               ELSE r
      next  == IF strokes = <<>> THEN q.floor.idx ELSE Last(strokes).idx + 1
      met   == DrainPending([Deliver(q, strokes) EXCEPT !.floor.idx = next])
  IN  DrainPending([ApplyState(met, s) EXCEPT !.inFlight = FALSE])

\* applyFrame: the strokes at or above the floor are delivered as strokes of the
\* round of the state they travel with, then that state is applied.
ApplySyncRes(r, s, strokes) ==
  LET round == IF s.round >= 0 THEN s.round ELSE IF r.floor # NoFloor THEN r.floor.round ELSE 0
      q     == IF r.floor.round # round
               THEN [r EXCEPT !.floor = [round |-> round, idx |-> 0], !.pending = <<>>]
               ELSE r
      new   == From(strokes, q.floor.idx)
      next  == IF new = <<>> THEN q.floor.idx ELSE Last(new).idx + 1
      met   == DrainPending([Deliver(q, new) EXCEPT !.floor.idx = next])
  IN  DrainPending([ApplyState(met, s) EXCEPT !.inFlight = FALSE])

Apply(r, f) ==
  CASE f.t = "STATE_UPDATE" -> ApplyState(r, f.state)
    [] f.t = "STROKE_ADDED" -> ApplyStroke(r, f.stroke)
    [] f.t = "SYNC_RES"     -> ApplySyncRes(r, f.state, f.strokes)

-----------------------------------------------------------------------------
\* The host's side: Engine, HostBridge and the relay of the provider

Init ==
  /\ host = Lobby /\ asked = 0 /\ draws = 0 /\ log = [i \in 0 .. MaxRound |-> 0]
  /\ member = FALSE
  /\ hostEnd = FALSE /\ relayed = FALSE /\ reads = <<>>
  /\ channel = <<>> /\ relay = <<>> /\ requests = [dc |-> <<>>, relay |-> <<>>]
  /\ path = "none" /\ replica = FreshReplica /\ shown = NoView /\ canvas = <<>>
  /\ settled = FALSE /\ losses = 0 /\ reloads = 0

\* Frames go out on every path there is; those relayed to a page that reads its
\* data channel are dropped there, and here at once.
Broadcast(frames, byRelay) ==
  /\ channel' = IF hostEnd THEN channel \o frames ELSE channel
  /\ relay' = IF byRelay /\ path # "dc" THEN relay \o frames ELSE relay

\* Mutant: the state is broadcast before the stroke that led to it.
HostMovesStateFirst(next, strokes) ==
  /\ Len(channel) < MaxAhead /\ Len(relay) < MaxAhead
  /\ host' = next
  /\ Broadcast(<<StateUpdate(next)>> \o strokes, relayed)
  /\ UNCHANGED <<member, hostEnd, relayed, reads, requests, pageVars, settled,
                 losses, reloads>>

\* The game goes on without asking this guest: rounds, and strokes of the others.
HostMoves(next, strokes) ==
  /\ Len(channel) < MaxAhead /\ Len(relay) < MaxAhead
  /\ host' = next
  /\ Broadcast(strokes \o <<StateUpdate(next)>>, relayed)
  /\ UNCHANGED <<member, hostEnd, relayed, reads, requests, pageVars, settled,
                 losses, reloads>>

\* START_ROUND and NEXT_ROUND ask the server for a card of the next round, as often as
\* they are sent (WRITING counts as LOBBY, all from the vote to the summary as VOTING).
HostAsks ==
  /\ host.status \in {"LOBBY", "VOTING"}
  /\ host.round < MaxRound /\ host.round + 1 >= asked
  /\ asked' = host.round + 2
  /\ UNCHANGED <<host, draws, log, member, hostEnd, relayed, reads, channel, relay,
                 requests, pageVars, settled, losses, reloads>>

\* The answer to any of these requests announces its round, whatever the game does.
HostAnnounces ==
  /\ draws < MaxDraws
  /\ draws' = draws + 1
  /\ \E i \in 0 .. asked - 1 :
       HostMoves([round |-> i, count |-> 0, status |-> "ROUND_ANNOUNCE"], <<>>)
  /\ UNCHANGED <<asked, log>>

HostBegins ==
  /\ host.status = "ROUND_ANNOUNCE"
  /\ HostMoves([host EXCEPT !.status = "DRAWING"], <<>>)
  /\ UNCHANGED <<drawVars, log>>

\* A stroke is also recorded under its round and number, over one of a replaced round.
HostStroke ==
  /\ host.status = "DRAWING"
  /\ LET next == host.count + 1
     IN  /\ HostMoves([host EXCEPT !.count = next,
                                   !.status = IF next >= PerRound THEN "VOTING" ELSE @],
                      <<StrokeAdded([round |-> host.round, idx |-> host.count])>>)
         /\ log' = [log EXCEPT ![host.round] = IF next > @ THEN next ELSE @]
  /\ UNCHANGED drawVars

\* END_GAME in any phase, or a round that decides the game.
HostEnds ==
  /\ host.status # "GAME_OVER"
  /\ HostMoves([host EXCEPT !.status = "GAME_OVER"], <<>>)
  /\ UNCHANGED <<drawVars, log>>

HostEndOpens ==
  /\ ~hostEnd
  /\ hostEnd' = TRUE
  /\ UNCHANGED <<host, drawVars, log, member, relayed, reads, channel, relay, requests,
                 pageVars, settled, losses, reloads>>

\* A request the host takes next.
Asked(via, t) == requests[via] # <<>> /\ Head(requests[via]).t = t
Taken(via) == requests' = [requests EXCEPT ![via] = Tail(@)]

\* Mutant: only a newcomer makes the engine broadcast its state.
TakeJoinOnce(via) ==
  /\ Asked(via, "JOIN_GAME")
  /\ relayed' = (relayed \/ via = "relay")
  /\ \/ /\ ~member /\ host.status = "LOBBY"
        /\ member' = TRUE
        /\ Broadcast(<<StateUpdate(host)>>, relayed')
     \/ /\ member \/ host.status # "LOBBY"
        /\ UNCHANGED <<member, channel, relay>>
  /\ Taken(via)
  /\ UNCHANGED <<host, drawVars, log, hostEnd, reads, pageVars, settled, losses, reloads>>

\* JOIN_GAME: a known player, or anybody before the first round, makes the engine
\* broadcast its state; a stranger to a running game gets an ERROR only.
TakeJoin(via) ==
  /\ Asked(via, "JOIN_GAME")
  /\ relayed' = (relayed \/ via = "relay")
  /\ \/ /\ member \/ host.status = "LOBBY"
        /\ member' = TRUE
        /\ Broadcast(<<StateUpdate(host)>>, relayed')
     \/ /\ ~member /\ host.status # "LOBBY"
        /\ UNCHANGED <<member, channel, relay>>
  /\ Taken(via)
  /\ UNCHANGED <<host, drawVars, log, hostEnd, reads, pageVars, settled, losses, reloads>>

\* serveSyncReq up to its await: the strokes are read from the log ...
TakeSyncReq(via) ==
  /\ Asked(via, "SYNC_REQ")
  /\ LET q == Head(requests[via])
     IN  reads' = Append(reads, Slice(q.round, q.from, log[q.round]))
  /\ Taken(via)
  /\ UNCHANGED <<host, drawVars, log, member, hostEnd, relayed, channel, relay, pageVars,
                 settled, losses, reloads>>

\* ... and after it, sent with the state of that moment.
AnswerSync ==
  /\ reads # <<>>
  /\ reads' = Tail(reads)
  /\ channel' = Append(channel, SyncRes(host, Head(reads)))
  /\ UNCHANGED <<host, drawVars, log, member, hostEnd, relayed, relay, requests, pageVars,
                 settled, losses, reloads>>

\* A log read that fails is answered by nothing, and the page is not told.
ReadFails ==
  /\ reads # <<>>
  /\ losses < MaxLosses
  /\ losses' = losses + 1
  /\ reads' = Tail(reads)
  /\ UNCHANGED <<host, drawVars, log, member, hostEnd, relayed, channel, relay, requests,
                 pageVars, settled, reloads>>

-----------------------------------------------------------------------------
\* The page

\* The page opens with a JOIN_GAME on its new path.
Joining == [t |-> "JOIN_GAME"]
Asking(r) == [t |-> "SYNC_REQ", from |-> r.floor.idx,
              round |-> IF r.view.round >= 0 THEN r.view.round ELSE 0]

\* The ICE timeout of wireGuest.
FallBack ==
  /\ path = "none"
  /\ path' = "relay"
  /\ requests' = [requests EXCEPT !.relay = Append(@, Joining)]
  /\ settled' = FALSE
  /\ UNCHANGED <<hostVars, channel, relay, replica, shown, canvas, losses, reloads>>

\* onPeerOpen: from now on the data channel is read; a sync is asked for, unless
\* the replica believes that one is under way.
PeerOpen ==
  /\ path # "dc"
  /\ hostEnd
  /\ path' = "dc"
  /\ relay' = <<>>
  /\ requests' = [requests EXCEPT !.dc = @ \o
                     IF replica.inFlight THEN <<Joining>>
                     ELSE <<Joining, Asking(replica)>>]
  /\ replica' = [replica EXCEPT !.inFlight = TRUE]
  /\ settled' = FALSE
  /\ UNCHANGED <<hostVars, channel, shown, canvas, losses, reloads>>

\* A page that learns of a new round from its announcement, with no sync under
\* way, is in a position to follow it from the first stroke on.
SettlesIn(f) ==
  /\ f.t = "STATE_UPDATE"
  /\ f.state.status = "ROUND_ANNOUNCE"
  /\ f.state.round # replica.floor.round
  /\ ~replica.inFlight

\* A round of the same number replaces the one the page has strokes of: applyState does
\* not take the floor down, and the first strokes of the new round are below it.
Replaced(f) ==
  /\ f.t = "STATE_UPDATE"
  /\ f.state.status = "ROUND_ANNOUNCE"
  /\ f.state.round = replica.floor.round
  /\ replica.floor.idx > 0

\* One frame into the replica, the strokes it delivers onto a mounted canvas.  (The
\* set of one makes TLC compute the new replica once.)
Receive(f) ==
  /\ RendersFirst => shown = replica.view
  /\ \E r \in {Apply(Quiet(replica), f)} :
         /\ replica' = Kept(r)
         /\ canvas' = IF shown.status = "DRAWING" THEN canvas \o r.out ELSE canvas
         /\ requests' = IF r.ask /\ path = "dc"
                        THEN [requests EXCEPT
                                !.dc = Append(@, [Asking(r) EXCEPT !.round = KnownRound(r)])]
                        ELSE requests
  /\ settled' = ((settled /\ ~Replaced(f)) \/ SettlesIn(f))
  /\ UNCHANGED <<hostVars, path, shown, losses, reloads>>

ReceiveChannel ==
  /\ path = "dc"
  /\ channel # <<>>
  /\ channel' = Tail(channel)
  /\ Receive(Head(channel))
  /\ UNCHANGED relay

ReceiveRelay ==
  /\ path = "relay"
  /\ relay # <<>>
  /\ relay' = Tail(relay)
  /\ Receive(Head(relay))
  /\ UNCHANGED channel

\* A relayed frame for a page without transport is dropped, as a frame is that
\* was sent while the page's signaling socket reconnected.
DropFrame ==
  /\ path = "none"
  /\ relay # <<>>
  /\ relay' = Tail(relay)
  /\ UNCHANGED <<hostVars, channel, requests, pageVars, settled, losses, reloads>>

LoseFrame ==
  /\ losses < MaxLosses
  /\ path = "relay"
  /\ relay # <<>>
  /\ relay' = Tail(relay)
  /\ losses' = losses + 1
  /\ settled' = FALSE
  /\ UNCHANGED <<hostVars, channel, requests, pageVars, reloads>>

\* React: DrawCanvas is mounted while drawing, and takes the strokes of the state
\* when it mounts and when the round index changes.
Render ==
  /\ shown # replica.view
  /\ shown' = replica.view
  /\ canvas' = IF replica.view.status # "DRAWING" THEN <<>>
               ELSE IF shown.status # "DRAWING" \/ shown.round # replica.view.round
                    THEN Drawing(replica.view)
                    ELSE canvas
  /\ UNCHANGED <<hostVars, channel, relay, requests, path, replica, settled,
                 losses, reloads>>

\* A reloaded page starts over; its channel and what was under way on it are gone
\* (a log read is long over when a new channel opens).
Reload ==
  /\ reloads < MaxReloads
  /\ path # "none"
  /\ reloads' = reloads + 1
  /\ path' = "none" /\ replica' = FreshReplica /\ shown' = NoView /\ canvas' = <<>>
  /\ hostEnd' = FALSE /\ reads' = <<>>
  /\ channel' = <<>> /\ relay' = <<>>
  /\ requests' = [requests EXCEPT !.dc = <<>>]
  /\ settled' = FALSE
  /\ UNCHANGED <<host, drawVars, log, member, relayed, losses>>

Host == HostAnnounces \/ HostBegins \/ HostStroke \/ HostEnds
Answers ==
  \/ \E via \in {"dc", "relay"} : TakeJoin(via) \/ TakeSyncReq(via)
  \/ AnswerSync
  \/ ReadFails
Page == FallBack \/ PeerOpen \/ ReceiveChannel \/ ReceiveRelay \/ DropFrame \/ Render
Next == Host \/ HostAsks \/ HostEndOpens \/ Answers \/ Page \/ LoseFrame \/ Reload
Spec == Init /\ [][Next]_vars

\* ReceiveChannel without the work of the Replica, so that TLC need not do it again: no
\* other step takes a frame off the channel and stays on it.
TakesFrame ==
  /\ path = "dc" /\ channel # <<>> /\ (RendersFirst => shown = replica.view)
  /\ channel' = Tail(channel) /\ path' = path

\* A data channel delivers, a received request is handled and React renders.
Delivery == WF_<<channel, path>>(TakesFrame) /\ WF_vars(Answers) /\ WF_vars(Render)
FairSpec == Spec /\ Delivery

-----------------------------------------------------------------------------
\* Properties

Request ==
  [t : {"JOIN_GAME"}]
    \cup [t : {"SYNC_REQ"}, from : 0 .. PerRound, round : 0 .. MaxRound]

\* Types; and the Replica's own bookkeeping: its floor is in the round of its
\* state and not below what that state shows (replica.ts 137-148).
TypeOK ==
  /\ host \in GameView
  /\ asked \in 0 .. MaxRound + 1 /\ draws \in 0 .. MaxDraws
  /\ log \in [0 .. MaxRound -> 0 .. PerRound]
  /\ member \in BOOLEAN /\ hostEnd \in BOOLEAN /\ relayed \in BOOLEAN
  /\ reads \in Seq(Seq(Stroke))
  /\ channel \in Seq(Frame) /\ relay \in Seq(Frame)
  /\ requests \in [dc : Seq(Request), relay : Seq({Joining})]
  /\ path \in {"none", "relay", "dc"}
  /\ replica \in [view : GameView, floor : Floor, pending : Seq(Stroke), inFlight : BOOLEAN]
  /\ replica.view.round >= 0 =>
       /\ replica.floor.round = replica.view.round
       /\ replica.floor.idx >= replica.view.count
  /\ shown \in GameView
  /\ canvas \in Seq(Stroke)
  /\ settled \in BOOLEAN
  /\ losses \in 0 .. MaxLosses /\ reloads \in 0 .. MaxReloads

\* Whatever path the frames take, however often the page changes path, reloads or
\* asks for sync, and whichever rounds late draws replace: no stroke number is painted
\* twice or out of order, and what the canvas has is never above the floor, so that no
\* later frame can paint it again (replica.ts 116, 171-184, 196; DrawCanvas 31-43).
PaintedOnce ==
  /\ \A i, j \in DOMAIN canvas : i < j => canvas[i].idx < canvas[j].idx
  /\ shown.round = replica.view.round =>
       \A i \in DOMAIN canvas : canvas[i].idx < replica.floor.idx

\* A page that was told of the round and has since neither changed path, lost a frame,
\* reloaded nor, with strokes of the round, been told of another of the same number shows
\* exactly the drawing of the round up to its floor, and has no reason to ask for anything
\* (the whole of Replica, fed by relayBroadcast).
SettledPageIsComplete ==
  settled =>
    /\ ~replica.inFlight /\ replica.pending = <<>>
    /\ shown = replica.view /\ shown.status = "DRAWING"
         => canvas = Slice(shown.round, 0, replica.floor.idx)

\* A player whose page reads its data channel sees the state the host is in, in
\* the end: neither the answers to JOIN_GAME and SYNC_REQ nor stale frames of the
\* other path hold it back (P2pGameProvider.jsx 507-524, "Kick a SYNC_REQ in case
\* we missed strokes pre-DC-open").
ViewCatchesUp == path = "dc" /\ member ~> replica.view = host \/ path # "dc"

\* hostBridge.ts 28-30 and replica.ts 102-105: the answer to a SYNC_REQ carries the
\* right slice, and its strokes "must always be delivered to listeners regardless
\* of the gap-check floor": a canvas open when it arrives is complete after it.
SyncCompletesCanvas ==
  [][ReceiveChannel /\ Head(channel).t = "SYNC_RES" /\ shown.status = "DRAWING"
       /\ Head(channel).state.round = shown.round
     => canvas' = Slice(shown.round, 0, replica'.floor.idx)]_vars
=============================================================================
