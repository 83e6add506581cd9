# Verification of fakeartist

*A Fake Artist Goes to New York* is played here without a game server: the page
of one player, the **host**, runs the game engine; the other pages, the
**guests**, send it commands and show the state it broadcasts. A small Go server
keeps a registry of rooms, relays signaling frames, stores the host's
checkpoints, and draws the secret word and the fake artist of each round so
that not even the host learns them.

This directory holds TLA+ models of that system, the TLC runs that check them on
small instances, and theorems about them that TLAPS checks for every instance.
`PROJECT.json` lists components, runs, mutants, findings, hazards and theorems,
and maps each definition to the lines it translates. All paths below are
relative to the repository.

    tlc -workers 2 -config GamePatient.cfg MCGameEngine      # one run
    tlapm GameEngine_proofs.tla                              # one proof

## 1. Inventory

| component | code | state | operations |
|---|---|---|---|
| host game engine | `frontend/p2p/engine.ts`, `models.ts` | status, players, pool, config, current round, gallery, scores, version | one handler per command: JOIN, CONFIGURE_GAME, SUBMIT_WORDS, START_GAME, START_ROUND, BEGIN_DRAWING, SUBMIT_STROKE, CAST_VOTE, FAKE_GUESS, NEXT_ROUND, END_GAME; the continuation of the asynchronous role draw |
| server role draw | `internal/rooms/draw.go`, `frontend/p2p/engineHttp.ts`, `handleRoundStart`, `handleReveal` | per room: known cards, spent cards, the secret of each round index | MergePool, PickCard, RecordSecret, Reveal |
| room registry | `internal/rooms/manager.go`, `models.go` | rooms by id and by code, players, host, last claim, snapshot version, finished tag | CreateRoom, RegisterPlayer, SaveCheckpoint, SetFinished, UpdateHost, ClaimHost, SweepOnce |
| HTTP handlers, signal router | `internal/server/*.go` | none of their own | a handler is two or three calls of the registry, the hub or the draw, in separate critical sections |
| signaling hub | `internal/signal/hub.go`, `client.go` | clients, clientsByPlayerID, clientsByRoom; seven channels; a send buffer per client | the select loop; reader and writer pump of each connection |
| guest replica, host bridge | `frontend/p2p/replica.ts`, `hostBridge.ts` | last state, expected stroke, pending strokes, sync in flight | apply, applyFrame, requestSync; relayBroadcast, serveSyncReq |
| stroke log | `frontend/p2p/log.ts` | append-only strokes per room and round | append, readFrom |
| checkpoint dispatcher | `frontend/p2p/checkpoint.ts` | strokes since the last flush, a flush pending or running, last flushed version and time | observing strokes and states, the timer, flush with the read of the log, posts with retries |
| failover and page life cycle | `frontend/p2p/election.ts`, `components/P2pGameProvider.jsx` | refs of the page: host id, known peers, channels, failover timer, subscribed handlers, replica or engine | lookup, join, cold boot, connecting, leaving, electing, claiming, promotion, demotion, calling the peers |
| transports, peer hub, signaling client | `transport.ts`, `peerHub.ts`, `signaling.ts` | peer connections, buffered ICE candidates, back-off | offer/answer, relay fallback, reconnect |
| commitment check, export | `crypto.ts`, `exportPng.ts` | none | pure |
| user interface, storage drivers, bundler, SSR | `components/*`, `internal/storage`, `internal/bundler`, `internal/server/renderer.go` | none that the protocol depends on | |

**How they interact.** A command reaches the engine as a direct call (host page)
or as a CMD frame over a data channel or, when WebRTC fails, over the signaling
WebSocket. Each handler ends in a broadcast to all guests and a note to the
checkpoint dispatcher, which posts the state to the registry. START_ROUND and
NEXT_ROUND call the server's role draw and continue after an `await`, so other
commands run in between. WebSocket handlers push their connection through three
hub channels one after another; the registry's sweeper asks the hub over a
fifth to close the rooms it evicts. Guests that miss the host claim its seat at
the registry; the hub tells the room who won.

**What is hard here.** (a) The `await` inside two engine handlers. (b) The role
draw's three critical sections, per call, for several calls in flight, with
answers that get lost. (c) A `select` that takes channels in no order, fed by
goroutines that push related things through different channels. (d) Handlers
that release the registry's lock between two dependent writes, and a sweeper that
works on after releasing it. (e) Bounded buffers whose overflow is handled by
dropping. (f) Frames of one host arriving over two paths. The 40 hazards this
leads to are in `PROJECT.json`, each at its line with the properties for it;
those no property covers yet say so.

**What makes each part correct.**

- Engine and draw: no card is dealt twice; a round's strokes are its players'
  in turn and all there when the vote opens; the verdict is the strict plurality;
  scores are exactly what the rounds paid; what `/reveal` publishes is what was
  played; phases come in the order of `PLAN.md`; the game ends.
- Registry: a code leads to one room; the stored checkpoint is the newest, is
  what the room reports, and goes with its room; the finished tag agrees with it;
  a weaker claim never displaces an endorsed one; a vanished host is replaced.
- Hub: it never touches a closed channel; its three maps agree; a live
  connection is known; dead connections and reaped rooms are forgotten.
- Guest's page: it paints each stroke at most once and in order; a page that
  nothing disturbed shows the whole drawing; it catches up with the host.
- Checkpoints: what is stored only moves forward in the order in which the game was
  announced and drawn, with a log tail that reaches its state; a dispatcher at rest has forgotten neither a phase nor more
  than two flushes' worth of strokes; the last state gets stored.
- Failover: pages agree on the announced host, only a better claim takes the seat, a
  host that comes back stops the timers, the announced host takes over and calls the
  guests it knows. That it can go on with the game is not claimed (section 7).

## 2. Modules

    Plurality ── VoteTally ── VoteTally_proofs
        │
    RoleDraw ── GameEngine ── GameEngine_proofs ── GameRounds_proofs
                    │  └── MCGameEngine (TLC)
                GamePhases (abstract, refined by GameEngine)

    SignalHub ── SignalHub_proofs      GuestView ── GuestView_proofs
        └── MCSignalHub

    RoomRegistry ── RoomRegistry_proofs, MCRoomRegistry
        ├── CheckpointDispatcher ── CheckpointDispatcher_proofs
        │       └── MCCheckpoints
        └── Failover ── Failover_proofs, MCFailover

**Plurality** defines a strict leader of a vote without reference to any loop.
**VoteTally** is the loop of `tallyVotes` (`engine.ts` 469-488), one action per
entry of the Map and per comparison, with every order in which the Map may yield
the suspects. The engine uses the definition, the module justifies it.

**RoleDraw** models the server's draw as calls in flight. A call is *requested*,
then goes through `MergePool`, `PickCard` (card and fake, nondeterministic: the code
uses a random source) and `RecordSecret`, each its own step because each takes
and releases the room's lock, and is then *answered* or *failed*. `awaited` says
that the engine still waits: a lost answer ends the wait but not the call, which
the server may still serve afterwards. Hashes and nonces are dropped: a secret is
(round index, card, fake).

**GameEngine** has one action per command handler and `DrawReturns` for the
code after the await. Guards are the handlers' checks. The variables are the
fields of `GameState`; cards stand for their words; a stroke is the id of its
player; `has_submitted` is a set; the commitments, names, colours, the version
counter and the broadcasts are left out. A refused command only sends an ERROR
and is no step. `checkGameOver`, `archiveCurrentRound` and the scoring are part of
the handlers that call them. `config.server` says whether the engine was built with
a `RoleDrawer`; the solo engine has none and draws in the handler itself.

**GamePhases** is what the table is promised: phases, round numbers, points and
champion, without pool, draws, votes or strokes. `GameEngine!Phases` maps
`status`, `round.index + 1`, `scores` and `winner` to it.

**SignalHub** has one action per push of a connection's goroutines
(`ServeWs`, the pumps) and one per case of the hub's select. `stage` is the
program counter of a connection. A push blocks while its channel is full; a
send to, or a close of, a closed channel sets `panicked`, after which nothing
moves. Frames are abstracted to their effect on send buffers. The hub's Broadcast
channel is left out: nothing in the program sends on it.

**RoomRegistry** has one action per critical section of the manager.
`handleSaveSnap` is three of them (`PostSnapshot`, `SaveCheckpoint` or its
refusals, `SetFinished`); `SweepOnce` is `Sweep` under the lock and a
`DropCheckpoint` per room after it. Clocks are abstracted to what is compared
with them: `age` 0, 1 or 2 for a room fresh, past FinishedGrace, past IdleTTL,
and `recent` for a claim within its window. In its own `Next` the host's page is
careless: it posts any state it ever had while its earlier posts still run. The
pages as they are come with the next two modules, which extend this one and use its
actions as the server's part of theirs.

**CheckpointDispatcher** puts `checkpoint.ts` between an engine reduced to what the
dispatcher sees (versions, status, strokes per round) and the registry's posts.
`disp` is the object's fields and its running flush, whose `stage` follows the awaits:
idle, reading (the log), sending, waiting (for an answer). A handler of the engine is one
task: it emits the stroke, which the bridge logs and the dispatcher counts, and then the
state, so both observers are part of `Broadcast`. The body of a flush is taken when it
begins, except the strokes, an array that the copied round shares with the engine
and that is serialised with each attempt; `sent` and `kept` say what each post
and the stored checkpoint carry. `RequestLost` and `AnswerLost` differ: after the
latter the server still serves the post, next to its retry. `EndFlush` begins the
flush asked for meanwhile in the same step, as the code does, whether the posts are
over (`Finish`) or the log read rejected (`LogFails`: nothing is posted and nothing
counts as flushed). A round comes from the answer of a draw (`RoundAnnounced`), which
the engine takes in whatever phase it is, GAME_OVER included: `play.asked` says for which
indices a draw was asked, any of them may be answered again, and the round under way, or
the last one, is then replaced by one of its index without strokes. `play` therefore keeps a list of
announcements with the index and the strokes of each; "round" in this module is a place in that
list. The log is by index, so strokes of a replaced round stay in it until they
are written over (`Logged`). `ImplementsRegistry`
is the registry's own `Spec`: this page is one of the careless ones, so what holds of
the registry there holds here.

**Failover** is the life of every page of one room. A page is a record of the
provider's refs: `mode`, `hostId`, `known` (peers seen joining), `timer`, `floor` (version
and strokes of its replica, which a host has as well), `hostDc`, `peers` (peer connections it holds), and
`handlers`, the subscriptions, which are never cancelled when a page changes sides, so
that each frame goes through all of them (`Hears`). The server's half is the
registry's `CreateRoom`, `RegisterPlayer`, `ClaimHost`, `UpdateHost`. A frame
of the hub goes to the `inbox` of every connected page at once; the announcement
of an endorsed claim waits in `notices`, since the goroutines of two claims race for the
hub after the registry's lock is gone. A claim counts only its author's floor: floors
are not gossiped, and unknown ones are (0, 0), so in a game with a state every guest
elects itself and the registry decides. Cold boot is looked, cold, claiming,
then endorsed or refused. WebRTC is offers and answers: an offer of a fresh connection
opens; one for a connection of which one side is gone, or made or answered by a page
with more than one stack of handlers, opens or does not (`Readings`).
A page that is still joining is not closed.

**GuestView** is one guest's page and what the host sends it. `channel` and
`relay` are the two paths to the page, `requests` those to the host, which each keep
their order. The Replica is
a record, its methods (`ApplyState`, `ApplyStroke`, `ApplySyncRes`,
`DrainPending`) functions from a replica to the next one, with the strokes handed
to the listeners in `out`. Its pending strokes are kept in the order of their numbers,
equals in the order they came: the code appends and sorts, stably, before each use,
so nothing reads them in another order. `shown` and `canvas` are what React last rendered and
what DrawCanvas holds. A state is round, number of strokes and phase: its drawing
is its first `count` strokes. `serveSyncReq` is two actions, before and after it
awaits the log; a read that rejects (`ReadFails`) leaves the page without an answer. The
engine is reduced to the broadcasts of a round and of the game's end, which go on without
waiting for this guest. As in the dispatcher's model a draw may be answered more than once
and at any time: `HostAsks` notes for which rounds a card was asked, `HostAnnounces` takes the
game to any of them from any phase, and `log` keeps by round number what was drawn, so
that a shorter replacement does not hide the rest. A stroke is its round and number: that of
a replaced round is not told apart from the one that takes its number. A page reads the relay until its data
channel opens and drops relayed frames from then on. A reload starts the page
over; whether a data channel opens after it is left open. `settled` is a history
variable: the page learnt of the round from its announcement and has neither
changed path, lost a frame nor reloaded since, nor been told, with strokes of the round, of
another one of the same number (`Replaced`).

**Modes.** Some constants select between what the code allows and what its
author assumed, so that a property that needs the assumption is checked under it
and its failure without it is on record:

| constant | FALSE: all the code allows | TRUE |
|---|---|---|
| `HostWaits` (engine) | commands during a draw in flight | the host page sends no command until the draw is over (the buttons stay enabled in the code) |
| `BindsFirst` (hub) | select in any order, registrations overtaken | nothing overtakes the three pushes of a registration; what the sleep in `handlers_p2p_test.go` 603 arranges |
| `RendersFirst` (guest) | frames arrive before React has rendered the last state | React renders a state before the next frame |
| `Clearable` (failover) | no handler clears a room's host (so in the code) | somebody calls `UpdateHost(room, "")`, as only the tests do, once the host's page is gone: makes room for claims |

## 3. Runs

| run | bounds | question, and what it shows |
|---|---|---|
| `VoteTally` | 4 players, all ballots, all orders | the loop names exactly the strict leader, if there is one |
| `GamePatient` | 3 players, 3 cards, 1 call, 1 loss, host waits; also the solo engine | cards, turns, verdicts, scores and reveals agree, and the game refines `GamePhases`, through a lost answer and the host's second try |
| `GameLiveness` | 2 players, 2 cards, no loss, fair | an announced round leads to GAME_OVER |
| `HubCalm` | 3 connections (one a reload), 2 rooms, buffers 2/2/1, fair | registrations not overtaken: no panic, maps agree and hold every live connection, the newest connection stays bound, dead connections and reaped rooms are forgotten for good |
| `RegistryPosts` | 2 rooms, 1 code, 2 overlapping posts, 1 storage error | the stored checkpoint is the one the room reports, and goes with its room |
| `Checkpoints` | 2 announcements (of two rounds, or of one twice) of 3 strokes, a flush after 2, log tail of 2, 2 posts per flush, 1 loss or failed log read, 1 storage error, 2 posts at the server, version at most 6, fair | the dispatcher is a page of the registry; checkpoints only advance, are complete, lag by fewer strokes than two flushes' worth, also when a late draw replaces a round; the last state is stored |
| `Failover` | 3 players, 3 pages opened, 1 socket dropped or host cleared, 2 floors, fair | pages agree on the announced host, which takes over and calls its guests; a host's return stops the timers; only better claims win |
| `GuestFollows` | 2 rounds of 2 strokes or one that is replaced, host at most 3 frames ahead, 1 lost frame or failed log read, 1 reload, fair | no stroke number is painted twice, an undisturbed page has the whole drawing, also when a late draw replaces a round; a page on its data channel ends up with the host's state |
| `FrozenDraw`, `HubPanics`, `NoFailover`, `GuestResync` | 2 players; 3 connections; 2 players, 2 pages opened; 2 rounds, 1 reload | each must find a statement of the repository violated (section 6) |

**Why the bounds are enough.** Three players are the fewest with a strict
majority, a tie and a late joiner left out of a round; four (VoteTally) the
fewest with 2-2 and 2-1-1. Three cards make a third round that meets two
archived ones. Overlapping draws are left to the theorems of section 4, which
hold for any number of calls and losses, and to `FrozenDraw`. One loss makes
engine and server disagree. `ShortGame` takes
one stroke each, and 2 points to win so that each way of scoring ends a game in
one round or two; the engine's defaults (4 players, 2 strokes, 5 points) stay as the
initial configuration, which is why each run first configures its game. The
hub's buffers are 64 (channels), 4 (CloseRoom) and 64 (send) in the code: all
that matters is empty, partly filled and full, so they are scaled to 1 to 4.
In `GamePatient` and `FrozenDraw` players and cards are
interchangeable (ids are only compared for equality) and in `RegistryPosts`
rooms and slots are; runs with liveness use no symmetry.
Rounds of three strokes with a flush after two make a flush begin in the middle of a
round, with a stroke of the next flush before the vote; two posts per flush are the
fewest with a retry, one loss fewer than that leaves each flush an answer, two
slots hold a post and its retry (or the next flush's). Version 6 is reached by a
join and a round announced, begun and drawn in full, or replaced after two strokes, or
replaced and begun again after one; version 7, with a stroke in both rounds, was explored
as well (1.9 million states). Three pages are the fewest in
which a host goes while one guest claims and another watches, or one player comes
back; one mishap clears the seat or cuts one page off from an announcement (two
players with four pages, 204,000 states, pass as well). Two rounds are the fewest
in which a stroke can end up in the wrong one, two strokes the fewest with one
missing before another; the Replica knows no more than floor and round, so longer
rounds repeat the same situations. Two announcements
make a next round or a replaced one; three, and a host that pauses after three frames
instead of two, pass as well (2.6 and 1.2 million states). `MaxVersion`,
`MaxFailures`, `MaxLosses`, `MaxReloads`, `MaxRound`, `MaxRounds`, `MaxDraws`, `MaxAhead`,
`MaxOpenings`, `MaxMishaps` and the finite `Slots` and `Calls` only cap how often
something happens; `Floors` caps how far a replica gets, `Threshold`, `TailSize`,
`Attempts` and `RoundStrokes` scale the code's 16 strokes, 64 log entries and 5 posts. Room ids are random in the code, so each is used once.

**Deadlock** is checked in the engine: as long as the game is not over somebody
can act, and after it the host can end it again, which the code allows. It is off where
the system may stop: all connections gone and rooms reaped, the hub dead, all room
ids used, the loop over, the guest's game at its last round, the version at its bound,
no page left to open.

**Fairness.** `CodeFairness` (engine): a request the server received is served and
an answer that arrived is applied, since a Go handler runs to its end and a
settled promise is continued. `PlayersPlay`: each player takes the turn, vote or
guess asked for. The code cannot promise this (there is no turn timer), so the
two liveness properties of the engine are about people who play. SignalHub:
weak fairness per select case (Go picks at random among the ready ones) and
per goroutine; none on disconnects or sweeps. CheckpointDispatcher:
the timer fires, the log answers and the server serves what reached it; nobody has
to play, and losses are bounded. Failover: frames and answers arrive, a socket that
dropped reconnects (`signaling.ts` 117-130 tries without end), timers fire, offers of
fresh connections open, goroutines of claims run to their end; nobody has to come,
stay, follow a game or clear a host. GuestView: an open data
channel delivers (`TakesFrame`, which names `ReceiveChannel` by what it does to the channel), the host handles what it received, React renders; nothing makes
a channel open or a relayed frame arrive.

Every property of a passing run has a *mutant*: an operator, next to the
definition it replaces and labelled "Mutant", that changes one handler as a
plausible slip would and that TLC must find to break the property.

## 4. Theorems

`VoteTally_proofs`, for every finite set of players:

- `TallyTypeCorrect`, `LoopInvariantHolds`: the loop's invariant (the leader so
  far is strictly ahead of all suspects seen, or the best count is shared).
- `VerdictCorrect`: a finished loop names the strict plurality.
  The invariant is needed because the verdict says nothing about a loop half done.

`GameEngine_proofs`, for every finite set of players, every set of cards and of calls,
every configuration, with or without server, **and without assuming that the host
waits or that no answer is lost**:

- `CardsDealtOnce`: `Spec => []DealtOnce`.
- `RoundsOnTrack`: `Spec => []RoundOnTrack`.
- `TypeCorrect`: `Spec => []TypeOK`.
- `InvHolds`: the inductive invariant behind all three,
  `TypeOK /\ DealtOnce /\ StrokesInTurn /\ EnoughPlayers /\ SeatedRounds`.

None of the parts is inductive alone. `DealtOnce` has to say where a card may be
besides the gallery: offered by a call, held by a call after PickCard, spent at
the server, used in the engine; a card held by one call is held by no other and
is used nowhere. `StrokesInTurn` needs that settings only move in the LOBBY and
that `DrawReturns` never brings a round without players, which is
`EnoughPlayers` (at least `min_players >= 1` once the lobby is left) applied to the
players the call was *requested* with; that these are still among the players is
`SeatedRounds`. The proof has a lemma per command handler and per step of the
draw, under each one step per part it can disturb; facts about sequences and sets
used in several places are lemmas of their own.

`GameRounds_proofs` goes on from there to what a round comes to. First it sorts the
steps by what they do to the current round (`RoundSteps`): announce another one, leave
it alone, or play on in it. Then, still without any assumption on the host:

- `AllHaveDrawn`: `Spec => []EveryoneDrew`. `StrokesInTurn` gives the place of every
  stroke; that each player has exactly `strokes` of them needs that the order names
  nobody twice (`OrderInjective`, invariant because a shuffle is a permutation) and a
  count of the turns `i` with `i % n = k` (`TurnsEven`).
- `VerdictFollows`: `Spec => []VerdictMatchesBallots`. The invariant (`BallotsInv`) adds
  that votes are cast by and for the round's players, that none is there before the
  vote, and that nobody has guessed before the summary.

and about the draws and their host:

- `RevealsMatch`: `Spec /\ []OneDraw => []RevealMatchesRounds`, where `OneDraw` says that
  at most one call is between request and answer. The invariant (`SecretsInv`): a
  running call is for the round after the current one, no round of the gallery is later
  than that, and the secret of a call is there when its answer leaves. Without `OneDraw` two calls for one index overwrite
  each other's secret (section 6).
- `PatientRevealsMatch`: `OneDraw` is what the runs' hosts give: there is one call only,
  or the host waits and no answer is lost.
- `WaitingHostKeepsPhases`: `HostWaits` gives `Spec => PhasesKept`, the refinement of
  `GamePhases`, with one lemma per phase change. The invariant it needs on top of `Inv`
  (`AwaitInv`): one call at most is awaited, only in WRITING or ROUND_SUMMARY and for the
  next round; only an awaited call is answered; at GAME_OVER the winner is the top
  scorer.
- `ScoresAddUp`: `HostWaits` gives `Spec => []ScoresExplained`. The invariant
  (`ScoresInv`) has to say of every moment which term of the sum the current round is in:
  rounds enter the gallery in the order of their numbers, an unpaid round is not in it,
  and by the time a new round can be announced the last one is. The sum is a recursive function
  over the gallery; that it exists and that a longer gallery adds one term
  (`SumsExist`, `SumsAgree`, `PaidMore`) is shown from the least natural number at which it would fail.
  Lost answers are allowed: the host's second NEXT_ROUND finds the round archived.

`HostWaits` is an assumption about people, not about the code: the page leaves its
buttons enabled during a draw. What fails without it is in section 6.

`SignalHub_proofs`, for any connections, players, rooms and buffer sizes, with select
in any order and registrations overtaken by anything:

- `HubTypeCorrect`: `Spec => []TypeOK`.
- `LiveConnectionsNeverLost`: `Spec => []LiveConnectionsKnown`. It says nothing of a
  registration half done, so the invariant (`Accounted`) goes by what the hub has
  handled: past its Register a connection is in `clients`, past its BindRoom in its
  room, or else its channel is closed. Each goroutine step has to show that it
  skips no push (`StageStep`), each hub step that whoever it forgets it closes
  (`MapStep`). `HubCalm` checks the property on an instance; TLC need not explore
  the overtaken registrations for it.
- `HubSurvivesCalm`, `MapsAgreeCalm`, `BoundUntilGoneCalm`: `BindsFirst` gives
  `Spec => []HubSurvives`, `[]MapsAgree` and `BoundUntilGone`. The invariant (`Orderly`)
  ties each channel to the goroutine that pushes into it: who waits in BindRoom is
  past its Register, who waits in Unregister is gone, and a channel is closed only when
  its registration is complete and in no map, so no second close and no send can reach
  it. It also needs that a connection found under a player's id is that player's and that
  a player belongs to one room (`IdentityAssumption`: `RegisterPlayer` mints the id for a room,
  and `handleSignalWS` looks it up in that room's roster). `HubPanics` shows that
  `BindsFirst` cannot be dropped.

`RoomRegistry_proofs`, for any rooms, codes, names, posts in flight and storage errors:

- `RegistryInvariant`: `AllSpec => []Inv`, where `AllSpec` adds to the run's actions
  the joins, the claims, the clearing of a host, and posts of any version by anybody:
  every operation of the manager, in any order.
- `RegistryTypeCorrect`, `CheckpointCurrent`, `CheckpointsGo`: `Spec => []TypeOK`,
  `[]SnapshotIsCurrent`, `[]NoOrphanCheckpoint`. The invariant has to add that
  nothing is stored for a room not yet created and that every created one has a
  creator (so that an unborn room is in no map), and that the orphans are
  finitely many, without which counting them says nothing.

`CheckpointDispatcher_proofs`, for any thresholds, tails, retries, losses and rounds:

- `DispatcherImplements`: `DispatcherSpec => ImplementsRegistry`. The one step that has to
  be shown is that an attempt posts a version the game has had. It needs
  `PageInv`: a flush under way carries such a version, and at most one post is awaited,
  and only by a flush that waits: otherwise the answer to an old post would end a
  newer flush.
- `DispatcherKeepsCurrent`: the registry's theorem, carried over by the refinement.

and, with any number of posts at the server:

- `DispatcherTypeCorrect`, `FlushesGoForward`, `TailsReach`, `LittleForgotten`,
  `TagFollows`: `DispatcherSpec => []` of `DispatcherTypeOK`, `FlushesAdvance`,
  `TailReachesState`, `NothingForgotten`, `FinishedMatchesSnapshot`.
- `KeptAdvances`: `DispatcherSpec => CheckpointsAdvance`, an action property.

They share one invariant, `FlushInv`, in named parts. `Sound` is about the dispatcher: each
stroke counted since the last flush has brought a version (`flushed + since <=
version`), so the next flush is of a newer one; a request made during a flush is for a
version after the flush's; what `Recent` allows the last body to lack depends on the stage.
`Copied` ties a body to the announcement it is of, which has at least its strokes by now,
and, if no earlier announcement of the index had more strokes (`Longest`), its tail to
them: a replaced round never gets another stroke, so this does not change afterwards.
`Packed` and `Matched` are about the posts: of any two bodies on their way or stored, the
one of the higher version is not earlier in the game (`Ordered`), and a slot holds the
body the post in it was sent with. `FewOrphaned` counts the posts whose answer was
lost, and `Tagged` says of a post between its two critical sections what it is about to set.

What cannot be had more cheaply shows in the proofs: `FlushesAdvance` needs
`Threshold > 1`, and with `NothingForgotten` a factor of two is lost at exactly one
step, the end of a flush (section 6 has both counterexamples).

`Failover_proofs`, for any players, pages, lost sockets and claims:

- `OnlyBetterClaims`: `FailoverSpec => ClaimsImprove`. One lemma per operation of the
  registry that a page leads to; all others leave the room alone.
- `FailoverTypeCorrect`, `PagesAgree`, `TimersMeanGone`: `FailoverSpec => []` of
  `FailoverTypeOK`, `OneHostAnnounced`, `TimerMeansHostGone`.
- `FailoverImplements`: `FailoverSpec => AllSpec`, so that the registry's invariant holds
  under the pages; the step that needs the invariant is a claim, which is of a player
  with a floor of a page.

The last two items share one invariant, `FailoverInv`. `Tidy` says of a page what makes a
frame harmless whichever handlers it goes through: a page on one side has a handler of
that side, and a timer runs only where a guest's handler is subscribed, because
only that handler can stop it. `Reached` is `OneHostAnnounced` of a page that still has frames to take:
the last announcement among them is the hub's last, or there is none and the page
agrees already. Hence no announcement may be lost unnoticed (`unreached`), and a page that is
not open is never counted as reached. The registry's `Inv` is a part: a room is created once,
so nobody else's page is open when it is (`CreateInv`).

One frame goes through all handlers of a page, a recursive function over their number.
That the function exists (`TurnsExist`) and what it keeps (`HearsMidway`) come from
`Steps`, induction stated for a set of numbers. Halfway through the page is not `Tidy`: a host
that hears of a successor is a guest of it with the timer it had until a guest's handler
is reached. `Midway` describes it by whether a handler of either side has been passed.

`GuestView_proofs`, for rounds of any length, any number of rounds, lost frames and
reloads, and a host any number of frames ahead:

- `TypeCorrect`: `Spec => []TypeOK`, with or without `RendersFirst`. That the floor is
  in the round of the state and not below it needs of every answer on the channel that
  its strokes are in order (`TypeInv`).
- `PaintsOnce`: `RendersFirst` gives `Spec => []PaintedOnce`.
- `SettledComplete`: `RendersFirst` gives `Spec => []SettledPageIsComplete`.

Each method of the Replica has a lemma that says what it does in general
(`ApplyStateIs`, `ApplyStrokeIs`, `DrainPendingIs`, `ApplySyncResIs`): the strokes handed
out are rising, at or above the old floor and below the new one, and the floor rises
unless the round changes. The helpers on strokes in order (`From`, `Insert`) are
described from one fact, that `Leading` finds the first position that is not good, shown from
the least such number.

Both painting theorems rest on what is under way (`WayInv`). `Paths`: the frames on a
path follow each other (`Links`, where any round may be announced after any state) and the
last one tells of the state the host is in, so a stroke is always followed by its own state. `One`: at most one sync is under way,
as a request, a read of the log or an answer, and then the replica knows. `Firsts`: the
answer the page reads next is in the round of its state, or has nothing below its
floor; it is why the answer to a reloaded page, which asked before it knew a round,
paints nothing twice. (`PaintedOnce` goes by the numbers of strokes: that they may be
those of another round is what `GuestResync` finds.) On top, `Painted` says that the canvas rises and is
below the floor of its round. For a settled page, `Settled` adds where the floor is: at the
strokes of the state, and the next frame follows that state; or one stroke ahead, on
a canvas that is shown, and the next frame is that stroke's state. A round announced again
leaves a settled page either with no strokes of the round, where nothing changes, or not
settled (`Replaced`).

`RendersFirst` is an assumption about the browser's scheduling. Without it a stroke that
comes between the state that opens the canvas and React's effects has no listener,
and frames that take the Replica back to the start of a round repaint its strokes:
both properties fail (section 6).

The assumptions are the named ones of the modules: sets of players finite, modes
boolean, configurations positive numbers, sentinels outside their sets.

## 5. Only model-checked

- Liveness and anything under fairness (`GameEnds`, `UnregisteredForgotten`,
  `ReapedRoomsEmptied`, `ViewCatchesUp`, `LastStateStored`, `AnnouncedTakesOver`,
  `KnownGuestsReconnect`): out of the prover's reach.

Every invariant and every action property of a passing run is a theorem, and so are
the two refinements.

## 6. Findings

Four runs must find a counterexample; `PROJECT.json` quotes the lines.

| run | what the code does |
|---|---|
| `FrozenDraw` | `engine.ts` 223 says the state machine is frozen while the draw runs. Nothing marks it: a second START_ROUND starts a second draw, whose answer replaces the round under way; an END_GAME in between is undone by it. |
| `HubPanics` | A disconnect or room close handled between the registration steps of a connection leaves its closed channel in the maps; the next frame panics the hub. |
| `NoFailover` | The host says BYE, its guest's grace timer fires, the guest claims the room, and `ClaimHost` refuses: the room still has a host and no recent claim, and nothing clears it. The timer is one-shot, so nobody hosts again, whatever `README.md` 29-30 says. |
| `GuestResync` | A reloaded page asks for strokes before it has a state, and so for round 0; it gets those of round 0 with the state of the current round and paints them into the current drawing, and the real strokes of the round are then below its floor and ignored. When it asks for the right ones, the answer to its JOIN_GAME has raised the floor over them before they arrive, and `replica.ts` 116 skips them. |

More are one constant, or one conjunct of a property, away from a passing run,
which is how the assumption was found to be needed:

| change | property that fails | what the code does |
|---|---|---|
| `GamePatient` with `Calls = {k1, k2}` | `RevealMatchesRounds` | A draw asked again while the server still serves the first, whose answer was lost: the secrets of one round index overwrite each other (`draw.go` 156), and `/reveal` may contradict the round played. |
| `GamePatient` with `HostWaits = FALSE`, `Calls = {k1, k2}` (2 players are enough) | `ScoresExplained` | A draw asked for in WRITING is answered after the round of another one was scored: the closed round is replaced before NEXT_ROUND archives it. Its points stay, and no round of the gallery explains them. |
| `GameLiveness` with `MaxLosses = 1` | `GameEnds` | The lost answer took the last card: the engine counts it as unused, the server refuses each further draw, the summary is never left. |
| `HubCalm` with `CloseCap = 1` | `ReapedRoomsEmptied` | A full CloseRoom buffer drops the request; the comment at `server.go` 55 says the next sweep retries, but the room has left the registry. |
| `GuestFollows` with `RendersFirst = FALSE` | `SettledPageIsComplete` | A stroke that arrives between the state that opens the canvas and React's effects has no listener, and the canvas does not read the state again until the next round (`DrawCanvas.jsx` 30-41). |
| `GuestFollows` with `RendersFirst = FALSE` | `PaintedOnce` | A page that followed the round on the relay opens its data channel, on which older frames wait: they take its Replica back to the round's start, and the strokes they bring are painted once more on a canvas React has not unmounted in between. |
| `Checkpoints`, `CheckpointsAdvance` by `index` instead of by announcement | itself | A round is announced and a stroke of it stored; a second answer of its draw announces the index again (`engine.ts` 398-411), and the flush of that change of status stores a newer version with fewer strokes of the same round. |
| `Checkpoints`, `TailReachesState` without its condition (`TailSize = 1`, `MaxVersion = 8`) | itself | A round with two strokes is replaced by one of its index, which has one when it is flushed: the last entry of the log is still the second stroke of the replaced round (`log.ts` 108-139, `checkpoint.ts` 104). |
| `Checkpoints`, `NothingForgotten` with the current round in ROUND_ANNOUNCE as well | itself | Two announcements in a row are no change of status: the second one is flushed only when the timer fires or the drawing begins (`checkpoint.ts` 80-86). |
| `GuestFollows`, `SettledPageIsComplete` without `Replaced` | itself | A round is announced again while a guest has strokes of it: its floor stays (`replica.ts` 137-144), the remounted canvas is empty, and the new strokes below the floor are ignored (`replica.ts` 171), though no frame was lost. |
| `Checkpoints` with `MaxLosses = 2` | `LastStateStored` | A flush whose posts all failed counts as flushed (`checkpoint.ts` 116): nothing is posted again until the version moves. |
| `Checkpoints`, `LastStateStored` without `failures > 0` | itself | A storage error is answered 409, which `postWithBackoff` takes for "older than what is stored" and does not retry. |
| `Checkpoints`, `FinishedMatchesSnapshot` without `lost.answers = 0` | itself | A post whose answer was lost sets its finished tag after that of a newer one (`handlers_p2p.go` 269). |
| `Checkpoints` with `Threshold = 1` (and its assumption dropped) | `FlushesAdvance` | The stroke is counted before its state has a version: a flush begins with the version of the last one. |
| `NothingForgotten` with `2 * Threshold - 3` | itself | Strokes drawn while a flush posts are not counted afterwards (`strokesSinceFlush = 0` comes last), so the lag is up to twice `Threshold - 1`. |
| `KnownGuestsReconnect` without `Plain` | itself | A page that was demoted keeps its dead host stack subscribed, which may answer the new host's offer. |
| `KnownGuestsReconnect` without `gone`, 2 players, 4 pages | itself | Peers still hold the connection of a host's former page and offer it again (`peerHub.ts` 145). |

Also met while modelling, and built into the models as they are: only a host that
says BYE arms anybody's timer (`handlers_p2p.go` 362); later joiners never learn of
earlier ones, since PEER_JOINED is not replayed; the comment at `election.ts` 4-6,
that all peers elect the same player, does not hold while floors are not gossiped; a
promoted page's engine goes on from the number of states the page has applied
(`seedVersion`), so its checkpoints are refused until it is past the old host's; a page that was promoted, demoted and promoted again has two
guest handlers and is promoted twice by one announcement.

## 7. Not modelled, and why

Rendering, pointer handling, PNG export, the bundler, SSR, configuration: no
state the protocol depends on. Storage drivers: plain I/O behind an interface,
taken as a store whose calls may fail. WebRTC itself and WebSocket framing:
third-party. Hashing (`crypto.ts`): what a commitment is for is stated by
`RevealMatchesRounds`. Names, colours, points and wording: data no property
tells apart. `DeleteRoom` is not called by the program.

The state a promoted host starts its engine from (`P2pGameProvider.jsx` 226): it is
sanitized, so it lacks the fake artist and names the old host; a cold boot parses an object
as if it were JSON text and starts from nothing. No run can say more than that the new
host cannot go on, and NoFailover shows that the program gets there only through a
host cleared by hand. Role messages, relayed commands and errors: payloads that no
modelled component looks into. `close` of the dispatcher and of the transports: the end
of a page is one step in Failover. ICE candidates buffered before the remote
description (`transport.ts`), the relay that takes over after four seconds, and
the order of log keys beyond ten strokes (`log.ts` 115, a lexicographic comparison):
hazards without a property in `PROJECT.json`.

## 8. Plan

The runs stay at about a dozen: a theorem that holds for every mode retires the run
that explored one (as `LiveConnectionsNeverLost` did), and runs that ask the same
question of two modules merge when the modules are composed.

1. **GuestView**, extended: roles, a data channel that breaks, strokes the guest
   submits itself; an abstract canvas (the drawing of the round, growing) that a
   settled page implements.
2. **PeerLinks**: candidates buffered until the remote description, the entry that
   outlives its connection in the peer hub, relay fallback against a late data channel.
3. Composition of SignalHub with RoomRegistry (the upgrade's look-up against the sweep)
   and of CheckpointDispatcher with Failover (the posts of a promoted host, whose
   versions are lower).
4. Theorems for what these add; for the modules as they are, what is left is liveness.
