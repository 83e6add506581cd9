----------------------------- MODULE GameEngine -----------------------------
(***************************************************************************)
(* The host's game engine (frontend/p2p/engine.ts) together with the       *)
(* server's role draw it calls.  One action per command handler; the       *)
(* asynchronous draw is a request (RoleDraw!Request), the server's steps,  *)
(* and DrawReturns, the code after the await.                              *)
(*                                                                         *)
(* Abstracted: names, colours, points of a stroke, words (a card stands    *)
(* for its word), the version counter and the broadcast that ends every    *)
(* handler.  A command whose guard fails only reports an error: no step.   *)
(***************************************************************************)
EXTENDS RoleDraw, Plurality, Sequences, FiniteSetsExt

CONSTANTS HostWaits,    \* TRUE: the host sends no command during a draw
          Options,      \* what engines are built with: a table's, solo play's
          ConfigChoices \* the CONFIGURE_GAME payloads; 0 leaves a field alone

\* EngineOptions: the GameConfig, and whether there is a RoleDrawer.
Config == [target : Nat \ {0}, strokes : Nat \ {0}, min : Nat \ {0}, server : BOOLEAN]

ASSUME ModeAssumption == HostWaits \in BOOLEAN
ASSUME ConfigAssumption ==
  /\ Options \subseteq Config
  /\ ConfigChoices \subseteq [target : Nat, strokes : Nat, min : Nat]
ASSUME FinitePlayers == IsFiniteSet(Players)

VARIABLES status,
          players,     \* state.players, in join order
          submitted,   \* the players with has_submitted
          pool,        \* ids in state.pool
          used,        \* those marked used
          config,
          round,       \* state.current_round
          past_rounds,
          scores,
          winner

gameVars == <<status, players, submitted, pool, used, config, round,
              past_rounds, scores, winner>>
vars == <<gameVars, drawVars>>

Statuses == {"LOBBY", "WRITING", "ROUND_ANNOUNCE", "DRAWING", "VOTING",
             "FAKE_GUESS", "ROUND_SUMMARY", "GAME_OVER"}

NoVotes == [p \in Players |-> NoOne]

\* current_round = null.
NoRound == [index |-> -1, card |-> NoCard, fake |-> NoOne, order |-> <<>>,
            strokes |-> <<>>, votes |-> NoVotes, guess |-> "none", outcome |-> ""]

NewRound(index, card, fake, order) ==
  [NoRound EXCEPT !.index = index, !.card = card, !.fake = fake, !.order = order]

GameInit ==
  /\ status = "LOBBY"
  /\ players = <<>>
  /\ submitted = {}
  /\ pool = {}
  /\ used = {}
  /\ config \in Options
  /\ round = NoRound
  /\ past_rounds = <<>>
  /\ scores = [p \in Players |-> 0]
  /\ winner = NoOne

Init == GameInit /\ RoleDrawInit

-----------------------------------------------------------------------------
\* Helpers

Joined == Range(players)

\* host_id is the first player who joined.
IsHost(p) == players # <<>> /\ p = players[1]

\* The host page has no draw pending, or does not care.
HostMayAct == HostWaits => \A c \in Calls : ~calls[c].awaited

Artists == Range(round.order)

\* Who draws the next stroke.
CurrentTurn == round.order[(Len(round.strokes) % Len(round.order)) + 1]

TotalStrokesNeeded == config.strokes * Len(round.order)

\* Fisher-Yates over a list of distinct ids: any order of them.
Shuffles(S) == {o \in [1..Cardinality(S) -> S] : IsInjective(o)}

\* The last player of the scan with "p.score > best.score": the first of the best.
TopScorer ==
  LET best == CHOOSE i \in DOMAIN players :
                /\ \A j \in DOMAIN players : scores[players[j]] <= scores[players[i]]
                /\ \A j \in 1..i-1 : scores[players[j]] < scores[players[i]]
  IN  players[best]

GameOver ==
  /\ status' = "GAME_OVER"
  /\ winner' = TopScorer

\* checkGameOver: the target is reached or the engine has no unused card.
GameDecided ==
  \/ \E p \in Joined : scores[p] >= config.target
  \/ pool \subseteq used

\* What the gallery keeps of a round.
Archive(r) == [index |-> r.index, card |-> r.card, fake |-> r.fake,
               artists |-> Range(r.order), guess |-> r.guess, outcome |-> r.outcome]

IsArchived(index) == \E i \in DOMAIN past_rounds : past_rounds[i].index = index

\* Mutant: archiving twice is not detected.
ArchivedTwice == Append(past_rounds, Archive(round))

\* archiveCurrentRound: idempotent, by round index.
Archived == IF IsArchived(round.index) THEN past_rounds
            ELSE Append(past_rounds, Archive(round))

-----------------------------------------------------------------------------
\* Lobby and writing

\* JOIN_GAME by somebody new.  A known id only refreshes its name: no step.
Join(p) ==
  /\ p \notin Joined
  /\ status \in {"LOBBY", "WRITING"}
  /\ players' = Append(players, p)
  /\ UNCHANGED <<status, submitted, pool, used, config, round, past_rounds,
                 scores, winner, drawVars>>

Chosen(offer, current) == IF offer > 0 THEN offer ELSE current

Configure(p, c) ==
  /\ IsHost(p)
  /\ status = "LOBBY"
  /\ config' = [target  |-> Chosen(c.target, config.target),
                strokes |-> Chosen(c.strokes, config.strokes),
                min     |-> Chosen(c.min, config.min),
                server  |-> config.server]
  /\ UNCHANGED <<status, players, submitted, pool, used, round, past_rounds,
                 scores, winner, drawVars>>

\* The non-blank words become cards with fresh ids: none, when all are blank.
SubmitWords(p, words) ==
  /\ status = "WRITING"
  /\ p \in Joined \ submitted
  /\ words \subseteq Cards \ pool
  /\ pool' = pool \cup words
  /\ submitted' = submitted \cup {p}
  /\ UNCHANGED <<status, players, used, config, round, past_rounds, scores,
                 winner, drawVars>>

StartGame(p) ==
  /\ IsHost(p)
  /\ status = "LOBBY"
  /\ Len(players) >= config.min
  /\ status' = "WRITING"
  /\ UNCHANGED <<players, submitted, pool, used, config, round, past_rounds,
                 scores, winner, drawVars>>

-----------------------------------------------------------------------------
\* The round lifecycle

\* prepareRoundServer up to its await: the engine's state is read here and used
\* when the answer arrives.  The status does not change.
RequestDraw(c) ==
  /\ config.server
  /\ Len(players) >= config.min
  /\ Request(c, round.index + 1, Joined, pool \ used)

\* prepareRound: the engine picks card and fake itself, or the game is over.
PrepareLocally ==
  /\ ~config.server
  /\ Len(players) >= config.min
  /\ \/ /\ pool \subseteq used
        /\ GameOver
        /\ UNCHANGED <<used, round>>
     \/ \E card \in pool \ used, order \in Shuffles(Joined), fake \in Joined :
          /\ used' = used \cup {card}
          /\ round' = NewRound(round.index + 1, card, fake, order)
          /\ status' = "ROUND_ANNOUNCE"
          /\ UNCHANGED winner
  /\ UNCHANGED drawVars

\* START_ROUND while the words are written.
StartRound(p) ==
  /\ IsHost(p) /\ HostMayAct
  /\ status = "WRITING"
  /\ Joined \subseteq submitted
  /\ \/ /\ \E c \in Calls : RequestDraw(c)
        /\ UNCHANGED <<status, used, round, winner>>
     \/ PrepareLocally
  /\ UNCHANGED <<players, submitted, pool, config, past_rounds, scores>>

\* START_ROUND once the roles are out.
BeginDrawing(p) ==
  /\ IsHost(p) /\ HostMayAct
  /\ status = "ROUND_ANNOUNCE"
  /\ status' = "DRAWING"
  /\ UNCHANGED <<players, submitted, pool, used, config, round, past_rounds,
                 scores, winner, drawVars>>

\* Mutant: the engine forgets that the dealt card is gone.
DrawReturnsUnmarked(c, order) ==
  /\ calls[c].stage = "answered"
  /\ order \in Shuffles(calls[c].players)
  /\ used' = used
  /\ round' = NewRound(calls[c].index, calls[c].card, calls[c].fake, order)
  /\ status' = "ROUND_ANNOUNCE"
  /\ calls' = [calls EXCEPT ![c] = IdleCall]
  /\ UNCHANGED <<players, submitted, pool, config, past_rounds, scores, winner,
                 known, spent, secrets, losses>>

\* prepareRoundServer after its await.  The status is not looked at again, and
\* index and players are those read before the call.
DrawReturns(c, order) ==
  /\ calls[c].stage = "answered"
  /\ order \in Shuffles(calls[c].players)
  /\ used' = used \cup (pool \cap {calls[c].card})
  /\ round' = NewRound(calls[c].index, calls[c].card, calls[c].fake, order)
  /\ status' = "ROUND_ANNOUNCE"
  /\ calls' = [calls EXCEPT ![c] = IdleCall]
  /\ UNCHANGED <<players, submitted, pool, config, past_rounds, scores, winner,
                 known, spent, secrets, losses>>

\* Mutant: anybody in the round may draw at any time.
SubmitStrokeOutOfTurn(p) ==
  /\ status = "DRAWING"
  /\ p \in Artists
  /\ round' = [round EXCEPT !.strokes = Append(@, p)]
  /\ status' = IF Len(round.strokes) + 1 >= TotalStrokesNeeded THEN "VOTING" ELSE status
  /\ UNCHANGED <<players, submitted, pool, used, config, past_rounds, scores,
                 winner, drawVars>>

SubmitStroke(p) ==
  /\ status = "DRAWING"
  /\ p = CurrentTurn
  /\ round' = [round EXCEPT !.strokes = Append(@, p)]
  /\ status' = IF Len(round.strokes) + 1 >= TotalStrokesNeeded THEN "VOTING" ELSE status
  /\ UNCHANGED <<players, submitted, pool, used, config, past_rounds, scores,
                 winner, drawVars>>

Ballots(votes) == [p \in {q \in Players : votes[q] # NoOne} |-> votes[p]]

\* Mutant: the suspect with the most votes is caught even on a shared lead.
CaughtOnTie(votes) ==
  \A t \in Artists : VotesFor(Ballots(votes), t) <= VotesFor(Ballots(votes), round.fake)

\* tallyVotes: see VoteTally.
Caught(votes) == StrictlyLeads(Ballots(votes), round.fake, Artists)

\* Mutant: the fake's own wrong guess still pays it a point.
PointsForAll(p, r, caught, right) ==
  CASE caught /\ right  -> IF p = r.fake THEN 2 ELSE 0
    [] caught /\ ~right -> 1
    [] ~caught          -> IF p = r.fake THEN 1 ELSE 0

\* finalizeRound: what a player earns.
Points(p, r, caught, right) ==
  CASE caught /\ right  -> IF p = r.fake THEN 2 ELSE 0
    [] caught /\ ~right -> IF p \in Range(r.order) \ {r.fake} THEN 1 ELSE 0
    [] ~caught          -> IF p = r.fake THEN 1 ELSE 0

Finalize(r, caught, right) ==
  /\ round' = [r EXCEPT !.outcome = IF caught /\ ~right THEN "ARTISTS_WON" ELSE "FAKE_WON"]
  /\ scores' = [p \in Players |-> scores[p] + Points(p, r, caught, right)]
  /\ status' = "ROUND_SUMMARY"

\* A vote may be changed until the last one is in.
CastVote(p, suspect) ==
  LET votes == [round.votes EXCEPT ![p] = suspect]
      voted == [round EXCEPT !.votes = votes]
      allIn == \A q \in Artists : votes[q] # NoOne
  IN  /\ status = "VOTING"
      /\ p \in Artists
      /\ suspect \in Artists
      /\ \/ /\ ~allIn
            /\ round' = voted
            /\ UNCHANGED <<status, scores>>
         \/ /\ allIn /\ Caught(votes)
            /\ round' = voted
            /\ status' = "FAKE_GUESS"
            /\ UNCHANGED scores
         \/ /\ allIn /\ ~Caught(votes)
            /\ Finalize(voted, FALSE, FALSE)
      /\ UNCHANGED <<players, submitted, pool, used, config, past_rounds, winner,
                     drawVars>>

\* The word reaches the engine through the assignment of a player who is not the
\* fake: a server-drawn round with one player leaves nothing to guess.
HasWord == config.server => Len(round.order) > 1

FakeGuess(p, right) ==
  /\ status = "FAKE_GUESS"
  /\ p = round.fake
  /\ right => HasWord
  /\ Finalize([round EXCEPT !.guess = IF right THEN "right" ELSE "wrong"], TRUE, right)
  /\ UNCHANGED <<players, submitted, pool, used, config, past_rounds, winner,
                 drawVars>>

\* NEXT_ROUND: archive, end the game or prepare another round.
NextRound(p) ==
  /\ IsHost(p) /\ HostMayAct
  /\ status = "ROUND_SUMMARY"
  /\ past_rounds' = Archived
  /\ \/ /\ GameDecided
        /\ GameOver
        /\ UNCHANGED <<used, round, drawVars>>
     \/ /\ ~GameDecided
        /\ \E c \in Calls : RequestDraw(c)
        /\ UNCHANGED <<status, used, round, winner>>
     \/ /\ ~GameDecided
        /\ PrepareLocally
  /\ UNCHANGED <<players, submitted, pool, config, scores>>

\* Mutant: the running round is archived whatever its status.
EndGameArchives(p) ==
  /\ IsHost(p) /\ HostMayAct
  /\ past_rounds' = Archived
  /\ GameOver
  /\ UNCHANGED <<players, submitted, pool, used, config, round, scores, drawVars>>

\* END_GAME, in any status.
EndGame(p) ==
  /\ IsHost(p) /\ HostMayAct
  /\ past_rounds' = IF status = "ROUND_SUMMARY" THEN Archived ELSE past_rounds
  /\ GameOver
  /\ UNCHANGED <<players, submitted, pool, used, config, round, scores, drawVars>>

-----------------------------------------------------------------------------
\* The server's side of the draws in flight, and the network's.
ServerStep(c) == Serve(c) /\ UNCHANGED gameVars
NetworkLoses(c) == LoseCall(c) /\ UNCHANGED gameVars

\* dispatch: a command of player p.
Command(p) ==
  \/ Join(p)
  \/ \E c \in ConfigChoices : Configure(p, c)
  \/ \E words \in SUBSET (Cards \ pool) : SubmitWords(p, words)
  \/ StartGame(p)
  \/ StartRound(p)
  \/ BeginDrawing(p)
  \/ SubmitStroke(p)
  \/ \E suspect \in Players : CastVote(p, suspect)
  \/ \E right \in BOOLEAN : FakeGuess(p, right)
  \/ NextRound(p)
  \/ EndGame(p)

DrawStep(c) ==
  \/ ServerStep(c)
  \/ NetworkLoses(c)
  \/ \E order \in Shuffles(calls[c].players) : DrawReturns(c, order)

Next == (\E p \in Players : Command(p)) \/ (\E c \in Calls : DrawStep(c))

Spec == Init /\ [][Next]_vars

\* A request that was received is served and an answer that arrived is applied:
\* a Go handler runs to its end and a settled promise is always continued.
CodeFairness ==
  \A c \in Calls :
    /\ WF_vars(ServerStep(c))
    /\ WF_vars(\E order \in Shuffles(calls[c].players) : DrawReturns(c, order))

\* Players who stay at the table and do what the screen asks them for.  Nothing
\* in the code forces them to (there is no turn timer): properties that need
\* this say what the game promises to players who play.
PlayersPlay ==
  \A p \in Players :
    /\ WF_vars(StartRound(p))
    /\ WF_vars(BeginDrawing(p))
    /\ WF_vars(SubmitStroke(p))
    /\ WF_vars(\E suspect \in Players : CastVote(p, suspect))
    /\ WF_vars(\E right \in BOOLEAN : FakeGuess(p, right))
    /\ WF_vars(NextRound(p))

FairSpec == Spec /\ CodeFairness /\ PlayersPlay

-----------------------------------------------------------------------------
\* Properties

PastRound == [index : Nat, card : Cards, fake : Players, artists : SUBSET Players,
              guess : {"none", "right", "wrong"}, outcome : {"FAKE_WON", "ARTISTS_WON"}]

Round == [index : Nat \cup {-1}, card : Cards \cup {NoCard}, fake : Players \cup {NoOne},
          order : Seq(Players), strokes : Seq(Players),
          votes : [Players -> Players \cup {NoOne}],
          guess : {"none", "right", "wrong"},
          outcome : {"", "FAKE_WON", "ARTISTS_WON"}]

\* The variables have the types the interfaces of models.ts declare.
TypeOK ==
  /\ RoleDrawTypeOK
  /\ status \in Statuses
  /\ players \in Seq(Players)
  /\ submitted \in SUBSET Players
  /\ pool \in SUBSET Cards
  /\ used \in SUBSET pool
  /\ config \in Config
  /\ round \in Round
  /\ past_rounds \in Seq(PastRound)
  /\ scores \in [Players -> Nat]
  /\ winner \in Players \cup {NoOne}

\* No card is played twice: a card on its way from the server is spent there,
\* unused here and promised to one call only, and no two rounds of the gallery,
\* nor the current round and an earlier one, show the same card (draw.go
\* MergePool/PickCard against the engine's own bookkeeping, engine.ts 364-366).
DealtOnce ==
  /\ OneCardPerCall
  /\ known \subseteq pool
  /\ \A c \in Calls : calls[c].offered \subseteq pool
  /\ IF config.server THEN used \subseteq spent ELSE \A c \in Calls : calls[c] = IdleCall
  /\ \A c \in Calls : HoldsCard(c) => calls[c].card \notin used
  /\ round.index >= 0 => round.card \in used
  /\ \A i \in DOMAIN past_rounds :
       /\ past_rounds[i].card \in used
       /\ past_rounds[i].card = round.card => past_rounds[i].index = round.index
       /\ \A j \in DOMAIN past_rounds : past_rounds[i].card = past_rounds[j].card => i = j

\* The strokes of a round are those of its players in turn, from the first: never
\* more than agreed, and all of them when the vote opens (handleSubmitStroke,
\* whose modulus and target both depend on settings that must not move).
StrokesInTurn ==
  LET drawn == Len(round.strokes)
  IN  /\ \A i \in 1..drawn : round.strokes[i] = round.order[((i - 1) % Len(round.order)) + 1]
      /\ round.index >= 0 => Len(round.order) > 0
      /\ status \in {"LOBBY", "WRITING"} => round = NoRound
      /\ status = "ROUND_ANNOUNCE" => drawn = 0
      /\ status = "DRAWING" => drawn < TotalStrokesNeeded
      /\ status \in {"VOTING", "FAKE_GUESS", "ROUND_SUMMARY"} => drawn = TotalStrokesNeeded
      /\ status \notin {"LOBBY", "WRITING", "GAME_OVER"} => round.index >= 0

\* Enough people sit at the table for as long as a game runs or a draw is under
\* way: the silent return of prepareRoundServer (engine.ts 347) is never taken.
EnoughPlayers ==
  \/ status \notin {"LOBBY", "GAME_OVER"}
  \/ \E c \in Calls : calls[c].stage # "idle"
  => Len(players) >= config.min

\* A round belongs to people at the table: its players, the fake among them, have
\* joined (and never leave, engine.ts keeps every player), so do those a pending
\* call names; a closed round has an outcome and nobody else has points.
SeatedRounds ==
  /\ \A c \in Calls : calls[c].players \subseteq Joined
  /\ \A c \in Calls : calls[c].stage # "idle" => status # "LOBBY"
  /\ \A c \in Calls : HoldsCard(c) => calls[c].card # NoCard
  /\ round.index >= 0 => round.card # NoCard /\ round.fake \in Artists
  /\ Artists \subseteq Joined
  /\ status = "ROUND_SUMMARY" => round.outcome # ""
  /\ \A p \in Players \ Joined : scores[p] = 0
  /\ status # "LOBBY" => players # <<>>

\* A round runs under the settings and with the strokes its phase implies.
RoundOnTrack == StrokesInTurn /\ EnoughPlayers /\ SeatedRounds

\* When the vote opens every player of the round has drawn exactly
\* strokes_per_artist strokes (engine.ts 265).
EveryoneDrew ==
  status \in {"VOTING", "FAKE_GUESS", "ROUND_SUMMARY"} =>
    \A p \in Artists :
      Cardinality({i \in DOMAIN round.strokes : round.strokes[i] = p}) = config.strokes

\* The fake gets to guess exactly when all voted and no other player has as many
\* votes; the vote stays open until then and is not touched afterwards (handleCastVote).
VerdictMatchesBallots ==
  LET complete == \A p \in Artists : round.votes[p] # NoOne
      against(p) == {q \in Artists : round.votes[q] = p}
      unmasked == \A p \in Artists \ {round.fake} :
                    Cardinality(against(p)) < Cardinality(against(round.fake))
  IN  /\ status = "VOTING" => ~complete
      /\ status = "FAKE_GUESS" => complete /\ unmasked
      /\ status = "ROUND_SUMMARY" => complete /\ (unmasked <=> round.guess # "none")

Earned(p, r) ==
  CASE r.outcome = ""            -> 0
    [] r.outcome = "ARTISTS_WON" -> IF p \in r.artists \ {r.fake} THEN 1 ELSE 0
    [] r.outcome = "FAKE_WON"    -> IF p # r.fake THEN 0 ELSE IF r.guess = "right" THEN 2 ELSE 1

\* What a player earned in all the rounds of a gallery.
Paid(p, gallery) ==
  LET upTo[n \in 0..Len(gallery)] ==
        IF n = 0 THEN 0 ELSE upTo[n - 1] + Earned(p, gallery[n])
  IN  upTo[Len(gallery)]

\* Every score is the sum of what the player earned in the rounds of the gallery
\* and in the current round: no round pays twice, none is paid and then lost.
ScoresExplained ==
  \A p \in Players :
    scores[p] = Paid(p, past_rounds)
                  + IF IsArchived(round.index) THEN 0 ELSE Earned(p, Archive(round))

\* Reveal(round): what clients check the commitment they got against is what the
\* engine played, for the current round and every archived one.  An engine that
\* draws for itself commits to nothing.
RevealMatches(r) ==
  \E s \in secrets : s.index = r.index /\ s.card = r.card /\ s.fake = r.fake

RevealMatchesRounds ==
  config.server =>
  /\ round.index >= 0 => RevealMatches(round)
  /\ \A i \in DOMAIN past_rounds : RevealMatches(past_rounds[i])

\* A host that waits gives the table the game GamePhases promises.
Phases == INSTANCE GamePhases WITH
  phase <- status, roundNo <- round.index + 1, points <- scores, champion <- winner
PhasesKept == Phases!Spec

\* A draw is answered where it was asked for: engine.ts 222-225 says the FSM is
\* frozen while the asynchronous draw completes.
DrawFindsStatusFrozen ==
  [][\A c \in Calls : calls[c].stage = "answered" /\ round' # round
                      => status \in {"WRITING", "ROUND_SUMMARY"}]_vars

\* Players who play see the end: cards run out if nobody reaches the target.
GameEnds == status = "ROUND_ANNOUNCE" ~> status = "GAME_OVER"
=============================================================================
