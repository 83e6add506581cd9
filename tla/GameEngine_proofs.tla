------------------------- MODULE GameEngine_proofs -------------------------
(***************************************************************************)
(* What holds of the game engine and the server's draw for every number of *)
(* players, cards and overlapping calls, every configuration, with or      *)
(* without a server, whether the host waits or not and answers get lost.   *)
(***************************************************************************)
EXTENDS GameEngine, FiniteSetTheorems, WellFoundedInduction, TLAPS

-----------------------------------------------------------------------------
\* The scoreboard has a first best player: the scan of assignWinner finds one.
LEMMA TopScorerBest ==
  ASSUME players \in Seq(Players), players # <<>>, scores \in [Players -> Nat]
  PROVE  /\ TopScorer \in Joined
         /\ TopScorer \in Players
         /\ \A p \in Joined : scores[p] <= scores[TopScorer]
<1> DEFINE D == 1..Len(players)
           Beats(j, i) == \/ scores[players[j]] > scores[players[i]]
                          \/ scores[players[j]] = scores[players[i]] /\ j < i
           Above(i) == {j \in D : Beats(j, i)}
           Cuts == {Above(i) : i \in D}
           R == StrictSubsetOrdering(D)
           IsBest(i) == /\ \A j \in DOMAIN players : scores[players[j]] <= scores[players[i]]
                        /\ \A j \in 1..i-1 : scores[players[j]] < scores[players[i]]
<1>1. Len(players) \in Nat \ {0} /\ DOMAIN players = D /\ \A i \in D : players[i] \in Players
  OBVIOUS
<1>2. IsFiniteSet(D)
  BY <1>1, FS_Interval
<1>3. IsWellFoundedOn(R, FiniteSubsetsOf(D))
  BY <1>2, FS_StrictSubsetOrderingWellFounded
<1>4. Cuts \subseteq FiniteSubsetsOf(D) /\ Cuts # {}
  <2>1. \A i \in D : Above(i) \in SUBSET D /\ IsFiniteSet(Above(i))
    BY <1>2, FS_Subset
  <2>2. 1 \in D
    BY <1>1
  <2> HIDE DEF Above, D
  <2> QED
    BY <2>1, <2>2 DEF FiniteSubsetsOf
<1>5. PICK least \in Cuts : \A other \in Cuts : <<other, least>> \notin R
  <2> HIDE DEF Cuts, R
  <2> QED
    BY <1>3, <1>4, WFMin
<1>6. PICK b \in D : least = Above(b)
  BY <1>5
<1>7. Above(b) = {}
  <2> SUFFICES ASSUME NEW j \in Above(b)
               PROVE  FALSE
    OBVIOUS
  <2>1. j \in D /\ scores[players[j]] \in Nat /\ scores[players[b]] \in Nat
    BY <1>1
  <2>2. Above(j) \subseteq Above(b)
    <3> SUFFICES ASSUME NEW k \in D, Beats(k, j)
                 PROVE  Beats(k, b)
      OBVIOUS
    <3>1. scores[players[k]] \in Nat
      BY <1>1
    <3> QED
      BY <2>1, <3>1
  <2>3. j \notin Above(j)
    BY <2>1
  <2>4. <<Above(j), Above(b)>> \in R
    BY <2>2, <2>3 DEF StrictSubsetOrdering
  <2> QED
    BY <1>5, <1>6, <2>1, <2>4
<1>8. IsBest(b)
  <2> SUFFICES ASSUME NEW j \in D
               PROVE  /\ scores[players[j]] <= scores[players[b]]
                      /\ j < b => scores[players[j]] < scores[players[b]]
    BY <1>1
  <2>1. ~Beats(j, b)
    BY <1>7
  <2>2. scores[players[j]] \in Nat /\ scores[players[b]] \in Nat
    BY <1>1
  <2> QED
    BY <2>1, <2>2
<1>9. \E i \in DOMAIN players : IsBest(i)
  BY <1>1, <1>8
<1> DEFINE best == CHOOSE i \in DOMAIN players : IsBest(i)
<1>10. best \in DOMAIN players /\ IsBest(best)
  <2> HIDE DEF IsBest
  <2> QED
    BY <1>9
<1>11. TopScorer = players[best]
  BY DEF TopScorer
<1> HIDE DEF best
<1> QED
  BY <1>1, <1>10, <1>11 DEF Joined, Range

\* The empty sequence has no positions.
LEMMA NobodyInEmpty == DOMAIN <<>> = {}
<1>1. <<>> \in Seq({}) /\ Len(<<>>) = 0
  OBVIOUS
<1>2. DOMAIN <<>> = 1..0
  BY <1>1
<1> QED
  BY <1>2

\* A shuffled list has the same people in it.
LEMMA ShufflesCover ==
  ASSUME NEW S, IsFiniteSet(S), NEW o \in Shuffles(S)
  PROVE  /\ o \in Seq(S)
         /\ Len(o) = Cardinality(S)
         /\ Range(o) = S
<1>1. Cardinality(S) \in Nat
  BY FS_CardinalityType
<1> DEFINE n == Cardinality(S)
<1>2. o \in [1..n -> S] /\ IsInjective(o)
  BY DEF Shuffles
<1>3. o \in Seq(S) /\ Len(o) = n
  BY <1>1, <1>2
<1>4. IsFiniteSet(1..n) /\ Cardinality(1..n) = n
  BY <1>1, FS_Interval
<1>5. o \in Injection(1..n, S)
  BY <1>2 DEF Injection
<1>6. o \in Surjection(1..n, S)
  BY <1>4, <1>5, FS_Injection
<1>7. Range(o) = S
  BY <1>1, <1>2, <1>6 DEF Surjection, Range
<1> QED
  BY <1>3, <1>7

\* The people at the table, seen as a set.
LEMMA JoinedFacts ==
  ASSUME players \in Seq(Players)
  PROVE  /\ Joined \in SUBSET Players
         /\ IsFiniteSet(Joined)
         /\ Joined # {} <=> players # <<>>
         /\ \A p \in Players : Range(Append(players, p)) = Joined \cup {p}
<1>1. Joined \in SUBSET Players
  BY DEF Joined, Range
<1>2. IsFiniteSet(Joined)
  BY <1>1, FinitePlayers, FS_Subset
<1> DEFINE n == Len(players)
<1>0. n \in Nat /\ DOMAIN players = 1..n /\ (players = <<>> <=> n = 0)
  OBVIOUS
<1>3. Joined # {} <=> players # <<>>
  <2>1. Joined = {players[i] : i \in 1..n}
    BY <1>0 DEF Joined, Range
  <2>2. n > 0 => players[1] \in Joined
    BY <1>0, <2>1
  <2> QED
    BY <1>0, <2>1, <2>2
<1>4. ASSUME NEW p \in Players
      PROVE  Range(Append(players, p)) = Joined \cup {p}
  <2> DEFINE longer == Append(players, p)
  <2>1. /\ DOMAIN longer = 1..n+1
        /\ longer[n+1] = p
        /\ \A i \in 1..n : longer[i] = players[i]
    BY <1>0
  <2> HIDE DEF longer
  <2>2. Range(longer) = {longer[i] : i \in 1..n+1} /\ Joined = {players[i] : i \in 1..n}
    BY <1>0, <2>1 DEF Range, Joined
  <2>3. 1..n+1 = 1..n \cup {n+1}
    BY <1>0
  <2> QED
    BY <1>0, <2>1, <2>2, <2>3 DEF longer
<1> QED
  BY <1>1, <1>2, <1>3, <1>4

-----------------------------------------------------------------------------
\* The inductive invariant.  Types and cards are not inductive alone: a closed
\* round is archived with an outcome and a fake, which SeatedRounds knows, and
\* the round a phase implies exists, which StrokesInTurn knows.
Inv ==
  /\ TypeOK
  /\ DealtOnce
  /\ StrokesInTurn
  /\ EnoughPlayers
  /\ SeatedRounds

\* The empty room satisfies the invariant.
LEMMA InitInv == Init => Inv
<1> SUFFICES ASSUME Init
             PROVE  Inv
  OBVIOUS
<1> USE DEF Init, GameInit, RoleDrawInit
<1>0. \A c \in Calls : calls[c] = IdleCall
  OBVIOUS
<1>1. RoleDrawTypeOK
  <2>1. IdleCall \in Call
    BY DEF IdleCall, Call, Stages
  <2>2. calls \in [Calls -> Call]
    BY <2>1
  <2> QED
    BY <2>2, LossAssumption DEF RoleDrawTypeOK
<1>2. NoRound \in Round
  <2>1. NoVotes \in [Players -> Players \cup {NoOne}]
    BY DEF NoVotes
  <2>2. <<>> \in Seq(Players)
    OBVIOUS
  <2> QED
    BY <2>1, <2>2 DEF NoRound, Round
<1>3. TypeOK
  <2>1. /\ scores \in [Players -> Nat]
        /\ players \in Seq(Players)
        /\ past_rounds \in Seq(PastRound)
    OBVIOUS
  <2> QED
    BY <1>1, <1>2, <2>1, ConfigAssumption DEF TypeOK, Statuses
<1>4. \A c \in Calls : /\ ~HoldsCard(c) /\ calls[c].players = {}
                       /\ calls[c].stage = "idle" /\ calls[c].offered = {}
                       /\ ~calls[c].awaited
  BY <1>0 DEF HoldsCard, IdleCall
<1>5. DealtOnce
  <2>1. round.index = -1 /\ DOMAIN past_rounds = {}
    <3>1. past_rounds = <<>>
      OBVIOUS
    <3>2. DOMAIN past_rounds = {}
      BY ONLY <3>1, NobodyInEmpty
    <3> QED
      BY <3>2 DEF NoRound
  <2> QED
    BY <1>0, <1>4, <2>1 DEF DealtOnce, OneCardPerCall
<1>6. StrokesInTurn
  <2>1. round = NoRound /\ round.index = -1 /\ Len(round.strokes) = 0
    BY DEF NoRound
  <2> QED
    BY <2>1 DEF StrokesInTurn
<1>7. EnoughPlayers
  BY <1>4 DEF EnoughPlayers
<1>8. SeatedRounds
  <2>1. round.index = -1 /\ round.order = <<>>
    BY DEF NoRound
  <2>2. Artists = {}
    BY ONLY <2>1, NobodyInEmpty DEF Artists, Range
  <2> QED
    BY <1>4, <2>1, <2>2 DEF SeatedRounds
<1> QED
  BY <1>3, <1>5, <1>6, <1>7, <1>8 DEF Inv

-----------------------------------------------------------------------------
\* What the parts of the invariant read: a step that leaves it alone keeps them.
LEMMA DealtOnceFrame ==
  ASSUME DealtOnce,
         UNCHANGED <<known, spent, calls, used, past_rounds>>,
         pool \subseteq pool',
         config'.server = config.server,
         round'.index = round.index, round'.card = round.card
  PROVE  DealtOnce'
BY DEF DealtOnce, OneCardPerCall, HoldsCard

\* The turn order of a round reads the status, the round and the settings only.
LEMMA StrokesFrame ==
  ASSUME StrokesInTurn, UNCHANGED <<status, round, config>>
  PROVE  StrokesInTurn'
BY DEF StrokesInTurn, TotalStrokesNeeded

\* Who sits at the table is not read from the pool, the settings or the gallery.
LEMMA SeatedFrame ==
  ASSUME SeatedRounds,
         UNCHANGED <<calls, players, scores>>,
         round'.index = round.index, round'.card = round.card,
         round'.fake = round.fake, round'.order = round.order,
         status' = "ROUND_SUMMARY" => round'.outcome # "",
         status' = "LOBBY" => status = "LOBBY",
         players # <<>>
  PROVE  SeatedRounds'
BY DEF SeatedRounds, HoldsCard, Artists, Joined

\* The types of the draw's variables do not depend on the game's.
LEMMA DrawTypesFrame ==
  ASSUME RoleDrawTypeOK, UNCHANGED drawVars
  PROVE  RoleDrawTypeOK'
BY DEF RoleDrawTypeOK, drawVars

-----------------------------------------------------------------------------
\* Lobby and writing: one lemma per command.

\* handleJoin: a newcomer keeps the invariant, also while a round is drawn.
LEMMA JoinInv ==
  ASSUME Inv, NEW p \in Players, Join(p)
  PROVE  Inv'
<1> USE DEF Inv
<1>1. /\ players \in Seq(Players)
      /\ players' = Append(players, p)
      /\ UNCHANGED <<status, submitted, pool, used, config, round, past_rounds,
                     scores, winner>>
      /\ UNCHANGED drawVars
  BY DEF Join, TypeOK
<1>2. players' \in Seq(Players) /\ Len(players') = Len(players) + 1 /\ players' # <<>>
  BY <1>1
<1>3. TypeOK'
  BY <1>1, <1>2, DrawTypesFrame DEF TypeOK
<1>4. DealtOnce'
  BY <1>1, DealtOnceFrame DEF drawVars
<1>5. StrokesInTurn'
  BY <1>1, StrokesFrame
<1>6. EnoughPlayers'
  <2>1. Len(players) \in Nat /\ config.min \in Nat
    BY <1>1 DEF TypeOK, Config
  <2> QED
    BY <1>1, <1>2, <2>1 DEF EnoughPlayers, drawVars
<1>7. SeatedRounds'
  <2>1. Joined' = Joined \cup {p}
    BY <1>1, JoinedFacts DEF Joined
  <2> QED
    BY <1>1, <1>2, <2>1 DEF SeatedRounds, HoldsCard, Artists, drawVars
<1> QED
  BY <1>3, <1>4, <1>5, <1>6, <1>7

\* handleConfigure: settings only move in the lobby, where no round reads them.
LEMMA ConfigureInv ==
  ASSUME Inv, NEW p \in Players, NEW c \in ConfigChoices, Configure(p, c)
  PROVE  Inv'
<1> USE DEF Inv
<1>1. /\ status = "LOBBY"
      /\ players # <<>>
      /\ UNCHANGED <<status, players, submitted, pool, used, round, past_rounds,
                     scores, winner>>
      /\ UNCHANGED drawVars
  BY DEF Configure, IsHost
<1>2. config' \in Config
  <2>1. c \in [target : Nat, strokes : Nat, min : Nat]
    BY ConfigAssumption
  <2>2. config \in Config
    BY DEF TypeOK
  <2> QED
    BY <2>1, <2>2 DEF Configure, Chosen, Config
<1>3. TypeOK'
  BY <1>1, <1>2, DrawTypesFrame DEF TypeOK
<1>4. DealtOnce'
  <2>1. config'.server = config.server
    BY DEF Configure
  <2> QED
    BY <1>1, <2>1, DealtOnceFrame DEF drawVars
<1>5. StrokesInTurn'
  <2>1. round' = NoRound /\ round = NoRound
    BY <1>1 DEF StrokesInTurn
  <2> QED
    BY <1>1, <2>1 DEF StrokesInTurn
<1>6. EnoughPlayers'
  BY <1>1 DEF EnoughPlayers, SeatedRounds, drawVars
<1>7. SeatedRounds'
  BY <1>1, SeatedFrame DEF drawVars
<1> QED
  BY <1>3, <1>4, <1>5, <1>6, <1>7

\* handleSubmitWords: new cards are not dealt yet, here or on the server.
LEMMA SubmitWordsInv ==
  ASSUME Inv, NEW p \in Players, NEW words \in SUBSET (Cards \ pool),
         SubmitWords(p, words)
  PROVE  Inv'
<1> USE DEF Inv
<1>1. /\ status = "WRITING"
      /\ pool' = pool \cup words
      /\ submitted' = submitted \cup {p}
      /\ UNCHANGED <<status, players, used, config, round, past_rounds, scores, winner>>
      /\ UNCHANGED drawVars
  BY DEF SubmitWords
<1>2. players # <<>>
  BY <1>1 DEF SeatedRounds
<1>3. TypeOK'
  BY <1>1, DrawTypesFrame DEF TypeOK
<1>4. DealtOnce'
  BY <1>1, DealtOnceFrame DEF drawVars
<1>5. StrokesInTurn'
  BY <1>1, StrokesFrame
<1>6. EnoughPlayers'
  BY <1>1 DEF EnoughPlayers, drawVars
<1>7. SeatedRounds'
  BY <1>1, <1>2, SeatedFrame DEF drawVars, SeatedRounds
<1> QED
  BY <1>3, <1>4, <1>5, <1>6, <1>7

\* handleStartGame: leaving the lobby takes the configured number of players.
LEMMA StartGameInv ==
  ASSUME Inv, NEW p \in Players, StartGame(p)
  PROVE  Inv'
<1> USE DEF Inv
<1>1. /\ status = "LOBBY" /\ status' = "WRITING"
      /\ players # <<>>
      /\ Len(players) >= config.min
      /\ UNCHANGED <<players, submitted, pool, used, config, round, past_rounds,
                     scores, winner>>
      /\ UNCHANGED drawVars
  BY DEF StartGame, IsHost
<1>3. TypeOK'
  BY <1>1, DrawTypesFrame DEF TypeOK, Statuses
<1>4. DealtOnce'
  BY <1>1, DealtOnceFrame DEF drawVars
<1>5. StrokesInTurn'
  BY <1>1 DEF StrokesInTurn, TotalStrokesNeeded
<1>6. EnoughPlayers'
  BY <1>1 DEF EnoughPlayers, drawVars
<1>7. SeatedRounds'
  BY <1>1, SeatedFrame DEF drawVars
<1> QED
  BY <1>3, <1>4, <1>5, <1>6, <1>7

-----------------------------------------------------------------------------
\* Drawing, voting, guessing.

\* The number of strokes of a round is positive.
LEMMA StrokesNeeded ==
  ASSUME NEW k \in Nat \ {0}, NEW n \in Nat \ {0}
  PROVE  k * n \in Nat \ {0}
OBVIOUS

\* The fields of a round that has been announced.
LEMMA RoundFacts ==
  ASSUME TypeOK, StrokesInTurn
  PROVE  /\ round.order \in Seq(Players) /\ Len(round.order) \in Nat
         /\ round.strokes \in Seq(Players) /\ Len(round.strokes) \in Nat
         /\ config.strokes \in Nat \ {0}
         /\ TotalStrokesNeeded \in Nat
         /\ status \notin {"LOBBY", "WRITING", "GAME_OVER"} =>
              round.index >= 0 /\ Len(round.order) > 0 /\ TotalStrokesNeeded > 0
<1>1. /\ round.order \in Seq(Players) /\ Len(round.order) \in Nat
      /\ round.strokes \in Seq(Players) /\ Len(round.strokes) \in Nat
      /\ config.strokes \in Nat \ {0}
  <2>1. round \in Round /\ config \in Config
    BY DEF TypeOK
  <2>2. round.order \in Seq(Players) /\ round.strokes \in Seq(Players)
    BY <2>1 DEF Round
  <2>3. config.strokes \in Nat \ {0}
    BY <2>1 DEF Config
  <2> QED
    BY <2>2, <2>3
<1>2. status \notin {"LOBBY", "WRITING", "GAME_OVER"} =>
        round.index >= 0 /\ Len(round.order) > 0
  BY DEF StrokesInTurn
<1> DEFINE k == config.strokes
           n == Len(round.order)
<1>3. n = 0 => TotalStrokesNeeded = 0
  BY <1>1 DEF TotalStrokesNeeded
<1>4. n > 0 => TotalStrokesNeeded \in Nat \ {0}
  <2>1. k \in Nat \ {0} /\ n \in Nat /\ TotalStrokesNeeded = k * n
    BY <1>1 DEF TotalStrokesNeeded
  <2> HIDE DEF k, n
  <2>2. ASSUME n > 0
        PROVE  k * n \in Nat \ {0}
    BY ONLY <2>1, <2>2, StrokesNeeded
  <2> QED
    BY <2>1, <2>2
<1> QED
  BY <1>1, <1>2, <1>3, <1>4

\* handleStartRound, second use: an announced round has no stroke and needs some.
LEMMA BeginDrawingInv ==
  ASSUME Inv, NEW p \in Players, BeginDrawing(p)
  PROVE  Inv'
<1> USE DEF Inv
<1>1. /\ status = "ROUND_ANNOUNCE" /\ status' = "DRAWING"
      /\ UNCHANGED <<players, submitted, pool, used, config, round, past_rounds,
                     scores, winner>>
      /\ UNCHANGED drawVars
  BY DEF BeginDrawing
<1>3. TypeOK'
  BY <1>1, DrawTypesFrame DEF TypeOK, Statuses
<1>4. DealtOnce'
  BY <1>1, DealtOnceFrame DEF drawVars
<1>5. StrokesInTurn'
  <2>1. round.index >= 0 /\ Len(round.strokes) = 0 /\ TotalStrokesNeeded > 0
    BY <1>1, RoundFacts DEF StrokesInTurn
  <2>2. TotalStrokesNeeded' = TotalStrokesNeeded
    BY <1>1 DEF TotalStrokesNeeded
  <2> QED
    BY <1>1, <2>1, <2>2 DEF StrokesInTurn
<1>6. EnoughPlayers'
  BY <1>1 DEF EnoughPlayers, drawVars
<1>7. SeatedRounds'
  BY <1>1, SeatedFrame DEF drawVars, SeatedRounds
<1> QED
  BY <1>3, <1>4, <1>5, <1>6, <1>7

\* handleSubmitStroke: the next stroke is by the next player, and the last one opens
\* the vote.
LEMMA SubmitStrokeInv ==
  ASSUME Inv, NEW p \in Players, SubmitStroke(p)
  PROVE  Inv'
<1> USE DEF Inv
<1> DEFINE n == Len(round.strokes)
           T == TotalStrokesNeeded
           longer == Append(round.strokes, p)
<1>1. /\ status = "DRAWING"
      /\ p = CurrentTurn
      /\ round' = [round EXCEPT !.strokes = longer]
      /\ status' = IF n + 1 >= T THEN "VOTING" ELSE status
      /\ UNCHANGED <<players, submitted, pool, used, config, past_rounds, scores, winner>>
      /\ UNCHANGED drawVars
  BY DEF SubmitStroke
<1>2. /\ longer \in Seq(Players)
      /\ Len(longer) = n + 1
      /\ longer[n + 1] = p
      /\ \A i \in 1..n : longer[i] = round.strokes[i]
      /\ n \in Nat
  BY RoundFacts
<1>3. /\ round' \in Round
      /\ round'.strokes = longer
      /\ round'.index = round.index /\ round'.card = round.card
      /\ round'.fake = round.fake /\ round'.order = round.order
  BY <1>1, <1>2 DEF TypeOK, Round
<1>4. TypeOK'
  BY <1>1, <1>3, DrawTypesFrame DEF TypeOK, Statuses
<1>5. DealtOnce'
  BY <1>1, <1>3, DealtOnceFrame DEF drawVars
<1>6. StrokesInTurn'
  <2>1. T' = T /\ T \in Nat
    BY <1>1, <1>3, RoundFacts DEF TotalStrokesNeeded
  <2>2. n < T /\ round.index >= 0 /\ Len(round.order) > 0
    BY <1>1, RoundFacts DEF StrokesInTurn
  <2>3. \A i \in 1..n+1 : longer[i] = round.order[((i - 1) % Len(round.order)) + 1]
    <3> SUFFICES ASSUME NEW i \in 1..n+1
                 PROVE  longer[i] = round.order[((i - 1) % Len(round.order)) + 1]
      OBVIOUS
    <3>1. CASE i = n + 1
      <4>1. i - 1 = n
        BY <1>2, <3>1
      <4> QED
        BY <1>1, <1>2, <3>1, <4>1 DEF CurrentTurn
    <3>2. CASE i \in 1..n
      BY <1>2, <3>2 DEF StrokesInTurn
    <3> QED
      BY <1>2, <3>1, <3>2
  <2>4. status' \in {"DRAWING", "VOTING"}
    BY <1>1
  <2>5. status' = "DRAWING" => n + 1 < T
    BY <1>1, <1>2, <2>1
  <2>6. status' = "VOTING" => n + 1 = T
    BY <1>1, <1>2, <2>1, <2>2
  <2> HIDE DEF T, n, longer
  <2>7. TotalStrokesNeeded' = T /\ Len(round'.strokes) = n + 1
    BY <1>2, <1>3, <2>1 DEF T
  <2> QED
    BY <1>2, <1>3, <2>2, <2>3, <2>4, <2>5, <2>6, <2>7 DEF StrokesInTurn
<1>7. EnoughPlayers'
  BY <1>1 DEF EnoughPlayers, drawVars
<1>8. SeatedRounds'
  BY <1>1, <1>3, SeatedFrame DEF drawVars, SeatedRounds
<1> QED
  BY <1>4, <1>5, <1>6, <1>7, <1>8

\* finalizeRound pays natural numbers, and only to people of the round.
LEMMA PointsFacts ==
  ASSUME NEW p, NEW r, NEW caught \in BOOLEAN, NEW right \in BOOLEAN
  PROVE  /\ Points(p, r, caught, right) \in Nat
         /\ p # r.fake /\ p \notin Range(r.order) => Points(p, r, caught, right) = 0
<1>1. CASE caught /\ right
  BY <1>1 DEF Points
<1>2. CASE caught /\ ~right
  BY <1>2 DEF Points
<1>3. CASE ~caught
  BY <1>3 DEF Points
<1> QED
  BY <1>1, <1>2, <1>3

\* Closing a round, whatever the verdict.  r is the round with the last vote or
\* the guess entered.
LEMMA FinalizeInv ==
  ASSUME Inv, status \in {"VOTING", "FAKE_GUESS"},
         NEW r \in Round, NEW caught \in BOOLEAN, NEW right \in BOOLEAN,
         r.index = round.index, r.card = round.card, r.fake = round.fake,
         r.order = round.order, r.strokes = round.strokes,
         Finalize(r, caught, right),
         UNCHANGED <<players, submitted, pool, used, config, past_rounds, winner>>,
         UNCHANGED drawVars
  PROVE  Inv'
<1> USE DEF Inv
<1>1. /\ status' = "ROUND_SUMMARY"
      /\ round' = [r EXCEPT !.outcome = IF caught /\ ~right THEN "ARTISTS_WON" ELSE "FAKE_WON"]
      /\ scores' = [p \in Players |-> scores[p] + Points(p, r, caught, right)]
  BY DEF Finalize
<1>2. /\ round' \in Round
      /\ round'.index = round.index /\ round'.card = round.card
      /\ round'.fake = round.fake /\ round'.order = round.order
      /\ round'.strokes = round.strokes /\ round'.outcome # ""
  BY <1>1 DEF Round
<1>3. scores' \in [Players -> Nat]
  <2>1. \A p \in Players : scores[p] \in Nat
    BY DEF TypeOK
  <2> QED
    BY <1>1, <2>1, PointsFacts
<1>4. TypeOK'
  BY <1>1, <1>2, <1>3, DrawTypesFrame DEF TypeOK, Statuses
<1>5. DealtOnce'
  BY <1>2, DealtOnceFrame DEF drawVars
<1>6. StrokesInTurn'
  <2>1. TotalStrokesNeeded' = TotalStrokesNeeded
    BY <1>2 DEF TotalStrokesNeeded
  <2>2. round.index >= 0 /\ Len(round.strokes) = TotalStrokesNeeded
    BY DEF StrokesInTurn
  <2> QED
    BY <1>1, <1>2, <2>1, <2>2 DEF StrokesInTurn
<1>7. EnoughPlayers'
  BY <1>1 DEF EnoughPlayers, drawVars
<1>8. SeatedRounds'
  <2>1. round.index >= 0
    BY DEF StrokesInTurn
  <2>2. \A p \in Players \ Joined : scores'[p] = 0
    <3> SUFFICES ASSUME NEW p \in Players \ Joined
                 PROVE  scores'[p] = 0
      OBVIOUS
    <3>1. p \notin Range(r.order) /\ p # r.fake
      BY <2>1 DEF SeatedRounds, Artists
    <3>2. scores[p] = 0
      BY DEF SeatedRounds
    <3> QED
      BY <1>1, <3>1, <3>2, PointsFacts
  <2>3. Joined' = Joined
    BY DEF Joined
  <2> QED
    BY <1>1, <1>2, <2>1, <2>2, <2>3 DEF SeatedRounds, HoldsCard, Artists, drawVars
<1> QED
  BY <1>4, <1>5, <1>6, <1>7, <1>8

\* handleCastVote: a vote leaves the strokes alone and may close the round.
LEMMA CastVoteInv ==
  ASSUME Inv, NEW p \in Players, NEW suspect \in Players, CastVote(p, suspect)
  PROVE  Inv'
<1> USE DEF Inv
<1> DEFINE votes == [round.votes EXCEPT ![p] = suspect]
           voted == [round EXCEPT !.votes = votes]
<1>1. /\ status = "VOTING"
      /\ UNCHANGED <<players, submitted, pool, used, config, past_rounds, winner>>
      /\ UNCHANGED drawVars
      /\ \/ /\ round' = voted
            /\ UNCHANGED <<status, scores>>
         \/ /\ round' = voted
            /\ status' = "FAKE_GUESS"
            /\ UNCHANGED scores
         \/ Finalize(voted, FALSE, FALSE)
  BY DEF CastVote
<1>2. /\ voted \in Round
      /\ voted.index = round.index /\ voted.card = round.card
      /\ voted.fake = round.fake /\ voted.order = round.order
      /\ voted.strokes = round.strokes /\ voted.outcome = round.outcome
  <2>1. round \in Round
    BY DEF TypeOK
  <2>2. votes \in [Players -> Players \cup {NoOne}]
    BY <2>1 DEF Round
  <2> HIDE DEF votes
  <2> QED
    BY <2>1, <2>2 DEF Round
<1>3. CASE Finalize(voted, FALSE, FALSE)
  <2> HIDE DEF voted
  <2> QED
    BY <1>1, <1>2, <1>3, FinalizeInv
<1>4. ASSUME round' = voted, UNCHANGED scores, status' \in {"VOTING", "FAKE_GUESS"}
      PROVE  Inv'
  <2> HIDE DEF voted
  <2>1. TypeOK'
    BY <1>1, <1>2, <1>4, DrawTypesFrame DEF TypeOK, Statuses
  <2>2. DealtOnce'
    BY <1>1, <1>2, <1>4, DealtOnceFrame DEF drawVars
  <2>3. StrokesInTurn'
    <3>1. TotalStrokesNeeded' = TotalStrokesNeeded
      BY <1>1, <1>2, <1>4 DEF TotalStrokesNeeded
    <3>2. round.index >= 0 /\ Len(round.strokes) = TotalStrokesNeeded
      BY <1>1 DEF StrokesInTurn
    <3> QED
      BY <1>1, <1>2, <1>4, <3>1, <3>2 DEF StrokesInTurn
  <2>4. EnoughPlayers'
    BY <1>1, <1>4 DEF EnoughPlayers, drawVars
  <2>5. SeatedRounds'
    BY <1>1, <1>2, <1>4, SeatedFrame DEF drawVars, SeatedRounds
  <2> QED
    BY <2>1, <2>2, <2>3, <2>4, <2>5
<1> QED
  <2> HIDE DEF voted
  <2> QED
    BY <1>1, <1>3, <1>4

\* handleFakeGuess: the guess closes the round.
LEMMA FakeGuessInv ==
  ASSUME Inv, NEW p \in Players, NEW right \in BOOLEAN, FakeGuess(p, right)
  PROVE  Inv'
<1> USE DEF Inv
<1> DEFINE r == [round EXCEPT !.guess = IF right THEN "right" ELSE "wrong"]
<1>1. /\ status = "FAKE_GUESS"
      /\ Finalize(r, TRUE, right)
      /\ UNCHANGED <<players, submitted, pool, used, config, past_rounds, winner>>
      /\ UNCHANGED drawVars
  BY DEF FakeGuess
<1>2. /\ r \in Round
      /\ r.index = round.index /\ r.card = round.card /\ r.fake = round.fake
      /\ r.order = round.order /\ r.strokes = round.strokes
  <2>1. round \in Round
    BY DEF TypeOK
  <2> QED
    BY <2>1 DEF Round
<1> HIDE DEF r
<1> QED
  BY <1>1, <1>2, FinalizeInv

-----------------------------------------------------------------------------
\* Announcing, archiving and ending.

\* What the invariant asks of the gallery, against the current round.
GalleryOK(gallery, current, dealt) ==
  \A i \in DOMAIN gallery :
    /\ gallery[i].card \in dealt
    /\ gallery[i].card = current.card => gallery[i].index = current.index
    /\ \A j \in DOMAIN gallery : gallery[i].card = gallery[j].card => i = j

\* Archiving a closed round, once or again, keeps the gallery.
LEMMA ArchivedFacts ==
  ASSUME Inv, status = "ROUND_SUMMARY"
  PROVE  /\ Archived \in Seq(PastRound)
         /\ GalleryOK(Archived, round, used)
<1> USE DEF Inv
<1>1. /\ past_rounds \in Seq(PastRound)
      /\ GalleryOK(past_rounds, round, used)
  BY DEF TypeOK, DealtOnce, GalleryOK
<1>2. CASE IsArchived(round.index)
  BY <1>1, <1>2 DEF Archived
<1>3. CASE ~IsArchived(round.index)
  <2> DEFINE a == Archive(round)
             n == Len(past_rounds)
             longer == Append(past_rounds, a)
  <2>1. /\ a \in PastRound
        /\ a.card = round.card /\ a.index = round.index /\ round.card \in used
    <3>1. round.index >= 0
      BY DEF StrokesInTurn
    <3>2. round \in Round
      BY DEF TypeOK
    <3>3. /\ round.index \in Nat /\ round.card \in Cards /\ round.card \in used
          /\ round.fake \in Range(round.order) /\ Range(round.order) \subseteq Players
          /\ round.guess \in {"none", "right", "wrong"}
          /\ round.outcome \in {"FAKE_WON", "ARTISTS_WON"}
      <4>1. /\ round.index \in Nat \cup {-1}
            /\ round.card \in Cards \cup {NoCard}
            /\ round.order \in Seq(Players)
            /\ round.guess \in {"none", "right", "wrong"}
            /\ round.outcome \in {"", "FAKE_WON", "ARTISTS_WON"}
        BY <3>2 DEF Round
      <4>0. round.index \in Nat
        <5>1. round.index \in Nat \cup {-1}
          BY <4>1
        <5> QED
          BY ONLY <3>1, <5>1
      <4>2. round.card # NoCard /\ round.fake \in Range(round.order)
        BY <3>1 DEF SeatedRounds, Artists
      <4>4. round.outcome # ""
        BY DEF SeatedRounds
      <4>5. round.card \in used
        BY <3>1 DEF DealtOnce
      <4>3. Range(round.order) \subseteq Players
        <5>1. round.order \in Seq(Players)
          BY <4>1
        <5> QED
          BY <5>1 DEF Range
      <4> QED
        BY <4>0, <4>1, <4>2, <4>3, <4>4, <4>5
    <3> QED
      BY <3>3 DEF Archive, PastRound
  <2> HIDE DEF a
  <2>2. /\ longer \in Seq(PastRound) /\ DOMAIN longer = 1..n+1
        /\ longer[n+1] = a /\ \A i \in 1..n : longer[i] = past_rounds[i]
        /\ DOMAIN past_rounds = 1..n /\ n \in Nat
    BY <1>1, <2>1
  <2> HIDE DEF longer, n
  <2>3. \A i \in 1..n : past_rounds[i].card # a.card
    BY <1>1, <1>3, <2>1, <2>2 DEF GalleryOK, IsArchived
  <2>4. GalleryOK(longer, round, used)
    <3> SUFFICES ASSUME NEW i \in 1..n+1
                 PROVE  /\ longer[i].card \in used
                        /\ longer[i].card = round.card => longer[i].index = round.index
                        /\ \A j \in 1..n+1 : longer[i].card = longer[j].card => i = j
      BY <2>2 DEF GalleryOK
    <3>1. \A k \in 1..n+1 : k = n+1 \/ k \in 1..n
      BY <2>2
    <3>2. CASE i = n+1
      BY <2>1, <2>2, <2>3, <3>1, <3>2
    <3>3. CASE i \in 1..n
      BY <1>1, <2>1, <2>2, <2>3, <3>1, <3>3 DEF GalleryOK
    <3> QED
      BY <3>1, <3>2, <3>3
  <2>5. Archived = longer
    BY <1>3 DEF Archived, a, longer
  <2> QED
    BY <2>2, <2>4, <2>5
<1> QED
  BY <1>2, <1>3

\* Replacing the current round by one with a card that was not dealt before.
LEMMA FreshRoundGallery ==
  ASSUME NEW gallery, NEW current, NEW dealt, NEW more, NEW fresh,
         GalleryOK(gallery, current, dealt),
         dealt \subseteq more, fresh.card \notin dealt
  PROVE  GalleryOK(gallery, fresh, more)
BY DEF GalleryOK

\* handleEndGame: stopping early archives only a closed round.
LEMMA EndGameInv ==
  ASSUME Inv, NEW p \in Players, EndGame(p)
  PROVE  Inv'
<1> USE DEF Inv
<1>1. /\ players # <<>>
      /\ past_rounds' = IF status = "ROUND_SUMMARY" THEN Archived ELSE past_rounds
      /\ status' = "GAME_OVER" /\ winner' = TopScorer
      /\ UNCHANGED <<players, submitted, pool, used, config, round, scores>>
      /\ UNCHANGED drawVars
  BY DEF EndGame, GameOver, IsHost
<1>2. past_rounds' \in Seq(PastRound) /\ GalleryOK(past_rounds', round, used)
  BY <1>1, ArchivedFacts DEF TypeOK, DealtOnce, GalleryOK
<1>3. winner' \in Players
  BY <1>1, TopScorerBest DEF TypeOK
<1>4. TypeOK'
  BY <1>1, <1>2, <1>3, DrawTypesFrame DEF TypeOK, Statuses
<1>5. DealtOnce'
  BY <1>1, <1>2 DEF DealtOnce, OneCardPerCall, HoldsCard, GalleryOK, drawVars
<1>6. StrokesInTurn'
  BY <1>1 DEF StrokesInTurn
<1>7. EnoughPlayers'
  BY <1>1 DEF EnoughPlayers, drawVars
<1>8. SeatedRounds'
  BY <1>1, SeatedFrame DEF drawVars
<1> QED
  BY <1>4, <1>5, <1>6, <1>7, <1>8

\* A round that is announced, with a card and people given.
LEMMA NewRoundFacts ==
  ASSUME NEW index \in Nat, NEW card \in Cards, NEW S \in SUBSET Players,
         NEW fake \in S, NEW order \in Shuffles(S)
  PROVE  /\ NewRound(index, card, fake, order) \in Round
         /\ NewRound(index, card, fake, order).index = index
         /\ NewRound(index, card, fake, order).card = card
         /\ NewRound(index, card, fake, order).fake = fake
         /\ NewRound(index, card, fake, order).order = order
         /\ NewRound(index, card, fake, order).strokes = <<>>
         /\ Range(order) = S
         /\ Len(order) \in Nat \ {0}
<1>1. IsFiniteSet(S)
  BY FinitePlayers, FS_Subset
<1>2. order \in Seq(S) /\ Len(order) = Cardinality(S) /\ Range(order) = S
  BY <1>1, ShufflesCover
<1>3. Cardinality(S) \in Nat \ {0}
  BY <1>1, FS_CardinalityType, FS_EmptySet
<1>4. order \in Seq(Players)
  BY <1>2
<1>5. /\ NewRound(index, card, fake, order).index = index
      /\ NewRound(index, card, fake, order).card = card
      /\ NewRound(index, card, fake, order).fake = fake
      /\ NewRound(index, card, fake, order).order = order
      /\ NewRound(index, card, fake, order).strokes = <<>>
  BY DEF NewRound, NoRound
<1>6. NewRound(index, card, fake, order) \in Round
  <2>1. NoVotes \in [Players -> Players \cup {NoOne}] /\ <<>> \in Seq(Players)
    BY DEF NoVotes
  <2>2. fake \in Players
    OBVIOUS
  <2> QED
    BY <1>4, <2>1, <2>2 DEF NewRound, NoRound, Round
<1> QED
  BY <1>2, <1>3, <1>5, <1>6

\* An announced round keeps the parts of the invariant that speak of rounds.
LEMMA AnnounceInv ==
  ASSUME Inv, NEW index \in Nat, NEW card \in Cards, NEW S \in SUBSET Joined,
         NEW fake \in S, NEW order \in Shuffles(S),
         round' = NewRound(index, card, fake, order),
         status' = "ROUND_ANNOUNCE",
         UNCHANGED <<players, config, scores>>,
         \A c \in Calls : calls'[c] = calls[c] \/ calls'[c] = IdleCall
  PROVE  /\ round' \in Round
         /\ round'.index >= 0 /\ round'.card = card
         /\ StrokesInTurn'
         /\ SeatedRounds'
<1> USE DEF Inv
<1>1. Joined \in SUBSET Players /\ S \in SUBSET Players
  BY JoinedFacts DEF TypeOK
<1>2. /\ round' \in Round
      /\ round'.index = index /\ round'.card = card /\ round'.fake = fake
      /\ round'.order = order /\ round'.strokes = <<>>
      /\ Range(order) = S
      /\ Len(order) \in Nat \ {0}
  BY <1>1, NewRoundFacts
<1>3. StrokesInTurn'
  BY <1>2 DEF StrokesInTurn
<1>4. SeatedRounds'
  <2>1. players # <<>>
    BY <1>1, JoinedFacts DEF TypeOK
  <2>2. Artists' = S /\ Joined' = Joined
    BY <1>2 DEF Artists, Joined
  <2>3. card # NoCard
    BY NamesAssumption
  <2>4. \A c \in Calls : /\ calls'[c].players \subseteq Joined
                         /\ HoldsCard(c)' => calls'[c].card # NoCard
    <3> SUFFICES ASSUME NEW c \in Calls
                 PROVE  /\ calls'[c].players \subseteq Joined
                        /\ HoldsCard(c)' => calls'[c].card # NoCard
      OBVIOUS
    <3>1. CASE calls'[c] = calls[c]
      BY <3>1 DEF SeatedRounds, HoldsCard
    <3>2. CASE calls'[c] = IdleCall
      BY <3>2 DEF HoldsCard, IdleCall
    <3> QED
      BY <3>1, <3>2
  <2> QED
    BY <1>2, <2>1, <2>2, <2>3, <2>4 DEF SeatedRounds
<1> QED
  BY <1>2, <1>3, <1>4

-----------------------------------------------------------------------------
\* The server's steps.

\* Updating one call.
LEMMA CallUpdate ==
  ASSUME RoleDrawTypeOK, NEW c \in Calls, NEW new \in Call,
         calls' = [calls EXCEPT ![c] = new]
  PROVE  /\ calls' \in [Calls -> Call]
         /\ calls'[c] = new
         /\ \A d \in Calls \ {c} : calls'[d] = calls[d]
BY DEF RoleDrawTypeOK

\* A step of a running call leaves the game alone: what it must show.
LEMMA ServerSideInv ==
  ASSUME Inv, NEW c \in Calls, NEW new \in Call,
         calls[c].stage # "idle",
         calls' = [calls EXCEPT ![c] = new],
         UNCHANGED gameVars,
         RoleDrawTypeOK', OneCardPerCall',
         known' \subseteq pool, used \subseteq spent \/ used \subseteq spent',
         spent \subseteq spent',
         new.offered \subseteq pool, new.players \subseteq Joined,
         new.stage \in {"picked", "answered"} => new.card \notin used /\ new.card # NoCard
  PROVE  Inv'
<1> USE DEF Inv
<1>1. UNCHANGED <<status, players, submitted, pool, used, config, round,
                  past_rounds, scores, winner>>
  BY DEF gameVars
<1>2. calls'[c] = new /\ \A d \in Calls \ {c} : calls'[d] = calls[d]
  BY CallUpdate DEF TypeOK
<1>3. config.server
  BY DEF DealtOnce, IdleCall
<1>4. TypeOK'
  BY <1>1 DEF TypeOK
<1>5. DealtOnce'
  <2>1. \A d \in Calls : HoldsCard(d)' => calls'[d].card \notin used
    BY <1>2 DEF DealtOnce, HoldsCard
  <2>2. \A d \in Calls : calls'[d].offered \subseteq pool
    BY <1>2 DEF DealtOnce
  <2>3. used \subseteq spent'
    BY <1>3 DEF DealtOnce
  <2> QED
    BY <1>1, <1>3, <2>1, <2>2, <2>3 DEF DealtOnce
<1>6. StrokesInTurn'
  BY <1>1, StrokesFrame
<1>7. EnoughPlayers'
  BY <1>1 DEF EnoughPlayers
<1>8. SeatedRounds'
  <2>1. \A d \in Calls : /\ calls'[d].players \subseteq Joined
                         /\ calls'[d].stage # "idle" => status # "LOBBY"
                         /\ HoldsCard(d)' => calls'[d].card # NoCard
    BY <1>2 DEF SeatedRounds, HoldsCard
  <2> QED
    BY <1>1, <2>1 DEF SeatedRounds, Artists, Joined
<1> QED
  BY <1>4, <1>5, <1>6, <1>7, <1>8

\* What the invariant says of one call.
LEMMA CallFacts ==
  ASSUME Inv, NEW c \in Calls
  PROVE  /\ calls[c] \in Call
         /\ calls[c].offered \subseteq pool
         /\ calls[c].players \subseteq Joined
         /\ IdleCall \in Call
BY DEF Inv, TypeOK, RoleDrawTypeOK, DealtOnce, SeatedRounds, IdleCall, Call, Stages

\* DrawState.MergePool: the cards a caller offers are cards of its engine.
LEMMA MergePoolInv ==
  ASSUME Inv, NEW c \in Calls, MergePool(c), UNCHANGED gameVars
  PROVE  Inv'
<1> DEFINE new == [calls[c] EXCEPT !.stage = "merged"]
<1>1. /\ calls[c].stage = "sent"
      /\ known' = known \cup calls[c].offered
      /\ calls' = [calls EXCEPT ![c] = new]
      /\ UNCHANGED <<spent, secrets, losses>>
  BY DEF MergePool
<1>2. /\ calls[c] \in Call /\ calls[c].offered \subseteq pool
      /\ calls[c].players \subseteq Joined
  BY CallFacts
<1>3. /\ new \in Call /\ new.stage = "merged" /\ new.offered = calls[c].offered
      /\ new.players = calls[c].players
  BY <1>2 DEF Call, Stages
<1> HIDE DEF new
<1>4. /\ calls' \in [Calls -> Call] /\ calls'[c] = new
      /\ \A d \in Calls \ {c} : calls'[d] = calls[d]
  BY <1>1, <1>3, CallUpdate DEF Inv, TypeOK
<1>5. RoleDrawTypeOK'
  <2>1. known' \in SUBSET Cards
    BY <1>1, <1>2 DEF Inv, TypeOK, RoleDrawTypeOK, Call
  <2> QED
    BY <1>1, <1>4, <2>1 DEF Inv, TypeOK, RoleDrawTypeOK
<1>6. OneCardPerCall'
  BY <1>1, <1>3, <1>4 DEF Inv, DealtOnce, OneCardPerCall, HoldsCard
<1>7. known' \subseteq pool /\ spent \subseteq spent'
  BY <1>1, <1>2 DEF Inv, DealtOnce
<1>8. used \subseteq spent \/ used \subseteq spent'
  BY <1>1 DEF Inv, DealtOnce, IdleCall
<1> QED
  BY <1>1, <1>2, <1>3, <1>5, <1>6, <1>7, <1>8, ServerSideInv

\* DrawState.PickCard: the card it spends was held by no other call.
LEMMA PickCardInv ==
  ASSUME Inv, NEW c \in Calls, PickCard(c), UNCHANGED gameVars
  PROVE  Inv'
<1>1. PICK card \in known \ spent, fake \in calls[c].players :
        /\ spent' = spent \cup {card}
        /\ calls' = [calls EXCEPT ![c].stage = "picked", ![c].card = card, ![c].fake = fake]
  BY DEF PickCard
<1> DEFINE new == [calls[c] EXCEPT !.stage = "picked", !.card = card, !.fake = fake]
<1>2. calls[c].stage = "merged" /\ UNCHANGED <<known, secrets, losses>>
  BY DEF PickCard
<1>3. /\ calls[c] \in Call /\ calls[c].offered \subseteq pool
      /\ calls[c].players \subseteq Joined
  BY CallFacts
<1>4. calls' = [calls EXCEPT ![c] = new]
  BY <1>1, <1>3 DEF Inv, TypeOK, RoleDrawTypeOK, Call
<1>5. card \in Cards /\ fake \in Players
  BY <1>3 DEF Inv, TypeOK, RoleDrawTypeOK, Call
<1>6. /\ new \in Call /\ new.stage = "picked" /\ new.card = card /\ new.fake = fake
      /\ new.offered = calls[c].offered /\ new.players = calls[c].players
  BY <1>3, <1>5 DEF Call, Stages
<1> HIDE DEF new
<1>7. /\ calls' \in [Calls -> Call] /\ calls'[c] = new
      /\ \A d \in Calls \ {c} : calls'[d] = calls[d]
  BY <1>4, <1>6, CallUpdate DEF Inv, TypeOK
<1>8. RoleDrawTypeOK'
  BY <1>1, <1>2, <1>5, <1>7 DEF Inv, TypeOK, RoleDrawTypeOK
<1>9. OneCardPerCall'
  <2>1. spent' \subseteq known'
    BY <1>1, <1>2 DEF Inv, DealtOnce, OneCardPerCall
  <2>2. \A d \in Calls \ {c} : HoldsCard(d) => calls[d].card # card
    BY <1>1 DEF Inv, DealtOnce, OneCardPerCall
  <2>3. \A d \in Calls : HoldsCard(d)' =>
          calls'[d].card \in spent' /\ calls'[d].fake \in calls'[d].players
    BY <1>1, <1>6, <1>7 DEF Inv, DealtOnce, OneCardPerCall, HoldsCard
  <2>4. \A d, e \in Calls : HoldsCard(d)' /\ HoldsCard(e)' /\ calls'[d].card = calls'[e].card
                            => d = e
    BY <1>6, <1>7, <2>2 DEF Inv, DealtOnce, OneCardPerCall, HoldsCard
  <2>5. \A d \in Calls : calls'[d].awaited => calls'[d].stage # "idle"
    BY <1>6, <1>7 DEF Inv, DealtOnce, OneCardPerCall
  <2> QED
    BY <2>1, <2>3, <2>4, <2>5 DEF OneCardPerCall
<1>10. used \subseteq spent
  BY <1>2 DEF Inv, DealtOnce, IdleCall
<1>11. /\ known' \subseteq pool /\ spent \subseteq spent'
       /\ new.card \notin used /\ new.card # NoCard
  BY <1>1, <1>2, <1>5, <1>6, <1>10, NamesAssumption DEF Inv, DealtOnce
<1> QED
  BY <1>2, <1>3, <1>4, <1>6, <1>8, <1>9, <1>10, <1>11, ServerSideInv

\* A call that ends, or goes on with nobody waiting for it, or with its answer
\* on the way: it holds the card it held, or none.
LEMMA SettleInv ==
  ASSUME Inv, NEW c \in Calls, NEW new \in {IdleCall,
                                            [calls[c] EXCEPT !.stage = "answered"],
                                            [calls[c] EXCEPT !.awaited = FALSE]},
         calls[c].stage # "idle",
         new.stage = "answered" => HoldsCard(c),
         calls' = [calls EXCEPT ![c] = new],
         UNCHANGED <<known, spent>>, UNCHANGED gameVars,
         secrets' \in SUBSET Secret, losses' \in 0..MaxLosses
  PROVE  Inv'
<1>1. /\ calls[c] \in Call /\ calls[c].offered \subseteq pool
      /\ calls[c].players \subseteq Joined /\ IdleCall \in Call
  BY CallFacts
<1>2. /\ new \in Call
      /\ new.offered \subseteq calls[c].offered /\ new.players \subseteq calls[c].players
      /\ new.stage \in {"picked", "answered"} =>
           HoldsCard(c) /\ new.card = calls[c].card /\ new.fake = calls[c].fake
                        /\ new.players = calls[c].players
  <2>1. CASE new = IdleCall
    BY <1>1, <2>1 DEF IdleCall
  <2>2. CASE new = [calls[c] EXCEPT !.stage = "answered"]
    BY <1>1, <2>2 DEF Call, Stages
  <2>3. CASE new = [calls[c] EXCEPT !.awaited = FALSE]
    BY <1>1, <2>3 DEF Call, Stages, HoldsCard
  <2> QED
    BY <2>1, <2>2, <2>3
<1>3. /\ calls' \in [Calls -> Call] /\ calls'[c] = new
      /\ \A d \in Calls \ {c} : calls'[d] = calls[d]
  BY <1>2, CallUpdate DEF Inv, TypeOK
<1>4. RoleDrawTypeOK'
  BY <1>3 DEF Inv, TypeOK, RoleDrawTypeOK
<1>4a. new.awaited => new.stage # "idle"
  BY <1>1 DEF IdleCall, Call, HoldsCard
<1>5. OneCardPerCall'
  <2>1. \A d \in Calls : HoldsCard(d)' =>
          /\ HoldsCard(d) /\ calls'[d].card = calls[d].card
          /\ calls'[d].fake = calls[d].fake /\ calls'[d].players = calls[d].players
    BY <1>2, <1>3 DEF HoldsCard
  <2>2. \A d \in Calls : calls'[d].awaited => calls'[d].stage # "idle"
    BY <1>1, <1>3, <1>4a DEF Inv, DealtOnce, OneCardPerCall
  <2> QED
    BY <2>1, <2>2 DEF Inv, DealtOnce, OneCardPerCall
<1>6. known' \subseteq pool /\ spent \subseteq spent' /\ used \subseteq spent
  BY DEF Inv, DealtOnce, IdleCall
<1>7. new.stage \in {"picked", "answered"} => new.card \notin used /\ new.card # NoCard
  BY <1>2 DEF Inv, DealtOnce, SeatedRounds
<1> QED
  BY <1>1, <1>2, <1>4, <1>5, <1>6, <1>7, ServerSideInv

\* Draw with an empty pool: the call ends with nothing.
LEMMA PoolExhaustedInv ==
  ASSUME Inv, NEW c \in Calls, PoolExhausted(c), UNCHANGED gameVars
  PROVE  Inv'
<1>1. /\ calls[c].stage = "merged"
      /\ calls' = [calls EXCEPT ![c] = IdleCall]
      /\ UNCHANGED <<known, spent, secrets, losses>>
  BY DEF PoolExhausted
<1>2. secrets' \in SUBSET Secret /\ losses' \in 0..MaxLosses
  BY <1>1 DEF Inv, TypeOK, RoleDrawTypeOK
<1>3. IdleCall.stage = "idle"
  BY DEF IdleCall
<1> QED
  BY <1>1, <1>2, <1>3, SettleInv

\* Draw once the secret is stored: the call keeps its card until it is answered.
LEMMA RecordSecretInv ==
  ASSUME Inv, NEW c \in Calls, RecordSecret(c), UNCHANGED gameVars
  PROVE  Inv'
<1> DEFINE new == IF calls[c].awaited THEN [calls[c] EXCEPT !.stage = "answered"]
                                      ELSE IdleCall
<1>1. /\ calls[c].stage = "picked"
      /\ calls' = [calls EXCEPT ![c] = new]
      /\ secrets' = {s \in secrets : s.index # calls[c].index} \cup {SecretOf(c)}
      /\ UNCHANGED <<known, spent, losses>>
  BY DEF RecordSecret
<1>2. HoldsCard(c)
  BY <1>1 DEF HoldsCard
<1>3. SecretOf(c) \in Secret
  <2>1. calls[c] \in Call
    BY CallFacts
  <2>2. calls[c].fake \in calls[c].players /\ calls[c].card # NoCard
    BY <1>2 DEF Inv, DealtOnce, OneCardPerCall, SeatedRounds
  <2>3. calls[c].fake \in Players /\ calls[c].card \in Cards /\ calls[c].index \in Nat
    BY <2>1, <2>2 DEF Call
  <2> QED
    BY <2>3 DEF SecretOf, Secret
<1>4. secrets' \in SUBSET Secret /\ losses' \in 0..MaxLosses
  BY <1>1, <1>3 DEF Inv, TypeOK, RoleDrawTypeOK
<1>5. new \in {IdleCall, [calls[c] EXCEPT !.stage = "answered"],
               [calls[c] EXCEPT !.awaited = FALSE]}
  OBVIOUS
<1> HIDE DEF new
<1> QED
  BY <1>1, <1>2, <1>4, <1>5, SettleInv

\* A lost request or answer takes its card out of the game.
LEMMA LoseCallInv ==
  ASSUME Inv, NEW c \in Calls, LoseCall(c), UNCHANGED gameVars
  PROVE  Inv'
<1>1. /\ losses < MaxLosses /\ losses' = losses + 1
      /\ UNCHANGED <<known, spent, secrets>>
      /\ calls[c].awaited
  BY DEF LoseCall
<1>2. secrets' \in SUBSET Secret /\ losses' \in 0..MaxLosses
  BY <1>1, LossAssumption DEF Inv, TypeOK, RoleDrawTypeOK
<1>3. CASE calls[c].stage \in {"sent", "answered"} /\ calls' = [calls EXCEPT ![c] = IdleCall]
  <2>1. IdleCall.stage = "idle"
    BY DEF IdleCall
  <2> QED
    BY <1>1, <1>2, <1>3, <2>1, SettleInv
<1>4. CASE calls[c].stage # "answered" /\ calls' = [calls EXCEPT ![c].awaited = FALSE]
  <2> DEFINE new == [calls[c] EXCEPT !.awaited = FALSE]
  <2>1. calls[c] \in Call /\ (calls[c].stage = "idle" => ~calls[c].awaited)
    BY CallFacts DEF Inv, DealtOnce, OneCardPerCall
  <2>2. new.stage = calls[c].stage
    BY <2>1 DEF Call
  <2>3. calls' = [calls EXCEPT ![c] = new]
    BY <1>4, <2>1 DEF Call
  <2> HIDE DEF new
  <2> QED
    BY <1>1, <1>2, <1>4, <2>1, <2>2, <2>3, SettleInv DEF new
<1> QED
  BY <1>3, <1>4 DEF LoseCall

\* Each step the server takes for a call keeps the invariant.
LEMMA ServerStepInv ==
  ASSUME Inv, NEW c \in Calls, ServerStep(c)
  PROVE  Inv'
BY MergePoolInv, PickCardInv, PoolExhaustedInv, RecordSecretInv DEF ServerStep, Serve

-----------------------------------------------------------------------------
\* Rounds drawn by the server.

\* Asking for a draw, from the written words or from a summary just archived.
LEMMA RequestInv ==
  ASSUME Inv, NEW c \in Calls, RequestDraw(c),
         status \in {"WRITING", "ROUND_SUMMARY"},
         UNCHANGED <<status, players, submitted, pool, used, config, round, scores, winner>>,
         past_rounds' \in Seq(PastRound), GalleryOK(past_rounds', round, used)
  PROVE  Inv'
<1> USE DEF Inv
<1> DEFINE new == [IdleCall EXCEPT !.stage = "sent", !.index = round.index + 1,
                     !.players = Joined, !.offered = pool \ used, !.awaited = TRUE]
<1>1. /\ config.server /\ Len(players) >= config.min
      /\ calls[c].stage = "idle"
      /\ calls' = [calls EXCEPT ![c] = new]
      /\ UNCHANGED <<known, spent, secrets, losses>>
  BY DEF RequestDraw, Request
<1>2. round.index + 1 \in Nat
  <2>1. round.index \in Nat \cup {-1}
    BY DEF TypeOK, Round
  <2> QED
    BY ONLY <2>1
<1>3. Joined \in SUBSET Players /\ pool \ used \in SUBSET Cards
  BY JoinedFacts DEF TypeOK
<1>4. /\ new \in Call /\ new.stage = "sent" /\ new.players = Joined
      /\ new.offered \subseteq pool
  BY <1>2, <1>3 DEF IdleCall, Call, Stages
<1> HIDE DEF new
<1>5. /\ calls' \in [Calls -> Call] /\ calls'[c] = new
      /\ \A d \in Calls \ {c} : calls'[d] = calls[d]
  BY <1>1, <1>4, CallUpdate DEF TypeOK
<1>6. TypeOK'
  BY <1>1, <1>5 DEF TypeOK, RoleDrawTypeOK
<1>7. DealtOnce'
  <2>1. \A d \in Calls : HoldsCard(d)' => d # c /\ HoldsCard(d) /\ calls'[d] = calls[d]
    BY <1>4, <1>5 DEF HoldsCard
  <2>2. \A d \in Calls : calls'[d].awaited => calls'[d].stage # "idle"
    BY <1>4, <1>5 DEF DealtOnce, OneCardPerCall
  <2>3. OneCardPerCall'
    BY <1>1, <2>1, <2>2 DEF DealtOnce, OneCardPerCall
  <2>4. \A d \in Calls : calls'[d].offered \subseteq pool
    BY <1>4, <1>5 DEF DealtOnce
  <2> QED
    BY <1>1, <2>1, <2>3, <2>4 DEF DealtOnce, GalleryOK
<1>8. StrokesInTurn'
  BY StrokesFrame
<1>9. EnoughPlayers'
  BY <1>1 DEF EnoughPlayers
<1>10. SeatedRounds'
  <2>1. \A d \in Calls : /\ calls'[d].players \subseteq Joined
                         /\ HoldsCard(d)' => calls'[d].card # NoCard
    BY <1>4, <1>5 DEF SeatedRounds, HoldsCard
  <2> QED
    BY <2>1 DEF SeatedRounds, Artists, Joined
<1> QED
  BY <1>6, <1>7, <1>8, <1>9, <1>10

\* The answer arrives, in whatever status the game is by then.
LEMMA DrawReturnsInv ==
  ASSUME Inv, NEW c \in Calls, NEW order \in Shuffles(calls[c].players),
         DrawReturns(c, order)
  PROVE  Inv'
<1> USE DEF Inv
<1>1. /\ calls[c].stage = "answered"
      /\ used' = used \cup (pool \cap {calls[c].card})
      /\ round' = NewRound(calls[c].index, calls[c].card, calls[c].fake, order)
      /\ status' = "ROUND_ANNOUNCE"
      /\ calls' = [calls EXCEPT ![c] = IdleCall]
      /\ UNCHANGED <<players, submitted, pool, config, past_rounds, scores, winner,
                     known, spent, secrets, losses>>
  BY DEF DrawReturns
<1>2. /\ HoldsCard(c) /\ calls[c].card \in spent /\ calls[c].card # NoCard
      /\ calls[c].fake \in calls[c].players /\ calls[c].card \notin used
  BY <1>1 DEF DealtOnce, OneCardPerCall, HoldsCard, SeatedRounds
<1>3. /\ calls[c].index \in Nat /\ calls[c].card \in Cards
      /\ calls[c].players \in SUBSET Joined
  BY <1>2, CallFacts DEF Call
<1>4. calls[c].card \in pool
  BY <1>2 DEF DealtOnce, OneCardPerCall
<1>5. /\ calls' \in [Calls -> Call] /\ calls'[c] = IdleCall
      /\ \A d \in Calls \ {c} : calls'[d] = calls[d]
  BY <1>1, CallFacts, CallUpdate DEF TypeOK
<1>6. /\ round' \in Round
      /\ round'.index >= 0 /\ round'.card = calls[c].card
      /\ StrokesInTurn' /\ SeatedRounds'
  BY <1>1, <1>2, <1>3, <1>5, AnnounceInv
<1>7. TypeOK'
  BY <1>1, <1>4, <1>5, <1>6 DEF TypeOK, RoleDrawTypeOK, Statuses
<1>8. DealtOnce'
  <2>1. \A d \in Calls : HoldsCard(d)' => d # c /\ HoldsCard(d) /\ calls'[d] = calls[d]
    BY <1>5 DEF HoldsCard, IdleCall
  <2>2. \A d \in Calls : calls'[d].awaited => calls'[d].stage # "idle"
    BY <1>5 DEF DealtOnce, OneCardPerCall, IdleCall
  <2>3. OneCardPerCall'
    BY <1>1, <2>1, <2>2 DEF DealtOnce, OneCardPerCall
  <2>4. \A d \in Calls : calls'[d].offered \subseteq pool
    BY <1>5 DEF DealtOnce, IdleCall
  <2>5. used' = used \cup {calls[c].card}
    BY <1>1, <1>4
  <2>6. config.server /\ used' \subseteq spent
    BY <1>1, <1>2, <2>5 DEF DealtOnce, IdleCall
  <2>7. \A d \in Calls : HoldsCard(d)' => calls'[d].card \notin used'
    BY <1>2, <2>1, <2>5 DEF DealtOnce, OneCardPerCall
  <2>8. GalleryOK(past_rounds, round', used')
    <3>1. GalleryOK(past_rounds, round, used)
      BY DEF DealtOnce, GalleryOK
    <3> QED
      BY <1>2, <1>6, <2>5, <3>1, FreshRoundGallery
  <2> QED
    BY <1>1, <1>6, <2>3, <2>4, <2>5, <2>6, <2>7, <2>8 DEF DealtOnce, GalleryOK
<1>9. EnoughPlayers'
  BY <1>1, <1>2 DEF EnoughPlayers
<1> QED
  BY <1>6, <1>7, <1>8, <1>9

-----------------------------------------------------------------------------
\* Rounds drawn by the engine.
LEMMA PrepareLocallyInv ==
  ASSUME Inv, PrepareLocally, status \in {"WRITING", "ROUND_SUMMARY"},
         UNCHANGED <<players, submitted, pool, config, scores>>,
         past_rounds' \in Seq(PastRound), GalleryOK(past_rounds', round, used)
  PROVE  Inv'
<1> USE DEF Inv
<1>1. /\ ~config.server /\ UNCHANGED drawVars /\ Len(players) >= config.min /\ players # <<>>
  BY DEF PrepareLocally, SeatedRounds
<1>2. RoleDrawTypeOK' /\ OneCardPerCall' /\ \A c \in Calls : calls[c] = IdleCall
  BY <1>1, DrawTypesFrame DEF TypeOK, DealtOnce, OneCardPerCall, HoldsCard, drawVars
<1>3. EnoughPlayers'
  BY <1>1 DEF EnoughPlayers
<1>4. CASE GameOver /\ UNCHANGED <<used, round>>
  <2>1. winner' \in Players /\ status' = "GAME_OVER"
    BY <1>1, <1>4, TopScorerBest DEF TypeOK, GameOver
  <2>2. TypeOK'
    BY <1>2, <1>4, <2>1 DEF TypeOK, Statuses
  <2>3. DealtOnce'
    BY <1>1, <1>2, <1>4 DEF DealtOnce, HoldsCard, GalleryOK, drawVars
  <2>4. StrokesInTurn'
    BY <1>4, <2>1 DEF StrokesInTurn
  <2>5. SeatedRounds'
    BY <1>1, <1>4, <2>1, SeatedFrame DEF drawVars
  <2> QED
    BY <1>3, <2>2, <2>3, <2>4, <2>5
<1>5. CASE \E card \in pool \ used, order \in Shuffles(Joined), fake \in Joined :
             /\ used' = used \cup {card}
             /\ round' = NewRound(round.index + 1, card, fake, order)
             /\ status' = "ROUND_ANNOUNCE"
             /\ UNCHANGED winner
  <2>1. PICK card \in pool \ used, order \in Shuffles(Joined), fake \in Joined :
             /\ used' = used \cup {card}
             /\ round' = NewRound(round.index + 1, card, fake, order)
             /\ status' = "ROUND_ANNOUNCE"
             /\ UNCHANGED winner
    BY <1>5
  <2>2. round.index + 1 \in Nat
    <3>1. round.index \in Nat \cup {-1}
      BY DEF TypeOK, Round
    <3> QED
      BY ONLY <3>1
  <2>3. card \in Cards
    BY DEF TypeOK
  <2>4. /\ round' \in Round
        /\ round'.index >= 0 /\ round'.card = card
        /\ StrokesInTurn' /\ SeatedRounds'
    BY <1>1, <2>1, <2>2, <2>3, AnnounceInv DEF drawVars
  <2>5. TypeOK'
    BY <1>2, <2>1, <2>4 DEF TypeOK, Statuses
  <2>6. DealtOnce'
    <3>1. GalleryOK(past_rounds', round', used')
      BY <2>1, <2>4, FreshRoundGallery
    <3>2. \A c \in Calls : calls'[c] = IdleCall /\ ~HoldsCard(c)'
      <4>1. \A c \in Calls : calls'[c] = IdleCall
        BY <1>1, <1>2 DEF drawVars
      <4>2. IdleCall.stage = "idle"
        BY DEF IdleCall
      <4> QED
        BY <4>1, <4>2 DEF HoldsCard
    <3>3. known' \subseteq pool' /\ \A c \in Calls : calls'[c].offered \subseteq pool'
      BY <1>1 DEF DealtOnce, drawVars
    <3> QED
      BY <1>1, <1>2, <2>1, <2>4, <3>1, <3>2, <3>3 DEF DealtOnce, GalleryOK
  <2> QED
    BY <1>3, <2>4, <2>5, <2>6
<1> QED
  BY <1>4, <1>5 DEF PrepareLocally

\* handleStartRound, first use: a draw is asked for, or made locally.
LEMMA StartRoundInv ==
  ASSUME Inv, NEW p \in Players, StartRound(p)
  PROVE  Inv'
<1>1. /\ status = "WRITING"
      /\ UNCHANGED <<players, submitted, pool, config, past_rounds, scores>>
      /\ \/ \E c \in Calls : RequestDraw(c) /\ UNCHANGED <<status, used, round, winner>>
         \/ PrepareLocally
  BY DEF StartRound
<1>2. past_rounds' \in Seq(PastRound) /\ GalleryOK(past_rounds', round, used)
  BY <1>1 DEF Inv, TypeOK, DealtOnce, GalleryOK
<1> QED
  BY <1>1, <1>2, RequestInv, PrepareLocallyInv

\* handleNextRound: archive, then the end of the game or another draw.
LEMMA NextRoundInv ==
  ASSUME Inv, NEW p \in Players, NextRound(p)
  PROVE  Inv'
<1> USE DEF Inv
<1>1. /\ status = "ROUND_SUMMARY" /\ players # <<>>
      /\ past_rounds' = Archived
      /\ UNCHANGED <<players, submitted, pool, config, scores>>
      /\ \/ GameOver /\ UNCHANGED <<used, round>> /\ UNCHANGED drawVars
         \/ \E c \in Calls : RequestDraw(c) /\ UNCHANGED <<status, used, round, winner>>
         \/ PrepareLocally
  BY DEF NextRound, IsHost
<1>2. past_rounds' \in Seq(PastRound) /\ GalleryOK(past_rounds', round, used)
  BY <1>1, ArchivedFacts
<1>3. CASE GameOver /\ UNCHANGED <<used, round>> /\ UNCHANGED drawVars
  <2>1. winner' \in Players /\ status' = "GAME_OVER"
    BY <1>1, <1>3, TopScorerBest DEF TypeOK, GameOver
  <2>2. TypeOK'
    BY <1>1, <1>2, <1>3, <2>1, DrawTypesFrame DEF TypeOK, Statuses
  <2>3. DealtOnce'
    BY <1>1, <1>2, <1>3 DEF DealtOnce, OneCardPerCall, HoldsCard, GalleryOK, drawVars
  <2>4. StrokesInTurn'
    BY <1>3, <2>1 DEF StrokesInTurn
  <2>5. EnoughPlayers'
    BY <1>1, <1>3 DEF EnoughPlayers, drawVars
  <2>6. SeatedRounds'
    BY <1>1, <1>3, <2>1, SeatedFrame DEF drawVars
  <2> QED
    BY <2>2, <2>3, <2>4, <2>5, <2>6
<1> QED
  BY <1>1, <1>2, <1>3, RequestInv, PrepareLocallyInv

-----------------------------------------------------------------------------
\* Every step keeps the invariant.
LEMMA NextInv == Inv /\ [Next]_vars => Inv'
<1> SUFFICES ASSUME Inv, [Next]_vars
             PROVE  Inv'
  OBVIOUS
<1>1. ASSUME NEW p \in Players, Command(p)
      PROVE  Inv'
  BY <1>1, JoinInv, ConfigureInv, SubmitWordsInv, StartGameInv, StartRoundInv,
     BeginDrawingInv, SubmitStrokeInv, CastVoteInv, FakeGuessInv, NextRoundInv,
     EndGameInv DEF Command
<1>2. ASSUME NEW c \in Calls, DrawStep(c)
      PROVE  Inv'
  BY <1>2, ServerStepInv, LoseCallInv, DrawReturnsInv DEF DrawStep, NetworkLoses
<1>3. CASE UNCHANGED vars
  BY <1>3 DEF Inv, TypeOK, RoleDrawTypeOK, DealtOnce, OneCardPerCall, HoldsCard,
     StrokesInTurn, TotalStrokesNeeded, EnoughPlayers, SeatedRounds, Artists, Joined,
     vars, gameVars, drawVars
<1> QED
  BY <1>1, <1>2, <1>3 DEF Next

\* Every reachable state satisfies the inductive invariant.
THEOREM InvHolds == Spec => []Inv
<1> QED
  BY InitInv, NextInv, PTL DEF Spec

\* The variables of engine and draw keep their types: in particular every round
\* that is archived has a card, a fake and an outcome (handleNextRound,
\* handleEndGame), and whoever is declared the winner is a player (assignWinner).
THEOREM TypeCorrect == Spec => []TypeOK
<1>1. Inv => TypeOK
  BY DEF Inv
<1> QED
  BY <1>1, InvHolds, PTL

\* No card is played twice, however many draws overlap or lose their answers.
THEOREM CardsDealtOnce == Spec => []DealtOnce
<1>1. Inv => DealtOnce
  BY DEF Inv
<1> QED
  BY <1>1, InvHolds, PTL

\* Strokes come in turn and in the agreed number, with enough players who are at
\* the table, even when a late draw answer replaces a running round.
THEOREM RoundsOnTrack == Spec => []RoundOnTrack
<1>1. Inv => RoundOnTrack
  BY DEF Inv, RoundOnTrack
<1> QED
  BY <1>1, InvHolds, PTL
=============================================================================
