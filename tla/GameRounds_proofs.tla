-------------------------- MODULE GameRounds_proofs --------------------------
(***************************************************************************)
(* What a round of the game engine comes to, for every number of players,  *)
(* cards and calls and every configuration: who has drawn when the vote    *)
(* opens, that the verdict follows from the ballots, that what the server  *)
(* reveals is what was played; and of a host that waits for its draws that *)
(* its game goes through the phases of GamePhases and that its gallery     *)
(* explains every point.                                                   *)
(***************************************************************************)
EXTENDS GameEngine_proofs

-----------------------------------------------------------------------------
\* What a step does to the current round: it announces another one, leaves it
\* alone, or is a stroke, a vote or the guess.

Announces ==
  \E index \in Nat, card \in Cards, S \in SUBSET Players :
    \E fake \in S, order \in Shuffles(S) :
      /\ round' = NewRound(index, card, fake, order)
      /\ status' = "ROUND_ANNOUNCE"

LeavesRound ==
  /\ round' = round
  /\ \/ status' \in {status, "GAME_OVER"}
     \/ status = "LOBBY" /\ status' = "WRITING"
     \/ status = "ROUND_ANNOUNCE" /\ status' = "DRAWING"

Plays ==
  \E p \in Players :
    \/ SubmitStroke(p)
    \/ \E suspect \in Players : CastVote(p, suspect)
    \/ \E right \in BOOLEAN : FakeGuess(p, right)

\* The round after the last one has a natural number.
LEMMA NextIndex == TypeOK => round.index + 1 \in Nat
<1> SUFFICES ASSUME TypeOK
             PROVE  round.index + 1 \in Nat
  OBVIOUS
<1>1. round.index \in Nat \cup {-1}
  BY DEF TypeOK, Round
<1> QED
  BY ONLY <1>1

\* prepareRound either ends the game or announces the next round.
LEMMA LocalRound ==
  ASSUME Inv, PrepareLocally
  PROVE  \/ GameOver /\ UNCHANGED <<used, round>>
         \/ Announces /\ round'.index = round.index + 1 /\ UNCHANGED winner
<1> SUFFICES ASSUME ~(GameOver /\ UNCHANGED <<used, round>>)
             PROVE  Announces /\ round'.index = round.index + 1 /\ UNCHANGED winner
  OBVIOUS
<1>1. PICK card \in pool \ used, order \in Shuffles(Joined), fake \in Joined :
        /\ round' = NewRound(round.index + 1, card, fake, order)
        /\ status' = "ROUND_ANNOUNCE"
        /\ UNCHANGED winner
  BY DEF PrepareLocally
<1>2. card \in Cards /\ Joined \in SUBSET Players /\ round.index + 1 \in Nat
  BY NextIndex, JoinedFacts DEF Inv, TypeOK
<1>3. round'.index = round.index + 1
  BY <1>1 DEF NewRound, NoRound
<1> QED
  BY <1>1, <1>2, <1>3 DEF Announces

\* An answer that arrives announces the round it was asked for.
LEMMA DrawnRound ==
  ASSUME Inv, NEW c \in Calls, NEW order \in Shuffles(calls[c].players),
         DrawReturns(c, order)
  PROVE  /\ Announces
         /\ round'.index = calls[c].index
         /\ round'.card = calls[c].card
         /\ round'.fake = calls[c].fake
<1>1. /\ calls[c].stage = "answered"
      /\ round' = NewRound(calls[c].index, calls[c].card, calls[c].fake, order)
      /\ status' = "ROUND_ANNOUNCE"
  BY DEF DrawReturns
<1>2. /\ calls[c].card # NoCard /\ calls[c].fake \in calls[c].players
      /\ calls[c] \in Call
  BY <1>1, CallFacts DEF Inv, DealtOnce, OneCardPerCall, HoldsCard, SeatedRounds
<1>3. calls[c].index \in Nat /\ calls[c].card \in Cards /\ calls[c].players \in SUBSET Players
  BY <1>2 DEF Call
<1>4. /\ round'.index = calls[c].index
      /\ round'.card = calls[c].card
      /\ round'.fake = calls[c].fake
  BY <1>1 DEF NewRound, NoRound
<1> QED
  BY <1>1, <1>2, <1>3, <1>4 DEF Announces

\* There is nothing else a step may do to the round.
LEMMA RoundSteps ==
  ASSUME Inv, [Next]_vars
  PROVE  Announces \/ LeavesRound \/ Plays
<1>1. ASSUME NEW p \in Players, Command(p)
      PROVE  Announces \/ LeavesRound \/ Plays
  <2>1. CASE \/ Join(p)
             \/ \E c \in ConfigChoices : Configure(p, c)
             \/ \E words \in SUBSET (Cards \ pool) : SubmitWords(p, words)
             \/ StartGame(p)
             \/ BeginDrawing(p)
    BY <2>1 DEF Join, Configure, SubmitWords, StartGame, BeginDrawing, LeavesRound
  <2>2. CASE StartRound(p)
    BY <2>2, LocalRound DEF StartRound, LeavesRound, GameOver
  <2>3. CASE NextRound(p)
    BY <2>3, LocalRound DEF NextRound, LeavesRound, GameOver
  <2>4. CASE EndGame(p)
    BY <2>4 DEF EndGame, LeavesRound, GameOver
  <2> QED
    BY <1>1, <2>1, <2>2, <2>3, <2>4 DEF Command, Plays
<1>2. ASSUME NEW c \in Calls, DrawStep(c)
      PROVE  Announces \/ LeavesRound \/ Plays
  BY <1>2, DrawnRound DEF DrawStep, ServerStep, NetworkLoses, gameVars, LeavesRound
<1>3. CASE UNCHANGED vars
  BY <1>3 DEF vars, gameVars, LeavesRound
<1> QED
  BY <1>1, <1>2, <1>3 DEF Next

\* A round just announced: nobody has voted, nobody has guessed.
LEMMA AnnouncedRound ==
  ASSUME Announces
  PROVE  /\ IsInjective(round'.order)
         /\ round'.votes = NoVotes
         /\ round'.guess = "none"
         /\ round'.outcome = ""
         /\ status' = "ROUND_ANNOUNCE"
<1>1. PICK index \in Nat, card \in Cards, S \in SUBSET Players :
        \E fake \in S, order \in Shuffles(S) :
          /\ round' = NewRound(index, card, fake, order)
          /\ status' = "ROUND_ANNOUNCE"
  BY DEF Announces
<1>2. PICK fake \in S, order \in Shuffles(S) :
        /\ round' = NewRound(index, card, fake, order)
        /\ status' = "ROUND_ANNOUNCE"
  BY <1>1
<1> QED
  BY <1>2 DEF NewRound, NoRound, Shuffles

\* Playing a round does not touch whose round it is, nor anything outside it but
\* the scores and the status.
LEMMA PlayedRound ==
  ASSUME Inv, Plays
  PROVE  /\ round'.index = round.index /\ round'.card = round.card
         /\ round'.fake = round.fake /\ round'.order = round.order
         /\ UNCHANGED <<players, submitted, pool, used, config, past_rounds, winner>>
         /\ UNCHANGED drawVars
         /\ status \in {"DRAWING", "VOTING", "FAKE_GUESS"}
<1>0. round \in Round
  BY DEF Inv, TypeOK
<1>1. CASE \E p \in Players : SubmitStroke(p)
  BY <1>0, <1>1 DEF SubmitStroke, Round
<1>2. CASE \E p \in Players, suspect \in Players : CastVote(p, suspect)
  BY <1>0, <1>2 DEF CastVote, Finalize, Round
<1>3. CASE \E p \in Players, right \in BOOLEAN : FakeGuess(p, right)
  BY <1>0, <1>3 DEF FakeGuess, Finalize, Round
<1> QED
  BY <1>1, <1>2, <1>3 DEF Plays

-----------------------------------------------------------------------------
\* Everyone has drawn.

\* Arithmetic the provers find one fact at a time: division with remainder, and
\* the order of multiples.
LEMMA DivisionFacts ==
  ASSUME NEW a \in Nat, NEW n \in Nat \ {0}
  PROVE  a = n * (a \div n) + (a % n) /\ a \div n \in Nat /\ a % n \in 0..n-1
OBVIOUS

LEMMA Remainder ==
  ASSUME NEW a \in Nat, NEW n \in Nat \ {0}, NEW r \in 0..n-1
  PROVE  (a * n + r) % n = r
OBVIOUS

LEMMA MultiplesGrow ==
  ASSUME NEW a \in Nat, NEW b \in Nat, NEW n \in Nat \ {0}
  PROVE  a <= b <=> a * n <= b * n
OBVIOUS

\* Of k rounds around a table of n, seat j gets k turns.
LEMMA TurnsEven ==
  ASSUME NEW k \in Nat \ {0}, NEW n \in Nat \ {0}, NEW j \in 1..n
  PROVE  Cardinality({i \in 1..k*n : ((i - 1) % n) + 1 = j}) = k
<1> DEFINE Turns == {i \in 1..k*n : ((i - 1) % n) + 1 = j}
           turn == [m \in 1..k |-> (m - 1) * n + j]
<1>1. k * n \in Nat
  OBVIOUS
<1>2. \A m \in 1..k : turn[m] \in Turns
  <2> SUFFICES ASSUME NEW m \in 1..k
               PROVE  turn[m] \in Turns
    OBVIOUS
  <2> DEFINE before == (m - 1) * n
  <2>1. m - 1 \in Nat /\ k - 1 \in Nat /\ m - 1 <= k - 1 /\ j - 1 \in 0..n-1
    OBVIOUS
  <2>2. before \in Nat /\ before <= (k - 1) * n
    BY <2>1, MultiplesGrow
  <2>3. (k - 1) * n = k * n - n
    OBVIOUS
  <2>4. before + j \in 1..k*n
    BY <1>1, <2>2, <2>3
  <2>5. (before + (j - 1)) % n = j - 1
    BY <2>1, Remainder
  <2>6. turn[m] = before + j /\ turn[m] - 1 = before + (j - 1)
    BY <2>2
  <2> HIDE DEF before, turn
  <2> QED
    BY <2>4, <2>5, <2>6
<1>3. turn \in Injection(1..k, Turns)
  <2>1. turn \in [1..k -> Turns]
    BY <1>2
  <2>2. ASSUME NEW a \in 1..k, NEW b \in 1..k, turn[a] = turn[b]
        PROVE  a = b
    <3> DEFINE x == (a - 1) * n
               y == (b - 1) * n
    <3>1. a - 1 \in Nat /\ b - 1 \in Nat
      OBVIOUS
    <3>2. x \in Nat /\ y \in Nat
      BY <3>1
    <3>3. x = y
      <4>1. x + j = y + j
        BY <2>2
      <4> HIDE DEF x, y
      <4> QED
        BY <3>2, <4>1
    <3>4. a - 1 <= b - 1 /\ b - 1 <= a - 1
      <4>1. x <= y /\ y <= x
        BY <3>2, <3>3
      <4> QED
        BY ONLY <3>1, <4>1, MultiplesGrow, n \in Nat \ {0}
    <3> QED
      BY <3>1, <3>4
  <2> HIDE DEF turn, Turns
  <2> QED
    BY <2>1, <2>2 DEF Injection, IsInjective
<1>4. turn \in Surjection(1..k, Turns)
  <2>1. ASSUME NEW i \in Turns
        PROVE  \E m \in 1..k : turn[m] = i
    <3> DEFINE q == (i - 1) \div n
    <3>1. i \in 1..k*n /\ i - 1 \in Nat /\ (i - 1) % n = j - 1
      BY <1>1, DivisionFacts
    <3>2. i - 1 = n * q + (j - 1) /\ q \in Nat
      BY <3>1, DivisionFacts
    <3> HIDE DEF q
    <3>3. q < k
      <4> SUFFICES ASSUME q >= k
                   PROVE  FALSE
        BY <3>2
      <4>1. k * n <= q * n
        BY <3>2, MultiplesGrow
      <4> DEFINE x == q * n
                 y == k * n
      <4>2. n * q = x /\ x \in Nat
        BY <3>2
      <4>3. i = x + j
        <5>1. i \in Int
          BY <1>1, <3>1
        <5>2. i - 1 = x + (j - 1)
          BY <3>2, <4>2
        <5> HIDE DEF x
        <5> QED
          BY <4>2, <5>1, <5>2
      <4>4. i <= y /\ y <= x /\ y \in Nat
        BY <1>1, <3>1, <4>1
      <4> HIDE DEF x, y
      <4> QED
        BY <4>2, <4>3, <4>4
    <3>4. turn[q + 1] = q * n + j
      BY <3>2, <3>3
    <3>5. turn[q + 1] = i
      <4> DEFINE x == q * n
      <4>1. n * q = x /\ x \in Nat
        BY <3>2
      <4>2. i - 1 = x + (j - 1) /\ turn[q + 1] = x + j /\ i \in Nat
        BY <1>1, <3>1, <3>2, <3>4, <4>1
      <4> HIDE DEF x, turn
      <4> QED
        BY <4>1, <4>2
    <3>6. q + 1 \in 1..k
      BY <3>2, <3>3
    <3> HIDE DEF turn
    <3> QED
      BY <3>5, <3>6
  <2>2. turn \in [1..k -> Turns]
    BY <1>2
  <2> HIDE DEF turn, Turns
  <2> QED
    BY <2>1, <2>2 DEF Surjection
<1>5. ExistsBijection(1..k, Turns)
  BY <1>3, <1>4 DEF ExistsBijection, Bijection
<1>6. IsFiniteSet(1..k) /\ Cardinality(1..k) = k
  BY FS_Interval
<1> HIDE DEF Turns
<1> QED
  BY <1>5, <1>6, FS_Bijection DEF Turns

\* Nobody sits twice in the order of a round.
OrderInjective == IsInjective(round.order)

LEMMA OrderInit == Init => OrderInjective
<1> SUFFICES ASSUME Init
             PROVE  IsInjective(round.order)
  BY DEF OrderInjective
<1>1. round.order = <<>>
  BY DEF Init, GameInit, NoRound
<1> QED
  BY <1>1, NobodyInEmpty DEF IsInjective

LEMMA OrderStep == Inv /\ OrderInjective /\ [Next]_vars => OrderInjective'
BY RoundSteps, AnnouncedRound, PlayedRound DEF OrderInjective, LeavesRound

\* With everybody seated once and the strokes in turn, the turns are even.
LEMMA DrawnEvenly == Inv /\ OrderInjective => EveryoneDrew
<1> SUFFICES ASSUME Inv, OrderInjective,
                    status \in {"VOTING", "FAKE_GUESS", "ROUND_SUMMARY"},
                    NEW p \in Artists
             PROVE  Cardinality({i \in DOMAIN round.strokes : round.strokes[i] = p})
                      = config.strokes
  BY DEF EveryoneDrew
<1> USE DEF Inv
<1> DEFINE n == Len(round.order)
           k == config.strokes
<1>1. /\ round.order \in Seq(Players) /\ round.strokes \in Seq(Players)
      /\ k \in Nat \ {0} /\ n \in Nat \ {0}
  BY RoundFacts
<1>2. Len(round.strokes) = k * n
  BY DEF StrokesInTurn, TotalStrokesNeeded
<1>3. DOMAIN round.strokes = 1..k*n /\ DOMAIN round.order = 1..n
  BY <1>1, <1>2
<1>4. PICK j \in 1..n : round.order[j] = p
  BY <1>3 DEF Artists, Range
<1>5. \A i \in 1..k*n : round.strokes[i] = round.order[((i - 1) % n) + 1]
  BY <1>2 DEF StrokesInTurn
<1>6. k * n \in Nat
  BY <1>1
<1>7. \A i \in 1..k*n : ((i - 1) % n) + 1 \in 1..n
  <2> HIDE DEF n, k
  <2> SUFFICES ASSUME NEW i \in 1..k*n
               PROVE  ((i - 1) % n) + 1 \in 1..n
    OBVIOUS
  <2>1. i - 1 \in Nat
    BY <1>6
  <2>2. (i - 1) % n \in 0..n-1
    BY <1>1, <2>1, DivisionFacts
  <2> QED
    BY <1>1, <2>2
<1> HIDE DEF n, k
<1>8. \A i \in 1..k*n : round.strokes[i] = p <=> ((i - 1) % n) + 1 = j
  BY <1>3, <1>4, <1>5, <1>7 DEF OrderInjective, IsInjective
<1>9. {i \in DOMAIN round.strokes : round.strokes[i] = p}
        = {i \in 1..k*n : ((i - 1) % n) + 1 = j}
  BY <1>3, <1>8
<1>10. Cardinality({i \in 1..k*n : ((i - 1) % n) + 1 = j}) = k
  BY <1>1, TurnsEven
<1> QED
  BY <1>9, <1>10, Zenon DEF k

\* When a vote opens every player of the round has drawn the agreed number of
\* strokes, whatever came between (engine.ts 265).
THEOREM AllHaveDrawn == Spec => []EveryoneDrew
<1>1. Spec => []OrderInjective
  BY OrderInit, OrderStep, InvHolds, PTL DEF Spec
<1> QED
  BY <1>1, DrawnEvenly, InvHolds, PTL

-----------------------------------------------------------------------------
\* The verdict follows from the ballots.

Complete(r) == \A p \in Range(r.order) : r.votes[p] # NoOne
Against(r, p) == {q \in Range(r.order) : r.votes[q] = p}
Unmasked(r) ==
  \A p \in Range(r.order) \ {r.fake} :
    Cardinality(Against(r, p)) < Cardinality(Against(r, r.fake))

\* Artists vote for artists, not before the vote opens, and nothing is guessed
\* before the verdict.
BallotsInv ==
  /\ \A p \in Players : round.votes[p] # NoOne => p \in Artists /\ round.votes[p] \in Artists
  /\ status \in {"LOBBY", "WRITING", "ROUND_ANNOUNCE", "DRAWING"} => round.votes = NoVotes
  /\ status \notin {"ROUND_SUMMARY", "GAME_OVER"} => round.guess = "none"
  /\ status = "VOTING" => ~Complete(round)
  /\ status = "FAKE_GUESS" => Complete(round) /\ Unmasked(round)
  /\ status = "ROUND_SUMMARY" =>
       Complete(round) /\ (Unmasked(round) <=> round.guess # "none")

LEMMA BallotsInit == Init => BallotsInv
<1> SUFFICES ASSUME Init
             PROVE  BallotsInv
  OBVIOUS
<1>1. status = "LOBBY" /\ round.votes = NoVotes /\ round.guess = "none"
  BY DEF Init, GameInit, NoRound
<1> QED
  BY <1>1 DEF BallotsInv, NoVotes

LEMMA BallotsMeanVerdict == BallotsInv => VerdictMatchesBallots
BY DEF BallotsInv, VerdictMatchesBallots, Complete, Unmasked, Against, Artists

\* The people of a round that is under way.
LEMMA ArtistsFacts ==
  ASSUME Inv, status \notin {"LOBBY", "WRITING", "GAME_OVER"}
  PROVE  /\ Artists \in SUBSET Players
         /\ IsFiniteSet(Artists)
         /\ round.fake \in Artists
         /\ NoOne \notin Artists
         /\ round.votes \in [Players -> Players \cup {NoOne}]
<1>1. Joined \in SUBSET Players /\ IsFiniteSet(Joined)
  BY JoinedFacts DEF Inv, TypeOK
<1>2. Artists \subseteq Joined /\ round.fake \in Artists
  BY DEF Inv, StrokesInTurn, SeatedRounds
<1>3. round \in Round
  BY DEF Inv, TypeOK
<1> QED
  BY <1>1, <1>2, <1>3, FS_Subset, NamesAssumption DEF Round

\* Once all ballots are in, tallyVotes catches the fake exactly when no other
\* artist has as many votes: its tally counts voters, and voters are artists.
LEMMA CaughtIsUnmasked ==
  ASSUME Inv, status = "VOTING",
         NEW r, r.order = round.order, r.fake = round.fake,
         r.votes \in [Players -> Players \cup {NoOne}],
         \A q \in Players : r.votes[q] # NoOne => q \in Artists /\ r.votes[q] \in Artists,
         Complete(r)
  PROVE  Caught(r.votes) <=> Unmasked(r)
<1> DEFINE fake == round.fake
           count(t) == Cardinality(Against(r, t))
<1>1. /\ Artists \in SUBSET Players /\ IsFiniteSet(Artists)
      /\ fake \in Artists /\ NoOne \notin Artists
  BY ArtistsFacts
<1>2. Range(r.order) = Artists
  BY DEF Artists
<1>3. \A t \in Artists : VotesFor(Ballots(r.votes), t) = count(t)
  <2> SUFFICES ASSUME NEW t \in Artists
               PROVE  VotesFor(Ballots(r.votes), t) = count(t)
    OBVIOUS
  <2>1. {v \in DOMAIN Ballots(r.votes) : Ballots(r.votes)[v] = t} = Against(r, t)
    BY <1>1, <1>2 DEF Ballots, Against
  <2> QED
    BY <2>1, Zenon DEF VotesFor
<1>4. \A t \in Artists : Against(r, t) \subseteq Artists /\ count(t) \in Nat
  <2>1. \A t \in Artists : Against(r, t) \subseteq Artists
    BY <1>2 DEF Against
  <2>2. \A t \in Artists : IsFiniteSet(Against(r, t))
    BY <1>1, <2>1, FS_Subset
  <2> QED
    BY <2>1, <2>2, FS_CardinalityType
<1>5. Caught(r.votes) <=> /\ count(fake) > 0
                          /\ \A t \in Artists \ {fake} : count(t) < count(fake)
  <2> HIDE DEF count
  <2> QED
    BY <1>1, <1>3 DEF Caught, StrictlyLeads
<1>6. Unmasked(r) <=> \A t \in Artists \ {fake} : count(t) < count(fake)
  BY <1>2 DEF Unmasked
<1>7. ASSUME \A t \in Artists \ {fake} : count(t) < count(fake)
      PROVE  count(fake) > 0
  <2>1. r.votes[fake] \in Artists /\ fake \in Against(r, r.votes[fake])
    BY <1>1, <1>2 DEF Complete, Against
  <2>2. CASE r.votes[fake] = fake
    <3>1. Against(r, fake) # {} /\ IsFiniteSet(Against(r, fake))
      BY <1>1, <1>4, <2>1, <2>2, FS_Subset
    <3>2. count(fake) # 0
      BY <3>1, FS_EmptySet
    <3> QED
      BY <1>1, <1>4, <3>2
  <2>3. CASE r.votes[fake] # fake
    <3>1. count(r.votes[fake]) < count(fake) /\ count(r.votes[fake]) \in Nat
      BY <1>4, <1>7, <2>1, <2>3
    <3> HIDE DEF count
    <3> QED
      BY <1>1, <1>4, <3>1
  <2> QED
    BY <2>2, <2>3
<1> HIDE DEF count
<1> QED
  BY <1>5, <1>6, <1>7

\* A ballot paper that is filled in, first or again.
LEMMA VoteBallots ==
  ASSUME Inv, BallotsInv, NEW p \in Players, NEW suspect \in Players, CastVote(p, suspect)
  PROVE  BallotsInv'
<1> DEFINE votes == [round.votes EXCEPT ![p] = suspect]
           voted == [round EXCEPT !.votes = votes]
<1>1. /\ status = "VOTING" /\ p \in Artists /\ suspect \in Artists
      /\ \/ /\ ~Complete(voted)
            /\ round' = voted /\ status' = status
         \/ /\ Complete(voted) /\ Caught(votes)
            /\ round' = voted /\ status' = "FAKE_GUESS"
         \/ /\ Complete(voted) /\ ~Caught(votes)
            /\ Finalize(voted, FALSE, FALSE)
  <2>1. round \in Round
    BY DEF Inv, TypeOK
  <2>2. voted.votes = votes /\ voted.order = round.order
    BY <2>1 DEF Round
  <2> HIDE DEF voted, votes
  <2>3. Complete(voted) <=> \A q \in Artists : votes[q] # NoOne
    BY <2>2 DEF Complete, Artists
  <2> QED
    BY <2>3 DEF CastVote, voted, votes
<1>2. /\ voted \in Round
      /\ voted.order = round.order /\ voted.fake = round.fake
      /\ voted.guess = round.guess /\ voted.votes = votes
      /\ votes \in [Players -> Players \cup {NoOne}]
  <2>1. round \in Round
    BY DEF Inv, TypeOK
  <2>2. votes \in [Players -> Players \cup {NoOne}]
    BY <2>1 DEF Round
  <2> HIDE DEF votes
  <2> QED
    BY <2>1, <2>2 DEF Round
<1>3. \A q \in Players : votes[q] # NoOne => q \in Artists /\ votes[q] \in Artists
  BY <1>1, ArtistsFacts DEF BallotsInv
<1>4. Complete(voted) => (Caught(votes) <=> Unmasked(voted))
  <2> HIDE DEF votes, voted
  <2> QED
    BY <1>1, <1>2, <1>3, CaughtIsUnmasked
<1>5. /\ round'.order = voted.order /\ round'.fake = voted.fake
      /\ round'.guess = "none" /\ round'.votes = votes
      /\ status' \in {"VOTING", "FAKE_GUESS", "ROUND_SUMMARY"}
      /\ status' = "VOTING" <=> ~Complete(voted)
      /\ status' = "FAKE_GUESS" <=> Complete(voted) /\ Unmasked(voted)
  <2>1. round.guess = "none"
    BY <1>1 DEF BallotsInv
  <2> HIDE DEF votes, voted
  <2> QED
    BY <1>1, <1>2, <1>4, <2>1 DEF Finalize, Round
<1> HIDE DEF votes, voted
<1>6. /\ Artists' = Artists
      /\ Complete(round)' <=> Complete(voted)
      /\ Unmasked(round)' <=> Unmasked(voted)
  BY <1>2, <1>5 DEF Artists, Complete, Unmasked, Against
<1> QED
  BY <1>3, <1>5, <1>6 DEF BallotsInv

\* The vote opens with an empty ballot paper of somebody.
LEMMA StrokeBallots ==
  ASSUME Inv, BallotsInv, NEW p \in Players, SubmitStroke(p)
  PROVE  BallotsInv'
<1>1. /\ status = "DRAWING"
      /\ status' \in {"DRAWING", "VOTING"}
      /\ round' = [round EXCEPT !.strokes = Append(@, p)]
  BY DEF SubmitStroke
<1>2. round \in Round /\ round.fake \in Artists /\ Artists \in SUBSET Players
  BY <1>1, ArtistsFacts DEF Inv, TypeOK
<1>3. /\ round'.order = round.order /\ round'.votes = round.votes
      /\ round'.guess = round.guess
  BY <1>1, <1>2 DEF Round
<1>4. round.votes = NoVotes /\ round.guess = "none"
  BY <1>1 DEF BallotsInv
<1>5. ~Complete(round)'
  BY <1>2, <1>3, <1>4 DEF Complete, Artists, NoVotes
<1> QED
  BY <1>1, <1>3, <1>4, <1>5 DEF BallotsInv, NoVotes

\* The guess leaves the ballots alone.
LEMMA GuessBallots ==
  ASSUME Inv, BallotsInv, NEW p \in Players, NEW right \in BOOLEAN, FakeGuess(p, right)
  PROVE  BallotsInv'
<1>1. /\ status = "FAKE_GUESS" /\ status' = "ROUND_SUMMARY"
      /\ round'.order = round.order /\ round'.fake = round.fake
      /\ round'.votes = round.votes /\ round'.guess \in {"right", "wrong"}
  <2>1. round \in Round
    BY DEF Inv, TypeOK
  <2> QED
    BY <2>1 DEF FakeGuess, Finalize, Round
<1>2. Complete(round) /\ Unmasked(round)
  BY <1>1 DEF BallotsInv
<1>3. Complete(round)' /\ Unmasked(round)' /\ Artists' = Artists
  BY <1>1, <1>2 DEF Complete, Unmasked, Against, Artists
<1> QED
  BY <1>1, <1>3 DEF BallotsInv

LEMMA BallotsStep == Inv /\ BallotsInv /\ [Next]_vars => BallotsInv'
<1> SUFFICES ASSUME Inv, BallotsInv, [Next]_vars
             PROVE  BallotsInv'
  OBVIOUS
<1>1. CASE Announces
  BY <1>1, AnnouncedRound DEF BallotsInv, NoVotes
<1>2. CASE LeavesRound
  BY <1>2 DEF LeavesRound, BallotsInv, Artists
<1>3. CASE Plays
  BY <1>3, StrokeBallots, VoteBallots, GuessBallots DEF Plays
<1> QED
  BY <1>1, <1>2, <1>3, RoundSteps

LEMMA BallotsHold == Spec => []BallotsInv
<1> QED
  BY BallotsInit, BallotsStep, InvHolds, PTL DEF Spec

\* The fake gets to guess exactly when every artist has voted and nobody else has as
\* many votes, the vote is open until then, and the ballots stay as they were
\* counted (handleCastVote, tallyVotes).
THEOREM VerdictFollows == Spec => []VerdictMatchesBallots
<1> QED
  BY BallotsHold, BallotsMeanVerdict, PTL

-----------------------------------------------------------------------------
\* What is revealed is what was played.

\* A call the server has not finished with.
Running(c) == calls[c].stage # "idle"

\* The secrets are kept per round index, and two draws of one index overwrite each
\* other's (draw.go 156): what follows is about games in which they do not overlap.
OneDraw == \A c, d \in Calls : Running(c) /\ Running(d) => c = d

\* A set of secrets has that of a round.
Reveals(known_secrets, r) ==
  \E s \in known_secrets : s.index = r.index /\ s.card = r.card /\ s.fake = r.fake

\* A draw under way is for the round after the current one, and its secret is there
\* when its answer leaves; no round of the gallery is later than the current one.
SecretsInv ==
  config.server =>
  /\ \A c \in Calls : Running(c) => calls[c].index = round.index + 1
  /\ \A c \in Calls : calls[c].stage = "answered" => SecretOf(c) \in secrets
  /\ \A i \in DOMAIN past_rounds : past_rounds[i].index <= round.index
  /\ round.index >= 0 => RevealMatches(round)
  /\ \A i \in DOMAIN past_rounds : RevealMatches(past_rounds[i])

LEMMA SecretsReveal == SecretsInv => RevealMatchesRounds
BY DEF SecretsInv, RevealMatchesRounds

LEMMA SecretsInit == Init => SecretsInv
<1> SUFFICES ASSUME Init
             PROVE  SecretsInv
  OBVIOUS
<1>1. /\ past_rounds = <<>> /\ round.index = -1
      /\ \A c \in Calls : calls[c].stage = "idle"
  BY DEF Init, GameInit, RoleDrawInit, NoRound, IdleCall
<1>2. DOMAIN past_rounds = {}
  BY ONLY <1>1, NobodyInEmpty
<1> QED
  BY <1>1, <1>2 DEF SecretsInv, Running

\* The rounds have numbers that can be compared.
LEMMA IndexFacts ==
  ASSUME Inv
  PROVE  /\ round.index \in Int
         /\ \A i \in DOMAIN past_rounds : past_rounds[i].index \in Nat
         /\ \A c \in Calls : calls[c].index \in Nat
<1>1. round.index \in Nat \cup {-1}
  BY DEF Inv, TypeOK, Round
<1>2. past_rounds \in Seq(PastRound)
  BY DEF Inv, TypeOK
<1>3. \A i \in DOMAIN past_rounds : past_rounds[i] \in PastRound
  BY <1>2
<1>4. \A c \in Calls : calls[c].index \in Nat
  BY CallFacts DEF Call
<1> QED
  BY <1>1, <1>3, <1>4 DEF PastRound

\* A step that touches neither the draw nor what the gallery and the current round
\* have of a card and a fake.
LEMMA SecretsFrame ==
  ASSUME SecretsInv,
         config'.server = config.server,
         UNCHANGED <<secrets, calls, past_rounds>>,
         round'.index = round.index, round'.card = round.card, round'.fake = round.fake
  PROVE  SecretsInv'
BY DEF SecretsInv, RevealMatches, Running, SecretOf

\* Archiving a closed round adds one that is revealed already.
LEMMA SecretsArchived ==
  ASSUME Inv, SecretsInv, config.server, status = "ROUND_SUMMARY"
  PROVE  \A i \in DOMAIN Archived : Archived[i].index <= round.index /\ RevealMatches(Archived[i])
<1>1. CASE IsArchived(round.index)
  BY <1>1 DEF Archived, SecretsInv
<1>2. CASE ~IsArchived(round.index)
  <2> DEFINE a == Archive(round)
             n == Len(past_rounds)
             longer == Append(past_rounds, a)
  <2>1. round.index >= 0 /\ round.index \in Int
    BY IndexFacts DEF Inv, StrokesInTurn
  <2>2. a.index <= round.index /\ RevealMatches(a)
    BY <2>1 DEF Archive, SecretsInv, RevealMatches
  <2>3. past_rounds \in Seq(PastRound)
    BY DEF Inv, TypeOK
  <2> HIDE DEF a
  <2>4. /\ DOMAIN past_rounds = 1..n /\ n \in Nat
        /\ DOMAIN longer = 1..n+1 /\ longer[n+1] = a
        /\ \A i \in 1..n : longer[i] = past_rounds[i]
    BY <2>3
  <2>5. \A i \in 1..n+1 : i = n+1 \/ i \in 1..n
    BY <2>4
  <2>6. Archived = longer
    BY <1>2 DEF Archived, a
  <2> HIDE DEF longer, n
  <2> QED
    BY <2>2, <2>4, <2>5, <2>6 DEF SecretsInv
<1> QED
  BY <1>1, <1>2

\* The host closes the round, asks for another one or ends the game.
LEMMA SecretsGallery ==
  ASSUME Inv, SecretsInv, status = "ROUND_SUMMARY" \/ past_rounds' = past_rounds,
         past_rounds' \in {past_rounds, Archived},
         UNCHANGED <<config, round, secrets>>,
         \A c \in Calls : Running(c)' => calls'[c].index = round.index + 1,
         \A c \in Calls : calls'[c].stage = "answered" => calls'[c] = calls[c]
  PROVE  SecretsInv'
<1> SUFFICES ASSUME config.server
             PROVE  SecretsInv'
  BY DEF SecretsInv
<1>1. \A i \in DOMAIN past_rounds' :
        past_rounds'[i].index <= round.index /\ RevealMatches(past_rounds'[i])
  BY SecretsArchived DEF SecretsInv
<1> QED
  BY <1>1 DEF SecretsInv, RevealMatches, SecretOf

\* A call that is asked for is for the next round.
LEMMA RequestedIndex ==
  ASSUME Inv, SecretsInv, NEW c \in Calls, RequestDraw(c)
  PROVE  /\ \A d \in Calls : Running(d)' => calls'[d].index = round.index + 1
         /\ \A d \in Calls : calls'[d].stage = "answered" => calls'[d] = calls[d]
         /\ UNCHANGED secrets
<1> DEFINE new == [IdleCall EXCEPT !.stage = "sent", !.index = round.index + 1,
                     !.players = Joined, !.offered = pool \ used, !.awaited = TRUE]
<1>1. /\ config.server
      /\ calls' = [calls EXCEPT ![c] = new]
      /\ UNCHANGED secrets
  BY DEF RequestDraw, Request
<1>2. new.stage = "sent" /\ new.index = round.index + 1
  BY DEF IdleCall
<1> HIDE DEF new
<1>3. calls'[c] = new /\ \A d \in Calls \ {c} : calls'[d] = calls[d]
  BY <1>1 DEF Inv, TypeOK, RoleDrawTypeOK
<1> QED
  BY <1>1, <1>2, <1>3 DEF SecretsInv, Running

LEMMA CommandSecrets ==
  ASSUME Inv, SecretsInv, NEW p \in Players, Command(p)
  PROVE  SecretsInv'
<1>1. CASE \/ Join(p)
           \/ \E c \in ConfigChoices : Configure(p, c)
           \/ \E words \in SUBSET (Cards \ pool) : SubmitWords(p, words)
           \/ StartGame(p)
           \/ BeginDrawing(p)
  <2>1. /\ config'.server = config.server
        /\ UNCHANGED <<secrets, calls, past_rounds, round>>
    BY <1>1 DEF Join, Configure, SubmitWords, StartGame, BeginDrawing, drawVars
  <2> QED
    BY <2>1, SecretsFrame
<1>2. CASE Plays
  BY <1>2, PlayedRound, SecretsFrame DEF drawVars
<1>3. CASE StartRound(p) \/ NextRound(p) \/ EndGame(p)
  <2>1. /\ UNCHANGED config
        /\ past_rounds' \in {past_rounds, Archived}
        /\ status = "ROUND_SUMMARY" \/ past_rounds' = past_rounds
    BY <1>3 DEF StartRound, NextRound, EndGame
  <2>2. CASE ~config.server
    BY <2>1, <2>2 DEF SecretsInv
  <2>3. ASSUME config.server, NEW c \in Calls, RequestDraw(c), UNCHANGED round
        PROVE  SecretsInv'
    BY <2>1, <2>3, RequestedIndex, SecretsGallery
  <2>4. ASSUME config.server, UNCHANGED <<round, secrets, calls>>
        PROVE  SecretsInv'
    <3>1. \A d \in Calls : Running(d)' => calls'[d].index = round.index + 1
      BY <2>4 DEF SecretsInv, Running
    <3> QED
      BY <2>1, <2>4, <3>1, SecretsGallery
  <2> QED
    BY <1>3, <2>2, <2>3, <2>4 DEF StartRound, NextRound, EndGame, PrepareLocally, drawVars
<1> QED
  BY <1>1, <1>2, <1>3 DEF Command, Plays

\* The server works for a call, or its answer is lost: the round is as it was.
LEMMA ServerSecrets ==
  ASSUME Inv, SecretsInv, OneDraw, NEW c \in Calls, Serve(c) \/ LoseCall(c),
         UNCHANGED gameVars
  PROVE  SecretsInv'
<1> SUFFICES ASSUME config.server
             PROVE  SecretsInv'
  BY DEF SecretsInv, gameVars
<1>0. UNCHANGED <<config, round, past_rounds>>
  BY DEF gameVars
<1>1. /\ calls \in [Calls -> Call] /\ calls[c] \in Call
      /\ calls[c].awaited => Running(c)
  BY CallFacts DEF Inv, TypeOK, RoleDrawTypeOK, DealtOnce, OneCardPerCall, Running
<1>2. Running(c)
  BY <1>1 DEF Serve, MergePool, PickCard, PoolExhausted, RecordSecret, LoseCall, Running
<1>3. calls[c].index = round.index + 1
  BY <1>2 DEF SecretsInv
<1>4. \A d \in Calls \ {c} : calls'[d] = calls[d]
  BY <1>1 DEF Serve, MergePool, PickCard, PoolExhausted, RecordSecret, LoseCall
<1>5. Running(c)' => calls'[c].index = calls[c].index
  <2>1. CASE MergePool(c)
    BY <1>1, <2>1 DEF MergePool, Call
  <2>2. CASE PickCard(c)
    BY <1>1, <2>2 DEF PickCard, Call
  <2>3. CASE PoolExhausted(c)
    BY <1>1, <2>3 DEF PoolExhausted, Running, IdleCall
  <2>4. CASE RecordSecret(c)
    BY <1>1, <2>4 DEF RecordSecret, Running, IdleCall, Call
  <2>5. CASE LoseCall(c)
    BY <1>1, <2>5 DEF LoseCall, Running, IdleCall, Call
  <2> QED
    BY <2>1, <2>2, <2>3, <2>4, <2>5 DEF Serve
<1>6. \A d \in Calls \ {c} : ~Running(d) /\ ~Running(d)'
  BY <1>2, <1>4 DEF OneDraw, Running
<1>7. secrets' = secrets \/ secrets' = {s \in secrets : s.index # round.index + 1} \cup {SecretOf(c)}
  BY <1>3 DEF Serve, MergePool, PickCard, PoolExhausted, RecordSecret, LoseCall
<1>8. ASSUME NEW r, RevealMatches(r), r.index <= round.index, r.index \in Int
      PROVE  Reveals(secrets', r)
  <2>1. r.index # round.index + 1
    BY <1>8, IndexFacts
  <2> QED
    BY <1>7, <1>8, <2>1 DEF RevealMatches, Reveals
<1>9. calls'[c].stage = "answered" => SecretOf(c)' \in secrets'
  <2>1. CASE RecordSecret(c)
    <3>1. calls'[c].stage = "answered" => calls'[c] = [calls[c] EXCEPT !.stage = "answered"]
      BY <1>1, <2>1 DEF RecordSecret, IdleCall
    <3>2. calls'[c].stage = "answered" => SecretOf(c)' = SecretOf(c)
      BY <1>1, <3>1 DEF SecretOf, Call
    <3> QED
      BY <2>1, <3>2 DEF RecordSecret
  <2>2. CASE MergePool(c) \/ PickCard(c) \/ PoolExhausted(c)
    <3>1. CASE MergePool(c)
      BY <1>1, <3>1 DEF MergePool, Call
    <3>2. CASE PickCard(c)
      BY <1>1, <3>2 DEF PickCard, Call
    <3>3. CASE PoolExhausted(c)
      BY <1>1, <3>3 DEF PoolExhausted, IdleCall
    <3> QED
      BY <2>2, <3>1, <3>2, <3>3
  <2>3. CASE LoseCall(c)
    <3>1. secrets' = secrets
      BY <2>3 DEF LoseCall
    <3>2. calls'[c].stage = "answered" => FALSE
      BY <1>1, <2>3 DEF LoseCall, IdleCall, Call
    <3> QED
      BY <3>2
  <2> QED
    BY <2>1, <2>2, <2>3 DEF Serve
<1>10. \A i \in DOMAIN past_rounds : Reveals(secrets', past_rounds[i])
  BY <1>8, IndexFacts DEF SecretsInv
<1>11. round.index >= 0 => Reveals(secrets', round)
  BY <1>8, IndexFacts DEF SecretsInv
<1> QED
  BY <1>0, <1>3, <1>4, <1>5, <1>6, <1>9, <1>10, <1>11 DEF SecretsInv, RevealMatches, Reveals, Running

\* The answer makes its round the current one.
LEMMA DrawnSecrets ==
  ASSUME Inv, SecretsInv, OneDraw, NEW c \in Calls, NEW order \in Shuffles(calls[c].players),
         DrawReturns(c, order)
  PROVE  SecretsInv'
<1>1. /\ calls[c].stage = "answered"
      /\ calls' = [calls EXCEPT ![c] = IdleCall]
      /\ UNCHANGED <<config, past_rounds, secrets>>
  BY DEF DrawReturns
<1>2. \A d \in Calls : ~Running(d)'
  <2>1. Running(c) /\ calls \in [Calls -> Call]
    BY <1>1 DEF Running, Inv, TypeOK, RoleDrawTypeOK
  <2> QED
    BY <1>1, <2>1 DEF OneDraw, Running, IdleCall
<1>3. /\ round'.index = calls[c].index /\ round'.card = calls[c].card
      /\ round'.fake = calls[c].fake
  BY DrawnRound
<1>4. config.server => /\ SecretOf(c) \in secrets
                       /\ round'.index = round.index + 1
  BY <1>1, <1>3 DEF SecretsInv, Running
<1>5. config.server => RevealMatches(round)'
  BY <1>1, <1>3, <1>4 DEF RevealMatches, SecretOf
<1>6. \A i \in DOMAIN past_rounds :
        past_rounds[i].index <= round.index => past_rounds[i].index <= round.index + 1
  BY IndexFacts
<1> QED
  BY <1>1, <1>2, <1>4, <1>5, <1>6 DEF SecretsInv, RevealMatches, Running

LEMMA SecretsStep == Inv /\ SecretsInv /\ OneDraw /\ [Next]_vars => SecretsInv'
<1> SUFFICES ASSUME Inv, SecretsInv, OneDraw, [Next]_vars
             PROVE  SecretsInv'
  OBVIOUS
<1>1. ASSUME NEW c \in Calls, DrawStep(c)
      PROVE  SecretsInv'
  BY <1>1, ServerSecrets, DrawnSecrets DEF DrawStep, ServerStep, NetworkLoses
<1>2. CASE UNCHANGED vars
  BY <1>2, SecretsFrame DEF vars, gameVars, drawVars
<1> QED
  BY <1>1, <1>2, CommandSecrets DEF Next

\* As long as the server works for one call at a time, what clients check the
\* commitment of a round against is what the engine played (draw.go Reveal).
THEOREM RevealsMatch == Spec /\ []OneDraw => []RevealMatchesRounds
<1>1. Spec /\ []OneDraw => []SecretsInv
  BY SecretsInit, SecretsStep, InvHolds, PTL DEF Spec
<1> QED
  BY <1>1, SecretsReveal, PTL

-----------------------------------------------------------------------------
\* A host that waits.

Awaited == {c \in Calls : calls[c].awaited}

\* Under HostWaits the host has at most one draw to wait for, asked for where it now
\* stands, and only such a draw can be answered.  The end of a game is settled, and
\* without losses the server works for nobody but who waits.
AwaitInv ==
  /\ \A c, d \in Awaited : c = d
  /\ \A c \in Calls : calls[c].stage = "answered" => c \in Awaited
  /\ \A c \in Awaited : /\ status \in {"WRITING", "ROUND_SUMMARY"}
                        /\ calls[c].index = round.index + 1
  /\ status = "GAME_OVER" => winner = TopScorer
  /\ MaxLosses = 0 => \A c \in Calls : Running(c) => c \in Awaited

LEMMA AwaitInit == Init => AwaitInv
<1> SUFFICES ASSUME Init
             PROVE  AwaitInv
  OBVIOUS
<1>1. /\ status = "LOBBY"
      /\ \A c \in Calls : calls[c].stage = "idle" /\ ~calls[c].awaited
  BY DEF Init, GameInit, RoleDrawInit, IdleCall
<1> QED
  BY <1>1 DEF AwaitInv, Awaited, Running

\* Calls left alone, the round's number too, and the game not moved while one is
\* awaited.
LEMMA AwaitFrame ==
  ASSUME AwaitInv, calls' = calls, round'.index = round.index,
         Awaited # {} => status' = status,
         status' = "GAME_OVER" => winner' = TopScorer'
  PROVE  AwaitInv'
BY DEF AwaitInv, Awaited, Running

\* The host does something while nothing is awaited.
LEMMA HostFree ==
  ASSUME AwaitInv, HostWaits, HostMayAct, calls' = calls,
         status' = "GAME_OVER" => winner' = TopScorer'
  PROVE  AwaitInv'
BY DEF AwaitInv, HostMayAct, Awaited, Running

\* What the server and the network do to a call.
LEMMA ServedCall ==
  ASSUME Inv, NEW c \in Calls, Serve(c) \/ LoseCall(c)
  PROVE  /\ \A d \in Calls \ {c} : calls'[d] = calls[d]
         /\ calls'[c].awaited => calls[c].awaited /\ calls'[c].index = calls[c].index
         /\ calls'[c].stage = "answered" => calls'[c].awaited
         /\ Running(c) /\ (Running(c)' => calls'[c].awaited = calls[c].awaited \/ LoseCall(c))
<1>1. /\ calls \in [Calls -> Call] /\ calls[c] \in Call
      /\ calls[c].awaited => calls[c].stage # "idle"
  BY CallFacts DEF Inv, TypeOK, RoleDrawTypeOK, DealtOnce, OneCardPerCall
<1>2. CASE MergePool(c)
  BY <1>1, <1>2 DEF MergePool, Running, Call
<1>3. CASE PickCard(c)
  BY <1>1, <1>3 DEF PickCard, Running, Call
<1>4. CASE PoolExhausted(c)
  BY <1>1, <1>4 DEF PoolExhausted, Running, IdleCall
<1>5. CASE RecordSecret(c)
  BY <1>1, <1>5 DEF RecordSecret, Running, IdleCall, Call
<1>6. CASE LoseCall(c)
  <2>1. calls[c].awaited /\ calls[c].stage # "idle"
    BY <1>1, <1>6 DEF LoseCall
  <2>2. CASE calls' = [calls EXCEPT ![c] = IdleCall]
    BY <1>1, <1>6, <2>1, <2>2 DEF Running, IdleCall
  <2>3. CASE calls[c].stage # "answered" /\ calls' = [calls EXCEPT ![c].awaited = FALSE]
    BY <1>1, <1>6, <2>1, <2>3 DEF Running, Call
  <2> QED
    BY <1>6, <2>2, <2>3 DEF LoseCall
<1> QED
  BY <1>2, <1>3, <1>4, <1>5, <1>6 DEF Serve

LEMMA AwaitServed ==
  ASSUME Inv, AwaitInv, NEW c \in Calls, Serve(c) \/ LoseCall(c), UNCHANGED gameVars
  PROVE  AwaitInv'
<1>1. /\ UNCHANGED <<status, round, winner>> /\ TopScorer' = TopScorer
  BY DEF gameVars, TopScorer
<1>2. Awaited' \subseteq Awaited
  BY ServedCall DEF Awaited
<1>3. \A d \in Awaited' : calls'[d].index = calls[d].index
  BY ServedCall DEF Awaited
<1>4. \A d \in Calls : calls'[d].stage = "answered" => d \in Awaited'
  BY ServedCall DEF AwaitInv, Awaited
<1>5. MaxLosses = 0 => ~LoseCall(c)
  <2>1. losses \in 0..MaxLosses
    BY DEF Inv, TypeOK, RoleDrawTypeOK
  <2> QED
    BY <2>1 DEF LoseCall
<1>6. MaxLosses = 0 => \A d \in Calls : Running(d)' => d \in Awaited'
  BY <1>5, ServedCall DEF AwaitInv, Awaited, Running
<1> QED
  BY <1>1, <1>2, <1>3, <1>4, <1>6 DEF AwaitInv

LEMMA AwaitDrawn ==
  ASSUME Inv, AwaitInv, NEW c \in Calls, NEW order \in Shuffles(calls[c].players),
         DrawReturns(c, order)
  PROVE  AwaitInv'
<1>1. /\ calls[c].stage = "answered" /\ status' = "ROUND_ANNOUNCE"
      /\ calls' = [calls EXCEPT ![c] = IdleCall] /\ calls \in [Calls -> Call]
  BY DEF DrawReturns, Inv, TypeOK, RoleDrawTypeOK
<1>2. Awaited = {c}
  BY <1>1 DEF AwaitInv, Awaited
<1>3. calls'[c].stage = "idle" /\ ~calls'[c].awaited
  BY <1>1 DEF IdleCall
<1>4. Awaited' = {} /\ \A d \in Calls \ {c} : calls'[d] = calls[d]
  BY <1>1, <1>2, <1>3 DEF Awaited
<1> QED
  BY <1>1, <1>2, <1>3, <1>4 DEF AwaitInv, Running

\* A draw is asked for by a host that awaits none.
LEMMA AwaitRequested ==
  ASSUME Inv, AwaitInv, HostWaits, HostMayAct, NEW c \in Calls, RequestDraw(c),
         status \in {"WRITING", "ROUND_SUMMARY"}, UNCHANGED <<status, round>>
  PROVE  AwaitInv'
<1> DEFINE new == [IdleCall EXCEPT !.stage = "sent", !.index = round.index + 1,
                     !.players = Joined, !.offered = pool \ used, !.awaited = TRUE]
<1>1. calls' = [calls EXCEPT ![c] = new] /\ calls \in [Calls -> Call]
  BY DEF RequestDraw, Request, Inv, TypeOK, RoleDrawTypeOK
<1>2. new.stage = "sent" /\ new.index = round.index + 1 /\ new.awaited
  BY DEF IdleCall
<1> HIDE DEF new
<1>3. calls'[c] = new /\ \A d \in Calls \ {c} : calls'[d] = calls[d]
  BY <1>1
<1>4. Awaited = {} /\ Awaited' = {c}
  BY <1>2, <1>3 DEF HostMayAct, Awaited
<1> QED
  BY <1>2, <1>3, <1>4 DEF AwaitInv, Running

\* After the end of a game nobody joins and no score moves.
LEMMA SettledEnd ==
  ASSUME UNCHANGED <<players, scores>>
  PROVE  TopScorer' = TopScorer
BY DEF TopScorer

LEMMA AwaitCommand ==
  ASSUME Inv, AwaitInv, HostWaits, NEW p \in Players, Command(p)
  PROVE  AwaitInv'
<1>1. CASE \/ \E c \in ConfigChoices : Configure(p, c)
           \/ \E words \in SUBSET (Cards \ pool) : SubmitWords(p, words)
  BY <1>1, AwaitFrame DEF Configure, SubmitWords, drawVars
<1>2. CASE Join(p)
  BY <1>2, AwaitFrame DEF Join, drawVars
<1>3. CASE StartGame(p)
  <2>1. Awaited = {}
    BY <1>3 DEF StartGame, AwaitInv
  <2> QED
    BY <1>3, <2>1, AwaitFrame DEF StartGame, drawVars
<1>4. CASE BeginDrawing(p)
  BY <1>4, HostFree DEF BeginDrawing, drawVars
<1>5. CASE Plays
  <2>1. Awaited = {} /\ calls' = calls /\ round'.index = round.index
    BY <1>5, PlayedRound DEF AwaitInv, drawVars
  <2>2. status' # "GAME_OVER"
    BY <1>5 DEF Plays, SubmitStroke, CastVote, FakeGuess, Finalize
  <2> QED
    BY <2>1, <2>2, AwaitFrame
<1>6. CASE StartRound(p) \/ NextRound(p) \/ EndGame(p)
  <2>1. HostMayAct /\ TopScorer' = TopScorer
    BY <1>6, SettledEnd DEF StartRound, NextRound, EndGame
  <2>2. ASSUME NEW c \in Calls, RequestDraw(c), UNCHANGED <<status, round>>,
               status \in {"WRITING", "ROUND_SUMMARY"}
        PROVE  AwaitInv'
    BY <2>1, <2>2, AwaitRequested
  <2>3. ASSUME GameOver, UNCHANGED drawVars
        PROVE  AwaitInv'
    BY <2>1, <2>3, HostFree DEF GameOver, drawVars
  <2>4. ASSUME PrepareLocally
        PROVE  AwaitInv'
    BY <2>1, <2>3, <2>4, HostFree DEF PrepareLocally, drawVars
  <2> QED
    BY <1>6, <2>2, <2>3, <2>4 DEF StartRound, NextRound, EndGame
<1> QED
  BY <1>1, <1>2, <1>3, <1>4, <1>5, <1>6 DEF Command, Plays

LEMMA AwaitStep ==
  ASSUME HostWaits
  PROVE  Inv /\ AwaitInv /\ [Next]_vars => AwaitInv'
<1> SUFFICES ASSUME Inv, AwaitInv, [Next]_vars
             PROVE  AwaitInv'
  OBVIOUS
<1>1. ASSUME NEW c \in Calls, DrawStep(c)
      PROVE  AwaitInv'
  BY <1>1, AwaitServed, AwaitDrawn DEF DrawStep, ServerStep, NetworkLoses
<1>2. CASE UNCHANGED vars
  BY <1>2, AwaitFrame, SettledEnd DEF vars, gameVars, drawVars, AwaitInv
<1> QED
  BY <1>1, <1>2, AwaitCommand DEF Next

LEMMA AwaitHolds ==
  ASSUME HostWaits
  PROVE  Spec => []AwaitInv
<1> QED
  BY AwaitInit, AwaitStep, InvHolds, PTL DEF Spec

\* One call at a time: there is only one, or the host waits and no answer is lost.
OneAtATime == (\A c, d \in Calls : c = d) \/ (HostWaits /\ MaxLosses = 0)

LEMMA OneDrawHolds ==
  ASSUME OneAtATime
  PROVE  Spec => []OneDraw
<1>1. CASE \A c, d \in Calls : c = d
  <2>1. OneDraw
    BY <1>1 DEF OneDraw
  <2> QED
    BY <2>1, PTL
<1>2. CASE HostWaits /\ MaxLosses = 0
  <2>1. AwaitInv => OneDraw
    BY <1>2 DEF AwaitInv, OneDraw
  <2>2. Spec => []AwaitInv
    BY <1>2, AwaitHolds
  <2> QED
    BY <2>1, <2>2, PTL
<1> QED
  BY <1>1, <1>2 DEF OneAtATime

\* Reveals agree with the rounds played when the host draws through one call at a
\* time, as the runs' hosts do.
THEOREM PatientRevealsMatch ==
  ASSUME OneAtATime
  PROVE  Spec => []RevealMatchesRounds
<1> QED
  BY OneDrawHolds, RevealsMatch, PTL

-----------------------------------------------------------------------------
\* The abstract game.  Each lemma maps the steps of some handlers to a step of
\* GamePhases or to none.

\* A host that ends the game names a champion nobody is above: those who have not
\* joined have no points.
LEMMA FinishMaps ==
  ASSUME Inv, GameOver, UNCHANGED <<players, scores>>, players # <<>>,
         round'.index = round.index, status # "GAME_OVER"
  PROVE  Phases!Finish
<1>1. players \in Seq(Players) /\ scores \in [Players -> Nat]
  BY DEF Inv, TypeOK
<1>2. /\ TopScorer \in Players
      /\ \A p \in Joined : scores[p] <= scores[TopScorer]
  BY <1>1, TopScorerBest
<1>3. \A p \in Players : scores[p] <= scores[TopScorer]
  <2>1. \A p \in Players \ Joined : scores[p] = 0
    BY DEF Inv, SeatedRounds
  <2>2. scores[TopScorer] \in Nat
    BY <1>1, <1>2
  <2> QED
    BY <1>2, <2>1, <2>2
<1>4. TopScorer \in {p \in Players : \A q \in Players : scores[q] <= scores[p]}
  BY <1>2, <1>3
<1> HIDE DEF TopScorer
<1> QED
  BY <1>4 DEF Phases!Finish, GameOver

\* Ending a game that is over changes nothing: the winner is the one already named.
LEMMA FinishedAgain ==
  ASSUME AwaitInv, GameOver, UNCHANGED <<players, scores>>,
         round'.index = round.index, status = "GAME_OVER"
  PROVE  UNCHANGED Phases!vars
BY DEF Phases!vars, GameOver, AwaitInv

\* The round that is announced has the next number.
LEMMA AnnounceMaps ==
  ASSUME Inv, Announces, status \in {"WRITING", "ROUND_SUMMARY"},
         round'.index = round.index + 1, UNCHANGED <<scores, winner>>
  PROVE  Phases!Announce
<1>1. status' = "ROUND_ANNOUNCE"
  BY AnnouncedRound
<1>2. round'.index + 1 = round.index + 1 + 1
  OBVIOUS
<1> QED
  BY <1>1, <1>2 DEF Phases!Announce, Phases!Moves

\* handleSubmitStroke: one more stroke, or the vote.
LEMMA StrokeMaps ==
  ASSUME Inv, NEW p \in Players, SubmitStroke(p)
  PROVE  Phases!Vote \/ UNCHANGED Phases!vars
<1>1. round'.index = round.index /\ winner' = winner
  BY PlayedRound DEF Plays
<1> QED
  BY <1>1 DEF SubmitStroke, Phases!Vote, Phases!Moves, Phases!vars

\* handleCastVote: a vote, the fake unmasked, or the fake's point.
LEMMA VoteMaps ==
  ASSUME Inv, NEW p \in Players, NEW suspect \in Players, CastVote(p, suspect)
  PROVE  Phases!Unmask \/ Phases!Escape \/ UNCHANGED Phases!vars
<1> DEFINE voted == [round EXCEPT !.votes = [round.votes EXCEPT ![p] = suspect]]
<1>1. /\ round'.index = round.index /\ winner' = winner
  BY PlayedRound DEF Plays
<1>2. CASE UNCHANGED <<status, scores>>
  BY <1>1, <1>2 DEF Phases!vars
<1>3. CASE status = "VOTING" /\ status' = "FAKE_GUESS" /\ UNCHANGED scores
  BY <1>1, <1>3 DEF Phases!Unmask, Phases!Moves
<1>4. CASE status = "VOTING" /\ Finalize(voted, FALSE, FALSE)
  <2>1. status' = "ROUND_SUMMARY" /\ scores' = [q \in Players |-> scores[q] + Points(q, voted, FALSE, FALSE)]
    BY <1>4 DEF Finalize
  <2>2. voted.fake = round.fake /\ round.fake \in Players
    BY <1>4, ArtistsFacts DEF Inv, TypeOK, Round
  <2>3. \A q \in Players : scores[q] \in Nat
    BY DEF Inv, TypeOK
  <2>4. \A q \in Players : Points(q, voted, FALSE, FALSE) = IF q = round.fake THEN 1 ELSE 0
    <3> HIDE DEF voted
    <3> QED
      BY <2>2 DEF Points
  <2>5. scores' = [q \in Players |-> IF q \in {round.fake} THEN scores[q] + 1 ELSE scores[q]]
    <3>1. \A q \in Players : scores[q] + Points(q, voted, FALSE, FALSE)
                               = IF q \in {round.fake} THEN scores[q] + 1 ELSE scores[q]
      <4> HIDE DEF voted
      <4> SUFFICES ASSUME NEW q \in Players
                   PROVE  scores[q] + Points(q, voted, FALSE, FALSE)
                            = IF q \in {round.fake} THEN scores[q] + 1 ELSE scores[q]
        OBVIOUS
      <4> DEFINE x == Points(q, voted, FALSE, FALSE)
      <4>1. scores[q] \in Nat /\ x = IF q = round.fake THEN 1 ELSE 0
        BY <2>3, <2>4
      <4> HIDE DEF x
      <4>2. scores[q] + x = IF q \in {round.fake} THEN scores[q] + 1 ELSE scores[q]
        BY <4>1
      <4> QED
        BY <4>2 DEF x
    <3> HIDE DEF voted
    <3> QED
      BY <2>1, <3>1
  <2>6. Phases!Pay({round.fake}, 1)
    BY <2>5 DEF Phases!Pay
  <2> QED
    BY <1>1, <1>4, <2>1, <2>2, <2>6 DEF Phases!Escape, Phases!Moves
<1> QED
  BY <1>2, <1>3, <1>4 DEF CastVote

\* handleFakeGuess: two points for the fake, or one for each of the others.
LEMMA GuessMaps ==
  ASSUME Inv, NEW p \in Players, NEW right \in BOOLEAN, FakeGuess(p, right)
  PROVE  Phases!Guess
<1> DEFINE r == [round EXCEPT !.guess = IF right THEN "right" ELSE "wrong"]
           others == Artists \ {round.fake}
<1>1. /\ round'.index = round.index /\ winner' = winner
  BY PlayedRound DEF Plays
<1>2. /\ status = "FAKE_GUESS" /\ status' = "ROUND_SUMMARY"
      /\ scores' = [q \in Players |-> scores[q] + Points(q, r, TRUE, right)]
  BY DEF FakeGuess, Finalize
<1>3. /\ r.fake = round.fake /\ Range(r.order) = Artists
      /\ round.fake \in Players /\ others \in SUBSET (Players \ {round.fake})
  BY <1>2, ArtistsFacts DEF Inv, TypeOK, Round, Artists
<1>4. \A q \in Players : scores[q] \in Nat
  BY DEF Inv, TypeOK
<1> HIDE DEF r
<1>5. CASE right
  <2>1. \A q \in Players : scores[q] + Points(q, r, TRUE, right)
                             = IF q \in {round.fake} THEN scores[q] + 2 ELSE scores[q]
    BY <1>3, <1>4, <1>5 DEF Points
  <2>2. Phases!Pay({round.fake}, 2)
    BY <1>2, <2>1 DEF Phases!Pay
  <2> QED
    BY <1>1, <1>2, <1>3, <2>2 DEF Phases!Guess, Phases!Moves
<1>6. CASE ~right
  <2>1. \A q \in Players : scores[q] + Points(q, r, TRUE, right)
                             = IF q \in others THEN scores[q] + 1 ELSE scores[q]
    BY <1>3, <1>4, <1>6 DEF Points
  <2> HIDE DEF others
  <2>2. Phases!Pay(others, 1)
    BY <1>2, <2>1 DEF Phases!Pay
  <2> QED
    BY <1>1, <1>2, <1>3, <2>2 DEF Phases!Guess, Phases!Moves
<1> QED
  BY <1>5, <1>6

\* Nothing the table sees.
Unseen == UNCHANGED <<status, round, scores, winner>>

LEMMA UnseenMaps == Unseen => UNCHANGED Phases!vars
BY DEF Unseen, Phases!vars

\* prepareRound, for an engine without a server.
LEMMA LocalMaps ==
  ASSUME Inv, PrepareLocally, UNCHANGED <<players, scores>>, players # <<>>,
         status \in {"WRITING", "ROUND_SUMMARY"}
  PROVE  Phases!Next
BY LocalRound, FinishMaps, AnnounceMaps DEF Phases!Next

LEMMA CommandMaps ==
  ASSUME Inv, AwaitInv, NEW p \in Players, Command(p)
  PROVE  [Phases!Next]_(Phases!vars)
<1>1. CASE \/ Join(p)
           \/ \E c \in ConfigChoices : Configure(p, c)
           \/ \E words \in SUBSET (Cards \ pool) : SubmitWords(p, words)
  BY <1>1, UnseenMaps DEF Join, Configure, SubmitWords, Unseen
<1>2. CASE StartGame(p)
  BY <1>2 DEF StartGame, Phases!Next, Phases!Open, Phases!Moves
<1>3. CASE BeginDrawing(p)
  BY <1>3 DEF BeginDrawing, Phases!Next, Phases!Draw, Phases!Moves
<1>4. CASE Plays
  BY <1>4, StrokeMaps, VoteMaps, GuessMaps DEF Plays, Phases!Next
<1>5. CASE StartRound(p)
  <2>1. players # <<>>
    BY <1>5 DEF StartRound, IsHost
  <2> QED
    BY <1>5, <2>1, LocalMaps, UnseenMaps DEF StartRound, Unseen
<1>6. CASE NextRound(p)
  <2>1. players # <<>>
    BY <1>6 DEF NextRound, IsHost
  <2> QED
    BY <1>6, <2>1, LocalMaps, FinishMaps, UnseenMaps DEF NextRound, Unseen, Phases!Next
<1>7. CASE EndGame(p)
  <2>1. players # <<>>
    BY <1>7 DEF EndGame, IsHost
  <2> QED
    BY <1>7, <2>1, FinishMaps, FinishedAgain DEF EndGame, Phases!Next
<1> QED
  BY <1>1, <1>2, <1>3, <1>4, <1>5, <1>6, <1>7 DEF Command, Plays

LEMMA DrawMaps ==
  ASSUME Inv, AwaitInv, NEW c \in Calls, DrawStep(c)
  PROVE  [Phases!Next]_(Phases!vars)
<1>1. CASE ServerStep(c) \/ NetworkLoses(c)
  BY <1>1, UnseenMaps DEF ServerStep, NetworkLoses, gameVars, Unseen
<1>2. CASE \E order \in Shuffles(calls[c].players) : DrawReturns(c, order)
  <2>1. PICK order \in Shuffles(calls[c].players) : DrawReturns(c, order)
    BY <1>2
  <2>2. calls[c].stage = "answered" /\ UNCHANGED <<scores, winner>>
    BY <2>1 DEF DrawReturns
  <2>3. status \in {"WRITING", "ROUND_SUMMARY"} /\ calls[c].index = round.index + 1
    BY <2>2 DEF AwaitInv
  <2> QED
    BY <2>1, <2>2, <2>3, DrawnRound, AnnounceMaps DEF Phases!Next
<1> QED
  BY <1>1, <1>2 DEF DrawStep

\* A host that waits for its draws gives the table the game of GamePhases: phases in
\* order, rounds without gap, each paid once, an end that stays the end.
THEOREM WaitingHostKeepsPhases ==
  ASSUME HostWaits
  PROVE  Spec => PhasesKept
<1>1. Init => Phases!Init
  <2> SUFFICES ASSUME Init
               PROVE  Phases!Init
    OBVIOUS
  <2>1. /\ status = "LOBBY" /\ round.index = -1 /\ winner = NoOne
        /\ scores = [p \in Players |-> 0]
    BY DEF Init, GameInit, NoRound
  <2>2. round.index + 1 = 0
    BY <2>1
  <2> QED
    BY <2>1, <2>2 DEF Phases!Init
<1>2. Inv /\ AwaitInv /\ [Next]_vars => [Phases!Next]_(Phases!vars)
  <2> SUFFICES ASSUME Inv, AwaitInv, [Next]_vars
               PROVE  [Phases!Next]_(Phases!vars)
    OBVIOUS
  <2>1. CASE UNCHANGED vars
    BY <2>1, UnseenMaps DEF vars, gameVars, Unseen
  <2> QED
    BY <2>1, CommandMaps, DrawMaps DEF Next
<1>3. Spec => []AwaitInv
  BY AwaitHolds
<1> QED
  BY <1>1, <1>2, <1>3, InvHolds, PTL DEF Spec, PhasesKept, Phases!Spec

-----------------------------------------------------------------------------
\* Sums along a gallery.  Paid is defined by recursion on the gallery's length; that
\* such a function exists, and that two of them agree, is shown from the least
\* natural number at which it would fail.

LEMMA LeastNatural ==
  ASSUME NEW S \in SUBSET Nat, S # {}
  PROVE  \E m \in S : \A k \in S : m <= k
<1> DEFINE R == OpToRel(<, Nat)
<1>1. IsWellFoundedOn(R, Nat)
  BY NatLessThanWellFounded
<1>2. \A a, b \in Nat : a < b => <<a, b>> \in R
  BY DEF OpToRel
<1> HIDE DEF R
<1>3. PICK m \in S : \A k \in S : <<k, m>> \notin R
  BY <1>1, WFMin
<1>4. \A k \in S : k \in Nat /\ m \in Nat /\ ~(k < m)
  BY <1>2, <1>3
<1>5. \A k \in S : m <= k
  BY <1>4
<1> QED
  BY <1>5

\* g has the partial sums of e up to n.
Sums(g, e, n) == g[0] = 0 /\ \A k \in 1..n : g[k] = g[k-1] + e[k]

LEMMA SumsExist ==
  ASSUME NEW n \in Nat, NEW e, \A k \in 1..n : e[k] \in Nat
  PROVE  \E g \in [0..n -> Nat] : Sums(g, e, n)
<1> DEFINE Bad == {m \in 0..n : ~ \E g \in [0..m -> Nat] : Sums(g, e, m)}
<1>0. n \in 0..n
  OBVIOUS
<1>1. SUFFICES ASSUME Bad # {}
               PROVE  FALSE
  <2>1. ASSUME Bad = {}
        PROVE  \A m \in 0..n : \E g \in [0..m -> Nat] : Sums(g, e, m)
    BY ONLY <2>1
  <2> QED
    BY <1>0, <2>1
<1>2. PICK m \in Bad : \A k \in Bad : m <= k
  <2>1. Bad \in SUBSET Nat
    OBVIOUS
  <2> HIDE DEF Bad
  <2> QED
    BY <1>1, <2>1, LeastNatural
<1>3. m \in 0..n /\ ~ \E g \in [0..m -> Nat] : Sums(g, e, m)
  OBVIOUS
<1>4. CASE m = 0
  <2> DEFINE g == [k \in 0..0 |-> 0]
  <2>1. g \in [0..0 -> Nat] /\ Sums(g, e, 0)
    BY DEF Sums
  <2> QED
    BY <1>3, <1>4, <2>1
<1>5. CASE m > 0
  <2>1. m - 1 \in 0..n /\ m - 1 \notin Bad
    <3>1. m - 1 \in 0..n /\ ~(m <= m - 1)
      BY <1>3, <1>5
    <3> HIDE DEF Bad
    <3> QED
      BY <1>2, <3>1
  <2>2. PICK g \in [0..m-1 -> Nat] : Sums(g, e, m - 1)
    BY <2>1
  <2> DEFINE h == [k \in 0..m |-> IF k = m THEN g[m-1] + e[m] ELSE g[k]]
  <2>3. \A k \in 0..m : k = m \/ k \in 0..m-1
    BY <1>3, <1>5
  <2>4. g[m-1] \in Nat /\ e[m] \in Nat /\ \A k \in 0..m-1 : g[k] \in Nat
    BY <1>3, <1>5, <2>2
  <2>5. h \in [0..m -> Nat] /\ h[0] = 0
    BY <1>3, <1>5, <2>2, <2>3, <2>4 DEF Sums
  <2>6. ASSUME NEW k \in 1..m
        PROVE  h[k] = h[k-1] + e[k]
    <3>1. CASE k = m
      <4>1. k - 1 \in 0..m-1 /\ k - 1 # m
        BY <1>3, <1>5, <3>1
      <4> QED
        BY <1>3, <1>5, <3>1, <4>1
    <3>2. CASE k # m
      <4>1. k \in 1..m-1 /\ k - 1 \in 0..m-1 /\ k \in 0..m /\ k - 1 # m
        BY <1>3, <1>5, <3>2
      <4> QED
        BY <2>2, <3>2, <4>1 DEF Sums
    <3> QED
      BY <3>1, <3>2
  <2>7. Sums(h, e, m)
    BY <2>5, <2>6 DEF Sums
  <2> QED
    BY <1>3, <2>5, <2>7
<1> QED
  BY <1>3, <1>4, <1>5

\* Of two lists the first m entries of which are the same, so are the partial sums.
LEMMA SumsAgree ==
  ASSUME NEW n \in Nat, NEW m \in 0..n, NEW e, NEW f, NEW g, NEW h,
         Sums(g, e, n), Sums(h, f, m), \A k \in 1..m : e[k] = f[k]
  PROVE  \A k \in 0..m : g[k] = h[k]
<1> DEFINE Bad == {k \in 0..m : g[k] # h[k]}
<1>1. SUFFICES ASSUME Bad # {}
               PROVE  FALSE
  OBVIOUS
<1>2. PICK b \in Bad : \A k \in Bad : b <= k
  <2>1. Bad \in SUBSET Nat
    OBVIOUS
  <2> HIDE DEF Bad
  <2> QED
    BY <1>1, <2>1, LeastNatural
<1>3. b \in 0..m /\ b # 0
  BY DEF Sums
<1>4. b - 1 \in 0..m /\ b - 1 \notin Bad
  BY <1>2, <1>3
<1>5. b \in 1..m /\ b \in 1..n
  BY <1>3
<1> QED
  BY <1>4, <1>5 DEF Sums

\* Earnings are whole points.
LEMMA EarnedNat ==
  ASSUME NEW p \in Players, NEW r \in PastRound
  PROVE  Earned(p, r) \in Nat
<1>1. CASE r.outcome = "FAKE_WON"
  BY <1>1 DEF Earned
<1>2. CASE r.outcome = "ARTISTS_WON"
  BY <1>2 DEF Earned
<1> QED
  BY <1>1, <1>2 DEF PastRound

\* What each round of a gallery paid.
Earnings(p, gallery) == [k \in 1..Len(gallery) |-> Earned(p, gallery[k])]

LEMMA EarningsNat ==
  ASSUME NEW p \in Players, NEW gallery \in Seq(PastRound)
  PROVE  \A k \in 1..Len(gallery) : Earnings(p, gallery)[k] \in Nat
<1>1. \A k \in 1..Len(gallery) : gallery[k] \in PastRound
  OBVIOUS
<1>2. \A k \in 1..Len(gallery) : Earned(p, gallery[k]) \in Nat
  BY <1>1, EarnedNat
<1> QED
  BY <1>2 DEF Earnings

LEMMA PaidIsSum ==
  ASSUME NEW p \in Players, NEW gallery \in Seq(PastRound)
  PROVE  \E g \in [0..Len(gallery) -> Nat] :
           Sums(g, Earnings(p, gallery), Len(gallery)) /\ Paid(p, gallery) = g[Len(gallery)]
<1> DEFINE n == Len(gallery)
           e == Earnings(p, gallery)
           Fits(u) == u = [k \in 0..n |-> IF k = 0 THEN 0 ELSE u[k-1] + Earned(p, gallery[k])]
           upTo == CHOOSE u : Fits(u)
<1>1. n \in Nat /\ \A k \in 1..n : e[k] \in Nat /\ e[k] = Earned(p, gallery[k])
  <2>1. n \in Nat /\ \A k \in 1..n : e[k] = Earned(p, gallery[k])
    BY DEF Earnings
  <2> QED
    BY <2>1, EarningsNat
<1>2. PICK g \in [0..n -> Nat] : Sums(g, e, n)
  <2> HIDE DEF e, n
  <2> QED
    BY <1>1, SumsExist
<1>3. Fits(g)
  <2>1. \A k \in 0..n : g[k] = IF k = 0 THEN 0 ELSE g[k-1] + Earned(p, gallery[k])
    <3> SUFFICES ASSUME NEW k \in 0..n
                 PROVE  g[k] = IF k = 0 THEN 0 ELSE g[k-1] + Earned(p, gallery[k])
      OBVIOUS
    <3>1. k = 0 \/ k \in 1..n
      BY <1>1
    <3> QED
      BY <1>1, <1>2, <3>1 DEF Sums
  <2> HIDE DEF n
  <2> QED
    BY <1>2, <2>1
<1>4. Fits(upTo)
  <2> HIDE DEF Fits
  <2> QED
    BY <1>3
<1>5. Paid(p, gallery) = upTo[n]
  BY DEF Paid
<1>6. Sums(upTo, e, n)
  <2> HIDE DEF upTo
  <2>1. \A k \in 0..n : upTo[k] = IF k = 0 THEN 0 ELSE upTo[k-1] + Earned(p, gallery[k])
    BY <1>4
  <2> HIDE DEF n, e
  <2>2. upTo[0] = 0
    BY <1>1, <2>1
  <2>3. \A k \in 1..n : upTo[k] = upTo[k-1] + e[k]
    BY <1>1, <2>1
  <2> QED
    BY <2>2, <2>3 DEF Sums
<1>7. upTo[n] = g[n]
  <2> HIDE DEF upTo, n, e
  <2>1. n \in 0..n
    BY <1>1
  <2> QED
    BY <1>1, <1>2, <1>6, <2>1, SumsAgree
<1> QED
  BY <1>2, <1>5, <1>7

LEMMA PaidSome ==
  ASSUME NEW p \in Players, NEW gallery \in Seq(PastRound)
  PROVE  Paid(p, gallery) \in Nat
<1> DEFINE n == Len(gallery)
<1>1. n \in Nat
  OBVIOUS
<1>2. PICK g \in [0..n -> Nat] : Paid(p, gallery) = g[n]
  BY PaidIsSum
<1> HIDE DEF n
<1> QED
  BY <1>1, <1>2

\* One more round in the gallery pays what it paid.
LEMMA PaidMore ==
  ASSUME NEW p \in Players, NEW gallery \in Seq(PastRound), NEW r \in PastRound
  PROVE  /\ Paid(p, gallery) \in Nat
         /\ Paid(p, Append(gallery, r)) = Paid(p, gallery) + Earned(p, r)
<1> DEFINE n == Len(gallery)
           longer == Append(gallery, r)
<1>1. /\ n \in Nat /\ longer \in Seq(PastRound) /\ Len(longer) = n + 1
      /\ longer[n+1] = r /\ \A k \in 1..n : longer[k] = gallery[k]
  OBVIOUS
<1>2. PICK g \in [0..n -> Nat] :
        Sums(g, Earnings(p, gallery), n) /\ Paid(p, gallery) = g[n]
  BY PaidIsSum
<1> HIDE DEF longer
<1>3. PICK h \in [0..n+1 -> Nat] :
        Sums(h, Earnings(p, longer), n + 1) /\ Paid(p, longer) = h[n+1]
  BY <1>1, PaidIsSum
<1> HIDE DEF n
<1>4. \A k \in 1..n : Earnings(p, longer)[k] = Earnings(p, gallery)[k]
  BY <1>1 DEF Earnings, n
<1>5. h[n] = g[n]
  <2>1. n + 1 \in Nat /\ n \in 0..n+1 /\ n \in 0..n
    BY <1>1
  <2> DEFINE e == Earnings(p, longer)
             f == Earnings(p, gallery)
  <2> HIDE DEF e, f
  <2>2. \A k \in 0..n : h[k] = g[k]
    BY <1>2, <1>3, <1>4, <2>1, SumsAgree DEF e, f
  <2> QED
    BY <2>1, <2>2
<1>6. Earnings(p, longer)[n+1] = Earned(p, r) /\ n + 1 \in 1..n+1 /\ (n + 1) - 1 = n
  BY <1>1 DEF Earnings
<1>7. h[n+1] = h[n] + Earned(p, r)
  BY <1>3, <1>6 DEF Sums
<1>8. g[n] \in Nat
  BY <1>1, <1>2
<1> QED
  BY <1>2, <1>3, <1>5, <1>7, <1>8 DEF longer

\* An empty gallery paid nothing.
LEMMA PaidNothing == \A p \in Players : Paid(p, <<>>) = 0
<1> SUFFICES ASSUME NEW p \in Players
             PROVE  Paid(p, <<>>) = 0
  OBVIOUS
<1>1. <<>> \in Seq(PastRound) /\ Len(<<>>) = 0
  OBVIOUS
<1>2. PICK g \in [0..Len(<<>>) -> Nat] :
        Sums(g, Earnings(p, <<>>), Len(<<>>)) /\ Paid(p, <<>>) = g[Len(<<>>)]
  BY <1>1, PaidIsSum
<1> QED
  BY <1>1, <1>2 DEF Sums

-----------------------------------------------------------------------------
\* Every point is accounted for.

\* With a host that waits: rounds are archived in order, a round that can still pay is
\* not in the gallery, and one that is about to be replaced is.
ScoresInv ==
  /\ \A i \in DOMAIN past_rounds : past_rounds[i].index <= round.index
  /\ round.outcome = "" => ~IsArchived(round.index)
  /\ status \notin {"ROUND_SUMMARY", "GAME_OVER"} => round.outcome = ""
  /\ Awaited # {} /\ round.outcome # "" => IsArchived(round.index)
  /\ ScoresExplained

LEMMA ScoresInit == Init => ScoresInv
<1> SUFFICES ASSUME Init
             PROVE  ScoresInv
  OBVIOUS
<1>1. /\ past_rounds = <<>> /\ round.outcome = "" /\ scores = [p \in Players |-> 0]
      /\ round = NoRound
  BY DEF Init, GameInit, NoRound
<1>2. DOMAIN past_rounds = {}
  BY ONLY <1>1, NobodyInEmpty
<1>3. \A p \in Players : Earned(p, Archive(round)) = 0
  BY <1>1 DEF Earned, Archive
<1>4. ScoresExplained
  <2>1. \A p \in Players : Paid(p, past_rounds) = 0
    BY <1>1, PaidNothing
  <2>2. \A p \in Players : scores[p] = 0
    BY <1>1
  <2> QED
    BY <1>3, <2>1, <2>2 DEF ScoresExplained
<1> QED
  BY <1>1, <1>2, <1>4 DEF ScoresInv, IsArchived

\* A step that pays nobody, leaves the gallery and goes on with the round.
LEMMA ScoresFrame ==
  ASSUME ScoresInv, UNCHANGED <<past_rounds, scores>>,
         Archive(round)' = Archive(round), round'.index = round.index,
         round'.outcome = round.outcome,
         status' \notin {"ROUND_SUMMARY", "GAME_OVER"} =>
           status \notin {"ROUND_SUMMARY", "GAME_OVER"} \/ round.outcome = "",
         Awaited' # {} => Awaited # {} \/ IsArchived(round.index) \/ round.outcome = ""
  PROVE  ScoresInv'
<1>1. IsArchived(round.index)' <=> IsArchived(round.index)
  BY DEF IsArchived
<1>2. ScoresExplained'
  BY <1>1 DEF ScoresInv, ScoresExplained
<1> QED
  BY <1>1, <1>2 DEF ScoresInv

\* Closing a round pays what the gallery will say it paid.
LEMMA FinalizePays ==
  ASSUME ScoresInv, Inv, status \in {"VOTING", "FAKE_GUESS"}, Awaited' = {},
         NEW r \in Round, NEW caught \in BOOLEAN, NEW right \in BOOLEAN,
         r.index = round.index, r.outcome = round.outcome,
         caught => r.guess = (IF right THEN "right" ELSE "wrong"),
         ~caught => r.guess = "none",
         Finalize(r, caught, right), UNCHANGED past_rounds
  PROVE  ScoresInv'
<1>1. /\ status' = "ROUND_SUMMARY"
      /\ round' = [r EXCEPT !.outcome = IF caught /\ ~right THEN "ARTISTS_WON" ELSE "FAKE_WON"]
      /\ scores' = [p \in Players |-> scores[p] + Points(p, r, caught, right)]
  BY DEF Finalize
<1>2. /\ round'.index = round.index /\ round'.fake = r.fake /\ round'.order = r.order
      /\ round'.guess = r.guess
      /\ round'.outcome = IF caught /\ ~right THEN "ARTISTS_WON" ELSE "FAKE_WON"
  BY <1>1 DEF Round
<1>3. ~IsArchived(round.index) /\ ~IsArchived(round.index)' /\ round.outcome = ""
  BY <1>2 DEF ScoresInv, IsArchived
<1>4. \A p \in Players : Earned(p, Archive(round))' = Points(p, r, caught, right)
  <2> SUFFICES ASSUME NEW p \in Players
               PROVE  Earned(p, Archive(round))' = Points(p, r, caught, right)
    OBVIOUS
  <2> DEFINE a == Archive(round)'
  <2>1. /\ a.outcome = IF caught /\ ~right THEN "ARTISTS_WON" ELSE "FAKE_WON"
        /\ a.fake = r.fake /\ a.artists = Range(r.order) /\ a.guess = r.guess
    BY <1>2 DEF Archive
  <2> HIDE DEF a
  <2>2. Earned(p, a) = Points(p, r, caught, right)
    BY <2>1 DEF Earned, Points
  <2> QED
    BY <2>2 DEF a, Earned
<1>5. \A p \in Players : Earned(p, Archive(round)) = 0
  BY <1>3 DEF Earned, Archive
<1>6. past_rounds \in Seq(PastRound)
  BY DEF Inv, TypeOK
<1>7. ScoresExplained'
  <2> SUFFICES ASSUME NEW p \in Players
               PROVE  scores'[p] = Paid(p, past_rounds) + Earned(p, Archive(round))'
    BY <1>3 DEF ScoresExplained
  <2>1. Paid(p, past_rounds) \in Nat
    BY <1>6, PaidSome
  <2>2. scores[p] = Paid(p, past_rounds) + 0
    BY <1>3, <1>5 DEF ScoresInv, ScoresExplained
  <2>3. scores'[p] = scores[p] + Points(p, r, caught, right)
    BY <1>1
  <2> QED
    BY <1>4, <2>1, <2>2, <2>3
<1> QED
  BY <1>1, <1>2, <1>3, <1>7 DEF ScoresInv

\* Archiving a closed round moves what it paid from one term of the sum to the other.
LEMMA ArchivedPays ==
  ASSUME Inv, ScoresInv, status = "ROUND_SUMMARY"
  PROVE  /\ \A p \in Players : scores[p] = Paid(p, Archived)
         /\ \A i \in DOMAIN Archived : Archived[i].index <= round.index
         /\ \E i \in DOMAIN Archived : Archived[i].index = round.index
<1>0. past_rounds \in Seq(PastRound)
  BY DEF Inv, TypeOK
<1>1. CASE IsArchived(round.index)
  <2>1. \A p \in Players : Paid(p, past_rounds) \in Nat
    BY <1>0, PaidSome
  <2>2. \A p \in Players : scores[p] = Paid(p, past_rounds) + 0
    BY <1>1 DEF ScoresInv, ScoresExplained
  <2>3. \A p \in Players : scores[p] = Paid(p, past_rounds)
    BY <2>1, <2>2
  <2> QED
    BY <1>1, <2>3 DEF Archived, ScoresInv, IsArchived
<1>2. CASE ~IsArchived(round.index)
  <2> DEFINE a == Archive(round)
             n == Len(past_rounds)
             longer == Append(past_rounds, a)
  <2>1. Archived = longer
    BY <1>2 DEF Archived
  <2>2. longer \in Seq(PastRound)
    BY <2>1, ArchivedFacts
  <2>3. a \in PastRound /\ a.index = round.index
    <3>1. n + 1 \in 1..Len(longer) /\ longer[n+1] = a
      BY <1>0
    <3>2. longer[n+1] \in PastRound
      BY <2>2, <3>1
    <3> QED
      BY <3>1, <3>2 DEF Archive
  <2>4. \A p \in Players : scores[p] = Paid(p, past_rounds) + Earned(p, a)
    BY <1>2 DEF ScoresInv, ScoresExplained
  <2> HIDE DEF a
  <2>5. /\ DOMAIN past_rounds = 1..n /\ n \in Nat
        /\ DOMAIN longer = 1..n+1 /\ longer[n+1] = a
        /\ \A i \in 1..n : longer[i] = past_rounds[i]
    BY <1>0, <2>3
  <2>6. \A p \in Players : scores[p] = Paid(p, longer)
    BY <1>0, <2>3, <2>4, PaidMore
  <2>7. \A i \in 1..n+1 : i = n+1 \/ i \in 1..n
    BY <2>5
  <2>8. n + 1 \in 1..n+1 /\ round.index \in Int
    BY <2>5, IndexFacts
  <2> HIDE DEF longer, n
  <2>9. \A i \in 1..n : past_rounds[i].index <= round.index
    BY <2>5 DEF ScoresInv
  <2>10. \A i \in DOMAIN longer : longer[i].index <= round.index
    BY <2>3, <2>5, <2>7, <2>8, <2>9
  <2>11. \E i \in DOMAIN longer : longer[i].index = round.index
    BY <2>3, <2>5, <2>8
  <2> QED
    BY <2>1, <2>6, <2>10, <2>11
<1> QED
  BY <1>1, <1>2
\* A closed round goes into the gallery and the host goes on or ends the game.
LEMMA ScoresClosed ==
  ASSUME Inv, ScoresInv, status = "ROUND_SUMMARY", past_rounds' = Archived,
         status' \in {"ROUND_SUMMARY", "GAME_OVER"}, UNCHANGED <<round, scores>>
  PROVE  ScoresInv'
<1>1. \A i \in DOMAIN past_rounds' : past_rounds'[i].index <= round'.index
  BY ArchivedPays
<1>2. IsArchived(round.index)'
  BY ArchivedPays DEF IsArchived
<1>3. round'.outcome # ""
  BY DEF Inv, SeatedRounds
<1>4. \A p \in Players : Paid(p, Archived) \in Nat
  BY ArchivedFacts, PaidSome
<1>5. \A p \in Players : scores'[p] = Paid(p, past_rounds') + 0
  BY <1>4, ArchivedPays
<1>6. ScoresExplained'
  BY <1>2, <1>5 DEF ScoresExplained
<1> QED
  BY <1>1, <1>2, <1>3, <1>6 DEF ScoresInv

\* The next round is announced once the gallery explains every score.
LEMMA ScoresAnnounced ==
  ASSUME Inv, past_rounds' \in Seq(PastRound),
         \A p \in Players : scores[p] = Paid(p, past_rounds'),
         \A i \in DOMAIN past_rounds' : past_rounds'[i].index <= round.index,
         Announces, round'.index = round.index + 1, UNCHANGED scores
  PROVE  ScoresInv'
<1>1. round'.outcome = "" /\ status' = "ROUND_ANNOUNCE"
  BY AnnouncedRound
<1>2. round.index \in Int
  BY IndexFacts
<1>3. \A i \in DOMAIN past_rounds' :
        past_rounds'[i].index <= round'.index /\ past_rounds'[i].index # round'.index
  <2> SUFFICES ASSUME NEW i \in DOMAIN past_rounds'
               PROVE  past_rounds'[i].index <= round'.index
                        /\ past_rounds'[i].index # round'.index
    OBVIOUS
  <2>1. past_rounds'[i] \in PastRound /\ past_rounds'[i].index <= round.index
    OBVIOUS
  <2>2. past_rounds'[i].index \in Nat
    BY <2>1 DEF PastRound
  <2> QED
    BY <1>2, <2>1, <2>2
<1>4. ~IsArchived(round.index)'
  BY <1>3 DEF IsArchived
<1>5. \A p \in Players : Earned(p, Archive(round))' = 0
  BY <1>1 DEF Earned, Archive
<1>6. \A p \in Players : Paid(p, past_rounds') \in Nat
  BY PaidSome
<1>7. \A p \in Players : scores'[p] = Paid(p, past_rounds') + 0
  BY <1>6
<1>8. ScoresExplained'
  BY <1>4, <1>5, <1>7 DEF ScoresExplained
<1> QED
  BY <1>1, <1>3, <1>4, <1>8 DEF ScoresInv

\* A round that has paid nothing yet, or is in the gallery, leaves the gallery alone
\* to explain the scores.
LEMMA GalleryPays ==
  ASSUME Inv, ScoresInv, round.outcome = "" \/ IsArchived(round.index)
  PROVE  \A p \in Players : scores[p] = Paid(p, past_rounds)
<1> SUFFICES ASSUME NEW p \in Players
             PROVE  scores[p] = Paid(p, past_rounds)
  OBVIOUS
<1>1. Paid(p, past_rounds) \in Nat
  BY PaidSome DEF Inv, TypeOK
<1>2. round.outcome = "" => Earned(p, Archive(round)) = 0
  BY DEF Earned, Archive
<1>3. scores[p] = Paid(p, past_rounds) + 0
  BY <1>2 DEF ScoresInv, ScoresExplained
<1> QED
  BY ONLY <1>1, <1>3

\* The answer the host waited for.
LEMMA ScoresDrawn ==
  ASSUME Inv, AwaitInv, ScoresInv, NEW c \in Calls,
         NEW order \in Shuffles(calls[c].players), DrawReturns(c, order)
  PROVE  ScoresInv'
<1>1. c \in Awaited /\ UNCHANGED <<past_rounds, scores>>
  BY DEF DrawReturns, AwaitInv
<1>2. Announces /\ round'.index = round.index + 1
  BY <1>1, DrawnRound DEF AwaitInv
<1>3. \A p \in Players : scores[p] = Paid(p, past_rounds)
  BY <1>1, GalleryPays DEF ScoresInv
<1>4. past_rounds \in Seq(PastRound)
      /\ \A i \in DOMAIN past_rounds : past_rounds[i].index <= round.index
  BY DEF Inv, TypeOK, ScoresInv
<1> QED
  BY <1>1, <1>2, <1>3, <1>4, ScoresAnnounced

\* prepareRound of an engine without a server.
LEMMA ScoresLocal ==
  ASSUME Inv, ScoresInv, PrepareLocally, status = "WRITING",
         UNCHANGED <<past_rounds, scores>>
  PROVE  ScoresInv'
<1>1. round.outcome = ""
  BY DEF ScoresInv
<1>2. CASE GameOver /\ UNCHANGED <<used, round>>
  BY <1>1, <1>2, ScoresFrame DEF GameOver, Archive
<1>3. CASE Announces /\ round'.index = round.index + 1
  <2>1. \A p \in Players : scores[p] = Paid(p, past_rounds)
    BY <1>1, GalleryPays
  <2>2. past_rounds \in Seq(PastRound)
        /\ \A i \in DOMAIN past_rounds : past_rounds[i].index <= round.index
    BY DEF Inv, TypeOK, ScoresInv
  <2> QED
    BY <1>3, <2>1, <2>2, ScoresAnnounced
<1> QED
  BY <1>2, <1>3, LocalRound
\* A step that leaves the round, the gallery and the scores, that opens no summary and
\* awaits nothing new.
LEMMA ScoresQuiet ==
  ASSUME ScoresInv, UNCHANGED <<past_rounds, scores, round>>, Awaited' \subseteq Awaited,
         status' = status
           \/ (status \notin {"ROUND_SUMMARY", "GAME_OVER"}
                /\ status' \notin {"ROUND_SUMMARY", "GAME_OVER"})
  PROVE  ScoresInv'
BY ScoresFrame DEF Archive

\* The strokes, the votes and the guess.
LEMMA ScoresPlayed ==
  ASSUME Inv, BallotsInv, AwaitInv, ScoresInv, Plays
  PROVE  ScoresInv'
<1>1. /\ round \in Round /\ round'.index = round.index
      /\ UNCHANGED past_rounds /\ calls' = calls
  BY PlayedRound DEF Inv, TypeOK, drawVars
<1>2. status \in {"DRAWING", "VOTING", "FAKE_GUESS"} /\ Awaited' = {}
  BY <1>1, PlayedRound DEF AwaitInv, Awaited
<1>3. ASSUME Archive(round)' = Archive(round), round'.outcome = round.outcome,
             UNCHANGED scores
      PROVE  ScoresInv'
  BY <1>1, <1>2, <1>3, ScoresFrame
<1>4. CASE \E p \in Players : SubmitStroke(p)
  BY <1>1, <1>3, <1>4 DEF SubmitStroke, Archive, Round
<1>5. ASSUME NEW p \in Players, NEW suspect \in Players, CastVote(p, suspect)
      PROVE  ScoresInv'
  <2> DEFINE voted == [round EXCEPT !.votes = [round.votes EXCEPT ![p] = suspect]]
  <2>1. /\ voted \in Round /\ voted.index = round.index /\ voted.outcome = round.outcome
        /\ voted.guess = round.guess /\ voted.fake = round.fake /\ voted.order = round.order
        /\ voted.card = round.card
    BY <1>1 DEF Round
  <2>2. /\ status = "VOTING"
        /\ (round' = voted /\ UNCHANGED scores) \/ Finalize(voted, FALSE, FALSE)
    BY <1>5 DEF CastVote
  <2>3. voted.guess = "none"
    BY <2>1, <2>2 DEF BallotsInv
  <2> HIDE DEF voted
  <2>4. CASE round' = voted /\ UNCHANGED scores
    BY <1>3, <2>1, <2>4 DEF Archive
  <2>5. CASE Finalize(voted, FALSE, FALSE)
    BY <1>1, <1>2, <2>1, <2>2, <2>3, <2>5, FinalizePays
  <2> QED
    BY <2>2, <2>4, <2>5
<1>6. ASSUME NEW p \in Players, NEW right \in BOOLEAN, FakeGuess(p, right)
      PROVE  ScoresInv'
  <2> DEFINE r == [round EXCEPT !.guess = IF right THEN "right" ELSE "wrong"]
  <2>1. /\ r \in Round /\ r.index = round.index /\ r.outcome = round.outcome
        /\ r.guess = IF right THEN "right" ELSE "wrong"
    BY <1>1 DEF Round
  <2>2. status = "FAKE_GUESS" /\ Finalize(r, TRUE, right)
    BY <1>6 DEF FakeGuess
  <2> HIDE DEF r
  <2> QED
    BY <1>1, <1>2, <2>1, <2>2, FinalizePays
<1> QED
  BY <1>4, <1>5, <1>6 DEF Plays

LEMMA ScoresCommand ==
  ASSUME Inv, BallotsInv, AwaitInv, ScoresInv, HostWaits, NEW p \in Players, Command(p)
  PROVE  ScoresInv'
<1>1. CASE \/ Join(p)
           \/ \E c \in ConfigChoices : Configure(p, c)
           \/ \E words \in SUBSET (Cards \ pool) : SubmitWords(p, words)
           \/ StartGame(p)
           \/ BeginDrawing(p)
  <2>1. /\ UNCHANGED <<past_rounds, scores, round>> /\ Awaited' = Awaited
        /\ \/ status' = status
           \/ status = "LOBBY" /\ status' = "WRITING"
           \/ status = "ROUND_ANNOUNCE" /\ status' = "DRAWING"
    BY <1>1 DEF Join, Configure, SubmitWords, StartGame, BeginDrawing, drawVars, Awaited
  <2> QED
    BY <2>1, ScoresQuiet
<1>2. CASE Plays
  BY <1>2, ScoresPlayed
<1>3. CASE StartRound(p)
  <2>1. status = "WRITING" /\ UNCHANGED <<past_rounds, scores>>
    BY <1>3 DEF StartRound
  <2>2. CASE UNCHANGED <<status, round>>
    BY <2>1, <2>2, ScoresFrame DEF ScoresInv, Archive
  <2>3. CASE PrepareLocally
    BY <2>1, <2>3, ScoresLocal
  <2> QED
    BY <1>3, <2>2, <2>3 DEF StartRound
<1>4. CASE NextRound(p)
  <2>1. /\ status = "ROUND_SUMMARY" /\ past_rounds' = Archived /\ UNCHANGED scores
        /\ \/ UNCHANGED round /\ status' \in {"ROUND_SUMMARY", "GAME_OVER"}
           \/ Announces /\ round'.index = round.index + 1
    BY <1>4, LocalRound DEF NextRound, GameOver
  <2>2. Archived \in Seq(PastRound)
    BY <2>1, ArchivedFacts
  <2> QED
    BY <2>1, <2>2, ArchivedPays, ScoresClosed, ScoresAnnounced
<1>5. CASE EndGame(p)
  <2>1. /\ past_rounds' = IF status = "ROUND_SUMMARY" THEN Archived ELSE past_rounds
        /\ status' = "GAME_OVER" /\ UNCHANGED <<round, scores>> /\ calls' = calls
    BY <1>5 DEF EndGame, GameOver, drawVars
  <2>2. Awaited' = {}
    BY <1>5, <2>1 DEF EndGame, HostMayAct, Awaited
  <2>3. CASE status = "ROUND_SUMMARY"
    BY <2>1, <2>3, ScoresClosed
  <2>4. CASE status # "ROUND_SUMMARY"
    BY <2>1, <2>2, <2>4, ScoresFrame DEF Archive
  <2> QED
    BY <2>3, <2>4
<1> QED
  BY <1>1, <1>2, <1>3, <1>4, <1>5 DEF Command, Plays

LEMMA ScoresStep ==
  ASSUME HostWaits
  PROVE  Inv /\ BallotsInv /\ AwaitInv /\ ScoresInv /\ [Next]_vars => ScoresInv'
<1> SUFFICES ASSUME Inv, BallotsInv, AwaitInv, ScoresInv, [Next]_vars
             PROVE  ScoresInv'
  OBVIOUS
<1>1. ASSUME NEW c \in Calls, ServerStep(c) \/ NetworkLoses(c)
      PROVE  ScoresInv'
  <2>1. UNCHANGED <<past_rounds, scores, round, status>> /\ (Serve(c) \/ LoseCall(c))
    BY <1>1 DEF ServerStep, NetworkLoses, gameVars
  <2>2. Awaited' \subseteq Awaited
    BY <2>1, ServedCall DEF Awaited
  <2> QED
    BY <2>1, <2>2, ScoresQuiet
<1>2. CASE UNCHANGED vars
  BY <1>2, ScoresQuiet DEF vars, gameVars, drawVars, Awaited
<1> QED
  BY <1>1, <1>2, ScoresCommand, ScoresDrawn DEF Next, DrawStep

\* With a host that waits every point of a score comes from one round of the gallery or
\* from the round just closed: nobody is paid twice and nothing paid is lost.
THEOREM ScoresAddUp ==
  ASSUME HostWaits
  PROVE  Spec => []ScoresExplained
<1>1. ScoresInv => ScoresExplained
  BY DEF ScoresInv
<1>2. Spec => []ScoresInv
  <2>1. Spec => []AwaitInv
    BY AwaitHolds
  <2>2. Inv /\ BallotsInv /\ AwaitInv /\ ScoresInv /\ [Next]_vars => ScoresInv'
    BY ScoresStep
  <2> QED
    BY <2>1, <2>2, ScoresInit, InvHolds, BallotsHold, PTL DEF Spec
<1> QED
  BY <1>1, <1>2, PTL
=============================================================================
