----------------------------- MODULE GamePhases -----------------------------
(***************************************************************************)
(* What a game promises to the people around the table: the phases in      *)
(* their order, rounds numbered without gap, points given once per round   *)
(* and only when it closes, and an end that stays the end.  GameEngine     *)
(* implements it as long as the host waits for a draw (see Phases there).  *)
(***************************************************************************)
EXTENDS Naturals

CONSTANTS Players, NoOne

VARIABLES phase,
          roundNo,  \* rounds announced so far
          points,
          champion

vars == <<phase, roundNo, points, champion>>

Init ==
  /\ phase = "LOBBY"
  /\ roundNo = 0
  /\ points = [p \in Players |-> 0]
  /\ champion = NoOne

Moves(from, to) == phase \in from /\ phase' = to

Open == Moves({"LOBBY"}, "WRITING") /\ UNCHANGED <<roundNo, points, champion>>

Announce ==
  /\ Moves({"WRITING", "ROUND_SUMMARY"}, "ROUND_ANNOUNCE")
  /\ roundNo' = roundNo + 1
  /\ UNCHANGED <<points, champion>>

Draw == Moves({"ROUND_ANNOUNCE"}, "DRAWING") /\ UNCHANGED <<roundNo, points, champion>>
Vote == Moves({"DRAWING"}, "VOTING") /\ UNCHANGED <<roundNo, points, champion>>
Unmask == Moves({"VOTING"}, "FAKE_GUESS") /\ UNCHANGED <<roundNo, points, champion>>

Pay(lucky, amount) ==
  points' = [p \in Players |-> IF p \in lucky THEN points[p] + amount ELSE points[p]]

Escape ==
  /\ Moves({"VOTING"}, "ROUND_SUMMARY")
  /\ \E fake \in Players : Pay({fake}, 1)
  /\ UNCHANGED <<roundNo, champion>>

\* The unmasked fake guesses the word and takes two, or misses and everybody
\* who was drawing with it takes one.
Guess ==
  /\ Moves({"FAKE_GUESS"}, "ROUND_SUMMARY")
  /\ \E fake \in Players :
       \/ Pay({fake}, 2)
       \/ \E artists \in SUBSET (Players \ {fake}) : Pay(artists, 1)
  /\ UNCHANGED <<roundNo, champion>>

\* The host may stop at any time; the champion has nobody above.
Finish ==
  /\ phase # "GAME_OVER"
  /\ phase' = "GAME_OVER"
  /\ champion' \in {p \in Players : \A q \in Players : points[q] <= points[p]}
  /\ UNCHANGED <<roundNo, points>>

Next == Open \/ Announce \/ Draw \/ Vote \/ Unmask \/ Escape \/ Guess \/ Finish

Spec == Init /\ [][Next]_vars
=============================================================================
