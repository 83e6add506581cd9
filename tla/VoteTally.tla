----------------------------- MODULE VoteTally -----------------------------
(***************************************************************************)
(* The counting loop of the host engine (frontend/p2p/engine.ts,           *)
(* tallyVotes).  The loop visits the suspects that received a vote in the  *)
(* insertion order of a Map, which depends on who voted first: here, in    *)
(* any order.  It keeps the largest count so far, the suspect who has it,  *)
(* and whether another visited suspect has the same count.                 *)
(***************************************************************************)
EXTENDS Plurality

CONSTANTS Players,   \* turn_order of the round: the voters and the suspects
          NoOne      \* the empty winnerId

ASSUME TallyAssumption == IsFiniteSet(Players) /\ NoOne \notin Players

VARIABLES votes,     \* r.votes, complete: the engine tallies once all voted
          unvisited, \* suspects with a vote the loop has not reached
          max,       \* largest count among the visited ones
          leader,    \* winnerId
          tied

vars == <<votes, unvisited, max, leader, tied>>

Named == {votes[v] : v \in Players}

\* Mutant: let max = -1, so that a count of zero could lead.
TallyInitBelowZero ==
  /\ votes \in [Players -> Players]
  /\ unvisited = Named
  /\ max = -1
  /\ leader = NoOne
  /\ tied = FALSE

TallyInit ==
  /\ votes \in [Players -> Players]
  /\ unvisited = Named
  /\ max = 0
  /\ leader = NoOne
  /\ tied = FALSE

\* Mutant: tied survives the arrival of a new leader.
TakesTheLeadStillTied(s) ==
  /\ VotesFor(votes, s) > max
  /\ max' = VotesFor(votes, s)
  /\ leader' = s
  /\ UNCHANGED tied

TakesTheLead(s) ==
  /\ VotesFor(votes, s) > max
  /\ max' = VotesFor(votes, s)
  /\ leader' = s
  /\ tied' = FALSE

\* Mutant: an equal count goes unnoticed.
DrawsUnnoticed(s) ==
  /\ VotesFor(votes, s) = max
  /\ UNCHANGED <<max, leader, tied>>

Draws(s) ==
  /\ VotesFor(votes, s) = max
  /\ tied' = TRUE
  /\ UNCHANGED <<max, leader>>

Trails(s) ==
  /\ VotesFor(votes, s) < max
  /\ UNCHANGED <<max, leader, tied>>

\* One iteration of the loop over counts.
Visit(s) ==
  /\ s \in unvisited
  /\ unvisited' = unvisited \ {s}
  /\ TakesTheLead(s) \/ Draws(s) \/ Trails(s)
  /\ UNCHANGED votes

Next == \E s \in Players : Visit(s)

\* The loop is one synchronous call: it runs to its end.
Spec == TallyInit /\ [][Next]_vars /\ WF_vars(Next)

-----------------------------------------------------------------------------
Counted == unvisited = {}

\* winnerId as the call returns it: empty when the lead is shared.
Verdict == IF tied THEN NoOne ELSE leader

TallyTypeOK ==
  /\ votes \in [Players -> Players]
  /\ unvisited \in SUBSET Players
  /\ max \in Nat
  /\ leader \in Players \cup {NoOne}
  /\ tied \in BOOLEAN

\* The loop, whatever order the Map yields the suspects in, names a player
\* exactly when that player strictly leads the ballots: engine.ts 472-485
\* never catches a fake on a shared lead and never misses a clear one.
VerdictIsPlurality ==
  Counted => \A s \in Players : (Verdict = s) <=> StrictlyLeads(votes, s, Players)

\* While the loop runs: max bounds every visited count, is the count of the
\* leader, and tied tells whether a second visited suspect has it.
Visited == Named \ unvisited
LoopInvariant ==
  /\ unvisited \subseteq Named
  /\ \A s \in Visited : VotesFor(votes, s) <= max
  /\ leader = NoOne <=> Visited = {}
  /\ leader # NoOne => leader \in Visited /\ VotesFor(votes, leader) = max
  /\ leader = NoOne => max = 0 /\ ~tied
  /\ tied <=> \E s \in Visited : s # leader /\ VotesFor(votes, s) = max
=============================================================================
