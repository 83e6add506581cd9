----------------------------- MODULE Plurality -----------------------------
(***************************************************************************)
(* What "the fake is caught" means: the votes of a round, and the suspect  *)
(* who strictly leads them.  VoteTally shows that the loop of              *)
(* engine.ts tallyVotes computes exactly this; GameEngine uses it.         *)
(***************************************************************************)
EXTENDS FiniteSets, Integers

\* counts.get(s): how many ballots (a function, voter -> suspect) name s.
VotesFor(ballots, s) == Cardinality({v \in DOMAIN ballots : ballots[v] = s})

\* s is named by somebody and by more voters than anybody else.
StrictlyLeads(ballots, s, suspects) ==
  /\ VotesFor(ballots, s) > 0
  /\ \A t \in suspects \ {s} : VotesFor(ballots, t) < VotesFor(ballots, s)
=============================================================================
