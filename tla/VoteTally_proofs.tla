-------------------------- MODULE VoteTally_proofs --------------------------
(***************************************************************************)
(* For every finite set of players and every order of the Map, the loop of *)
(* tallyVotes returns the strict plurality of the ballots.                 *)
(***************************************************************************)
EXTENDS VoteTally, FiniteSetTheorems, TLAPS

\* A count of ballots is a natural number, and it is positive exactly for the
\* suspects somebody named.
LEMMA VotesForNat ==
  ASSUME NEW ballots \in [Players -> Players], NEW s \in Players
  PROVE  /\ VotesFor(ballots, s) \in Nat
         /\ VotesFor(ballots, s) > 0 <=> \E v \in Players : ballots[v] = s
<1> DEFINE Fans == {v \in DOMAIN ballots : ballots[v] = s}
<1>1. Fans \in SUBSET Players
  OBVIOUS
<1>2. IsFiniteSet(Fans) /\ Cardinality(Fans) \in Nat
  BY <1>1, TallyAssumption, FS_Subset, FS_CardinalityType
<1>3. Cardinality(Fans) = 0 <=> Fans = {}
  BY <1>2, FS_EmptySet
<1>4. Cardinality(Fans) > 0 <=> Fans # {}
  BY <1>2, <1>3
<1>5. VotesFor(ballots, s) = Cardinality(Fans)
  BY DEF VotesFor
<1> QED
  BY <1>2, <1>4, <1>5

\* The variables of the loop keep their types, for every set of players.
THEOREM TallyTypeCorrect == Spec => []TallyTypeOK
<1>1. TallyInit => TallyTypeOK
  <2> SUFFICES ASSUME TallyInit
               PROVE  TallyTypeOK
    OBVIOUS
  <2>1. unvisited \in SUBSET Players
    BY DEF TallyInit, Named
  <2> QED
    BY <2>1 DEF TallyInit, TallyTypeOK
<1>2. TallyTypeOK /\ [Next]_vars => TallyTypeOK'
  <2> SUFFICES ASSUME TallyTypeOK, [Next]_vars
               PROVE  TallyTypeOK'
    OBVIOUS
  <2>1. ASSUME NEW s \in Players, Visit(s)
        PROVE  TallyTypeOK'
    <3>1. VotesFor(votes, s) \in Nat
      BY VotesForNat DEF TallyTypeOK
    <3> QED
      BY <2>1, <3>1 DEF TallyTypeOK, Visit, TakesTheLead, Draws, Trails
  <2>2. CASE UNCHANGED vars
    BY <2>2 DEF TallyTypeOK, vars
  <2> QED
    BY <2>1, <2>2 DEF Next
<1> QED
  BY <1>1, <1>2, PTL DEF Spec

\* The loop invariant holds at every iteration, for every set of players.
THEOREM LoopInvariantHolds == Spec => []LoopInvariant
<1>1. TallyInit => LoopInvariant
  BY TallyAssumption DEF TallyInit, LoopInvariant, Visited
<1>2. TallyTypeOK /\ LoopInvariant /\ [Next]_vars => LoopInvariant'
  <2> SUFFICES ASSUME TallyTypeOK, LoopInvariant, [Next]_vars
               PROVE  LoopInvariant'
    OBVIOUS
  <2>1. ASSUME NEW s \in Players, Visit(s)
        PROVE  LoopInvariant'
    <3>1. /\ s \in Named
          /\ Named' = Named
          /\ Visited' = Visited \cup {s}
          /\ s \notin Visited
      BY <2>1 DEF Visit, LoopInvariant, Visited, Named
    <3>2. \A t \in Players : VotesFor(votes, t) \in Nat /\ VotesFor(votes, t)' = VotesFor(votes, t)
      BY <2>1, VotesForNat DEF TallyTypeOK, Visit, VotesFor
    <3>3. VotesFor(votes, s) > 0
      BY <3>1, VotesForNat DEF TallyTypeOK, Named
    <3>4. Visited \subseteq Players /\ s # NoOne /\ NoOne \notin Visited
      BY TallyAssumption DEF Visited, Named, TallyTypeOK
    <3>5. unvisited' \subseteq Named'
      BY <2>1, <3>1 DEF Visit, LoopInvariant
    <3>6. CASE TakesTheLead(s)
      BY <3>1, <3>2, <3>3, <3>4, <3>5, <3>6 DEF TakesTheLead, LoopInvariant, TallyTypeOK
    <3>7. CASE Draws(s)
      BY <3>1, <3>2, <3>3, <3>4, <3>5, <3>7 DEF Draws, LoopInvariant, TallyTypeOK
    <3>8. CASE Trails(s)
      BY <3>1, <3>2, <3>3, <3>4, <3>5, <3>8 DEF Trails, LoopInvariant, TallyTypeOK
    <3> QED
      BY <2>1, <3>6, <3>7, <3>8 DEF Visit
  <2>2. CASE UNCHANGED vars
    BY <2>2 DEF vars, LoopInvariant, Visited, Named, VotesFor
  <2> QED
    BY <2>1, <2>2 DEF Next
<1> QED
  BY <1>1, <1>2, TallyTypeCorrect, PTL DEF Spec

\* When every suspect has been visited, the verdict of tallyVotes is the strict
\* plurality of the ballots, for every set of players.
THEOREM VerdictCorrect == Spec => []VerdictIsPlurality
<1>1. TallyTypeOK /\ LoopInvariant => VerdictIsPlurality
  <2> SUFFICES ASSUME TallyTypeOK, LoopInvariant, Counted, NEW s \in Players
               PROVE  (Verdict = s) <=> StrictlyLeads(votes, s, Players)
    BY DEF VerdictIsPlurality
  <2>1. Visited = Named /\ s # NoOne /\ Named \subseteq Players
    BY TallyAssumption DEF Counted, Visited, Named, TallyTypeOK
  <2>2. \A t \in Players : /\ VotesFor(votes, t) \in Nat
                           /\ VotesFor(votes, t) > 0 <=> t \in Named
    BY VotesForNat DEF TallyTypeOK, Named
  <2>3. ASSUME Verdict = s
        PROVE  StrictlyLeads(votes, s, Players)
    <3>1. ~tied /\ leader = s /\ s \in Named /\ VotesFor(votes, s) = max
      BY <2>1, <2>3 DEF Verdict, LoopInvariant
    <3>2. ASSUME NEW t \in Players \ {s}
          PROVE  VotesFor(votes, t) < VotesFor(votes, s)
      <4>1. CASE t \in Named
        BY <2>1, <2>2, <3>1, <4>1 DEF LoopInvariant, TallyTypeOK
      <4>2. CASE t \notin Named
        BY <2>2, <3>1, <4>2
      <4> QED
        BY <4>1, <4>2
    <3> QED
      BY <2>2, <3>1, <3>2 DEF StrictlyLeads
  <2>4. ASSUME StrictlyLeads(votes, s, Players)
        PROVE  Verdict = s
    <3>1. s \in Named
      BY <2>2, <2>4 DEF StrictlyLeads
    <3>2. leader \in Named /\ VotesFor(votes, leader) = max
      BY <2>1, <3>1 DEF LoopInvariant, TallyTypeOK
    <3>3. VotesFor(votes, s) <= max
      BY <2>1, <3>1 DEF LoopInvariant
    <3>4. leader = s
      BY <2>1, <2>2, <2>4, <3>2, <3>3 DEF StrictlyLeads, TallyTypeOK
    <3>5. ~tied
      BY <2>1, <2>2, <2>4, <3>2, <3>4 DEF StrictlyLeads, LoopInvariant, TallyTypeOK
    <3> QED
      BY <3>4, <3>5 DEF Verdict
  <2> QED
    BY <2>3, <2>4
<1> QED
  BY <1>1, TallyTypeCorrect, LoopInvariantHolds, PTL
=============================================================================
