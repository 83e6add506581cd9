------------------------------ MODULE RoleDraw ------------------------------
(***************************************************************************)
(* The server's role draw (internal/rooms/draw.go): a pool of word cards,  *)
(* which of them are spent, and one secret per round index, kept for the   *)
(* later reveal.  A draw is one HTTP call that takes the pool's lock three *)
(* times - to merge the caller's pool, to pick a card, to record the       *)
(* secret - so the steps of concurrent calls interleave.                   *)
(*                                                                         *)
(* The words, nonces and hashes are abstracted: a card stands for its word *)
(* and, because no card is dealt twice, for the draw that picked it.       *)
(***************************************************************************)
EXTENDS Naturals, FiniteSets

CONSTANTS Players,
          Cards,
          Calls,      \* slots for draws in flight: bounds their number
          MaxLosses,  \* bound on the calls whose answer the network loses
          NoOne,
          NoCard

ASSUME NamesAssumption == NoOne \notin Players /\ NoCard \notin Cards
ASSUME LossAssumption == MaxLosses \in Nat

VARIABLES known,    \* ids in DrawState.pool
          spent,    \* those marked Used
          secrets,  \* DrawState.secrets: at most one record per round index
          calls,    \* the HTTP calls in flight
          losses    \* how many answers were lost so far

drawVars == <<known, spent, secrets, calls, losses>>

Stages == {"idle", "sent", "merged", "picked", "answered"}

IdleCall == [stage   |-> "idle", index  |-> 0,      players |-> {},
             offered |-> {},     card   |-> NoCard, fake    |-> NoOne,
             awaited |-> FALSE]

RoleDrawInit ==
  /\ known = {}
  /\ spent = {}
  /\ secrets = {}
  /\ calls = [c \in Calls |-> IdleCall]
  /\ losses = 0

\* The caller posts /roles: what it read of its state travels in the call.
Request(c, index, players, offered) ==
  /\ calls[c].stage = "idle"
  /\ calls' = [calls EXCEPT ![c] =
       [IdleCall EXCEPT !.stage = "sent", !.index = index, !.players = players,
                        !.offered = offered, !.awaited = TRUE]]
  /\ UNCHANGED <<known, spent, secrets, losses>>

\* The room exists, the caller is its host, somebody plays: the caller's cards
\* join the pool.  A card the server knows keeps its Used mark.
MergePool(c) ==
  /\ calls[c].stage = "sent"
  /\ calls[c].players # {}
  /\ known' = known \cup calls[c].offered
  /\ calls' = [calls EXCEPT ![c].stage = "merged"]
  /\ UNCHANGED <<spent, secrets, losses>>

\* Mutant: the picked card is not marked Used.
PickCardUnmarked(c) ==
  /\ calls[c].stage = "merged"
  /\ \E card \in known \ spent, fake \in calls[c].players :
       calls' = [calls EXCEPT ![c].stage = "picked", ![c].card = card, ![c].fake = fake]
  /\ UNCHANGED <<known, spent, secrets, losses>>

\* An unused card is chosen and spent under the lock; the fake is drawn after it.
PickCard(c) ==
  /\ calls[c].stage = "merged"
  /\ \E card \in known \ spent, fake \in calls[c].players :
       /\ spent' = spent \cup {card}
       /\ calls' = [calls EXCEPT ![c].stage = "picked", ![c].card = card, ![c].fake = fake]
  /\ UNCHANGED <<known, secrets, losses>>

\* ErrPoolExhausted: the caller gets an error, which it only reports.
PoolExhausted(c) ==
  /\ calls[c].stage = "merged"
  /\ known \subseteq spent
  /\ calls' = [calls EXCEPT ![c] = IdleCall]
  /\ UNCHANGED <<known, spent, secrets, losses>>

\* Mutant: the round index of the request is not decoded.
SecretOfUnindexed(c) == [index |-> 0, card |-> calls[c].card, fake |-> calls[c].fake]

SecretOf(c) == [index |-> calls[c].index, card |-> calls[c].card, fake |-> calls[c].fake]

\* secrets[roundIndex] = ...: the last writer of an index wins.  The answer then
\* leaves for the caller, if it still waits.
RecordSecret(c) ==
  /\ calls[c].stage = "picked"
  /\ secrets' = {s \in secrets : s.index # calls[c].index} \cup {SecretOf(c)}
  /\ calls' = [calls EXCEPT ![c] =
       IF calls[c].awaited THEN [calls[c] EXCEPT !.stage = "answered"] ELSE IdleCall]
  /\ UNCHANGED <<known, spent, losses>>

\* The fetch rejects.  The request may not have reached the server, may still be
\* served with nobody waiting, or the answer may be lost on its way back.
LoseCall(c) ==
  /\ calls[c].awaited
  /\ losses < MaxLosses
  /\ losses' = losses + 1
  /\ \/ /\ calls[c].stage \in {"sent", "answered"}
        /\ calls' = [calls EXCEPT ![c] = IdleCall]
     \/ /\ calls[c].stage # "answered"
        /\ calls' = [calls EXCEPT ![c].awaited = FALSE]
  /\ UNCHANGED <<known, spent, secrets>>

\* What the server does by itself for a call it has received.
Serve(c) == MergePool(c) \/ PickCard(c) \/ PoolExhausted(c) \/ RecordSecret(c)

-----------------------------------------------------------------------------
Call == [stage : Stages, index : Nat, players : SUBSET Players,
         offered : SUBSET Cards, card : Cards \cup {NoCard},
         fake : Players \cup {NoOne}, awaited : BOOLEAN]

Secret == [index : Nat, card : Cards, fake : Players]

RoleDrawTypeOK ==
  /\ known \in SUBSET Cards
  /\ spent \in SUBSET Cards
  /\ secrets \in SUBSET Secret
  /\ calls \in [Calls -> Call]
  /\ losses \in 0..MaxLosses

\* A call that has a card and has not yet handed it over.
HoldsCard(c) == calls[c].stage \in {"picked", "answered"}

\* However the calls interleave, a card is spent for one of them only, and only
\* a running call is waited for.
OneCardPerCall ==
  /\ spent \subseteq known
  /\ \A c \in Calls : calls[c].awaited => calls[c].stage # "idle"
  /\ \A c \in Calls : HoldsCard(c) => calls[c].card \in spent /\ calls[c].fake \in calls[c].players
  /\ \A c, d \in Calls : HoldsCard(c) /\ HoldsCard(d) /\ calls[c].card = calls[d].card => c = d
=============================================================================
