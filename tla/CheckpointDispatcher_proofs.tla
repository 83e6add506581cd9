-------------------- MODULE CheckpointDispatcher_proofs --------------------
(* With any thresholds, retries, losses, rounds and posts in flight the host *)
(* page with its dispatcher is one of the careless pages of RoomRegistry, so *)
(* that what is proved of the registry there holds behind the dispatcher;    *)
(* each flush is of a newer version, the log tail it reads reaches its       *)
(* state, nothing is left behind once it ends, and what the server keeps     *)
(* only advances.                                                            *)
EXTENDS CheckpointDispatcher, RoomRegistry_proofs, SequenceTheorems

-----------------------------------------------------------------------------
\* The invariant: the page as a client of the registry

Fields == {"since", "pending", "flushed", "stage", "body", "tries"}
PacketFields == {"body", "strokes", "awaited"}

\* A flush under way carries a version the game has had by now.
Flushes(d, newest) ==
  /\ DOMAIN d = Fields
  /\ d.stage # "idle" => d.body.version \in 1..newest

\* A page waits for at most one post, and for none unless it says so.
OneAwaited ==
  /\ DOMAIN sent = Slots
  /\ \A s \in Slots : /\ DOMAIN sent[s] = PacketFields /\ sent[s].awaited \in BOOLEAN
                      /\ sent[s].awaited => disp.stage = "waiting"
  /\ \A s, t \in Slots : sent[s].awaited /\ sent[t].awaited => s = t

\* Inv is the registry's.  A drawing is under way only in a game with a version.
PageInv ==
  /\ Inv
  /\ Home \in live => game[Home].there
  /\ "status" \in DOMAIN play
  /\ play.status = "DRAWING" => game[Home].version > 0
  /\ Flushes(disp, game[Home].version)
  /\ OneAwaited

LEMMA HomeExists == Home \in RoomIds
<1>1. RoomIds # {}
  BY DispatcherAssumption, FS_EmptySet
<1> QED
  BY <1>1 DEF Home

LEMMA VersionType == Inv => game[Home].version \in Nat
BY HomeExists, RegistryAssumption DEF Inv, TypeOK

-----------------------------------------------------------------------------
\* Flushes

\* A flush keeps one that is under way, and begins with the version it is given.
LEMMA FlushKeeps ==
  ASSUME NEW d, NEW p, NEW logged, NEW newest \in Nat, NEW version \in 1..newest,
         Flushes(d, newest)
  PROVE  LET next == Flush(d, p, version, logged)
         IN  /\ Flushes(next, newest)
             /\ d.stage # "idle" => next.stage = d.stage
<1> DEFINE next == Flush(d, p, version, logged)
<1>1. CASE d.stage # "idle"
  <2>1. next = [d EXCEPT !.pending = TRUE]
    BY <1>1 DEF Flush
  <2>2. DOMAIN next = Fields /\ next.stage = d.stage /\ next.body = d.body
    BY <2>1 DEF Flushes, Fields
  <2> QED
    BY <1>1, <2>2 DEF Flushes
<1>2. CASE d.stage = "idle"
  <2> DEFINE body == Body(p, version, logged)
  <2>1. next = [d EXCEPT !.stage = "reading", !.tries = 0, !.body = body]
    BY <1>2 DEF Flush
  <2>2. body.version = version
    BY DEF Body
  <2> HIDE DEF body
  <2>3. DOMAIN next = Fields /\ next.body = body
    BY <2>1 DEF Flushes, Fields
  <2> QED
    BY <1>2, <2>2, <2>3 DEF Flushes
<1> QED
  BY <1>1, <1>2

\* After the end of a flush none is under way, or the one asked for meanwhile.
LEMMA EndKeeps ==
  ASSUME PageInv, NEW d, Flushes(d, game[Home].version), d.stage # "idle"
  PROVE  Flushes(EndFlush(d), game[Home].version)
<1> DEFINE version == game[Home].version
           ended == [d EXCEPT !.stage = "idle", !.pending = FALSE]
<1>1. version \in 1..version /\ version \in Nat
  BY VersionType DEF PageInv, Flushes
<1>2. Flushes(ended, version)
  BY DEF Flushes, Fields
<1>3. CASE d.pending
  <2>1. EndFlush(d) = Flush(ended, play, version, Logged(play))
    BY <1>3 DEF EndFlush
  <2> HIDE DEF ended, version
  <2> QED
    BY <1>1, <1>2, <2>1, FlushKeeps DEF version
<1>4. CASE ~d.pending
  BY <1>2, <1>4 DEF EndFlush
<1> QED
  BY <1>3, <1>4

LEMMA FinishKeeps ==
  ASSUME PageInv, disp.stage # "idle"
  PROVE  Flushes(Finish(disp), game[Home].version)
<1> DEFINE d == [disp EXCEPT !.flushed = disp.body.version, !.since = 0]
<1>1. Flushes(d, game[Home].version) /\ d.stage # "idle"
  BY DEF PageInv, Flushes, Fields
<1>2. Finish(disp) = EndFlush(d)
  BY DEF Finish
<1> HIDE DEF d
<1> QED
  BY <1>1, <1>2, EndKeeps

LEMMA BackOffKeeps ==
  ASSUME PageInv, disp.stage # "idle"
  PROVE  Flushes(BackOff(disp), game[Home].version)
<1>1. CASE disp.tries + 1 = Attempts
  BY <1>1, FinishKeeps DEF BackOff
<1>2. CASE disp.tries + 1 # Attempts
  BY <1>2 DEF BackOff, PageInv, Flushes, Fields
<1> QED
  BY <1>1, <1>2

-----------------------------------------------------------------------------
\* Steps

\* What all steps have in common that are steps of the registry, keep the page where it
\* is and never take the game back.
LEMMA StepKeeps ==
  ASSUME PageInv, [Next]_vars,
         Home \in live' => Home \in live \/ game'[Home].there,
         game'[Home].there \/ game'[Home].there = game[Home].there,
         "status" \in DOMAIN play',
         play'.status = "DRAWING" => game'[Home].version > 0,
         Flushes(disp', game'[Home].version), OneAwaited'
  PROVE  PageInv'
<1>1. Inv'
  BY NextInv DEF PageInv, AllNext
<1> QED
  BY <1>1 DEF PageInv

\* A broadcast moves the game on; the dispatcher may have begun a flush for a stroke
\* before, and begins one for a new status.
LEMMA BroadcastKeeps ==
  ASSUME PageInv, NEW d, NEW p, Broadcast(d, p), "status" \in DOMAIN p,
         Flushes(d, game[Home].version), disp.stage # "idle" => d.stage = disp.stage
  PROVE  PageInv' /\ [Next]_vars
<1> DEFINE version == game[Home].version
<1>1. /\ GameMoves(Home) /\ play' = p /\ disp' = ObserveState(d, p)
      /\ UNCHANGED <<sent, kept, lost>>
  BY DEF Broadcast
<1>2. Next
  BY <1>1, HomeExists DEF Next
<1>3. version \in Nat /\ game'[Home].version = version + 1
      /\ game'[Home].there = game[Home].there /\ live' = live
  <2>1. game[Home] \in Games /\ game \in [RoomIds -> Games]
    BY HomeExists DEF PageInv, Inv, TypeOK, Games
  <2>2. game' = [game EXCEPT ![Home].version = @ + 1] /\ live' = live
    BY <1>1 DEF GameMoves
  <2> QED
    BY <2>1, <2>2, HomeExists, VersionType DEF PageInv, Games
<1>4. Flushes(d, version + 1)
  BY <1>3 DEF Flushes
<1>5. Flushes(disp', version + 1) /\ (d.stage # "idle" => disp'.stage = d.stage)
  <2>1. CASE p.status # play.status
    <3>1. disp' = Flush(d, p, version + 1, Logged(p))
      BY <1>1, <2>1 DEF ObserveState
    <3>2. version + 1 \in Nat /\ version + 1 \in 1..version + 1
      BY <1>3
    <3> HIDE DEF version
    <3> QED
      BY <1>4, <3>1, <3>2, FlushKeeps
  <2>2. CASE p.status = play.status
    BY <1>1, <1>4, <2>2 DEF ObserveState
  <2> QED
    BY <2>1, <2>2
<1>6. OneAwaited'
  BY <1>1, <1>5 DEF PageInv, OneAwaited
<1>7. PageInv'
  BY <1>1, <1>2, <1>3, <1>5, <1>6, StepKeeps DEF PageInv
<1> QED
  BY <1>2, <1>7

\* A stroke is drawn in a game that has a version, and may begin a flush of it.
LEMMA StrokeKeeps ==
  ASSUME PageInv, SubmitStroke
  PROVE  PageInv' /\ [Next]_vars
<1> DEFINE version == game[Home].version
           logged == Logged(StrokeDrawn)
           counted == [disp EXCEPT !.since = @ + 1]
           d == ObserveStroke(disp, StrokeDrawn, logged)
<1>1. version \in Nat /\ version \in 1..version
  BY VersionType DEF SubmitStroke, PageInv
<1>2. Flushes(counted, version) /\ counted.stage = disp.stage
  BY DEF PageInv, Flushes, Fields
<1>3. Flushes(d, version) /\ (disp.stage # "idle" => d.stage = disp.stage)
  <2>1. CASE counted.since >= Threshold
    <3>1. d = Flush(counted, StrokeDrawn, version, logged)
      BY <2>1 DEF ObserveStroke
    <3> HIDE DEF version, logged, counted, d
    <3> QED
      BY <1>1, <1>2, <3>1, FlushKeeps
  <2>2. CASE ~(counted.since >= Threshold)
    BY <1>2, <2>2 DEF ObserveStroke
  <2> QED
    BY <2>1, <2>2
<1>4. Broadcast(d, AfterStroke) /\ "status" \in DOMAIN AfterStroke
  BY DEF SubmitStroke, PageInv, AfterStroke, StrokeDrawn
<1> HIDE DEF d
<1> QED
  BY <1>3, <1>4, BroadcastKeeps

\* The rest of the engine, as the dispatcher sees it.
LEMMA EngineKeeps ==
  ASSUME PageInv, StateChanges \/ RoundAnnounced \/ BeginDrawing \/ EndGame
  PROVE  PageInv' /\ [Next]_vars
<1>1. Flushes(disp, game[Home].version)
  BY DEF PageInv
<1>2. PICK p : Broadcast(disp, p) /\ "status" \in DOMAIN p
  <2>1. CASE StateChanges
    BY <2>1 DEF StateChanges, PageInv
  <2>2. CASE RoundAnnounced
    <3> DEFINE q(i) == [play EXCEPT !.status = "ROUND_ANNOUNCE", !.index = Append(@, i),
                                    !.drawn = Append(@, 0)]
    <3>1. PICK i \in 0..play.asked - 1 : Broadcast(disp, q(i))
      BY <2>2, Zenon DEF RoundAnnounced
    <3>2. "status" \in DOMAIN q(i)
      BY DEF PageInv
    <3> HIDE DEF q
    <3> QED
      BY <3>1, <3>2, Zenon
  <2>3. CASE BeginDrawing
    BY <2>3 DEF BeginDrawing, PageInv
  <2>4. CASE EndGame
    BY <2>4 DEF EndGame, PageInv
  <2> QED
    BY <2>1, <2>2, <2>3, <2>4
<1> QED
  BY <1>1, <1>2, BroadcastKeeps

\* The timer and the log.
LEMMA TimerKeeps ==
  ASSUME PageInv, TimerFires \/ LogRead
  PROVE  PageInv' /\ [Next]_vars
<1>1. UNCHANGED <<vars, play, sent, kept, lost>>
  BY DEF TimerFires, LogRead
<1>2. Flushes(disp', game[Home].version) /\ disp.stage # "waiting"
  <2>1. CASE LogRead
    BY <2>1 DEF LogRead, PageInv, Flushes, Fields
  <2>2. CASE TimerFires
    <3> DEFINE version == game[Home].version
    <3>1. version \in Nat /\ version \in 1..version /\ Flushes(disp, version)
      BY <2>2, VersionType DEF TimerFires, PageInv
    <3>2. disp' = Flush(disp, play, version, Logged(play))
          /\ disp.stage = "idle"
      BY <2>2 DEF TimerFires
    <3> HIDE DEF version
    <3>3. Flushes(disp', version)
      BY <3>1, <3>2, FlushKeeps
    <3> QED
      BY <3>2, <3>3 DEF version
  <2> QED
    BY <2>1, <2>2
<1>3. OneAwaited'
  BY <1>1, <1>2 DEF PageInv, OneAwaited
<1>4. game' = game /\ live' = live /\ play' = play
  BY <1>1 DEF vars
<1>5. PageInv'
  BY <1>1, <1>2, <1>3, <1>4, StepKeeps DEF PageInv
<1> QED
  BY <1>1, <1>5

\* A draw is asked for, or the log fails: the registry has no part in it.
LEMMA AsideKeeps ==
  ASSUME PageInv, AskDraw \/ LogFails
  PROVE  PageInv' /\ [Next]_vars
<1>1. UNCHANGED <<vars, sent, kept>> /\ play'.status = play.status
  BY DEF AskDraw, LogFails, PageInv
<1>2. Flushes(disp', game[Home].version)
  BY EndKeeps DEF AskDraw, LogFails, PageInv
<1>3. "status" \in DOMAIN play' /\ (disp.stage = "waiting" => disp' = disp)
  BY DEF AskDraw, LogFails, PageInv
<1>4. OneAwaited'
  BY <1>1, <1>3 DEF PageInv, OneAwaited
<1>5. game' = game /\ live' = live
  BY <1>1 DEF vars
<1>6. PageInv'
  BY <1>1, <1>2, <1>3, <1>4, <1>5, StepKeeps DEF PageInv
<1> QED
  BY <1>1, <1>6

\* What is posted is a state the game has had, by the creator's page: a post of the
\* registry's careless page.
LEMMA AttemptKeeps ==
  ASSUME PageInv, NEW s \in Slots, Attempt(s)
  PROVE  PageInv' /\ [Next]_vars
<1> DEFINE version == disp.body.version
           over == (disp.body.status = "GAME_OVER")
           packet == [body |-> disp.body, awaited |-> TRUE,
                      strokes |-> Drawn(play, disp.body.round)]
<1>1. /\ disp.stage = "sending"
      /\ PostSnapshot(s, Home, room[Home].creator, version, over)
      /\ sent' = [sent EXCEPT ![s] = packet]
      /\ disp' = [disp EXCEPT !.stage = "waiting"]
      /\ UNCHANGED <<play, kept, lost>>
  BY DEF Attempt
<1>2. game' = game /\ live' = live /\ Home \in live
  BY <1>1 DEF PostSnapshot
<1>3. version \in 1..game[Home].version /\ over \in BOOLEAN
  BY <1>1 DEF PageInv, Flushes
<1>4. HostPosts(s, Home)
  BY <1>1, <1>2, <1>3 DEF HostPosts, PageInv
<1>5. Next
  BY <1>4, HomeExists DEF Next
<1>6. DOMAIN packet = PacketFields /\ packet.awaited = TRUE
  BY DEF PacketFields
<1> HIDE DEF packet
<1>7. Flushes(disp', game[Home].version) /\ disp'.stage = "waiting"
  BY <1>1 DEF PageInv, Flushes, Fields
<1>8. OneAwaited'
  <2>1. \A t \in Slots : ~sent[t].awaited
    BY <1>1 DEF PageInv, OneAwaited
  <2>2. DOMAIN sent' = Slots /\ sent'[s] = packet /\ \A t \in Slots \ {s} : sent'[t] = sent[t]
    BY <1>1 DEF PageInv, OneAwaited
  <2> QED
    BY <1>6, <1>7, <2>1, <2>2 DEF PageInv, OneAwaited
<1>9. PageInv'
  BY <1>1, <1>2, <1>5, <1>7, <1>8, StepKeeps DEF PageInv
<1> QED
  BY <1>5, <1>9

\* A lost request or answer ends at most the wait.
LEMMA LossKeeps ==
  ASSUME PageInv, RequestLost \/ \E s \in Slots : AnswerLost(s)
  PROVE  PageInv' /\ [Next]_vars
<1>1. UNCHANGED <<vars, play, kept>> /\ disp' = BackOff(disp) /\ disp.stage # "idle"
  BY DEF RequestLost, AnswerLost, PageInv, OneAwaited
<1>2. Flushes(disp', game[Home].version)
  BY <1>1, BackOffKeeps
<1>3. OneAwaited'
  <2>1. CASE RequestLost
    BY <2>1 DEF RequestLost, PageInv, OneAwaited
  <2>2. ASSUME NEW s \in Slots, AnswerLost(s)
        PROVE  OneAwaited'
    <3> DEFINE over == [sent[s] EXCEPT !.awaited = FALSE]
    <3>1. sent' = [sent EXCEPT ![s] = over] /\ sent[s].awaited
      BY <2>2 DEF AnswerLost
    <3>2. DOMAIN over = PacketFields /\ over.awaited = FALSE
      BY DEF PageInv, OneAwaited, PacketFields
    <3> HIDE DEF over
    <3>3. DOMAIN sent' = Slots /\ sent'[s] = over /\ \A t \in Slots \ {s} : sent'[t] = sent[t]
      BY <3>1 DEF PageInv, OneAwaited
    <3>4. \A t \in Slots \ {s} : ~sent[t].awaited
      BY <3>1 DEF PageInv, OneAwaited
    <3> QED
      BY <3>2, <3>3, <3>4 DEF PageInv, OneAwaited
  <2> QED
    BY <2>1, <2>2
<1>4. game' = game /\ live' = live /\ play' = play
  BY <1>1 DEF vars
<1>5. PageInv'
  BY <1>1, <1>2, <1>3, <1>4, StepKeeps DEF PageInv
<1> QED
  BY <1>1, <1>5

\* The server's steps are the registry's; an answer ends the flush that waits for it.
LEMMA ServerKeeps ==
  ASSUME PageInv, Server
  PROVE  PageInv' /\ [Next]_vars
<1>1. PICK s \in Slots : ServerSaves(s) \/ ServerAnswers(s)
  BY DEF Server
<1>2. Post(s)
  BY <1>1 DEF ServerSaves, ServerAnswers, Post
<1>3. Next
  BY <1>2 DEF Next
<1>4. game' = game /\ live' = live /\ play' = play
  BY <1>1 DEF ServerSaves, ServerAnswers, SaveCheckpoint, SnapshotRefused, SnapshotFails,
              SetFinished
<1>5. Flushes(disp', game[Home].version) /\ OneAwaited'
  <2>1. CASE ServerSaves(s)
    BY <2>1 DEF ServerSaves, PageInv, OneAwaited
  <2>2. CASE ServerAnswers(s)
    <3>1. disp' = (IF sent[s].awaited THEN Finish(disp) ELSE disp)
          /\ sent' = [sent EXCEPT ![s] = Nothing]
      BY <2>2 DEF ServerAnswers
    <3>2. DOMAIN Nothing = PacketFields /\ Nothing.awaited = FALSE
      BY DEF Nothing, PacketFields
    <3>3. DOMAIN sent' = Slots /\ sent'[s] = Nothing
          /\ \A t \in Slots \ {s} : sent'[t] = sent[t]
      BY <3>1 DEF PageInv, OneAwaited
    <3>4. CASE sent[s].awaited
      <4>1. disp' = Finish(disp) /\ disp.stage # "idle"
        BY <3>1, <3>4 DEF PageInv, OneAwaited
      <4>2. \A t \in Slots \ {s} : ~sent[t].awaited
        BY <3>4 DEF PageInv, OneAwaited
      <4>3. OneAwaited'
        BY <3>2, <3>3, <4>2 DEF PageInv, OneAwaited
      <4> QED
        BY <4>1, <4>3, FinishKeeps
    <3>5. CASE ~sent[s].awaited
      <4>1. disp' = disp
        BY <3>1, <3>5
      <4> QED
        BY <3>2, <3>3, <4>1 DEF PageInv, OneAwaited
    <3> QED
      BY <3>4, <3>5
  <2> QED
    BY <1>1, <2>1, <2>2
<1>6. PageInv'
  BY <1>3, <1>4, <1>5, StepKeeps DEF PageInv
<1> QED
  BY <1>3, <1>6

\* The room of the page opens.
LEMMA OpenKeeps ==
  ASSUME PageInv, OpenRoom
  PROVE  PageInv' /\ [Next]_vars
<1>1. PICK code \in Codes, name \in Names : CreateRoom(Home, code, name)
  BY DEF OpenRoom
<1>2. Next
  BY <1>1, HomeExists DEF Next
<1>3. UNCHANGED dvars
  BY DEF OpenRoom
<1>4. game'[Home].there /\ game'[Home].version = game[Home].version
  <2>1. game[Home] \in Games /\ game \in [RoomIds -> Games]
    BY HomeExists DEF PageInv, Inv, TypeOK, Games
  <2>2. game' = [game EXCEPT ![Home].there = TRUE]
    BY <1>1 DEF CreateRoom
  <2> QED
    BY <2>1, <2>2, HomeExists DEF Games
<1>5. OneAwaited' /\ Flushes(disp', game'[Home].version)
  BY <1>3, <1>4 DEF dvars, PageInv, OneAwaited
<1>6. PageInv'
  BY <1>2, <1>3, <1>4, <1>5, StepKeeps DEF PageInv, dvars
<1> QED
  BY <1>2, <1>6

-----------------------------------------------------------------------------
\* The theorems

LEMMA InitPage == DispatcherInit => PageInv
<1> SUFFICES ASSUME DispatcherInit PROVE PageInv
  OBVIOUS
<1>1. Inv
  BY InitInv DEF DispatcherInit
<1>2. Flushes(disp, game[Home].version)
  BY DEF DispatcherInit, Flushes, Fields
<1>3. DOMAIN Nothing = PacketFields /\ Nothing.awaited = FALSE
  BY DEF Nothing, PacketFields
<1>4. OneAwaited
  BY <1>3 DEF DispatcherInit, OneAwaited
<1> QED
  BY <1>1, <1>2, <1>4 DEF DispatcherInit, Init, PageInv

LEMMA StepPage == PageInv /\ [DispatcherNext]_allVars => PageInv' /\ [Next]_vars
<1> SUFFICES ASSUME PageInv, [DispatcherNext]_allVars PROVE PageInv' /\ [Next]_vars
  OBVIOUS
<1>1. CASE UNCHANGED allVars
  <2>1. UNCHANGED <<live, room, byCode, stored, posts, game, reaped, failures, play, disp, sent>>
    BY <1>1 DEF allVars, vars, dvars
  <2>2. OneAwaited' /\ Flushes(disp', game'[Home].version) /\ [Next]_vars
    BY <2>1 DEF PageInv, OneAwaited, vars
  <2> QED
    BY <2>1, <2>2, StepKeeps DEF PageInv
<1>2. CASE DispatcherNext
  BY <1>2, StrokeKeeps, EngineKeeps, TimerKeeps, AsideKeeps, AttemptKeeps, LossKeeps,
     ServerKeeps, OpenKeeps DEF DispatcherNext, Dispatcher
<1> QED
  BY <1>1, <1>2

\* The dispatcher's page is one of the registry's careless pages, however often it
\* retries and whatever is lost (checkpoint.ts 122-146 against handleSaveSnap).
THEOREM DispatcherImplements == DispatcherSpec => ImplementsRegistry
<1>1. DispatcherInit => Init
  BY DEF DispatcherInit
<1> QED
  BY <1>1, InitPage, StepPage, PTL DEF DispatcherSpec, ImplementsRegistry, Spec

\* So the version the registry reports is that of the stored checkpoint also behind the
\* dispatcher, with its retries that overtake each other.
THEOREM DispatcherKeepsCurrent == DispatcherSpec => []SnapshotIsCurrent
BY DispatcherImplements, CheckpointCurrent, PTL DEF ImplementsRegistry

-----------------------------------------------------------------------------
\* The invariant: the game and the dispatcher

Dispatchers == [since : Nat, pending : BOOLEAN, flushed : -1..MaxVersion,
                stage : {"idle", "reading", "sending", "waiting"}, body : Bodies,
                tries : 0..Attempts - 1]

Plays == [status : Statuses, index : Seq(Nat), drawn : Seq(0..RoundStrokes), asked : Nat]

Rounds(p) ==
  /\ p \in Plays
  /\ Len(p.index) = Len(p.drawn) /\ Len(p.drawn) <= MaxRounds

\* A round that is announced or drawn is there and not full.
Table(p) ==
  /\ Rounds(p)
  /\ p.status \in {"ROUND_ANNOUNCE", "DRAWING"} =>
       Len(p.drawn) > 0 /\ Drawn(p, Len(p.drawn)) < RoundStrokes

\* The strokes of the current round.
Strokes(p) == Drawn(p, Len(p.drawn))

\* The log had no more strokes under the index of the copied round than the round had.
Longest(body, p) ==
  \A r \in 1..body.round - 1 :
    p.index[r] = p.index[body.round] => p.drawn[r] <= body.index

Tailed(body, p) ==
  Longest(body, p) =>
    \A i \in 0..body.index - 1 : i >= body.index - TailSize => i \in body.tail

\* The last body has the phase of the game, and its round, unless that is a new one in
\* the place of another.  A flush nobody waits for misses what was counted since; at rest
\* what a flush drew past Threshold - 1 is missing as well.
Recent(d, p) ==
  /\ d.body.status = p.status
  /\ d.body.round = Len(p.drawn) \/ (p.status = "ROUND_ANNOUNCE" /\ Strokes(p) = 0)
  /\ \/ Strokes(p) <= d.body.index
     \/ /\ Strokes(p) - d.body.index
              <= IF d.stage = "idle" THEN Threshold - 1 + d.since ELSE d.since
        /\ d.since < Threshold

\* What the body has of the game.
Copied(body, p) ==
  /\ Tailed(body, p)
  /\ body.round <= Len(p.drawn) /\ body.index <= Drawn(p, body.round)

\* Every stroke counted since the last flush brought a version of its own, so that the
\* next flush is of a newer one; so did every request made during a flush.
Sound(d, p, version) ==
  /\ d \in Dispatchers
  /\ Copied(d.body, p)
  /\ d.flushed + d.since <= version /\ d.body.version <= version
  /\ IF d.stage = "idle" THEN ~d.pending
     ELSE d.flushed < d.body.version /\ (d.pending => d.body.version < version)
  /\ ~d.pending => Recent(d, p)

-----------------------------------------------------------------------------
\* Bodies and rounds

\* What a round has is a number of strokes, none before the first round.
LEMMA DrawnType ==
  ASSUME NEW p, Rounds(p), NEW k \in 0..Len(p.drawn)
  PROVE  Drawn(p, k) \in 0..RoundStrokes
<1>1. p.drawn \in Seq(0..RoundStrokes) /\ RoundStrokes \in Nat
  BY DispatcherAssumption DEF Rounds, Plays
<1>2. CASE k = 0
  BY <1>1, <1>2 DEF Drawn
<1>3. CASE k # 0
  BY <1>1, <1>3, ElementOfSeq DEF Drawn
<1> QED
  BY <1>2, <1>3

LEMMA StrokesType ==
  ASSUME NEW p, Rounds(p)
  PROVE  Strokes(p) \in 0..RoundStrokes /\ Len(p.drawn) \in 0..MaxRounds
<1>1. Len(p.drawn) \in Nat /\ Len(p.drawn) \in 0..MaxRounds
  BY LenProperties, DispatcherAssumption DEF Rounds, Plays
<1> QED
  BY <1>1, DrawnType DEF Strokes

LEMMA RoundType ==
  ASSUME NEW p, Rounds(p), NEW r \in DOMAIN p.drawn
  PROVE  p.drawn[r] \in 0..RoundStrokes /\ p.drawn[r] \in Nat
<1>1. p.drawn \in Seq(0..RoundStrokes) /\ RoundStrokes \in Nat
  BY DispatcherAssumption DEF Rounds, Plays
<1>2. r \in 1..Len(p.drawn)
  BY <1>1, LenProperties
<1> QED
  BY <1>1, <1>2, ElementOfSeq

\* The log has strokes of the rounds.
LEMMA LoggedType ==
  ASSUME NEW p, Rounds(p)
  PROVE  Logged(p) \subseteq 0..RoundStrokes - 1
<1> SUFFICES ASSUME NEW r \in DOMAIN p.drawn, NEW i \in 0..p.drawn[r] - 1
             PROVE  i \in 0..RoundStrokes - 1
  BY DEF Logged
<1>1. p.drawn[r] \in 0..RoundStrokes /\ RoundStrokes \in Nat
  BY RoundType, DispatcherAssumption
<1> QED
  BY <1>1

\* The copy a flush takes has the tail of its own strokes.
LEMMA BodyType ==
  ASSUME NEW p, Rounds(p), NEW version \in 0..MaxVersion
  PROVE  LET body == Body(p, version, Logged(p))
         IN  /\ body \in Bodies /\ Copied(body, p)
             /\ body.version = version /\ body.status = p.status
             /\ body.round = Len(p.drawn) /\ body.index = Strokes(p)
<1> DEFINE logged == Logged(p)
           tail == {i \in logged : i + TailSize \notin logged}
           body == Body(p, version, Logged(p))
<1>1. body = [version |-> version, status |-> p.status, round |-> Len(p.drawn),
              index |-> Strokes(p), tail |-> tail]
  BY DEF Body, Strokes
<1>2. tail \subseteq 0..RoundStrokes - 1 /\ p.status \in Statuses
  BY LoggedType DEF Rounds, Plays
<1>3. Strokes(p) \in Nat /\ Strokes(p) \in 0..RoundStrokes /\ Len(p.drawn) \in 0..MaxRounds
      /\ Len(p.drawn) \in Nat
  BY StrokesType, DispatcherAssumption
<1> HIDE DEF body
<1>4. body \in Bodies
  <2> HIDE DEF tail
  <2> QED
    BY <1>1, <1>2, <1>3 DEF Bodies
<1>5. ASSUME Longest(body, p), NEW i \in 0..Strokes(p) - 1, i >= Strokes(p) - TailSize
      PROVE  i \in tail
  <2>1. Len(p.drawn) \in DOMAIN p.drawn /\ p.drawn[Len(p.drawn)] = Strokes(p)
        /\ DOMAIN p.drawn = 1..Len(p.drawn)
    <3>1. Len(p.drawn) # 0
      BY <1>3, <1>5 DEF Strokes, Drawn
    <3>2. DOMAIN p.drawn = 1..Len(p.drawn)
      BY LenProperties DEF Rounds, Plays
    <3> QED
      BY <1>3, <3>1, <3>2 DEF Strokes, Drawn
  <2>2. i \in logged
    BY <2>1 DEF Logged
  <2>3. ASSUME i + TailSize \in logged
        PROVE  FALSE
    <3>1. PICK r \in DOMAIN p.drawn : p.index[r] = p.index[Len(p.drawn)]
                                     /\ i + TailSize \in 0..p.drawn[r] - 1
      BY <2>3 DEF Logged
    <3>2. p.drawn[r] <= Strokes(p)
      BY <1>1, <1>3, <1>5, <2>1, <3>1 DEF Longest
    <3>3. p.drawn[r] \in Nat /\ TailSize \in Nat
      BY <3>1, RoundType, DispatcherAssumption
    <3> QED
      BY <1>3, <1>5, <3>1, <3>2, <3>3
  <2> QED
    BY <2>2, <2>3
<1>6. Tailed(body, p)
  <2> HIDE DEF tail
  <2> QED
    BY <1>1, <1>5 DEF Tailed
<1> QED
  BY <1>1, <1>3, <1>4, <1>6 DEF Copied, body, Strokes

-----------------------------------------------------------------------------
\* What moves on

\* A round never has fewer strokes than before, and keeps its index.
Grows(p, q) ==
  /\ Len(p.drawn) <= Len(q.drawn)
  /\ \A k \in 0..Len(p.drawn) : Drawn(p, k) <= Drawn(q, k)
  /\ \A k \in 1..Len(p.drawn) : q.index[k] = p.index[k]

LEMMA GrowsSelf ==
  ASSUME NEW p, NEW q, Rounds(p), q.drawn = p.drawn, q.index = p.index
  PROVE  Grows(p, q)
<1>1. \A k \in 0..Len(p.drawn) : Drawn(p, k) \in Nat /\ Drawn(q, k) = Drawn(p, k)
  BY DrawnType DEF Drawn
<1> QED
  BY <1>1, StrokesType DEF Grows

\* What was copied of a game is still of it later.
LEMMA CopiedLater ==
  ASSUME NEW p, NEW q, Rounds(p), Rounds(q), Grows(p, q),
         NEW body \in Bodies, Copied(body, p)
  PROVE  Copied(body, q)
<1>1. body.round \in 0..Len(p.drawn) /\ body.index \in Nat
      /\ Len(p.drawn) \in Nat /\ Len(q.drawn) \in Nat
  BY StrokesType DEF Copied, Bodies
<1>2. Drawn(p, body.round) \in Nat /\ Drawn(q, body.round) \in Nat
  BY <1>1, DrawnType DEF Grows
<1>3. body.round <= Len(q.drawn) /\ body.index <= Drawn(q, body.round)
  BY <1>1, <1>2 DEF Copied, Grows
<1>4. ASSUME Longest(body, q)
      PROVE  Longest(body, p)
  <2> SUFFICES ASSUME NEW r \in 1..body.round - 1, p.index[r] = p.index[body.round]
               PROVE  p.drawn[r] <= body.index
    BY DEF Longest
  <2>1. r \in 1..Len(p.drawn) /\ body.round \in 1..Len(p.drawn) /\ r \in 0..Len(p.drawn)
        /\ r \in 0..Len(q.drawn) /\ r # 0
    BY <1>1 DEF Grows
  <2>2. q.drawn[r] <= body.index
    BY <1>4, <2>1 DEF Longest, Grows
  <2>3. p.drawn[r] <= q.drawn[r] /\ p.drawn[r] \in Nat /\ q.drawn[r] \in Nat
    BY <2>1, DrawnType DEF Grows, Drawn
  <2> QED
    BY <1>1, <2>2, <2>3
<1> QED
  BY <1>3, <1>4 DEF Copied, Tailed

-----------------------------------------------------------------------------
\* Flushes

\* How a step may change the body: it stays, or it is a newer copy of the game.
Renewed(old, new, p) ==
  /\ new.version >= old.version
  /\ \/ new.round = old.round /\ new.index = old.index
     \/ new.round = Len(p.drawn) /\ new.index = Strokes(p)

\* When a flush of a version may be asked for: after those of the last one.  The version
\* of a stroke that was counted is still to come.
Askable(d, p, version, newest) ==
  /\ d \in Dispatchers /\ Copied(d.body, p)
  /\ d.flushed + d.since <= newest
  /\ IF d.stage = "idle" THEN ~d.pending /\ d.flushed < version /\ d.body.version <= version
     ELSE d.flushed < d.body.version /\ d.body.version < newest

\* Such a flush waits for the one under way, or copies the game as it is.
LEMMA AskedFor ==
  ASSUME NEW d, NEW p, NEW version \in 1..MaxVersion, NEW newest \in Nat, version <= newest,
         Rounds(p), Askable(d, p, version, newest)
  PROVE  LET next == Flush(d, p, version, Logged(p))
         IN  /\ Sound(next, p, newest) /\ Renewed(d.body, next.body, p)
             /\ next.stage # "idle"
             /\ d.stage # "idle" => next.stage = d.stage /\ next.body = d.body
<1> DEFINE next == Flush(d, p, version, Logged(p))
<1>1. MaxVersion \in Nat /\ version \in Nat /\ version \in 0..MaxVersion
  BY RegistryAssumption
<1>2. d.body.version \in Nat /\ d.flushed \in Int /\ d.since \in Nat
  BY DEF Askable, Dispatchers, Bodies
<1>3. CASE d.stage # "idle"
  <2>1. next = [d EXCEPT !.pending = TRUE]
    BY <1>3 DEF Flush
  <2>2. next \in Dispatchers /\ next.pending = TRUE /\ next.stage = d.stage
        /\ next.body = d.body /\ next.flushed = d.flushed /\ next.since = d.since
    BY <2>1 DEF Askable, Dispatchers
  <2> HIDE DEF next
  <2>3. Sound(next, p, newest)
    BY <1>1, <1>2, <1>3, <2>2 DEF Askable, Sound
  <2> QED
    BY <1>2, <1>3, <2>2, <2>3 DEF next, Renewed
<1>4. CASE d.stage = "idle"
  <2> DEFINE body == Body(p, version, Logged(p))
  <2>1. next = [d EXCEPT !.stage = "reading", !.tries = 0, !.body = body]
    BY <1>4 DEF Flush
  <2>2. /\ body \in Bodies /\ Copied(body, p)
        /\ body.version = version /\ body.status = p.status
        /\ body.round = Len(p.drawn) /\ body.index = Strokes(p)
    BY <1>1, BodyType
  <2> HIDE DEF body
  <2>3. 0 \in 0..Attempts - 1
    BY DispatcherAssumption
  <2>4. next \in Dispatchers /\ next.pending = d.pending /\ next.stage = "reading"
        /\ next.body = body /\ next.flushed = d.flushed /\ next.since = d.since
    BY <2>1, <2>2, <2>3 DEF Askable, Dispatchers
  <2> HIDE DEF next
  <2>5. Strokes(p) \in Nat /\ Len(p.drawn) \in Nat
    BY StrokesType
  <2>6. Recent(next, p)
    BY <2>2, <2>4, <2>5 DEF Recent
  <2>7. Sound(next, p, newest)
    BY <1>1, <1>2, <1>4, <2>2, <2>4, <2>6 DEF Askable, Sound
  <2>8. Renewed(d.body, next.body, p)
    BY <1>1, <1>2, <1>4, <2>2, <2>4 DEF Askable, Renewed
  <2> QED
    BY <1>4, <2>4, <2>7, <2>8 DEF next
<1> QED
  BY <1>3, <1>4

\* The end of a flush leaves a dispatcher at rest, or in the flush asked for meanwhile.
LEMMA EndSound ==
  ASSUME Inv, Rounds(play), NEW d \in Dispatchers, Copied(d.body, play),
         d.flushed + d.since <= game[Home].version, d.flushed <= d.body.version,
         d.body.version <= game[Home].version,
         d.pending => d.body.version < game[Home].version,
         ~d.pending => Recent([d EXCEPT !.stage = "idle"], play)
  PROVE  /\ Sound(EndFlush(d), play, game[Home].version)
         /\ Renewed(d.body, EndFlush(d).body, play)
<1> DEFINE version == game[Home].version
           rested == [d EXCEPT !.stage = "idle"]
           ended == [d EXCEPT !.stage = "idle", !.pending = FALSE]
<1>1. version \in 0..MaxVersion /\ MaxVersion \in Nat
  BY HomeExists, RegistryAssumption DEF Inv, TypeOK
<1>2. d.body \in Bodies /\ d.body.version \in Nat /\ d.flushed \in Int /\ d.since \in Nat
  BY <1>1 DEF Dispatchers, Bodies
<1>3. /\ ended \in Dispatchers /\ ended.flushed = d.flushed /\ ended.since = d.since
      /\ ended.stage = "idle" /\ ended.pending = FALSE /\ ended.body = d.body
      /\ rested.stage = "idle" /\ rested.since = d.since /\ rested.body = d.body
  BY DEF Dispatchers
<1> HIDE DEF ended, rested
<1>4. CASE d.pending
  <2>1. EndFlush(d) = Flush(ended, play, version, Logged(play))
    BY <1>4 DEF EndFlush, ended
  <2>2. version \in 1..MaxVersion /\ version \in Nat /\ d.body.version < version
    BY <1>1, <1>2, <1>4
  <2>3. Askable(ended, play, version, version)
    BY <1>2, <1>3, <2>2 DEF Askable
  <2> HIDE DEF version
  <2> QED
    BY <1>3, <2>1, <2>2, <2>3, AskedFor DEF version
<1>5. CASE ~d.pending
  <2>1. EndFlush(d) = ended
    BY <1>5 DEF EndFlush, ended
  <2>2. Recent(rested, play)
    BY <1>5 DEF rested
  <2>3. Recent(ended, play)
    BY <1>3, <2>2 DEF Recent
  <2>4. Sound(ended, play, version)
    BY <1>1, <1>3, <2>3 DEF Sound
  <2>5. Renewed(d.body, ended.body, play)
    BY <1>2, <1>3 DEF Renewed
  <2> QED
    BY <2>1, <2>4, <2>5
<1> QED
  BY <1>4, <1>5

LEMMA FinishSound ==
  ASSUME Inv, Rounds(play), Sound(disp, play, game[Home].version), disp.stage # "idle"
  PROVE  /\ Sound(Finish(disp), play, game[Home].version)
         /\ Renewed(disp.body, Finish(disp).body, play)
<1> DEFINE d == [disp EXCEPT !.flushed = disp.body.version, !.since = 0]
           rested == [d EXCEPT !.stage = "idle"]
<1>1. game[Home].version \in 0..MaxVersion /\ MaxVersion \in Nat
  BY HomeExists, RegistryAssumption DEF Inv, TypeOK
<1>2. disp \in Dispatchers /\ disp.body.version \in 0..MaxVersion /\ disp.since \in Nat
      /\ disp.body.index \in Nat /\ disp.body.version \in -1..MaxVersion
  BY <1>1, DispatcherAssumption DEF Sound, Dispatchers, Bodies
<1>3. d \in Dispatchers /\ d.flushed = disp.body.version /\ d.since = 0
      /\ d.pending = disp.pending /\ d.body = disp.body /\ d.stage = disp.stage
      /\ rested.stage = "idle" /\ rested.since = 0 /\ rested.body = disp.body
  BY <1>2 DEF Dispatchers
<1>4. Finish(disp) = EndFlush(d)
  BY DEF Finish
<1> HIDE DEF d, rested
<1>5. ASSUME ~disp.pending
      PROVE  Recent(rested, play)
  <2>1. Recent(disp, play)
    BY <1>5 DEF Sound
  <2>2. Threshold \in Nat /\ Threshold > 1 /\ Strokes(play) \in Nat
    BY DispatcherAssumption, StrokesType
  <2> QED
    BY <1>2, <1>3, <2>1, <2>2 DEF Recent
<1>6. /\ Copied(d.body, play) /\ d.flushed + d.since <= game[Home].version
      /\ d.flushed <= d.body.version /\ d.body.version <= game[Home].version
      /\ d.pending => d.body.version < game[Home].version
  BY <1>1, <1>2, <1>3 DEF Sound
<1>7. ~d.pending => Recent([d EXCEPT !.stage = "idle"], play)
  BY <1>3, <1>5 DEF rested
<1> QED
  BY <1>3, <1>4, <1>6, <1>7, EndSound

\* A log that fails leaves what was counted.
LEMMA FailSound ==
  ASSUME Inv, Rounds(play), Sound(disp, play, game[Home].version), disp.stage # "idle"
  PROVE  /\ Sound(EndFlush(disp), play, game[Home].version)
         /\ Renewed(disp.body, EndFlush(disp).body, play)
<1> DEFINE rested == [disp EXCEPT !.stage = "idle"]
<1>1. disp \in Dispatchers /\ disp.since \in Nat /\ disp.body.index \in Nat
      /\ disp.body.version \in Nat /\ disp.flushed \in Int
  BY DEF Sound, Dispatchers, Bodies
<1>2. rested.stage = "idle" /\ rested.since = disp.since /\ rested.body = disp.body
  BY <1>1 DEF Dispatchers
<1> HIDE DEF rested
<1>3. ASSUME ~disp.pending
      PROVE  Recent(rested, play)
  <2>1. Recent(disp, play)
    BY <1>3 DEF Sound
  <2>2. Threshold \in Nat /\ Threshold > 1 /\ Strokes(play) \in Nat
    BY DispatcherAssumption, StrokesType
  <2> QED
    BY <1>1, <1>2, <2>1, <2>2 DEF Recent
<1>4. disp.flushed <= disp.body.version
  BY <1>1 DEF Sound
<1> QED
  BY <1>1, <1>3, <1>4, EndSound DEF Sound, rested

LEMMA BackOffSound ==
  ASSUME Inv, Rounds(play), Sound(disp, play, game[Home].version), disp.stage # "idle"
  PROVE  /\ Sound(BackOff(disp), play, game[Home].version)
         /\ Renewed(disp.body, BackOff(disp).body, play)
<1>1. CASE disp.tries + 1 = Attempts
  BY <1>1, FinishSound DEF BackOff
<1>2. CASE disp.tries + 1 # Attempts
  <2> DEFINE next == [disp EXCEPT !.tries = @ + 1, !.stage = "sending"]
  <2>1. disp.tries + 1 \in 0..Attempts - 1
    BY <1>2, DispatcherAssumption DEF Sound, Dispatchers
  <2>2. next \in Dispatchers /\ next.stage = "sending" /\ next.body = disp.body
        /\ next.pending = disp.pending /\ next.since = disp.since /\ next.flushed = disp.flushed
    BY <2>1 DEF Sound, Dispatchers
  <2>3. next = BackOff(disp)
    BY <1>2 DEF BackOff
  <2> HIDE DEF next
  <2>4. disp.body.version \in Nat
    BY DEF Sound, Dispatchers, Bodies
  <2> QED
    BY <2>2, <2>3, <2>4 DEF Sound, Recent, Renewed
<1> QED
  BY <1>1, <1>2

-----------------------------------------------------------------------------
\* The engine's handlers, as the dispatcher sees them

\* What a step does to the game and the dispatcher.
Advanced ==
  /\ Table(play)' /\ Grows(play, play')
  /\ Sound(disp', play', game'[Home].version)
  /\ Renewed(disp.body, disp'.body, play')

\* Nothing but the end of its post disturbs a flush that waits for it.
Undisturbed == disp.stage = "waiting" => disp'.body = disp.body /\ disp'.stage = "waiting"

\* A broadcast moves on from a dispatcher that has counted a stroke or done nothing.
LEMMA Broadcasted ==
  ASSUME Inv, NEW d, NEW p, Broadcast(d, p), Table(p), Grows(play, p),
         Renewed(disp.body, d.body, p),
         disp.stage # "idle" => d.body = disp.body /\ d.stage = disp.stage,
         p.status = play.status => Sound(d, p, game[Home].version + 1),
         p.status # play.status =>
           Askable(d, p, game[Home].version + 1, game[Home].version + 1),
         d.stage = "idle" => d.body = disp.body
  PROVE  Advanced /\ Undisturbed
<1> DEFINE version == game[Home].version
<1>1. /\ GameMoves(Home) /\ play' = p /\ disp' = ObserveState(d, p)
  BY DEF Broadcast
<1>2. version \in Nat /\ version + 1 \in 1..MaxVersion /\ game'[Home].version = version + 1
  <2>1. game[Home] \in [version : 0..MaxVersion, there : BOOLEAN] /\ Home \in DOMAIN game
    BY HomeExists DEF Inv, TypeOK
  <2>2. game' = [game EXCEPT ![Home].version = @ + 1] /\ version < MaxVersion
    BY <1>1 DEF GameMoves
  <2> QED
    BY <2>1, <2>2, RegistryAssumption
<1> HIDE DEF version
<1>3. CASE p.status = play.status
  <2>1. disp' = d
    BY <1>1, <1>3 DEF ObserveState
  <2> QED
    BY <1>1, <1>2, <1>3, <2>1 DEF Advanced, Undisturbed, version
<1>4. CASE p.status # play.status
  <2>1. disp' = Flush(d, p, version + 1, Logged(p))
    BY <1>1, <1>4 DEF ObserveState, version
  <2>2. Rounds(p) /\ Askable(d, p, version + 1, version + 1) /\ version + 1 \in Nat
    BY <1>2, <1>4 DEF Table, version
  <2>3. /\ Sound(disp', p, version + 1) /\ Renewed(d.body, disp'.body, p)
        /\ d.stage # "idle" => disp'.stage = d.stage /\ disp'.body = d.body
    BY <1>2, <2>1, <2>2, AskedFor
  <2>4. Renewed(disp.body, disp'.body, p)
    <3>1. CASE d.stage # "idle"
      BY <2>3, <3>1
    <3>2. CASE d.stage = "idle"
      BY <2>3, <3>2
    <3> QED
      BY <3>1, <3>2
  <2> QED
    BY <1>1, <1>2, <2>3, <2>4 DEF Advanced, Undisturbed
<1> QED
  BY <1>3, <1>4

\* A dispatcher that is sound may be asked for a flush of the next version.
LEMMA NextVersion ==
  ASSUME NEW p, NEW q, NEW version \in Nat, Sound(disp, p, version), Copied(disp.body, q)
  PROVE  /\ Askable(disp, q, version + 1, version + 1)
         /\ Renewed(disp.body, disp.body, q)
         /\ (disp.pending \/ Recent(disp, q)) => Sound(disp, q, version + 1)
<1>1. disp.body.version \in Nat /\ disp.flushed \in Int /\ disp.since \in Nat
      /\ disp \in Dispatchers /\ disp.pending \in BOOLEAN
  BY DEF Sound, Dispatchers, Bodies
<1> QED
  BY <1>1 DEF Sound, Askable, Renewed

\* Joins, votes and words change nothing the dispatcher sees but the version.
LEMMA StateChangesAdvance ==
  ASSUME Inv, Table(play), Sound(disp, play, game[Home].version), StateChanges
  PROVE  Advanced /\ Undisturbed
<1>1. game[Home].version \in Nat
  BY VersionType
<1>2. Grows(play, play) /\ Renewed(disp.body, disp.body, play)
      /\ Sound(disp, play, game[Home].version + 1)
  BY <1>1, GrowsSelf, NextVersion DEF Table, Sound
<1> QED
  BY <1>1, <1>2, Broadcasted DEF StateChanges

\* A new phase, or a round in the place of another, which begins without strokes.
LEMMA PhaseKept ==
  ASSUME Inv, Table(play), Sound(disp, play, game[Home].version),
         NEW p, Broadcast(disp, p), Table(p), Grows(play, p),
         p.status = play.status => p.status = "ROUND_ANNOUNCE" /\ Strokes(p) = 0
  PROVE  Advanced /\ Undisturbed
<1> DEFINE version == game[Home].version
<1>1. version \in Nat
  BY VersionType
<1>2. disp.body \in Bodies /\ disp.body.index \in Nat
  BY DEF Sound, Dispatchers, Bodies
<1>3. Copied(disp.body, p)
  BY <1>2, CopiedLater DEF Sound, Table
<1>4. Renewed(disp.body, disp.body, p) /\ Askable(disp, p, version + 1, version + 1)
  BY <1>1, <1>3, NextVersion
<1>5. ASSUME p.status = play.status
      PROVE  Sound(disp, p, version + 1)
  <2>1. ~disp.pending => Recent(disp, play)
    BY DEF Sound
  <2>2. ~disp.pending => Recent(disp, p)
    BY <1>2, <1>5, <2>1 DEF Recent
  <2> HIDE DEF version
  <2> QED
    BY <1>1, <1>3, <2>2, NextVersion DEF version
<1> HIDE DEF version
<1> QED
  BY <1>4, <1>5, Broadcasted DEF version

LEMMA PhaseAdvances ==
  ASSUME Inv, Table(play), Sound(disp, play, game[Home].version), BeginDrawing \/ EndGame
  PROVE  Advanced /\ Undisturbed
<1>1. PICK status \in {"DRAWING", "GAME_OVER"} :
        /\ Broadcast(disp, [play EXCEPT !.status = status]) /\ play.status # status
        /\ status = "DRAWING" => play.status = "ROUND_ANNOUNCE"
  BY DEF BeginDrawing, EndGame
<1> DEFINE p == [play EXCEPT !.status = status]
<1>2. p \in Plays /\ p.drawn = play.drawn /\ p.index = play.index /\ p.status = status
  BY DEF Table, Rounds, Plays, Statuses
<1> HIDE DEF p
<1>3. Table(p)
  BY <1>1, <1>2 DEF Table, Rounds, Drawn
<1>4. Grows(play, p)
  BY <1>2, GrowsSelf DEF Table
<1> QED
  BY <1>1, <1>2, <1>3, <1>4, PhaseKept DEF p

\* A draw is answered, whatever the phase.
LEMMA RoundAdvances ==
  ASSUME Inv, Table(play), Sound(disp, play, game[Home].version), RoundAnnounced
  PROVE  Advanced /\ Undisturbed
<1> DEFINE q(i) == [play EXCEPT !.status = "ROUND_ANNOUNCE", !.index = Append(@, i),
                                !.drawn = Append(@, 0)]
<1>1. PICK i \in 0..play.asked - 1 : Broadcast(disp, q(i))
  BY Zenon DEF RoundAnnounced
<1>2. Len(play.drawn) < MaxRounds
  BY DEF RoundAnnounced
<1>3. PICK p : p = q(i)
  OBVIOUS
<1>4. /\ play \in Plays /\ Len(play.index) = Len(play.drawn)
      /\ Len(play.drawn) \in Nat /\ MaxRounds \in Nat /\ RoundStrokes \in Nat \ {0}
  <2>1. Rounds(play)
    BY DEF Table
  <2>2. Len(play.drawn) \in 0..MaxRounds /\ MaxRounds \in Nat /\ RoundStrokes \in Nat \ {0}
    BY <2>1, StrokesType, DispatcherAssumption
  <2> QED
    BY <2>1, <2>2 DEF Rounds
<1>5. i \in Nat /\ 0 \in 0..RoundStrokes /\ "ROUND_ANNOUNCE" \in Statuses
  BY <1>4 DEF Plays, Statuses
<1>6. /\ Append(play.drawn, 0) \in Seq(0..RoundStrokes)
      /\ Len(Append(play.drawn, 0)) = Len(play.drawn) + 1
      /\ \A k \in 1..Len(play.drawn) : Append(play.drawn, 0)[k] = play.drawn[k]
      /\ Append(play.drawn, 0)[Len(play.drawn) + 1] = 0
  BY <1>4, <1>5, AppendProperties DEF Plays
<1>7. /\ Append(play.index, i) \in Seq(Nat)
      /\ Len(Append(play.index, i)) = Len(play.drawn) + 1
      /\ \A k \in 1..Len(play.drawn) : Append(play.index, i)[k] = play.index[k]
  BY <1>4, <1>5, AppendProperties DEF Plays
<1>8. /\ p.drawn = Append(play.drawn, 0) /\ p.index = Append(play.index, i)
      /\ p.status = "ROUND_ANNOUNCE" /\ p \in Plays
  BY <1>3, <1>4, <1>5, <1>6, <1>7 DEF Plays
<1> HIDE DEF q
<1>9. Table(p) /\ Strokes(p) = 0
  BY <1>2, <1>4, <1>6, <1>7, <1>8 DEF Table, Rounds, Drawn, Strokes
<1>10. Grows(play, p)
  <2>1. \A k \in 0..Len(play.drawn) : Drawn(p, k) = Drawn(play, k) /\ Drawn(play, k) \in Nat
    BY <1>4, <1>6, <1>8, DrawnType DEF Drawn, Table
  <2> QED
    BY <1>4, <1>6, <1>7, <1>8, <2>1 DEF Grows
<1> QED
  BY <1>1, <1>3, <1>8, <1>9, <1>10, PhaseKept

\* The round with one stroke more.
LEMMA StrokeType ==
  ASSUME Table(play), play.status = "DRAWING"
  PROVE  /\ Rounds(StrokeDrawn) /\ Table(AfterStroke)
         /\ StrokeDrawn.status = "DRAWING" /\ AfterStroke.drawn = StrokeDrawn.drawn
         /\ AfterStroke.index = StrokeDrawn.index
         /\ Len(StrokeDrawn.drawn) = Len(play.drawn)
         /\ Strokes(StrokeDrawn) = Strokes(play) + 1
         /\ Grows(play, StrokeDrawn)
         /\ AfterStroke.status = "DRAWING" => AfterStroke = StrokeDrawn
<1> DEFINE n == Len(play.drawn)
           drawn == [play.drawn EXCEPT ![n] = @ + 1]
<1>1. /\ play \in Plays
      /\ n \in 1..MaxRounds /\ n \in 1..n
      /\ RoundStrokes \in Nat \ {0}
      /\ Strokes(play) \in 0..RoundStrokes - 1 /\ play.drawn[n] = Strokes(play)
  <2>1. /\ Rounds(play) /\ n \in 0..MaxRounds /\ n > 0
        /\ Strokes(play) \in 0..RoundStrokes /\ Strokes(play) < RoundStrokes
    BY StrokesType DEF Table, Strokes
  <2>2. RoundStrokes \in Nat \ {0} /\ MaxRounds \in Nat
    BY DispatcherAssumption
  <2>3. Strokes(play) = play.drawn[n]
    BY <2>1 DEF Strokes, Drawn
  <2> QED
    BY <2>1, <2>2, <2>3 DEF Rounds
<1>2. play.drawn[n] + 1 \in 0..RoundStrokes
  BY <1>1
<1>3. /\ drawn \in Seq(0..RoundStrokes) /\ Len(drawn) = n
      /\ \A j \in 1..n : drawn[j] = IF j = n THEN play.drawn[n] + 1 ELSE play.drawn[j]
  BY <1>1, <1>2, ExceptSeq DEF Plays
<1>4. StrokeDrawn = [play EXCEPT !.drawn = drawn]
  BY DEF StrokeDrawn
<1> HIDE DEF drawn
<1>5. StrokeDrawn \in Plays /\ StrokeDrawn.drawn = drawn /\ StrokeDrawn.status = "DRAWING"
      /\ StrokeDrawn.index = play.index
  BY <1>1, <1>3, <1>4 DEF Plays
<1>6. Rounds(StrokeDrawn) /\ Strokes(StrokeDrawn) = Strokes(play) + 1
  <2>1. Len(StrokeDrawn.drawn) = n /\ StrokeDrawn.drawn[n] = Strokes(play) + 1
    BY <1>1, <1>3, <1>5
  <2>2. Strokes(StrokeDrawn) = StrokeDrawn.drawn[n]
    BY <1>1, <2>1 DEF Strokes, Drawn
  <2> QED
    BY <1>1, <1>5, <2>1, <2>2 DEF Rounds, Table
<1>7. Grows(play, StrokeDrawn)
  <2>1. ASSUME NEW k \in 0..n
        PROVE  Drawn(play, k) <= Drawn(StrokeDrawn, k)
    <3>1. Drawn(play, k) \in Nat
      BY <1>1, DrawnType DEF Table
    <3>2. CASE k = 0
      BY <3>2 DEF Drawn
    <3>3. CASE k # 0
      <4>1. k \in 1..n
        BY <1>1, <3>3
      <4>2. Drawn(play, k) = play.drawn[k] /\ Drawn(StrokeDrawn, k) = drawn[k]
        BY <1>5, <3>3 DEF Drawn
      <4> QED
        BY <1>3, <3>1, <4>1, <4>2
    <3> QED
      BY <3>2, <3>3
  <2> QED
    BY <1>1, <1>3, <1>5, <2>1 DEF Grows
<1>8. Table(AfterStroke) /\ AfterStroke.drawn = drawn /\ AfterStroke.index = play.index
      /\ (AfterStroke.status = "DRAWING" => AfterStroke = StrokeDrawn)
  <2>1. CASE Strokes(StrokeDrawn) = RoundStrokes
    <3>1. AfterStroke = [StrokeDrawn EXCEPT !.status = "VOTING"]
      BY <1>3, <1>5, <2>1 DEF AfterStroke, Strokes
    <3>2. AfterStroke \in Plays /\ AfterStroke.drawn = drawn
          /\ AfterStroke.status = "VOTING" /\ AfterStroke.index = play.index
      BY <1>5, <3>1 DEF Plays, Statuses
    <3> QED
      BY <1>1, <1>3, <3>2 DEF Table, Rounds
  <2>2. CASE Strokes(StrokeDrawn) # RoundStrokes
    <3>1. AfterStroke = StrokeDrawn
      BY <1>3, <1>5, <2>2 DEF AfterStroke, Strokes
    <3>2. Strokes(StrokeDrawn) < RoundStrokes
      BY <1>1, <1>6, <2>2
    <3> QED
      BY <1>1, <1>3, <1>5, <1>6, <3>1, <3>2 DEF Table, Strokes
  <2> QED
    BY <2>1, <2>2
<1> QED
  BY <1>3, <1>5, <1>6, <1>7, <1>8

\* The dispatcher counts a stroke before its version exists: a flush for it is of the
\* version before, which is newer than the last one since Threshold > 1.
LEMMA StrokeCounted ==
  ASSUME Table(play), play.status = "DRAWING", NEW version \in 1..MaxVersion,
         version = game[Home].version, Sound(disp, play, version)
  PROVE  LET d == ObserveStroke(disp, StrokeDrawn, Logged(StrokeDrawn))
         IN  /\ Sound(d, StrokeDrawn, version + 1)
             /\ d.body.version <= version
             /\ d.stage = "idle" => d.flushed <= version
             /\ Renewed(disp.body, d.body, StrokeDrawn)
             /\ disp.stage # "idle" => d.body = disp.body /\ d.stage = disp.stage
             /\ d.stage = "idle" => d.body = disp.body
<1> DEFINE p == StrokeDrawn
           counted == [disp EXCEPT !.since = @ + 1]
           d == ObserveStroke(disp, p, Logged(p))
<1>1. /\ disp \in Dispatchers /\ disp.body.version \in Nat
      /\ disp.flushed \in Int /\ disp.since \in Nat
      /\ disp.body.index \in Nat /\ disp.body.round \in Nat /\ disp.body \in Bodies
  BY RegistryAssumption DEF Sound, Dispatchers, Bodies
<1>2. MaxVersion \in Nat /\ version \in Nat /\ Threshold \in Nat /\ Threshold > 1
  BY RegistryAssumption, DispatcherAssumption
<1>3. counted \in Dispatchers /\ counted.since = disp.since + 1 /\ counted.body = disp.body
      /\ counted.stage = disp.stage /\ counted.flushed = disp.flushed
      /\ counted.pending = disp.pending
  BY <1>1 DEF Dispatchers
<1> HIDE DEF counted
<1>4. /\ Rounds(p) /\ Len(p.drawn) = Len(play.drawn) /\ p.status = play.status
      /\ Strokes(p) = Strokes(play) + 1 /\ Strokes(play) \in Nat
      /\ Len(p.drawn) \in Nat
  BY StrokeType, StrokesType DEF Table
<1>5. Copied(disp.body, p)
  BY <1>1, <1>4, StrokeType, CopiedLater DEF Sound, Table
<1>6. Renewed(disp.body, disp.body, p)
  BY <1>1 DEF Renewed
<1> HIDE DEF p
<1>7. CASE counted.since >= Threshold
  <2>1. d = Flush(counted, p, version, Logged(p))
    BY <1>7 DEF ObserveStroke, counted
  <2>2. Askable(counted, p, version, version + 1)
    <3>1. disp.since >= 1 /\ counted.flushed + counted.since <= version + 1
      BY <1>1, <1>2, <1>3, <1>7 DEF Sound
    <3>2. CASE disp.stage = "idle"
      BY <1>1, <1>2, <1>3, <1>5, <3>1, <3>2 DEF Sound, Askable
    <3>3. CASE disp.stage # "idle"
      BY <1>1, <1>2, <1>3, <1>5, <3>1, <3>3 DEF Sound, Askable
    <3> QED
      BY <3>2, <3>3
  <2> HIDE DEF d
  <2>3. version + 1 \in Nat /\ version <= version + 1
    BY <1>2
  <2>4. /\ Sound(d, p, version + 1) /\ Renewed(counted.body, d.body, p)
        /\ d.stage # "idle"
        /\ counted.stage # "idle" => d.stage = counted.stage /\ d.body = counted.body
    BY <1>4, <2>1, <2>2, <2>3, AskedFor
  <2>5. d.body.version <= version
    <3>1. CASE disp.stage = "idle"
      <4>1. d.body = Body(p, version, Logged(p))
        BY <1>3, <2>1, <3>1 DEF Flush, Dispatchers
      <4> QED
        BY <1>2, <4>1 DEF Body
    <3>2. CASE disp.stage # "idle"
      BY <1>3, <2>4, <3>2 DEF Sound
    <3> QED
      BY <3>1, <3>2
  <2> QED
    BY <1>3, <2>4, <2>5 DEF d, p
<1>8. CASE ~(counted.since >= Threshold)
  <2>1. d = counted
    BY <1>8 DEF ObserveStroke, counted
  <2> HIDE DEF d
  <2>2. disp.since + 1 < Threshold
    BY <1>1, <1>2, <1>3, <1>8
  <2>3. ASSUME ~disp.pending
        PROVE  Recent(counted, p)
    <3>1. Recent(disp, play)
      BY <2>3 DEF Sound
    <3>2. counted.body.status = p.status /\ counted.body.round = Len(p.drawn)
      BY <1>3, <1>4, <3>1 DEF Recent
    <3>3. CASE disp.stage = "idle"
      BY <1>1, <1>2, <1>3, <1>4, <2>2, <3>1, <3>2, <3>3 DEF Recent
    <3>4. CASE disp.stage # "idle"
      <4>1. Strokes(p) - disp.body.index <= disp.since + 1
        BY <1>1, <1>4, <3>1, <3>4 DEF Recent
      <4> QED
        BY <1>3, <2>2, <3>2, <3>4, <4>1 DEF Recent
    <3> QED
      BY <3>3, <3>4
  <2>4. Sound(counted, p, version + 1)
    <3>1. disp.flushed + (disp.since + 1) <= version + 1 /\ disp.body.version <= version + 1
          /\ disp.body.version <= version
      BY <1>1, <1>2 DEF Sound
    <3>2. CASE disp.stage = "idle"
      BY <1>3, <1>5, <2>3, <3>1, <3>2 DEF Sound
    <3>3. CASE disp.stage # "idle"
      <4>1. disp.flushed < disp.body.version /\ (disp.pending => disp.body.version < version + 1)
        BY <1>1, <1>2, <3>3 DEF Sound
      <4> QED
        BY <1>3, <1>5, <2>3, <3>1, <3>3, <4>1 DEF Sound
    <3> QED
      BY <3>2, <3>3
  <2>5. disp.body.version <= version /\ disp.flushed <= version
    BY <1>1, <1>2 DEF Sound
  <2> QED
    BY <1>3, <1>6, <2>1, <2>4, <2>5 DEF d, p
<1> QED
  BY <1>7, <1>8 DEF p

LEMMA StrokeAdvances ==
  ASSUME Inv, Table(play), Sound(disp, play, game[Home].version), SubmitStroke,
         play.status = "DRAWING" => game[Home].version > 0
  PROVE  Advanced /\ Undisturbed
<1> DEFINE d == ObserveStroke(disp, StrokeDrawn, Logged(StrokeDrawn))
           version == game[Home].version
<1>1. Broadcast(d, AfterStroke) /\ play.status = "DRAWING"
  BY DEF SubmitStroke
<1>2. version \in 1..MaxVersion /\ version \in Nat
  BY <1>1, HomeExists, RegistryAssumption DEF Inv, TypeOK
<1>3. /\ Sound(d, StrokeDrawn, version + 1)
      /\ d.body.version <= version /\ (d.stage = "idle" => d.flushed <= version)
      /\ Renewed(disp.body, d.body, StrokeDrawn)
      /\ disp.stage # "idle" => d.body = disp.body /\ d.stage = disp.stage
      /\ d.stage = "idle" => d.body = disp.body
  BY <1>1, <1>2, StrokeCounted
<1> HIDE DEF d
<1>4. /\ Table(AfterStroke) /\ AfterStroke.drawn = StrokeDrawn.drawn
      /\ AfterStroke.index = StrokeDrawn.index
      /\ Grows(play, StrokeDrawn) /\ StrokeDrawn.status = play.status
      /\ AfterStroke.status = "DRAWING" => AfterStroke = StrokeDrawn
  BY <1>1, StrokeType
<1>5. Grows(play, AfterStroke) /\ Renewed(disp.body, d.body, AfterStroke)
  BY <1>3, <1>4 DEF Grows, Renewed, Strokes, Drawn
<1>6. AfterStroke.status = play.status => Sound(d, AfterStroke, version + 1)
  BY <1>1, <1>3, <1>4
<1>7. Askable(d, AfterStroke, version + 1, version + 1)
  <2>1. d.body.version \in Nat /\ d.flushed \in Int /\ d.since \in Nat
    BY <1>3 DEF Sound, Dispatchers, Bodies
  <2>2. Copied(d.body, AfterStroke)
    BY <1>3, <1>4 DEF Sound, Copied, Tailed, Longest, Drawn
  <2> QED
    BY <1>2, <1>3, <2>1, <2>2 DEF Sound, Askable
<1> QED
  BY <1>1, <1>3, <1>4, <1>5, <1>6, <1>7, Broadcasted

-----------------------------------------------------------------------------
\* The dispatcher's own steps and those of the server

LEMMA Unmoved ==
  ASSUME Inv, Table(play), Sound(disp, play, game[Home].version), play' = play,
         Sound(disp', play, game[Home].version), Renewed(disp.body, disp'.body, play),
         game'[Home].version = game[Home].version
  PROVE  Advanced
<1>1. Grows(play, play)
  BY GrowsSelf DEF Table
<1> QED
  BY <1>1 DEF Advanced

LEMMA TimerAdvances ==
  ASSUME Inv, Table(play), Sound(disp, play, game[Home].version), TimerFires
  PROVE  Advanced /\ Undisturbed
<1> DEFINE version == game[Home].version
<1>1. /\ disp.stage = "idle" /\ version > 0 /\ version # disp.flushed
      /\ disp' = Flush(disp, play, version, Logged(play))
      /\ play' = play /\ game' = game
  BY DEF TimerFires, vars
<1>2. version \in 1..MaxVersion /\ version \in Nat
  BY <1>1, HomeExists, RegistryAssumption DEF Inv, TypeOK
<1> HIDE DEF version
<1>3. Askable(disp, play, version, version)
  <2>1. Sound(disp, play, version)
    BY DEF version
  <2>2. disp.body.version \in Nat /\ disp.flushed \in Int /\ disp.since \in Nat
    BY <2>1 DEF Sound, Dispatchers, Bodies
  <2> QED
    BY <1>1, <1>2, <2>1, <2>2 DEF Sound, Askable
<1>4. Sound(disp', play, version) /\ Renewed(disp.body, disp'.body, play)
  BY <1>1, <1>2, <1>3, AskedFor DEF Table
<1> QED
  BY <1>1, <1>4, Unmoved DEF Undisturbed, version

\* The log answers, or a post sets out.
LEMMA StageAdvances ==
  ASSUME Inv, Table(play), Sound(disp, play, game[Home].version),
         LogRead \/ \E s \in Slots : Attempt(s)
  PROVE  Advanced /\ Undisturbed
<1>1. PICK stage \in {"sending", "waiting"} : disp' = [disp EXCEPT !.stage = stage]
  BY DEF LogRead, Attempt
<1>2. play' = play /\ game' = game /\ disp.stage \in {"reading", "sending"}
  BY DEF LogRead, Attempt, PostSnapshot, vars
<1>3. disp' \in Dispatchers /\ disp'.stage = stage /\ disp'.body = disp.body
      /\ disp'.pending = disp.pending /\ disp'.since = disp.since
      /\ disp'.flushed = disp.flushed
  BY <1>1 DEF Sound, Dispatchers
<1>4. Sound(disp', play, game[Home].version)
  BY <1>2, <1>3 DEF Sound, Recent
<1>5. Renewed(disp.body, disp'.body, play)
  BY <1>3 DEF Renewed, Sound, Dispatchers, Bodies
<1> QED
  BY <1>2, <1>4, <1>5, Unmoved DEF Undisturbed

\* A draw is asked for: nothing the dispatcher has copied changes.  The log fails: the
\* flush ends.
LEMMA AsideAdvances ==
  ASSUME PageInv, Table(play), Sound(disp, play, game[Home].version), AskDraw \/ LogFails
  PROVE  Advanced /\ Undisturbed
<1>1. CASE AskDraw
  <2>1. /\ play' = [play EXCEPT !.asked = @ + 1] /\ disp' = disp /\ game' = game
    BY <1>1 DEF AskDraw, vars
  <2>2. /\ play' \in Plays /\ play'.drawn = play.drawn /\ play'.index = play.index
        /\ play'.status = play.status
    <3>1. play \in Plays
      BY DEF Table, Rounds
    <3> QED
      BY <2>1, <3>1 DEF Plays
  <2>3. Table(play') /\ Grows(play, play')
    BY <2>2, GrowsSelf DEF Table, Rounds, Drawn
  <2>4. Sound(disp, play', game[Home].version)
    BY <2>2 DEF Sound, Copied, Tailed, Longest, Recent, Strokes, Drawn
  <2>5. Renewed(disp.body, disp.body, play')
    BY DEF Renewed, Sound, Dispatchers, Bodies
  <2> QED
    BY <2>1, <2>3, <2>4, <2>5 DEF Advanced, Undisturbed
<1>2. CASE LogFails
  <2>1. disp.stage = "reading" /\ disp' = EndFlush(disp) /\ play' = play /\ game' = game
    BY <1>2 DEF LogFails, vars
  <2>2. Sound(disp', play, game[Home].version) /\ Renewed(disp.body, disp'.body, play)
    BY <2>1, FailSound DEF PageInv, Table
  <2> QED
    BY <2>1, <2>2, Unmoved DEF Undisturbed, PageInv
<1> QED
  BY <1>1, <1>2

\* What is lost ends the flush or costs one of its tries.
LEMMA LossAdvances ==
  ASSUME PageInv, Table(play), Sound(disp, play, game[Home].version),
         RequestLost \/ \E s \in Slots : AnswerLost(s)
  PROVE  Advanced
<1>1. play' = play /\ game' = game /\ disp' = BackOff(disp) /\ disp.stage # "idle" /\ Inv
  BY DEF RequestLost, AnswerLost, PageInv, OneAwaited, vars
<1>2. Rounds(play)
  BY DEF Table
<1> QED
  BY <1>1, <1>2, BackOffSound, Unmoved

\* The server's steps and the opening of the room leave the game as it is, and an
\* answer ends the flush that waits for it.
LEMMA ServerAdvances ==
  ASSUME PageInv, Table(play), Sound(disp, play, game[Home].version),
         Server \/ OpenRoom \/ UNCHANGED allVars
  PROVE  Advanced
<1>1. play' = play /\ game'[Home].version = game[Home].version
  <2>1. CASE Server
    BY <2>1 DEF Server, ServerSaves, ServerAnswers, SaveCheckpoint, SnapshotRefused,
                SnapshotFails, SetFinished
  <2>2. CASE OpenRoom
    <3>1. game[Home] \in [version : 0..MaxVersion, there : BOOLEAN] /\ Home \in DOMAIN game
      BY HomeExists DEF PageInv, Inv, TypeOK
    <3>2. game' = [game EXCEPT ![Home].there = TRUE] /\ play' = play
      BY <2>2 DEF OpenRoom, CreateRoom, dvars
    <3> QED
      BY <3>1, <3>2
  <2>3. CASE UNCHANGED allVars
    BY <2>3 DEF allVars, vars, dvars
  <2> QED
    BY <2>1, <2>2, <2>3
<1>2. disp' = disp \/ (disp' = Finish(disp) /\ disp.stage # "idle")
  BY DEF Server, ServerSaves, ServerAnswers, OpenRoom, allVars, dvars, PageInv, OneAwaited
<1>3. Inv /\ Rounds(play) /\ Renewed(disp.body, disp.body, play)
  BY DEF PageInv, Table, Renewed, Sound, Dispatchers, Bodies
<1> QED
  BY <1>1, <1>2, <1>3, FinishSound, Unmoved

LEMMA StepAdvances ==
  ASSUME PageInv, Table(play), Sound(disp, play, game[Home].version),
         [DispatcherNext]_allVars
  PROVE  Advanced
<1>1. Inv /\ (play.status = "DRAWING" => game[Home].version > 0)
  BY DEF PageInv
<1> QED
  BY <1>1, StateChangesAdvance, RoundAdvances, PhaseAdvances, StrokeAdvances, TimerAdvances,
     StageAdvances, AsideAdvances, LossAdvances, ServerAdvances
  DEF DispatcherNext, Dispatcher

-----------------------------------------------------------------------------
\* The invariant: what posts and the checkpoint carry

Carried == {sent[s] : s \in Slots} \cup {kept, Nothing}

\* Nothing carried is ahead of the last body, or of the game.
Behind(q) ==
  /\ Tailed(q.body, play)
  /\ q.body.version <= disp.body.version
  /\ q.body.round <= disp.body.round
  /\ q.body.round = disp.body.round => q.body.index <= disp.body.index
  /\ q.body.index <= Drawn(play, q.body.round)
  /\ q.strokes <= Drawn(play, q.body.round)

\* A newer version has more of the game.
Ordered(q, r) ==
  q.body.version < r.body.version =>
    \/ q.body.round < r.body.round
    \/ /\ q.body.round = r.body.round
       /\ q.strokes <= r.strokes
       /\ q.body.index <= r.body.index

Packed ==
  /\ sent \in [Slots -> Packets] /\ kept \in Packets
  /\ \A q \in Carried : Behind(q)
  /\ \A q, r \in Carried : Ordered(q, r)

Alike(q, r) == q.body = r.body /\ q.strokes = r.strokes

LEMMA NothingType == Nothing \in Packets /\ Tailed(Nothing.body, play)
<1>1. /\ MaxVersion \in Nat /\ MaxRounds \in Nat /\ RoundStrokes \in Nat
  BY RegistryAssumption, DispatcherAssumption
<1>2. NoBody \in Bodies /\ NoBody.index = 0 /\ NoBody.round = 0
  BY <1>1 DEF NoBody, Bodies, Statuses
<1>3. Nothing = [body |-> NoBody, strokes |-> 0, awaited |-> FALSE]
  BY DEF Nothing
<1>4. Nothing.body = NoBody /\ 0 \in 0..RoundStrokes
  BY <1>1, <1>3
<1> HIDE DEF NoBody
<1>5. Nothing \in Packets
  BY <1>2, <1>3, <1>4 DEF Packets
<1>6. Tailed(Nothing.body, play)
  BY <1>2, <1>4 DEF Tailed
<1> QED
  BY <1>5, <1>6

LEMMA CarriedType ==
  ASSUME Packed, NEW q \in Carried
  PROVE  /\ q \in Packets
         /\ q.body.version \in Nat /\ q.body.round \in Nat /\ q.body.index \in Nat
         /\ q.strokes \in Nat
<1>1. q \in Packets
  BY NothingType DEF Packed, Carried
<1>2. q.body \in Bodies /\ q.strokes \in 0..RoundStrokes
  BY <1>1 DEF Packets
<1> QED
  BY <1>1, <1>2, DispatcherAssumption, RegistryAssumption DEF Bodies

\* What was behind a body that is renewed stays behind it.
LEMMA StaysBehind ==
  ASSUME Packed, Table(play), Sound(disp, play, game[Home].version), Advanced,
         NEW q \in Carried
  PROVE  Behind(q)'
<1>1. /\ q.body.version \in Nat /\ q.body.round \in Nat /\ q.body.index \in Nat
      /\ q.strokes \in Nat
  BY CarriedType
<1>2. disp.body.version \in Nat /\ disp.body.round \in Nat /\ disp.body.index \in Nat
      /\ disp'.body.version \in Nat /\ disp'.body.round \in Nat /\ disp'.body.index \in Nat
  BY DEF Advanced, Sound, Dispatchers, Bodies
<1>3. Len(play.drawn) \in Nat /\ Len(play'.drawn) \in Nat /\ Len(play.drawn) <= Len(play'.drawn)
      /\ disp.body.round <= Len(play.drawn)
  BY StrokesType DEF Table, Advanced, Grows, Sound, Copied
<1>4. Behind(q)
  BY DEF Packed
<1>5. q.body.round \in 0..Len(play.drawn) /\ q.body.round \in 0..Len(play'.drawn)
  BY <1>1, <1>2, <1>3, <1>4 DEF Behind
<1>6. /\ Drawn(play, q.body.round) \in Nat /\ Drawn(play', q.body.round) \in Nat
      /\ Drawn(play, q.body.round) <= Drawn(play', q.body.round)
  BY <1>5, DrawnType DEF Advanced, Grows, Table
<1>7. q.body.index <= Drawn(play', q.body.round) /\ q.strokes <= Drawn(play', q.body.round)
      /\ Tailed(q.body, play')
  <2>1. q.body \in Bodies
    BY CarriedType DEF Packets
  <2>2. Copied(q.body, play)
    BY <1>4, <1>5 DEF Behind, Copied
  <2>3. Copied(q.body, play')
    BY <2>1, <2>2, CopiedLater DEF Advanced, Table
  <2> QED
    BY <1>1, <1>4, <1>6, <2>3 DEF Behind, Copied
<1>8. q.body.version <= disp'.body.version
  BY <1>1, <1>2, <1>4 DEF Behind, Advanced, Renewed
<1>9. /\ q.body.round <= disp'.body.round
      /\ q.body.round = disp'.body.round => q.body.index <= disp'.body.index
  <2>1. CASE disp'.body.round = disp.body.round /\ disp'.body.index = disp.body.index
    BY <1>4, <2>1 DEF Behind
  <2>2. CASE disp'.body.round = Len(play'.drawn) /\ disp'.body.index = Strokes(play')
    BY <1>1, <1>2, <1>3, <1>4, <1>7, <2>2 DEF Behind, Strokes
  <2> QED
    BY <2>1, <2>2 DEF Advanced, Renewed
<1> QED
  BY <1>4, <1>7, <1>8, <1>9 DEF Behind

\* A step that carries nothing new keeps all in order.
LEMMA PackedKept ==
  ASSUME Packed, Table(play), Sound(disp, play, game[Home].version), Advanced,
         sent' \in [Slots -> Packets], kept' \in Packets,
         \A q \in Carried' : \E r \in Carried : Alike(q, r)
  PROVE  Packed'
<1>1. ASSUME NEW q \in Carried'
      PROVE  Behind(q)'
  <2>1. PICK r \in Carried : Alike(q, r)
    OBVIOUS
  <2>2. Behind(r)'
    BY StaysBehind
  <2> QED
    BY <2>1, <2>2 DEF Behind, Alike
<1>2. ASSUME NEW q \in Carried', NEW r \in Carried'
      PROVE  Ordered(q, r)
  <2>1. PICK s \in Carried : Alike(q, s)
    OBVIOUS
  <2>2. PICK t \in Carried : Alike(r, t)
    OBVIOUS
  <2>3. Ordered(s, t)
    BY DEF Packed
  <2> QED
    BY <2>1, <2>2, <2>3 DEF Ordered, Alike
<1> QED
  BY <1>1, <1>2 DEF Packed

\* A post carries the last body and the strokes its round has by now: all others have
\* older versions, and less.
LEMMA AttemptPacked ==
  ASSUME Packed, Table(play), Sound(disp, play, game[Home].version), Advanced,
         NEW s \in Slots, Attempt(s)
  PROVE  Packed'
<1> DEFINE new == [body |-> disp.body, awaited |-> TRUE,
                   strokes |-> Drawn(play, disp.body.round)]
<1>1. sent' = [sent EXCEPT ![s] = new] /\ kept' = kept /\ play' = play
      /\ disp' = [disp EXCEPT !.stage = "waiting"]
  BY DEF Attempt
<1>2. disp \in Dispatchers /\ disp.body \in Bodies /\ disp.body.round \in 0..Len(play.drawn)
  <2>1. disp.body \in Bodies /\ disp \in Dispatchers
    BY DEF Sound, Dispatchers
  <2>2. disp.body.round \in Nat /\ Len(play.drawn) \in Nat
    BY <2>1, StrokesType DEF Table, Bodies
  <2> QED
    BY <2>1, <2>2 DEF Sound, Copied
<1>3. disp'.body = disp.body
  BY <1>1, <1>2 DEF Dispatchers
<1>4. Drawn(play, disp.body.round) \in 0..RoundStrokes
  BY <1>2, DrawnType DEF Table
<1>5. PICK packet \in Packets : /\ packet = new /\ packet.body = disp.body
                                /\ packet.strokes = Drawn(play, disp.body.round)
  <2>1. new \in Packets
    BY <1>2, <1>4 DEF Packets
  <2>2. new.body = disp.body /\ new.strokes = Drawn(play, disp.body.round)
    OBVIOUS
  <2> HIDE DEF new
  <2> QED
    BY <2>1, <2>2
<1> HIDE DEF new
<1>6. sent' \in [Slots -> Packets] /\ kept' \in Packets
      /\ \A q \in Carried' : q \in Carried \/ q = packet
  BY <1>1, <1>5 DEF Packed, Carried
<1>7. Behind(packet)'
  <2>1. Drawn(play, disp.body.round) \in Nat /\ disp.body.version \in Nat
        /\ disp.body.round \in Nat /\ disp.body.index \in Nat
    BY <1>2, <1>4, DispatcherAssumption DEF Bodies
  <2> QED
    BY <1>1, <1>3, <1>5, <2>1 DEF Behind, Sound, Copied
<1>8. ASSUME NEW q \in Carried
      PROVE  Ordered(q, packet) /\ Ordered(packet, q)
  <2>1. Behind(q) /\ q.body.version \in Nat /\ q.body.round \in Nat
    BY CarriedType DEF Packed
  <2>2. disp.body.version \in Nat /\ disp.body.round \in Nat
    BY <1>2 DEF Bodies
  <2>3. ~(disp.body.version < q.body.version)
    BY <2>1, <2>2 DEF Behind
  <2>4. Ordered(packet, q)
    BY <1>5, <2>3 DEF Ordered
  <2>5. Ordered(q, packet)
    BY <1>5, <2>1, <2>2 DEF Behind, Ordered
  <2> QED
    BY <2>4, <2>5
<1>9. \A q \in Carried' : Behind(q)'
  BY <1>6, <1>7, StaysBehind
<1>10. ASSUME NEW q \in Carried', NEW r \in Carried'
       PROVE  Ordered(q, r)
  <2>1. CASE q \in Carried /\ r \in Carried
    BY <2>1 DEF Packed
  <2>2. CASE q = packet /\ r = packet
    <3>1. packet.body.version \in Nat
      BY <1>2, <1>5 DEF Bodies
    <3> QED
      BY <2>2, <3>1 DEF Ordered
  <2> QED
    BY <1>6, <1>8, <2>1, <2>2
<1> QED
  BY <1>6, <1>9, <1>10 DEF Packed

LEMMA StepPacked ==
  ASSUME PageInv, Packed, Table(play), Sound(disp, play, game[Home].version),
         [DispatcherNext]_allVars
  PROVE  Packed'
<1>1. Advanced
  BY StepAdvances
<1>2. CASE UNCHANGED <<sent, kept>>
  <2>1. \A q \in Carried' : q \in Carried /\ Alike(q, q)
    BY <1>2 DEF Carried, Alike
  <2> QED
    BY <1>1, <1>2, <2>1, PackedKept DEF Packed
<1>3. ASSUME NEW s \in Slots, AnswerLost(s)
      PROVE  Packed'
  <2> DEFINE over == [sent[s] EXCEPT !.awaited = FALSE]
  <2>1. sent' = [sent EXCEPT ![s] = over] /\ kept' = kept
    BY <1>3 DEF AnswerLost
  <2>2. sent[s] \in Packets
    BY DEF Packed
  <2>3. over \in Packets /\ Alike(over, sent[s])
    BY <2>2 DEF Packets, Alike
  <2> HIDE DEF over
  <2>4. sent' \in [Slots -> Packets] /\ kept' \in Packets
    BY <2>1, <2>3 DEF Packed
  <2>5. \A q \in Carried' : \E r \in Carried : Alike(q, r)
    <3>1. \A q \in Carried : Alike(q, q)
      BY DEF Alike
    <3>2. \A q \in Carried' : q \in Carried \/ q = over
      BY <2>1 DEF Carried, Packed
    <3>3. sent[s] \in Carried
      BY DEF Carried
    <3> QED
      BY <2>3, <3>1, <3>2, <3>3
  <2> QED
    BY <1>1, <2>4, <2>5, PackedKept
<1>4. ASSUME NEW s \in Slots, ServerSaves(s)
      PROVE  Packed'
  <2>1. kept' = [sent[s] EXCEPT !.awaited = FALSE] /\ sent' = sent
    BY <1>4 DEF ServerSaves
  <2>2. sent[s] \in Packets
    BY DEF Packed
  <2>3. kept' \in Packets /\ Alike(kept', sent[s])
    BY <2>1, <2>2 DEF Packets, Alike
  <2>4. \A q \in Carried' : \E r \in Carried : Alike(q, r)
    <3>1. \A q \in Carried : Alike(q, q)
      BY DEF Alike
    <3>2. \A q \in Carried' : q \in Carried \/ q = kept'
      BY <2>1 DEF Carried
    <3>3. sent[s] \in Carried
      BY DEF Carried
    <3> QED
      BY <2>3, <3>1, <3>2, <3>3
  <2> QED
    BY <1>1, <2>1, <2>3, <2>4, PackedKept DEF Packed
<1>5. ASSUME NEW s \in Slots, ServerAnswers(s)
      PROVE  Packed'
  <2>1. sent' = [sent EXCEPT ![s] = Nothing] /\ kept' = kept
    BY <1>5 DEF ServerAnswers
  <2>2. sent' \in [Slots -> Packets] /\ kept' \in Packets
    BY <2>1, NothingType DEF Packed
  <2>3. \A q \in Carried' : q \in Carried /\ Alike(q, q)
    BY <2>1 DEF Carried, Packed, Alike
  <2> QED
    BY <1>1, <2>2, <2>3, PackedKept
<1>6. CASE UNCHANGED allVars
  BY <1>2, <1>6 DEF allVars, dvars
<1>7. CASE DispatcherNext
  <2>1. CASE StateChanges \/ RoundAnnounced \/ BeginDrawing \/ SubmitStroke \/ EndGame
    BY <1>2, <2>1 DEF StateChanges, RoundAnnounced, BeginDrawing, SubmitStroke, EndGame,
                      Broadcast
  <2>2. CASE AskDraw \/ TimerFires \/ LogRead \/ LogFails \/ RequestLost
    BY <1>2, <2>2 DEF AskDraw, TimerFires, LogRead, LogFails, RequestLost
  <2>3. CASE \E s \in Slots : Attempt(s)
    BY <1>1, <2>3, AttemptPacked
  <2>4. CASE Server \/ \E s \in Slots : AnswerLost(s)
    BY <1>3, <1>4, <1>5, <2>4 DEF Server
  <2>5. CASE OpenRoom
    BY <1>2, <2>5 DEF OpenRoom, dvars
  <2> QED
    BY <1>7, <2>1, <2>2, <2>3, <2>4, <2>5 DEF DispatcherNext, Dispatcher
<1> QED
  BY <1>6, <1>7

-----------------------------------------------------------------------------
\* The invariant: posts against what they carry, and the tag of the room

Matched ==
  /\ stored[Home].version = kept.body.version
  /\ \A s \in Slots :
       /\ sent[s].awaited => sent[s].body = disp.body /\ posts[s].stage # "idle"
       /\ posts[s].stage = "idle" => sent[s] = Nothing
       /\ posts[s].stage # "idle" =>
            /\ Home \in live /\ posts[s].room = Home
            /\ posts[s].version = sent[s].body.version

\* Posts whose answer was lost.
Orphaned == {s \in Slots : posts[s].stage # "idle" /\ ~sent[s].awaited}

FewOrphaned ==
  /\ DOMAIN lost = {"requests", "answers", "reads"} /\ lost.answers \in Nat
  /\ IsFiniteSet(Orphaned) /\ Cardinality(Orphaned) <= lost.answers

\* Until a post that has saved its snapshot sets the tag, it is what the snapshot says.
Tagged ==
  lost.answers = 0 /\ Home \in live =>
    /\ \A s \in Slots : posts[s].stage = "saved" => posts[s].over = stored[Home].over
    /\ (\A s \in Slots : posts[s].stage # "saved") => room[Home].finished = stored[Home].over

FlushInv ==
  /\ PageInv
  /\ Table(play) /\ Sound(disp, play, game[Home].version)
  /\ Packed /\ Matched /\ FewOrphaned /\ Tagged

\* While no answer was lost one post at most is at the server.
LEMMA OneBusy ==
  ASSUME OneAwaited, FewOrphaned, lost.answers = 0
  PROVE  \A s, t \in Slots : posts[s].stage # "idle" /\ posts[t].stage # "idle" => s = t
<1>1. Cardinality(Orphaned) \in Nat
  BY FS_CardinalityType DEF FewOrphaned
<1>2. Cardinality(Orphaned) = 0
  BY <1>1 DEF FewOrphaned
<1>3. Orphaned = {}
  BY <1>2, FS_EmptySet DEF FewOrphaned
<1> QED
  BY <1>3 DEF OneAwaited, Orphaned

\* An answer that came to nothing new: posts, room and checkpoints stay as they are.
LEMMA QuietMatched ==
  ASSUME FlushInv, Undisturbed, UNCHANGED <<sent, kept, posts, stored>>,
         Home \in live => Home \in live'
  PROVE  Matched'
<1>1. \A s \in Slots : sent[s].awaited => disp'.body = disp.body
  BY DEF FlushInv, PageInv, OneAwaited, Undisturbed
<1> QED
  BY <1>1 DEF FlushInv, Matched

\* The steps in which no post moves at the server and none is given up.
Quiet ==
  StateChanges \/ AskDraw \/ RoundAnnounced \/ BeginDrawing \/ SubmitStroke \/ EndGame
  \/ TimerFires \/ LogRead \/ LogFails \/ RequestLost \/ OpenRoom \/ UNCHANGED allVars

LEMMA QuietStep ==
  ASSUME FlushInv, Quiet
  PROVE  /\ Undisturbed
         /\ UNCHANGED <<sent, kept, posts, stored>>
         /\ Home \in live => Home \in live' /\ room'[Home] = room[Home]
         /\ Home \in live' /\ Home \notin live => room'[Home].finished = FALSE
                                                /\ stored[Home].over = FALSE
<1>1. Inv /\ Table(play) /\ Sound(disp, play, game[Home].version)
      /\ (play.status = "DRAWING" => game[Home].version > 0)
  BY DEF FlushInv, PageInv
<1>2. CASE StateChanges \/ RoundAnnounced \/ BeginDrawing \/ SubmitStroke \/ EndGame
  <2>1. Undisturbed
    BY <1>1, <1>2, StateChangesAdvance, RoundAdvances, PhaseAdvances, StrokeAdvances
  <2> QED
    BY <1>2, <2>1 DEF StateChanges, RoundAnnounced, BeginDrawing, SubmitStroke, EndGame, Broadcast, GameMoves
<1>3. CASE AskDraw \/ TimerFires \/ LogRead \/ LogFails \/ RequestLost
  <2>1. Undisturbed
    BY <1>3 DEF AskDraw, TimerFires, LogRead, LogFails, RequestLost, Undisturbed
  <2> QED
    BY <1>3, <2>1 DEF AskDraw, TimerFires, LogRead, LogFails, RequestLost, vars
<1>4. CASE UNCHANGED allVars
  BY <1>4 DEF allVars, vars, dvars, Undisturbed
<1>5. CASE OpenRoom
  <2>1. PICK code \in Codes, name \in Names : CreateRoom(Home, code, name)
    BY <1>5 DEF OpenRoom
  <2>2. room[Home] = Unborn /\ live' = live \cup {Home} /\ UNCHANGED <<stored, posts>>
    BY <2>1 DEF CreateRoom
  <2>3. Home \notin live
    BY <1>1, <2>2, LiveIsBorn
  <2>4. room'[Home].finished = FALSE
    <3>1. Home \in DOMAIN room
      BY <1>1, HomeExists DEF Inv, TypeOK
    <3> QED
      BY <2>1, <3>1 DEF CreateRoom, Unborn
  <2>5. stored[Home].over = FALSE
    BY <1>1, <2>2, HomeExists DEF Inv, BornRooms, NoCheckpoint
  <2>6. UNCHANGED dvars
    BY <1>5 DEF OpenRoom
  <2> QED
    BY <2>2, <2>3, <2>4, <2>5, <2>6 DEF dvars, Undisturbed
<1> QED
  BY <1>2, <1>3, <1>4, <1>5 DEF Quiet

LEMMA StepMatched ==
  ASSUME FlushInv, [DispatcherNext]_allVars
  PROVE  Matched'
<1>1. Matched /\ OneAwaited /\ sent \in [Slots -> Packets] /\ Inv
  BY DEF FlushInv, PageInv, Packed
<1>2. CASE Quiet
  BY <1>2, QuietStep, QuietMatched
<1>3. ASSUME NEW s \in Slots, Attempt(s)
      PROVE  Matched'
  <2> DEFINE packet == [body |-> disp.body, awaited |-> TRUE,
                        strokes |-> Drawn(play, disp.body.round)]
             over == (disp.body.status = "GAME_OVER")
             post == [stage |-> "checked", room |-> Home, version |-> disp.body.version,
                      over |-> over]
  <2>1. /\ sent' = [sent EXCEPT ![s] = packet] /\ disp.stage = "sending"
        /\ posts' = [posts EXCEPT ![s] = post]
        /\ Home \in live /\ live' = live /\ stored' = stored /\ kept' = kept
        /\ disp' = [disp EXCEPT !.stage = "waiting"]
    BY <1>3 DEF Attempt, PostSnapshot
  <2>2. disp'.body = disp.body
    BY <2>1 DEF FlushInv, Sound, Dispatchers
  <2>3. packet.body = disp.body /\ post.stage = "checked" /\ post.room = Home
        /\ post.version = disp.body.version
    OBVIOUS
  <2> HIDE DEF packet, post
  <2>4. /\ sent'[s] = packet /\ posts'[s] = post
        /\ \A t \in Slots \ {s} : sent'[t] = sent[t] /\ posts'[t] = posts[t]
    BY <1>1, <2>1 DEF Inv, TypeOK
  <2>5. \A t \in Slots : ~sent[t].awaited
    BY <1>1, <2>1 DEF OneAwaited
  <2> QED
    BY <1>1, <2>1, <2>2, <2>3, <2>4, <2>5 DEF Matched
<1>4. ASSUME NEW s \in Slots, AnswerLost(s)
      PROVE  Matched'
  <2> DEFINE over == [sent[s] EXCEPT !.awaited = FALSE]
  <2>1. /\ sent' = [sent EXCEPT ![s] = over] /\ sent[s].awaited
        /\ UNCHANGED <<vars, kept>>
    BY <1>4 DEF AnswerLost
  <2>2. over.awaited = FALSE /\ over.body = sent[s].body
    BY <1>1 DEF Packets
  <2> HIDE DEF over
  <2>3. /\ sent'[s] = over /\ \A t \in Slots \ {s} : sent'[t] = sent[t] /\ ~sent[t].awaited
    BY <1>1, <2>1 DEF OneAwaited
  <2> QED
    BY <1>1, <2>1, <2>2, <2>3 DEF Matched, vars
<1>5. ASSUME NEW s \in Slots, ServerSaves(s)
      PROVE  Matched'
  <2> DEFINE r == posts[s].room
             snap == [version |-> posts[s].version, over |-> posts[s].over]
  <2>1. /\ SaveCheckpoint(s) /\ kept' = [sent[s] EXCEPT !.awaited = FALSE]
        /\ UNCHANGED <<play, disp, sent, lost>>
    BY <1>5 DEF ServerSaves
  <2>2. posts[s].stage = "checked" /\ r = Home /\ posts[s].version = sent[s].body.version
        /\ live' = live
    BY <1>1, <2>1 DEF SaveCheckpoint, Matched
  <2>3. stored'[Home].version = sent[s].body.version
    BY <1>1, <2>1, <2>2, HomeExists DEF SaveCheckpoint, Inv, TypeOK
  <2>4. kept'.body = sent[s].body
    BY <1>1, <2>1 DEF Packets
  <2>5. posts' = [posts EXCEPT ![s].stage = "saved"]
    BY <2>1 DEF SaveCheckpoint
  <2>6. \A t \in Slots : /\ posts'[t].stage = IF t = s THEN "saved" ELSE posts[t].stage
                         /\ posts'[t].room = posts[t].room
                         /\ posts'[t].version = posts[t].version
    BY <1>1, <2>5 DEF Inv, TypeOK
  <2> QED
    BY <1>1, <2>1, <2>2, <2>3, <2>4, <2>6 DEF Matched
<1>6. ASSUME NEW s \in Slots, ServerAnswers(s)
      PROVE  Matched'
  <2>1. /\ sent' = [sent EXCEPT ![s] = Nothing] /\ kept' = kept
        /\ posts' = [posts EXCEPT ![s] = IdlePost] /\ stored' = stored /\ live' = live
        /\ disp' = IF sent[s].awaited THEN Finish(disp) ELSE disp
    BY <1>6 DEF ServerAnswers, SnapshotRefused, SnapshotFails, SetFinished
  <2>2. /\ sent'[s] = Nothing /\ posts'[s] = IdlePost
        /\ \A t \in Slots \ {s} : sent'[t] = sent[t] /\ posts'[t] = posts[t]
    BY <1>1, <2>1 DEF Inv, TypeOK
  <2>3. Nothing.awaited = FALSE /\ IdlePost.stage = "idle"
    BY DEF Nothing, IdlePost
  <2>4. \A t \in Slots \ {s} : sent[t].awaited => disp' = disp
    BY <1>1, <2>1 DEF OneAwaited
  <2> QED
    BY <1>1, <2>1, <2>2, <2>3, <2>4 DEF Matched
<1> QED
  BY <1>2, <1>3, <1>4, <1>5, <1>6 DEF DispatcherNext, Dispatcher, Server, Quiet

\* Only a lost answer leaves a post at the server that no page waits for.
LEMMA StepOrphaned ==
  ASSUME FlushInv, [DispatcherNext]_allVars
  PROVE  FewOrphaned'
<1>1. /\ sent \in [Slots -> Packets] /\ posts \in [Slots -> Posts]
      /\ DOMAIN lost = {"requests", "answers", "reads"} /\ lost.answers \in Nat
      /\ IsFiniteSet(Orphaned) /\ Cardinality(Orphaned) <= lost.answers
  BY DEF FlushInv, PageInv, Packed, FewOrphaned, Inv, TypeOK, Posts
<1>2. ASSUME Orphaned' \subseteq Orphaned, lost'.answers = lost.answers,
             DOMAIN lost' = {"requests", "answers", "reads"}
      PROVE  FewOrphaned'
  <2>1. IsFiniteSet(Orphaned') /\ Cardinality(Orphaned') <= Cardinality(Orphaned)
    BY <1>1, <1>2, FS_Subset
  <2>2. Cardinality(Orphaned) \in Nat /\ Cardinality(Orphaned') \in Nat
    BY <1>1, <2>1, FS_CardinalityType
  <2> QED
    BY <1>1, <1>2, <2>1, <2>2 DEF FewOrphaned
<1>3. CASE Quiet
  <2>1. Orphaned' = Orphaned
    BY <1>3, QuietStep DEF Orphaned
  <2>2. \/ lost' = lost
        \/ lost' = [lost EXCEPT !.requests = @ + 1] \/ lost' = [lost EXCEPT !.reads = @ + 1]
    BY <1>3 DEF Quiet, StateChanges, AskDraw, RoundAnnounced, BeginDrawing, SubmitStroke,
                EndGame, Broadcast, TimerFires, LogRead, LogFails, RequestLost, OpenRoom,
                allVars, dvars
  <2> QED
    BY <1>1, <1>2, <2>1, <2>2
<1>4. ASSUME NEW s \in Slots, Attempt(s)
      PROVE  FewOrphaned'
  <2> DEFINE packet == [body |-> disp.body, awaited |-> TRUE,
                        strokes |-> Drawn(play, disp.body.round)]
  <2>1. /\ sent' = [sent EXCEPT ![s] = packet] /\ lost' = lost
        /\ \A t \in Slots \ {s} : posts'[t] = posts[t]
    BY <1>1, <1>4 DEF Attempt, PostSnapshot
  <2>2. packet.awaited = TRUE
    OBVIOUS
  <2> HIDE DEF packet
  <2>3. sent'[s].awaited /\ \A t \in Slots \ {s} : sent'[t] = sent[t]
    BY <1>1, <2>1, <2>2
  <2> QED
    BY <1>1, <1>2, <2>1, <2>3 DEF Orphaned
<1>5. ASSUME NEW s \in Slots, AnswerLost(s)
      PROVE  FewOrphaned'
  <2>1. /\ lost' = [lost EXCEPT !.answers = @ + 1] /\ posts' = posts
        /\ \A t \in Slots \ {s} : sent'[t] = sent[t]
    BY <1>1, <1>5 DEF AnswerLost, vars
  <2>2. Orphaned' \subseteq Orphaned \cup {s}
    BY <2>1 DEF Orphaned
  <2>3. IsFiniteSet(Orphaned \cup {s})
        /\ Cardinality(Orphaned \cup {s}) <= Cardinality(Orphaned) + 1
    <3>1. Cardinality(Orphaned) \in Nat
      BY <1>1, FS_CardinalityType
    <3>2. IsFiniteSet(Orphaned \cup {s})
          /\ Cardinality(Orphaned \cup {s})
               = IF s \in Orphaned THEN Cardinality(Orphaned) ELSE Cardinality(Orphaned) + 1
      BY <1>1, FS_AddElement, Zenon
    <3> QED
      BY <3>1, <3>2
  <2>4. IsFiniteSet(Orphaned') /\ Cardinality(Orphaned') <= Cardinality(Orphaned \cup {s})
    BY <2>2, <2>3, FS_Subset
  <2>5. Cardinality(Orphaned) \in Nat /\ Cardinality(Orphaned \cup {s}) \in Nat
        /\ Cardinality(Orphaned') \in Nat
    BY <1>1, <2>3, <2>4, FS_CardinalityType
  <2> QED
    BY <1>1, <2>1, <2>3, <2>4, <2>5 DEF FewOrphaned
<1>6. ASSUME NEW s \in Slots, ServerSaves(s)
      PROVE  FewOrphaned'
  <2>1. sent' = sent /\ lost' = lost /\ posts' = [posts EXCEPT ![s].stage = "saved"]
        /\ posts[s].stage = "checked"
    BY <1>6 DEF ServerSaves, SaveCheckpoint
  <2>2. \A t \in Slots : posts'[t].stage # "idle" <=> posts[t].stage # "idle"
    BY <1>1, <2>1 DEF Posts
  <2> QED
    BY <1>1, <1>2, <2>1, <2>2 DEF Orphaned
<1>7. ASSUME NEW s \in Slots, ServerAnswers(s)
      PROVE  FewOrphaned'
  <2>1. sent' = [sent EXCEPT ![s] = Nothing] /\ lost' = lost
        /\ posts' = [posts EXCEPT ![s] = IdlePost]
    BY <1>7 DEF ServerAnswers, SnapshotRefused, SnapshotFails, SetFinished
  <2>2. posts'[s].stage = "idle"
    BY <1>1, <2>1 DEF IdlePost
  <2>3. \A t \in Slots \ {s} : sent'[t] = sent[t] /\ posts'[t] = posts[t]
    BY <1>1, <2>1
  <2> QED
    BY <1>1, <1>2, <2>1, <2>2, <2>3 DEF Orphaned
<1> QED
  BY <1>3, <1>4, <1>5, <1>6, <1>7 DEF DispatcherNext, Dispatcher, Server, Quiet

\* Without lost answers nobody saves between a post's snapshot and its tag.
LEMMA StepTagged ==
  ASSUME FlushInv, [DispatcherNext]_allVars
  PROVE  Tagged'
<1>1. /\ Tagged /\ Matched /\ OneAwaited /\ FewOrphaned /\ lost.answers \in Nat
      /\ sent \in [Slots -> Packets] /\ posts \in [Slots -> Posts]
      /\ room \in [RoomIds -> Room] /\ stored \in [RoomIds -> Checkpoint] /\ Home \in RoomIds
  BY HomeExists DEF FlushInv, PageInv, Packed, FewOrphaned, Inv, TypeOK, Posts
<1>2. CASE Quiet
  <2>1. /\ UNCHANGED <<sent, kept, posts, stored>>
        /\ Home \in live => Home \in live' /\ room'[Home] = room[Home]
        /\ Home \in live' /\ Home \notin live => room'[Home].finished = FALSE
                                               /\ stored[Home].over = FALSE
    BY <1>2, QuietStep
  <2>2. lost'.answers = lost.answers
    <3>1. \/ lost' = lost
          \/ lost' = [lost EXCEPT !.requests = @ + 1] \/ lost' = [lost EXCEPT !.reads = @ + 1]
      BY <1>2 DEF Quiet, StateChanges, AskDraw, RoundAnnounced, BeginDrawing, SubmitStroke,
                  EndGame, Broadcast, TimerFires, LogRead, LogFails, RequestLost, OpenRoom,
                  allVars, dvars
    <3> QED
      BY <1>1, <3>1 DEF FewOrphaned
  <2>3. Home \notin live => \A s \in Slots : posts[s].stage # "saved"
    BY <1>1 DEF Matched
  <2> QED
    BY <1>1, <2>1, <2>2, <2>3 DEF Tagged
<1>3. ASSUME NEW s \in Slots, Attempt(s)
      PROVE  Tagged'
  <2>1. /\ live' = live /\ room' = room /\ stored' = stored /\ lost' = lost
        /\ posts[s].stage = "idle" /\ posts'[s].stage = "checked"
        /\ \A t \in Slots \ {s} : posts'[t] = posts[t]
    BY <1>1, <1>3 DEF Attempt, PostSnapshot
  <2> QED
    BY <1>1, <2>1 DEF Tagged
<1>4. ASSUME NEW s \in Slots, AnswerLost(s)
      PROVE  Tagged'
  <2>1. lost'.answers = lost.answers + 1
    BY <1>1, <1>4 DEF AnswerLost, FewOrphaned
  <2> QED
    BY <1>1, <2>1 DEF Tagged
<1>5. ASSUME NEW s \in Slots, ServerSaves(s), lost.answers = 0
      PROVE  Tagged'
  <2> DEFINE r == posts[s].room
             snap == [version |-> posts[s].version, over |-> posts[s].over]
  <2>1. SaveCheckpoint(s)
    BY <1>5 DEF ServerSaves
  <2>2. r = Home /\ posts[s].stage = "checked" /\ stored' = [stored EXCEPT ![r] = snap]
        /\ posts' = [posts EXCEPT ![s].stage = "saved"]
    BY <1>1, <2>1 DEF SaveCheckpoint, Matched
  <2>3. stored'[Home].over = posts[s].over
    BY <1>1, <2>2
  <2>4. posts'[s].stage = "saved" /\ posts'[s].over = posts[s].over
        /\ \A t \in Slots \ {s} : posts'[t] = posts[t]
    BY <1>1, <2>2 DEF Posts
  <2>5. \A t \in Slots \ {s} : posts[t].stage = "idle"
    BY <1>1, <1>5, <2>2, OneBusy
  <2> QED
    BY <2>3, <2>4, <2>5 DEF Tagged
<1>6. ASSUME NEW s \in Slots, ServerAnswers(s), lost.answers = 0
      PROVE  Tagged'
  <2>1. posts' = [posts EXCEPT ![s] = IdlePost] /\ stored' = stored /\ live' = live
        /\ lost' = lost
    BY <1>6 DEF ServerAnswers, SnapshotRefused, SnapshotFails, SetFinished
  <2>2. posts'[s].stage = "idle" /\ \A t \in Slots \ {s} : posts'[t] = posts[t]
    BY <1>1, <2>1 DEF IdlePost
  <2>3. CASE SnapshotRefused(s) \/ SnapshotFails(s)
    BY <1>1, <2>1, <2>2, <2>3 DEF SnapshotRefused, SnapshotFails, Tagged
  <2>4. CASE SetFinished(s)
    <3> DEFINE record == [room[Home] EXCEPT !.finished = posts[s].over]
    <3>1. posts[s].stage = "saved" /\ posts[s].room = Home /\ Home \in live
      BY <1>1, <2>4 DEF SetFinished, Matched
    <3>2. posts[s].over = stored[Home].over
      BY <1>1, <1>6, <3>1 DEF Tagged
    <3>3. room' = [room EXCEPT ![Home] = Touched(record)]
      BY <1>1, <2>4, <3>1 DEF SetFinished
    <3>4. room[Home] \in Room
      BY <1>1
    <3>5. Touched(record).finished = posts[s].over
      BY <3>4 DEF Touched, Room
    <3>6. room'[Home].finished = stored[Home].over
      BY <1>1, <3>2, <3>3, <3>5
    <3>7. \A t \in Slots \ {s} : posts[t].stage = "idle"
      BY <1>1, <1>6, <3>1, OneBusy
    <3> QED
      BY <2>1, <2>2, <3>6, <3>7 DEF Tagged
  <2> QED
    BY <1>6, <2>3, <2>4 DEF ServerAnswers
<1>7. ASSUME NEW s \in Slots, ServerSaves(s) \/ ServerAnswers(s), lost.answers # 0
      PROVE  Tagged'
  BY <1>7 DEF ServerSaves, ServerAnswers, Tagged
<1> QED
  BY <1>2, <1>3, <1>4, <1>5, <1>6, <1>7 DEF DispatcherNext, Dispatcher, Server, Quiet

-----------------------------------------------------------------------------
\* The theorems

LEMMA InitFlush == DispatcherInit => FlushInv
<1> SUFFICES ASSUME DispatcherInit PROVE FlushInv
  OBVIOUS
<1>1. PageInv /\ Inv
  BY InitPage DEF PageInv
<1>2. /\ play.status = "LOBBY" /\ play.drawn = <<>> /\ play.index = <<>> /\ disp.stage = "idle" /\ disp.since = 0
      /\ disp.pending = FALSE /\ disp.flushed = -1 /\ disp.body = NoBody /\ disp.tries = 0
      /\ play = [status |-> "LOBBY", index |-> <<>>, drawn |-> <<>>, asked |-> 0]
      /\ disp = [since |-> 0, pending |-> FALSE, flushed |-> -1,
                 stage |-> "idle", body |-> NoBody, tries |-> 0]
      /\ sent = [s \in Slots |-> Nothing] /\ kept = Nothing
      /\ lost.answers = 0 /\ DOMAIN lost = {"requests", "answers", "reads"}
  BY DEF DispatcherInit
<1>3. /\ game[Home].version = 0 /\ stored[Home] = NoCheckpoint /\ Home \notin live
      /\ posts = [s \in Slots |-> IdlePost]
  BY HomeExists DEF DispatcherInit, Init
<1>4. /\ NoBody \in Bodies /\ Tailed(NoBody, play) /\ Nothing \in Packets /\ Nothing.body = NoBody
      /\ NoBody.version = 0 /\ NoBody.round = 0 /\ NoBody.index = 0 /\ NoBody.status = "LOBBY"
      /\ Nothing.strokes = 0 /\ Nothing.awaited = FALSE
  BY NothingType DEF Nothing, NoBody, Packets
<1>5. /\ Threshold \in Nat /\ Threshold > 1 /\ Attempts \in Nat \ {0} /\ MaxRounds \in Nat
      /\ MaxVersion \in Nat
  BY DispatcherAssumption, RegistryAssumption
<1>6. Len(play.drawn) = 0 /\ play \in Plays /\ Len(play.index) = 0
  BY <1>2 DEF Plays, Statuses
<1>7. Table(play) /\ Strokes(play) = 0 /\ Drawn(play, 0) = 0
  BY <1>2, <1>5, <1>6 DEF Table, Rounds, Strokes, Drawn
<1>8. Sound(disp, play, game[Home].version)
  <2>1. disp \in Dispatchers
    BY <1>2, <1>4, <1>5 DEF Dispatchers
  <2>2. Recent(disp, play)
    BY <1>2, <1>4, <1>5, <1>6, <1>7 DEF Recent
  <2> QED
    BY <1>2, <1>3, <1>4, <1>5, <1>6, <1>7, <2>1, <2>2 DEF Sound, Copied
<1>9. Packed
  <2>1. Carried = {Nothing}
    BY <1>2 DEF Carried
  <2>2. Behind(Nothing) /\ Ordered(Nothing, Nothing)
    BY <1>2, <1>4, <1>7 DEF Behind, Ordered
  <2> QED
    BY <1>2, <1>4, <2>1, <2>2 DEF Packed
<1>10. Matched
  BY <1>2, <1>3, <1>4 DEF Matched, NoCheckpoint, IdlePost
<1>11. FewOrphaned
  <2>1. Orphaned = {}
    BY <1>3 DEF Orphaned, IdlePost
  <2> QED
    BY <1>2, <2>1, FS_EmptySet DEF FewOrphaned
<1>12. Tagged
  BY <1>3 DEF Tagged
<1> QED
  BY <1>1, <1>7, <1>8, <1>9, <1>10, <1>11, <1>12 DEF FlushInv

LEMMA StepFlush == FlushInv /\ [DispatcherNext]_allVars => FlushInv'
<1> SUFFICES ASSUME FlushInv, [DispatcherNext]_allVars PROVE FlushInv'
  OBVIOUS
<1>1. PageInv'
  BY StepPage DEF FlushInv
<1>2. Advanced
  BY StepAdvances DEF FlushInv
<1>3. Packed'
  BY StepPacked DEF FlushInv
<1> QED
  BY <1>1, <1>2, <1>3, StepMatched, StepOrphaned, StepTagged DEF FlushInv, Advanced

LEMMA SpecFlush == DispatcherSpec => []FlushInv
BY InitFlush, StepFlush, PTL DEF DispatcherSpec

\* A flush is never posted twice at a time unless an answer was lost, and a page waits for
\* one post at most (postWithBackoff, checkpoint.ts 122-146).
THEOREM DispatcherTypeCorrect == DispatcherSpec => []DispatcherTypeOK
<1>1. FlushInv => DispatcherTypeOK
  <2> SUFFICES ASSUME FlushInv PROVE DispatcherTypeOK
    OBVIOUS
  <2> DEFINE busy == {s \in Slots : posts[s].stage # "idle"}
  <2>1. /\ play \in Plays
        /\ disp \in Dispatchers /\ sent \in [Slots -> Packets] /\ kept \in Packets
    BY DEF FlushInv, Table, Rounds, Sound, Packed
  <2>2. \A s \in Slots : sent[s].awaited => disp.stage = "waiting" /\ sent[s].body = disp.body
    BY DEF FlushInv, PageInv, OneAwaited, Matched
  <2>3. IsFiniteSet(Orphaned) /\ Cardinality(Orphaned) <= lost.answers /\ lost.answers \in Nat
        /\ Cardinality(Orphaned) \in Nat
    BY FS_CardinalityType DEF FlushInv, FewOrphaned
  <2>4. Cardinality(busy) <= 1 + lost.answers
    <3>1. CASE \A s \in Slots : ~sent[s].awaited
      <4>1. busy = Orphaned
        BY <3>1 DEF Orphaned
      <4> HIDE DEF busy
      <4> QED
        BY <2>3, <4>1
    <3>2. ASSUME NEW s \in Slots, sent[s].awaited
          PROVE  Cardinality(busy) <= 1 + lost.answers
      <4>1. busy \subseteq Orphaned \cup {s}
        BY <3>2 DEF FlushInv, PageInv, OneAwaited, Orphaned
      <4>2. IsFiniteSet(Orphaned \cup {s})
            /\ Cardinality(Orphaned \cup {s})
                 = IF s \in Orphaned THEN Cardinality(Orphaned) ELSE Cardinality(Orphaned) + 1
        BY <2>3, FS_AddElement, Zenon
      <4>3. Cardinality(busy) <= Cardinality(Orphaned \cup {s}) /\ Cardinality(busy) \in Nat
        BY <4>1, <4>2, FS_Subset, FS_CardinalityType
      <4>4. Cardinality(Orphaned \cup {s}) <= Cardinality(Orphaned) + 1
            /\ Cardinality(Orphaned \cup {s}) \in Nat
        BY <2>3, <4>2
      <4> HIDE DEF busy
      <4> QED
        BY <2>3, <4>3, <4>4
    <3> QED
      BY <3>1, <3>2
  <2> QED
    BY <2>1, <2>2, <2>4 DEF DispatcherTypeOK, Dispatchers, Plays
<1> QED
  BY <1>1, SpecFlush, PTL

\* No flush is of a version flushed before: the server's refusals hit repeated posts only
\* (flush against SaveCheckpoint).
THEOREM FlushesGoForward == DispatcherSpec => []FlushesAdvance
<1>1. FlushInv => FlushesAdvance
  BY DEF FlushInv, Sound, Dispatchers, Bodies, FlushesAdvance
<1> QED
  BY <1>1, SpecFlush, PTL

\* A stored checkpoint has the log tail that its stroke index asks for, unless the log
\* still had more strokes of a round it replaced (checkpoint.ts 98-107).
THEOREM TailsReach == DispatcherSpec => []TailReachesState
<1>1. FlushInv => TailReachesState
  BY DEF FlushInv, Packed, Carried, Behind, Tailed, Longest, TailReachesState
<1> QED
  BY <1>1, SpecFlush, PTL

\* A dispatcher at rest, and a flush nobody waits for, has the phase of the game and all
\* but a few of its strokes (flush, onStroke, onState).
THEOREM LittleForgotten == DispatcherSpec => []NothingForgotten
<1>1. FlushInv => NothingForgotten
  <2> SUFFICES ASSUME FlushInv, disp.stage = "idle" \/ ~disp.pending
               PROVE  /\ disp.body.status = play.status
                      /\ disp.body.round = Len(play.drawn) \/ play.status = "ROUND_ANNOUNCE"
                      /\ Strokes(play) - disp.body.index
                           <= IF disp.stage = "idle" THEN 2 * (Threshold - 1) ELSE Threshold - 1
    BY DEF NothingForgotten, Strokes
  <2>1. Recent(disp, play) /\ disp.body.index \in Nat /\ disp.since \in Nat
    BY DEF FlushInv, Sound, Dispatchers, Bodies
  <2>2. Threshold \in Nat /\ Threshold > 1 /\ Strokes(play) \in Nat
    BY DispatcherAssumption, StrokesType DEF FlushInv, Table
  <2>3. CASE disp.stage = "idle"
    BY <2>1, <2>2, <2>3 DEF Recent
  <2>4. CASE disp.stage # "idle"
    BY <2>1, <2>2, <2>4 DEF Recent
  <2> QED
    BY <2>3, <2>4
<1> QED
  BY <1>1, SpecFlush, PTL

\* The tag by which the sweeper reaps early is that of the last snapshot, unless an answer
\* was lost (handlers_p2p.go 263-269).
THEOREM TagFollows == DispatcherSpec => []FinishedMatchesSnapshot
<1>1. FlushInv => FinishedMatchesSnapshot
  BY DEF FlushInv, Tagged, FinishedMatchesSnapshot
<1> QED
  BY <1>1, SpecFlush, PTL

\* What the server keeps only advances along the announcements of the game, although posts
\* of a version may carry different strokes and overtake each other (manager.go 189-191).
THEOREM KeptAdvances == DispatcherSpec => CheckpointsAdvance
<1> DEFINE Advances == \/ kept'.body.round > kept.body.round
                       \/ /\ kept'.body.round = kept.body.round
                          /\ kept'.strokes >= kept.strokes
                          /\ kept'.body.index >= kept.body.index
<1>1. FlushInv /\ [DispatcherNext]_allVars => (kept' # kept => Advances)
  <2> SUFFICES ASSUME FlushInv, [DispatcherNext]_allVars, kept' # kept
               PROVE  Advances
    OBVIOUS
  <2>1. PICK s \in Slots : ServerSaves(s)
    BY DEF DispatcherNext, Dispatcher, Server, StateChanges, AskDraw, RoundAnnounced,
           BeginDrawing, SubmitStroke, EndGame, Broadcast, TimerFires, LogRead, LogFails,
           Attempt, RequestLost, AnswerLost, ServerAnswers, OpenRoom, allVars, dvars
  <2>2. /\ SaveCheckpoint(s) /\ kept' = [sent[s] EXCEPT !.awaited = FALSE]
        /\ sent[s] \in Packets
    BY <2>1 DEF ServerSaves, FlushInv, Packed
  <2>3. kept'.body = sent[s].body /\ kept'.strokes = sent[s].strokes
    BY <2>2 DEF Packets
  <2>4. sent[s].body.version > kept.body.version
    <3>1. posts[s].stage = "checked" /\ posts[s].version > room[posts[s].room].version
      BY <2>2 DEF SaveCheckpoint
    <3>2. posts[s].room = Home /\ Home \in live /\ posts[s].version = sent[s].body.version
          /\ stored[Home].version = kept.body.version
      BY <3>1 DEF FlushInv, Matched
    <3>3. room[Home].version = stored[Home].version
      BY <3>2 DEF FlushInv, PageInv, Inv, SnapshotIsCurrent
    <3> QED
      BY <3>1, <3>2, <3>3
  <2>5. sent[s] \in Carried /\ kept \in Carried /\ Packed
    BY DEF Carried, FlushInv
  <2>6. Ordered(kept, sent[s])
    BY <2>5 DEF Packed
  <2>7. /\ kept.body.version \in Nat /\ kept.body.round \in Nat /\ kept.body.index \in Nat
        /\ kept.strokes \in Nat
        /\ sent[s].body.version \in Nat /\ sent[s].body.round \in Nat
        /\ sent[s].body.index \in Nat /\ sent[s].strokes \in Nat
    BY <2>5, CarriedType
  <2> QED
    BY <2>3, <2>4, <2>6, <2>7 DEF Ordered
<1>2. FlushInv /\ [DispatcherNext]_allVars => [kept' # kept => Advances]_allVars
  BY <1>1
<1> QED
  BY <1>2, SpecFlush, PTL DEF DispatcherSpec, CheckpointsAdvance
=============================================================================
