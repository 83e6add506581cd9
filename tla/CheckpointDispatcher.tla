------------------------ MODULE CheckpointDispatcher ------------------------
(***************************************************************************)
(* The host page's checkpoint dispatcher (frontend/p2p/checkpoint.ts)      *)
(* between the engine it observes and the registry it posts to.  A flush   *)
(* takes a copy of the state, waits for the stroke log, and posts with     *)
(* retries; whatever asks for a flush meanwhile sets one flag.  A request  *)
(* or an answer may be lost, and a post whose answer was lost still runs   *)
(* at the server next to its retry.                                        *)
(*                                                                         *)
(* The page stays and its room lives on: what the sweeper does to posts is *)
(* in RoomRegistry.  The 30 seconds between two flushes may have passed    *)
(* whenever the timer looks.  The engine is reduced to what the dispatcher *)
(* can see of it: versions, five statuses, the strokes of each round as it *)
(* was announced.  A draw that was asked for twice may be answered twice,  *)
(* and the later answer announces a round of the same index once more.     *)
(***************************************************************************)
EXTENDS RoomRegistry, Sequences

CONSTANTS Threshold,    \* strokeThreshold
          TailSize,     \* LOG_TAIL_SIZE
          Attempts,     \* posts per flush
          RoundStrokes, \* strokes in a round
          MaxRounds,    \* bound on the rounds announced
          MaxLosses     \* bound on the requests and answers lost, and on failed reads

ASSUME DispatcherAssumption ==
  /\ \A n \in {TailSize, Attempts, RoundStrokes} : n \in Nat \ {0}
  /\ Threshold \in Nat /\ Threshold > 1
  /\ MaxRounds \in Nat /\ MaxLosses \in Nat
  /\ Cardinality(RoomIds) = 1

VARIABLES play,  \* engine.state: status, index and strokes of each round announced,
                 \* and how many indices a draw has been asked for
          disp,  \* the dispatcher's fields and its flush
          sent,  \* what each post in flight carries
          kept,  \* what the stored checkpoint carries
          lost   \* requests and answers lost, reads failed so far

dvars == <<play, disp, sent, kept, lost>>
allVars == <<vars, dvars>>

\* The room of the page.
Home == CHOOSE id \in RoomIds : TRUE

\* LOBBY stands for WRITING as well, VOTING for all phases up to ROUND_SUMMARY.
Statuses == {"LOBBY", "ROUND_ANNOUNCE", "DRAWING", "VOTING", "GAME_OVER"}

\* `round` tells which announcement the copied round is of, `index` its strokes then.
NoBody == [version |-> 0, status |-> "LOBBY", round |-> 0, index |-> 0, tail |-> {}]

Nothing == [body |-> NoBody, strokes |-> 0, awaited |-> FALSE]

DispatcherInit ==
  /\ Init
  /\ play = [status |-> "LOBBY", index |-> <<>>, drawn |-> <<>>, asked |-> 0]
  /\ disp = [since |-> 0, pending |-> FALSE, flushed |-> -1,
             stage |-> "idle", body |-> NoBody, tries |-> 0]
  /\ sent = [s \in Slots |-> Nothing]
  /\ kept = Nothing
  /\ lost = [requests |-> 0, answers |-> 0, reads |-> 0]

Losses == lost.requests + lost.answers + lost.reads

Drawn(p, round) == IF round = 0 THEN 0 ELSE p.drawn[round]

\* The strokes the log has under the index of the current round.  Those of a round that
\* was replaced stay until the one that replaced it has as many.
Logged(p) ==
  UNION {0..p.drawn[r] - 1 : r \in {r \in DOMAIN p.drawn : p.index[r] = p.index[Len(p.drawn)]}}

-----------------------------------------------------------------------------
\* A flush: operators on the fields d of the dispatcher

\* sanitize copies the status, the round and its stroke index; the version is read
\* beside them.  Transactions of the log run in the order they were made, so the
\* tail read for this flush has the last TailSize of the strokes logged so far.
Body(p, version, logged) ==
  [version |-> version, status |-> p.status, round |-> Len(p.drawn),
   index |-> Drawn(p, Len(p.drawn)),
   tail |-> {i \in logged : i + TailSize \notin logged}]

\* Mutant: a request made during a flush is forgotten.
FlushOnce(d, p, version, logged) ==
  IF d.stage # "idle" THEN d
  ELSE [d EXCEPT !.stage = "reading", !.tries = 0, !.body = Body(p, version, logged)]

\* Mutant: a flush begins whether or not one is under way.
FlushAlways(d, p, version, logged) ==
  [d EXCEPT !.stage = "reading", !.tries = 0, !.body = Body(p, version, logged)]

\* flush up to its first await.
Flush(d, p, version, logged) ==
  IF d.stage # "idle" THEN [d EXCEPT !.pending = TRUE]
  ELSE [d EXCEPT !.stage = "reading", !.tries = 0, !.body = Body(p, version, logged)]

\* The finally of flush: a flush asked for meanwhile begins in the same task.
EndFlush(d) ==
  LET ended == [d EXCEPT !.stage = "idle", !.pending = FALSE]
  IN  IF d.pending THEN Flush(ended, play, game[Home].version, Logged(play)) ELSE ended

\* Whatever became of the posts, the body counts as flushed and the strokes start from
\* zero.
Finish(d) == EndFlush([d EXCEPT !.flushed = d.body.version, !.since = 0])

\* postWithBackoff after an attempt that brought no answer.
BackOff(d) ==
  IF d.tries + 1 = Attempts THEN Finish(d)
  ELSE [d EXCEPT !.tries = @ + 1, !.stage = "sending"]

-----------------------------------------------------------------------------
\* What the dispatcher observes: the engine's handlers, one task each

ObserveStroke(d, p, logged) ==
  LET counted == [d EXCEPT !.since = @ + 1]
  IN  IF counted.since >= Threshold THEN Flush(counted, p, game[Home].version, logged)
      ELSE counted

\* Every change of status is broadcast, so lastStatus is the status before the handler.
ObserveState(d, p) ==
  IF p.status # play.status
  THEN Flush(d, p, game[Home].version + 1, Logged(p))
  ELSE d

Broadcast(d, p) ==
  /\ GameMoves(Home)
  /\ play' = p
  /\ disp' = ObserveState(d, p)
  /\ UNCHANGED <<sent, kept, lost>>

\* A player joins, first of all the host; votes; submits words.
StateChanges == Broadcast(disp, play)

\* START_ROUND in WRITING or NEXT_ROUND asks for a draw; asked again, it may be answered
\* again, and that is left open.
AskDraw ==
  /\ play.status \in {"LOBBY", "VOTING"} /\ game[Home].version > 0
  /\ play.asked = IF play.index = <<>> THEN 0 ELSE play.index[Len(play.index)] + 1
  /\ play' = [play EXCEPT !.asked = @ + 1]
  /\ UNCHANGED <<vars, disp, sent, kept, lost>>

\* prepareRoundServer after its await: whatever phase the game is in, GAME_OVER as well,
\* the answer of a draw puts a round without strokes in the place of the current one.
RoundAnnounced ==
  /\ Len(play.drawn) < MaxRounds
  /\ \E i \in 0..play.asked - 1 :
       Broadcast(disp, [play EXCEPT !.status = "ROUND_ANNOUNCE",
                                    !.index = Append(@, i), !.drawn = Append(@, 0)])

BeginDrawing ==
  /\ play.status = "ROUND_ANNOUNCE"
  /\ Broadcast(disp, [play EXCEPT !.status = "DRAWING"])

StrokeDrawn == [play EXCEPT !.drawn[Len(play.drawn)] = @ + 1]

AfterStroke ==
  IF Drawn(StrokeDrawn, Len(play.drawn)) = RoundStrokes
  THEN [StrokeDrawn EXCEPT !.status = "VOTING"] ELSE StrokeDrawn

\* Mutant: the dispatcher subscribes before the bridge that writes the log.
SubmitStrokeObservedFirst ==
  /\ play.status = "DRAWING"
  /\ Broadcast(ObserveStroke(disp, StrokeDrawn, Logged(play)), AfterStroke)

\* handleSubmitStroke emits the stroke, which the bridge logs and the dispatcher then
\* counts, before it moves on to the vote and broadcasts the next version.
SubmitStroke ==
  /\ play.status = "DRAWING"
  /\ Broadcast(ObserveStroke(disp, StrokeDrawn, Logged(StrokeDrawn)), AfterStroke)

EndGame ==
  /\ play.status # "GAME_OVER" /\ game[Home].version > 0
  /\ Broadcast(disp, [play EXCEPT !.status = "GAME_OVER"])

-----------------------------------------------------------------------------
\* The dispatcher's own steps

\* Mutant: a version that was flushed before is flushed again.
TimerFiresAnyway ==
  /\ disp.stage = "idle"
  /\ game[Home].version > 0
  /\ disp' = Flush(disp, play, game[Home].version, Logged(play))
  /\ UNCHANGED <<vars, play, sent, kept, lost>>

\* Mutant: the timer only looks after strokes.
TimerFiresForStrokes ==
  /\ disp.stage = "idle"
  /\ game[Home].version > 0 /\ game[Home].version # disp.flushed
  /\ disp.since > 0
  /\ disp' = Flush(disp, play, game[Home].version, Logged(play))
  /\ UNCHANGED <<vars, play, sent, kept, lost>>

\* maybeFlushByTime, once timeMs have gone by since lastFlushAt.
TimerFires ==
  /\ disp.stage = "idle"
  /\ game[Home].version > 0 /\ game[Home].version # disp.flushed
  /\ disp' = Flush(disp, play, game[Home].version, Logged(play))
  /\ UNCHANGED <<vars, play, sent, kept, lost>>

\* getStrokesFrom has the tail.
LogRead ==
  /\ disp.stage = "reading"
  /\ disp' = [disp EXCEPT !.stage = "sending"]
  /\ UNCHANGED <<vars, play, sent, kept, lost>>

\* getStrokesFrom rejects: nothing is posted, and the version does not count as flushed.
\* Without a round the log is not read.
LogFails ==
  /\ disp.stage = "reading" /\ disp.body.round > 0
  /\ Losses < MaxLosses
  /\ lost' = [lost EXCEPT !.reads = @ + 1]
  /\ disp' = EndFlush(disp)
  /\ UNCHANGED <<vars, play, sent, kept>>

\* Mutant: a retry takes a version of its own, to get past the first attempt's.
AttemptRenumbered(s) ==
  /\ disp.stage = "sending"
  /\ PostSnapshot(s, Home, room[Home].creator, disp.body.version + disp.tries,
                  disp.body.status = "GAME_OVER")
  /\ sent' = [sent EXCEPT ![s] = [body |-> disp.body, awaited |-> TRUE,
                                  strokes |-> Drawn(play, disp.body.round)]]
  /\ disp' = [disp EXCEPT !.stage = "waiting"]
  /\ UNCHANGED <<play, kept, lost>>

\* An attempt reaches the server.  The strokes are the array of the round, which the
\* copied round shares with the engine, serialised now.
Attempt(s) ==
  /\ disp.stage = "sending"
  /\ PostSnapshot(s, Home, room[Home].creator, disp.body.version, disp.body.status = "GAME_OVER")
  /\ sent' = [sent EXCEPT ![s] = [body |-> disp.body, awaited |-> TRUE,
                                    strokes |-> Drawn(play, disp.body.round)]]
  /\ disp' = [disp EXCEPT !.stage = "waiting"]
  /\ UNCHANGED <<play, kept, lost>>

\* The request is lost.
RequestLost ==
  /\ disp.stage = "sending"
  /\ Losses < MaxLosses
  /\ lost' = [lost EXCEPT !.requests = @ + 1]
  /\ disp' = BackOff(disp)
  /\ UNCHANGED <<vars, play, sent, kept>>

\* The call fails on the page's side while the server still serves it.
AnswerLost(s) ==
  /\ sent[s].awaited
  /\ Losses < MaxLosses
  /\ lost' = [lost EXCEPT !.answers = @ + 1]
  /\ sent' = [sent EXCEPT ![s].awaited = FALSE]
  /\ disp' = BackOff(disp)
  /\ UNCHANGED <<vars, play, kept>>

-----------------------------------------------------------------------------
\* The server

ServerSaves(s) ==
  /\ SaveCheckpoint(s)
  /\ kept' = [sent[s] EXCEPT !.awaited = FALSE]
  /\ UNCHANGED <<play, disp, sent, lost>>

\* 204 and 409 alike end the flush of a page that still waits.
ServerAnswers(s) ==
  /\ SnapshotRefused(s) \/ SnapshotFails(s) \/ SetFinished(s)
  /\ disp' = IF sent[s].awaited THEN Finish(disp) ELSE disp
  /\ sent' = [sent EXCEPT ![s] = Nothing]
  /\ UNCHANGED <<play, kept, lost>>

\* wireHost comes after the room.
OpenRoom ==
  /\ \E code \in Codes, name \in Names : CreateRoom(Home, code, name)
  /\ UNCHANGED dvars

-----------------------------------------------------------------------------
Server == \E s \in Slots : ServerSaves(s) \/ ServerAnswers(s)

Dispatcher == TimerFires \/ LogRead \/ \E s \in Slots : Attempt(s)

DispatcherNext ==
  \/ StateChanges \/ AskDraw \/ RoundAnnounced \/ BeginDrawing \/ SubmitStroke \/ EndGame
  \/ Dispatcher
  \/ LogFails \/ RequestLost
  \/ \E s \in Slots : AnswerLost(s)
  \/ Server
  \/ OpenRoom

\* Timers fire, the log answers, and the server serves what reached it; nobody has to
\* play, and nothing has to be lost.
DispatcherSpec ==
  /\ DispatcherInit /\ [][DispatcherNext]_allVars
  /\ WF_allVars(Dispatcher)
  /\ WF_allVars(Server)

-----------------------------------------------------------------------------
\* Properties

Bodies == [version : 0..MaxVersion, status : Statuses, round : 0..MaxRounds,
           index : 0..RoundStrokes, tail : SUBSET (0..RoundStrokes - 1)]
Packets == [body : Bodies, strokes : 0..RoundStrokes, awaited : BOOLEAN]

\* Types; and a page waits exactly when one, and only one, of its posts is awaited:
\* a flush is never posted twice at a time unless an answer was lost.
DispatcherTypeOK ==
  /\ play \in [status : Statuses, index : Seq(Nat), drawn : Seq(0..RoundStrokes), asked : Nat]
  /\ disp \in [since : Nat, pending : BOOLEAN, flushed : -1..MaxVersion,
               stage : {"idle", "reading", "sending", "waiting"}, body : Bodies,
               tries : 0..Attempts - 1]
  /\ sent \in [Slots -> Packets] /\ kept \in Packets
  /\ \A s \in Slots : sent[s].awaited => disp.stage = "waiting" /\ sent[s].body = disp.body
  /\ Cardinality({s \in Slots : posts[s].stage # "idle"}) <= 1 + lost.answers

\* A page that waits for its posts is one of the careless pages of RoomRegistry: what
\* holds of the registry there holds with the dispatcher in front of it.
ImplementsRegistry == Spec

\* Between posts the room is tagged finished exactly when its snapshot says GAME_OVER,
\* as long as no answer was lost: "unset it on play-again ... so a fresh game isn't
\* reaped early" (handlers_p2p.go 263-269).
FinishedMatchesSnapshot ==
  lost.answers = 0 /\ Home \in live /\ (\A s \in Slots : posts[s].stage = "idle")
    => room[Home].finished = stored[Home].over

\* The log tail of a stored checkpoint has the last strokes its state counts, up to
\* TailSize of them (checkpoint.ts 98-107), unless its round replaced one of the same
\* index that had more strokes, which the log still holds.
TailReachesState ==
  LET body == kept.body
  IN  (\A r \in 1..body.round - 1 :
         play.index[r] = play.index[body.round] => play.drawn[r] <= body.index)
        => \A i \in 0..body.index - 1 : i >= body.index - TailSize => i \in body.tail

\* A dispatcher at rest has begun a flush of the phase the game is in, and missed fewer
\* strokes than two flushes' worth: those drawn during the last flush are not counted any
\* more (strokesSinceFlush = 0 comes after the posts).  During a flush nobody waits for,
\* fewer than Threshold strokes are missing.  The round is the current one, unless it
\* replaced another in ROUND_ANNOUNCE, which changes no status.
NothingForgotten ==
  LET missing == Drawn(play, Len(play.drawn)) - disp.body.index
  IN  disp.stage = "idle" \/ ~disp.pending =>
        /\ disp.body.status = play.status
        /\ disp.body.round = Len(play.drawn) \/ play.status = "ROUND_ANNOUNCE"
        /\ missing <= IF disp.stage = "idle" THEN 2 * (Threshold - 1) ELSE Threshold - 1

\* Each flush is of a newer version than the one before, although a stroke is counted
\* before its version is and one flag stands for all requests made meanwhile: the
\* server's refusal of stale versions hits repeated posts of a flush, never a flush.
FlushesAdvance == disp.stage # "idle" => disp.body.version > disp.flushed

\* A checkpoint is only replaced by one of a later moment of the game: of a round that
\* was announced later, or of the same with as many strokes, however posts and retries
\* overtake each other ("older snapshots are rejected to protect against late writes",
\* manager.go 189-191).  A round announced later need not have a higher index: one that
\* replaced a round is stored over it, with fewer strokes.
CheckpointsAdvance ==
  [][kept' # kept => \/ kept'.body.round > kept.body.round
                    \/ /\ kept'.body.round = kept.body.round
                       /\ kept'.strokes >= kept.strokes
                       /\ kept'.body.index >= kept.body.index]_allVars

\* The last state of the game is stored in the end, unless the storage fails: "30s have
\* elapsed since the last flush and version has advanced" (checkpoint.ts 5) catches what
\* neither strokes nor phases did.
LastStateStored ==
  <>[](failures > 0 \/ stored[Home].version = game[Home].version)
=============================================================================
