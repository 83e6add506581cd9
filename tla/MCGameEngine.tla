---------------------------- MODULE MCGameEngine ----------------------------
(* Small tables for TLC.  The default configuration is the one of models.ts, *)
(* so each game starts with a CONFIGURE_GAME that fits the small table.      *)
EXTENDS GameEngine, TLC

MCDefaults == [target |-> 5, strokes |-> 2, min |-> 4, server |-> TRUE]

\* P2pSolo builds its engine with a game for a single player and no drawer.
MCSolo == [target |-> 3, strokes |-> 2, min |-> 1, server |-> FALSE]

TableOptions == {MCDefaults}
AllOptions   == {MCDefaults, MCSolo}

\* Short game: one stroke each, two players suffice, two points win.
ShortGame == {[target |-> 2, strokes |-> 1, min |-> 2]}

\* One setting at a time, the others left alone.
StepwiseGame == {[target |-> 1, strokes |-> 0, min |-> 0],
                 [target |-> 0, strokes |-> 1, min |-> 2]}

\* Players and cards are interchangeable: the engine only compares their ids.
Symmetry == Permutations(Players) \cup Permutations(Cards)
=============================================================================
