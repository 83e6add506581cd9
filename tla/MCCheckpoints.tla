--------------------------- MODULE MCCheckpoints ----------------------------
(* One host page, two posts at the server at a time.                         *)
EXTENDS CheckpointDispatcher

CONSTANT ann

ById == [p \in Names |-> 1]
=============================================================================
