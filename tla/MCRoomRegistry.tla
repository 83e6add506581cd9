--------------------------- MODULE MCRoomRegistry ---------------------------
(* One person creates every room; rooms and slots are interchangeable.       *)
EXTENDS RoomRegistry, TLC

CONSTANT ann

ById == [p \in Names |-> 1]

Symmetry == Permutations(RoomIds) \cup Permutations(Slots)
=============================================================================
