---------------------------- MODULE MCSignalHub ----------------------------
(* Three connections: ann opens two (a page that reloads), bob one.          *)
EXTENDS SignalHub

CONSTANTS a1, a2, b1, ann, bob, red, blue

TwoPlayers == {ann, bob}
Reload == {a1, a2, b1}

WhoReloads == [c \in Reload |-> IF c = b1 THEN bob ELSE ann]

\* Both in one room, or each in a room of its own.
OneRoom == [c \in Reload |-> red]
OwnRooms == [c \in Reload |-> IF c = b1 THEN blue ELSE red]
=============================================================================
