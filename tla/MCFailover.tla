----------------------------- MODULE MCFailover -----------------------------
(* ann before bob before cyd in the order of the ids.                        *)
EXTENDS Failover

CONSTANTS ann, bob, cyd

ById == [p \in Names |-> IF p = ann THEN 1 ELSE IF p = bob THEN 2 ELSE 3]

\* A new round has a newer version and fewer strokes.
TwoFloors == {<<1, 0>>, <<2, -1>>}
=============================================================================
