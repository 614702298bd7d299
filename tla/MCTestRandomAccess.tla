------------------------- MODULE MCTestRandomAccess -------------------------
(* The instance of TestRandomAccess for TLC: a guest with two experiments   *)
(* beside one that only runs.                                               *)
EXTENDS TestRandomAccess

CONSTANTS g1, g2

TwoAndNone == [g \in Guests |-> IF g = g1 THEN 2 ELSE 0]
=============================================================================
