---------------------------- MODULE MCPathSearch ----------------------------
(* A slice of ground, a wall to cross, and two cells that may be anything.   *)
EXTENDS PathSearch

Slice ==
  [c \in Cells |-> IF c[2] = 0 \/ (c[1] = 2 /\ c[2] = 1) THEN "Solid" ELSE "Air"]

Oddities == {"Unknown", "Water", "Lava", "Hazard", "Air", "Unbreakable", "Climbable"}

Near == {c \in Cells : c[1] = 1 /\ c[2] < 3}
Far == {c \in Cells : c[1] = 2 /\ c[2] < 4}

MCTerrains ==
  {[Slice EXCEPT ![a] = x, ![b] = y] : a \in Near, b \in Far, x \in Oddities, y \in Oddities}

MCStart == <<0, 1, 0>>
MCTarget == <<3, 1, 0>>

DefaultCosts ==
  [walk |-> 10, diagonal |-> 14, jump |-> 18, drop |-> 11, maxSafeDrop |-> 3,
   fallDamage |-> 200, swim |-> 30, break |-> 60, bridge |-> 80, climb |-> 25,
   hazard |-> 400, lava |-> 2000, proximity |-> 60, ledge |-> 10, entity |-> 250]

DefaultPolicy ==
  [breaking |-> TRUE, bridging |-> TRUE, maxDrop |-> 8, swimming |-> TRUE, lava |-> FALSE]

OneHostile == {[at |-> <<1, 1, 0>>, radius |-> 1]}
=============================================================================
