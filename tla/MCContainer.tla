----------------------------- MODULE MCContainer -----------------------------
(* Container with stacks small enough to enumerate every menu.                *)
EXTENDS Container

CONSTANT c1

OneChest == {c1}

\* Stacks to split over two rooms, rooms to fill from two stacks, an empty slot, a
\* full one.
Telling == {<<3, 1, 2, 0>>, <<2, 3, 1, 2>>}
=============================================================================
