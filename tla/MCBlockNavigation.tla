-------------------------- MODULE MCBlockNavigation --------------------------
(* BlockNavigation on two blocks with two approach cells each, fewer          *)
(* attempts than targets, and a low-water mark the cache crosses.             *)
EXTENDS BlockNavigation

CONSTANTS b1, b2

TwoBlocks == {b1, b2}
=============================================================================
