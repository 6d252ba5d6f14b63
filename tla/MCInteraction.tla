---------------------------- MODULE MCInteraction ----------------------------
(* Interaction on two blocks, one of which may support the other.             *)
EXTENDS Interaction, TLC

CONSTANTS b1, b2

TwoBlocks == {b1, b2}
Symmetry == Permutations(TwoBlocks)

OneBlock == {b1}
=============================================================================
