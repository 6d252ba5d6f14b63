-------------------------------- MODULE MCFight --------------------------------
(***************************************************************************)
(* The clutch over solid ground, over water under a plant, and over chunks  *)
(* that are not loaded.                                                     *)
(***************************************************************************)
EXTENDS Fight

MCColumns == { <<"air", "stone">>, <<"grass", "water">>, <<"air", "unloaded">> }
=============================================================================
