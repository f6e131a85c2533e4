----------------------------- MODULE MCAbility -----------------------------
(***************************************************************************)
(* Ability with the frame numbers of the code: nothing is scaled down.     *)
(***************************************************************************)
EXTENDS Ability

AllAbilities == {"Warp", "Stim", "Cloak"}
=============================================================================
