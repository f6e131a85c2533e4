----------------------------- MODULE MCWeapons -----------------------------
(***************************************************************************)
(* Weapons with the four weapons of src/weapon.c, their frames divided by  *)
(* 30 and their magazines cut down, both in the order of the original.     *)
(***************************************************************************)
EXTENDS Weapons

\* Pistol, assault rifle, shotgun, sniper rifle.
Table(pistol, assaultRifle, shotgun, sniper) ==
    [w \in 0 .. 3 |-> CASE w = 0 -> pistol [] w = 1 -> assaultRifle
                        [] w = 2 -> shotgun [] w = 3 -> sniper]

Magazines == Table(2, 3, 2, 1)
ReloadTimes == Table(2, 4, 6, 10)
Cooldowns == Table(1, 1, 2, 3)
=============================================================================
