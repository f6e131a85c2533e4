--------------------------- MODULE MCProjectiles ---------------------------
(***************************************************************************)
(* Projectiles with two hits to kill; a sniper bullet kills at once, and   *)
(* a grenade does anything from nothing to killing.                        *)
(***************************************************************************)
EXTENDS Projectiles, TLC

CONSTANTS red, blue

TwoTeams == {red, blue}

\* The teams of a match are interchangeable.
SameTeams == Permutations(TwoTeams)

Hits ==
    [type \in Types |->
       CASE type = "StandardBullet" -> {1}
         [] type = "SniperBullet" -> {2}
         [] type = "GrenadeProj" -> {0, 2}]
=============================================================================
