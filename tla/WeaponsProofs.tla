--------------------------- MODULE WeaponsProofs ---------------------------
(***************************************************************************)
(* For every table of weapons: types, magazines and the spacing of shots.  *)
(***************************************************************************)
EXTENDS Weapons, TLAPS

USE DEF vars, gun, trigger, fire, grenades, life, match

\* The cooldown that is left is what the last shot's weapon still asks for.
CooldownCounts == cooldown + lastShot.age >= CooldownFrames[lastShot.weapon]

Inv == TypeOK /\ AmmoWithinMagazine /\ CooldownCounts

\* What the tables say of a weapon.
LEMMA TableFacts ==
  ASSUME NEW w \in WeaponIds
  PROVE  /\ AmmoCount[w] \in Nat \ {0} /\ ReloadFrames[w] \in Nat \ {0}
         /\ CooldownFrames[w] \in Nat
         /\ NextWeapon(w) \in WeaponIds
  BY WeaponsAssumption DEF WeaponIds, NextWeapon

LEMMA PistolIsWeapon == Pistol \in WeaponIds
  BY WeaponsAssumption DEF Pistol, WeaponIds

\* A reload takes at least one frame.
LEMMA ReloadTimeFact ==
  ASSUME TypeOK
  PROVE  ReloadTime \in Nat \ {0}
  <1>1. ReloadFrames[weapon] \in Nat \ {0}
    BY TableFacts DEF TypeOK
  <1> DEFINE n == ReloadFrames[weapon]
  <1>2. n - n \div 4 \in Nat \ {0}
    <2> HIDE DEF n
    <2>1. n \in Nat \ {0}
      BY <1>1 DEF n
    <2>2. QED
      BY <2>1
  <1>3. QED
    BY <1>1, <1>2 DEF ReloadTime

LEMMA InitInv == Init => Inv
  <1> SUFFICES ASSUME Init PROVE Inv
    OBVIOUS
  <1>1. weapon \in WeaponIds /\ AmmoCount[weapon] \in Nat \ {0} /\ CooldownFrames[weapon] \in Nat
    BY TableFacts DEF Init
  <1>2. TypeOK
    <2>1. /\ lastShot \in [weapon : WeaponIds, age : Nat]
          /\ lastShot.age <= CooldownFrames[lastShot.weapon]
      BY <1>1 DEF Init
    <2>2. /\ throwables \in 0 .. NumThrowables /\ throwCooldown \in 0 .. ThrowFrames
          /\ switchCooldown \in 0 .. SwitchFrames /\ kills \in 0 .. MaxKills
      BY WeaponsAssumption DEF Init
    <2>3. ammo \in Nat /\ cooldown \in Nat /\ reloadLeft \in Nat
      BY <1>1 DEF Init
    <2>4. QED
      BY <1>1, <2>1, <2>2, <2>3 DEF Init, TypeOK
  <1>3. AmmoWithinMagazine /\ CooldownCounts
    BY <1>1 DEF Init, AmmoWithinMagazine, CooldownCounts
  <1>4. QED
    BY <1>2, <1>3 DEF Inv

LEMMA CooldownsInv ==
  ASSUME Inv, UpdateCooldowns
  PROVE  Inv'
  <1> DEFINE left == IF reloading THEN saturating_sub(reloadLeft) ELSE reloadLeft
             w == lastShot.weapon
             age == lastShot.age
  <1>1. TypeOK /\ AmmoWithinMagazine /\ CooldownCounts
    BY DEF Inv
  <1>2. /\ AmmoCount[weapon] \in Nat \ {0} /\ NextWeapon(weapon) \in WeaponIds
        /\ AmmoCount[NextWeapon(weapon)] \in Nat \ {0}
    BY <1>1, TableFacts DEF TypeOK
  <1>3. w \in WeaponIds /\ age \in Nat /\ CooldownFrames[w] \in Nat /\ age <= CooldownFrames[w]
    BY <1>1, TableFacts DEF TypeOK
  <1>4. /\ lastShot'.weapon = w
        /\ lastShot'.age = IF age < CooldownFrames[w] THEN age + 1 ELSE age
        /\ lastShot' \in [weapon : WeaponIds, age : Nat]
    <2>1. lastShot \in [weapon : WeaponIds, age : Nat]
      BY <1>1 DEF TypeOK
    <2>2. CASE age < CooldownFrames[w]
      <3>1. lastShot' = [lastShot EXCEPT !.age = age + 1]
        BY <2>2 DEF UpdateCooldowns, AmmoAfter
      <3>2. QED
        BY <1>3, <2>1, <2>2, <3>1
    <2>3. CASE ~(age < CooldownFrames[w])
      <3>1. lastShot' = lastShot
        BY <2>3 DEF UpdateCooldowns, AmmoAfter
      <3>2. QED
        BY <2>1, <2>3, <3>1
    <2>4. QED
      BY <2>2, <2>3
  <1>5. cooldown \in Nat /\ cooldown' = IF cooldown = 0 THEN 0 ELSE cooldown - 1
    BY <1>1 DEF TypeOK, UpdateCooldowns, AmmoAfter, saturating_sub
  <1>6. CooldownCounts'
    <2>1. cooldown + age >= CooldownFrames[w]
      BY <1>1 DEF CooldownCounts
    <2>2. cooldown' + lastShot'.age >= CooldownFrames[w]
      BY <1>3, <1>4, <1>5, <2>1
    <2>3. QED
      BY <1>4, <2>2 DEF CooldownCounts
  <1>7. AmmoWithinMagazine'
    BY <1>1, <1>2 DEF AmmoWithinMagazine, UpdateCooldowns, AmmoAfter, TypeOK
  <1>8. /\ reloadLeft' = left /\ left \in Nat /\ reloading' = (reloading /\ ~(left = 0))
    BY <1>1 DEF UpdateCooldowns, AmmoAfter, TypeOK, saturating_sub
  <1>9. /\ ammo' \in Nat /\ weapon' \in WeaponIds
    BY <1>1, <1>2 DEF UpdateCooldowns, AmmoAfter, TypeOK
  <1>10. throwCooldown' \in 0 .. ThrowFrames /\ switchCooldown' \in 0 .. SwitchFrames
    BY <1>1, WeaponsAssumption DEF UpdateCooldowns, AmmoAfter, TypeOK, saturating_sub
  <1>11. cooldown' \in Nat /\ lastShot'.age <= CooldownFrames[lastShot'.weapon]
    BY <1>3, <1>4, <1>5
  <1>12. TypeOK'
    <2>1. /\ stage' = "input" /\ throwables' = throwables /\ shooting' = shooting
          /\ equipped' = equipped /\ alive' = alive /\ kills' = kills /\ rank' = rank
          /\ gunGame' = gunGame
      BY DEF UpdateCooldowns, AmmoAfter
    <2> HIDE DEF left
    <2>2. reloading' \in BOOLEAN /\ (reloading' => reloadLeft' > 0)
      <3>1. reloading' \in BOOLEAN /\ (reloading' => ~(left = 0))
        BY <1>8, Zenon
      <3>2. ~(left = 0) => reloadLeft' > 0
        BY <1>8
      <3>3. QED
        BY <3>1, <3>2, Zenon
    <2>3. reloadLeft' \in Nat
      BY <1>8
    <2>4. lastShot' \in [weapon : WeaponIds, age : Nat]
      BY <1>4
    <2>5. /\ throwables' \in 0 .. NumThrowables /\ kills' \in 0 .. MaxKills
          /\ rank' \in {NotSynced} \union 0 .. MaxKills
      BY <1>1, <2>1 DEF TypeOK
    <2>6. /\ stage' \in {"cooldowns", "input", "weapons", "end"}
          /\ shooting' \in BOOLEAN /\ alive' \in BOOLEAN /\ gunGame' \in BOOLEAN
          /\ equipped' \in {"Primary", "Tertiary"}
      BY <1>1, <2>1 DEF TypeOK
    <2>7. QED
      BY <1>9, <1>10, <1>11, <2>2, <2>3, <2>4, <2>5, <2>6, Zenon DEF TypeOK
  <1>13. QED
    BY <1>6, <1>7, <1>12 DEF Inv

\* A reload that starts changes neither weapon nor rounds.
LEMMA ReloadInv ==
  ASSUME Inv, Reload \/ UNCHANGED gun
  PROVE  /\ weapon' = weapon /\ ammo' = ammo
         /\ reloading' \in BOOLEAN /\ reloadLeft' \in Nat
         /\ reloading' => reloadLeft' > 0
  <1>1. TypeOK
    BY DEF Inv
  <1>2. ReloadTime \in Nat \ {0}
    BY <1>1, ReloadTimeFact
  <1>3. CASE UNCHANGED gun
    BY <1>1, <1>3 DEF TypeOK
  <1>4. CASE reloading' = TRUE /\ reloadLeft' = ReloadTime /\ UNCHANGED <<weapon, ammo>>
    BY <1>2, <1>4
  <1>5. QED
    BY <1>3, <1>4 DEF Reload

LEMMA InputInv ==
  ASSUME Inv, NEW f \in BOOLEAN, NEW g \in BOOLEAN, NEW r \in BOOLEAN, NEW s \in BOOLEAN,
         KeyboardInput(f, g, r, s)
  PROVE  Inv'
  <1>1. Reload \/ UNCHANGED gun
    BY DEF KeyboardInput
  <1>2. TypeOK'
    BY <1>1, ReloadInv, WeaponsAssumption DEF Inv, TypeOK, KeyboardInput
  <1>3. AmmoWithinMagazine' /\ CooldownCounts'
    BY <1>1, ReloadInv DEF Inv, AmmoWithinMagazine, CooldownCounts, KeyboardInput
  <1>4. QED
    BY <1>2, <1>3 DEF Inv

LEMMA ShootInv ==
  ASSUME Inv, Shoot
  PROVE  Inv'
  <1>1. TypeOK /\ AmmoWithinMagazine
    BY DEF Inv
  <1>2. /\ ammo' = ammo - 1 /\ ammo > 0 /\ weapon' = weapon
        /\ cooldown' = CooldownFrames[weapon] /\ lastShot' = [weapon |-> weapon, age |-> 0]
    BY DEF Shoot
  <1>3. weapon \in WeaponIds /\ CooldownFrames[weapon] \in Nat /\ AmmoCount[weapon] \in Nat
    BY <1>1, TableFacts DEF TypeOK
  <1>4. ammo' \in Nat
    BY <1>1, <1>2 DEF TypeOK
  <1>5. TypeOK'
    BY <1>1, <1>2, <1>3, <1>4 DEF TypeOK, Shoot
  <1>6. CooldownCounts'
    BY <1>2, <1>3 DEF CooldownCounts
  <1>7. AmmoWithinMagazine'
    BY <1>1, <1>2, <1>3, <1>4 DEF AmmoWithinMagazine, Shoot, TypeOK
  <1>8. QED
    BY <1>5, <1>6, <1>7 DEF Inv

LEMMA EndFrameInv ==
  ASSUME Inv, EndFrame
  PROVE  Inv'
  <1>1. TypeOK /\ AmmoWithinMagazine /\ CooldownCounts
    BY DEF Inv
  <1>2. /\ weapon' \in WeaponIds /\ ammo' \in Nat
        /\ (gunGame => kills < NumWeapons) => ammo' <= AmmoCount[weapon']
    <2>1. CASE UNCHANGED <<weapon, ammo>>
      BY <1>1, <2>1 DEF TypeOK, AmmoWithinMagazine
    <2>2. CASE gunGame /\ SetPlayerStats /\ kills < NumWeapons
      <3>1. kills \in WeaponIds /\ weapon' = kills
        BY <1>1, <2>2, WeaponsAssumption DEF TypeOK, SetPlayerStats, WeaponIds
      <3>2. AmmoCount[kills] \in Nat
        BY <3>1, TableFacts
      <3>3. ammo' = IF weapon # kills THEN AmmoCount[kills] ELSE ammo
        BY <2>2 DEF SetPlayerStats
      <3>4. QED
        BY <1>1, <2>2, <3>1, <3>2, <3>3 DEF TypeOK, AmmoWithinMagazine
    <2>3. CASE gunGame /\ SetPlayerStats /\ ~(kills < NumWeapons)
      BY <1>1, <2>3, PistolIsWeapon DEF TypeOK, SetPlayerStats
    <2>4. QED
      BY <2>1, <2>2, <2>3 DEF EndFrame
  <1>3. /\ rank' \in {NotSynced} \union 0 .. MaxKills
        /\ alive' \in BOOLEAN /\ stage' = "cooldowns"
        /\ UNCHANGED <<reloading, reloadLeft, trigger, fire, grenades, switchCooldown, match>>
    BY <1>1 DEF EndFrame, TypeOK
  <1>4. TypeOK'
    BY <1>1, <1>2, <1>3 DEF TypeOK
  <1>5. AmmoWithinMagazine' /\ CooldownCounts'
    BY <1>1, <1>2, <1>3 DEF AmmoWithinMagazine, CooldownCounts
  <1>6. QED
    BY <1>4, <1>5 DEF Inv

LEMMA NextInv ==
  ASSUME Inv, [Next]_vars
  PROVE  Inv'
  <1>1. CASE UpdateCooldowns
    BY <1>1, CooldownsInv
  <1>2. CASE Input
    BY <1>2, InputInv DEF Input
  <1>3. CASE Shoot
    BY <1>3, ShootInv
  <1>4. CASE ShootEmpty
    <2>1. TypeOK'
      BY <1>4, ReloadInv DEF Inv, TypeOK, ShootEmpty
    <2>2. AmmoWithinMagazine' /\ CooldownCounts'
      BY <1>4, ReloadInv DEF Inv, AmmoWithinMagazine, CooldownCounts, ShootEmpty
    <2>3. QED
      BY <2>1, <2>2 DEF Inv
  <1>5. CASE Throw
    <2>1. throwables' \in 0 .. NumThrowables /\ ThrowFrames \in 0 .. ThrowFrames
      BY <1>5, WeaponsAssumption DEF Inv, TypeOK, Throw, CanThrow
    <2>2. QED
      BY <1>5, <2>1 DEF Inv, TypeOK, AmmoWithinMagazine, CooldownCounts, Throw
  <1>6. CASE NotUsed
    BY <1>6 DEF Inv, TypeOK, AmmoWithinMagazine, CooldownCounts, NotUsed
  <1>7. CASE AddKill
    <2>1. kills' \in 0 .. MaxKills /\ kills' = kills + 1 /\ kills \in Nat
      BY <1>7, WeaponsAssumption DEF Inv, TypeOK, AddKill
    <2>2. (gunGame => kills' < NumWeapons) => (gunGame => kills < NumWeapons)
      BY <2>1, WeaponsAssumption
    <2>3. QED
      BY <1>7, <2>1, <2>2 DEF Inv, TypeOK, AmmoWithinMagazine, CooldownCounts, AddKill
  <1>8. CASE Die
    BY <1>8 DEF Inv, TypeOK, AmmoWithinMagazine, CooldownCounts, Die
  <1>9. CASE EndFrame
    BY <1>9, EndFrameInv
  <1>10. CASE UNCHANGED vars
    BY <1>10 DEF Inv, TypeOK, AmmoWithinMagazine, CooldownCounts
  <1>11. QED
    BY <1>1, <1>2, <1>3, <1>4, <1>5, <1>6, <1>7, <1>8, <1>9, <1>10 DEF Next, UseWeapons

-----------------------------------------------------------------------------
\* Every counter stays within the range its table gives it, and a reload that is
\* under way has frames left, so that it can end (update_player_cooldowns, reload).
THEOREM WeaponsTypeCorrect == Spec => []TypeOK
  <1>1. Inv => TypeOK
    BY DEF Inv
  <1>2. QED
    BY <1>1, InitInv, NextInv, PTL DEF Spec

\* No magazine is ever overfull, whatever the weapons (update_player_cooldowns).
THEOREM MagazinesNeverOverfull == Spec => []AmmoWithinMagazine
  <1>1. Inv => AmmoWithinMagazine
    BY DEF Inv
  <1>2. QED
    BY <1>1, InitInv, NextInv, PTL DEF Spec

\* Two shots are as far apart as the weapon of the first asks (shoot).
THEOREM ShotsAreSpaced == Spec => ShotSpacing
  <1>1. Inv /\ Shoot => lastShot.age >= CooldownFrames[lastShot.weapon]
    <2> SUFFICES ASSUME Inv, Shoot PROVE lastShot.age >= CooldownFrames[lastShot.weapon]
      OBVIOUS
    <2>1. lastShot.weapon \in WeaponIds /\ lastShot.age \in Nat
      BY DEF Inv, TypeOK
    <2>2. CooldownFrames[lastShot.weapon] \in Nat
      BY <2>1, TableFacts
    <2>3. cooldown = 0 /\ cooldown + lastShot.age >= CooldownFrames[lastShot.weapon]
      BY DEF Inv, CooldownCounts, Shoot, CanShoot
    <2>4. QED
      BY <2>1, <2>2, <2>3
  <1>2. QED
    BY <1>1, InitInv, NextInv, PTL DEF Spec, ShotSpacing

-----------------------------------------------------------------------------
\* In gun game the weapon held is that of the kills, or was just swapped to and
\* has no round: it is taken back at the end of the frame.
RankHeld ==
    gunGame /\ rank # NotSynced =>
        weapon = RankWeapon(rank) \/ (stage # "cooldowns" /\ ammo = 0)

LEMMA NextRankHeld ==
  ASSUME Inv, RankHeld, [Next]_vars
  PROVE  RankHeld'
  <1> USE DEF RankHeld
  <1>1. TypeOK
    BY DEF Inv
  <1>2. CASE UpdateCooldowns
    BY <1>2 DEF UpdateCooldowns, AmmoAfter, RankWeapon
  <1>3. CASE Input
    <2>1. PICK f, g, r, s \in BOOLEAN : KeyboardInput(f, g, r, s)
      BY <1>3 DEF Input
    <2>2. weapon' = weapon /\ ammo' = ammo
      BY <2>1, ReloadInv DEF KeyboardInput
    <2>3. QED
      BY <2>1, <2>2 DEF KeyboardInput, RankWeapon
  <1>4. CASE Shoot
    BY <1>1, <1>4 DEF Shoot, RankWeapon, TypeOK
  <1>5. CASE ShootEmpty
    <2>1. weapon' = weapon /\ ammo' = ammo
      BY <1>5, ReloadInv DEF ShootEmpty
    <2>2. QED
      BY <1>5, <2>1 DEF ShootEmpty, RankWeapon
  <1>6. CASE Throw \/ NotUsed
    BY <1>6 DEF Throw, NotUsed, RankWeapon
  <1>7. CASE AddKill \/ Die
    BY <1>7 DEF AddKill, Die, RankWeapon
  <1>8. CASE EndFrame
    BY <1>8 DEF EndFrame, SetPlayerStats, RankWeapon
  <1>9. CASE UNCHANGED vars
    BY <1>9 DEF RankWeapon
  <1>10. QED
    BY <1>2, <1>3, <1>4, <1>5, <1>6, <1>7, <1>8, <1>9 DEF Next, UseWeapons

\* In gun game nobody shoots with a weapon his kills did not earn him: a swap
\* never gets him a shot of the next one (update_player_cooldowns, set_player_stats).
THEOREM ShotsAreOfRank == Spec => GunGameShots
  <1>1. Init => RankHeld
    BY DEF Init, RankHeld
  <1>2. Inv /\ RankHeld /\ [Next]_vars => RankHeld'
    BY NextRankHeld
  <1>3. RankHeld => (gunGame /\ rank # NotSynced /\ Shoot => weapon = RankWeapon(rank))
    BY DEF RankHeld, Shoot
  <1>4. QED
    BY <1>1, <1>2, <1>3, InitInv, NextInv, PTL DEF Spec, GunGameShots
=============================================================================
