------------------------------ MODULE Weapons ------------------------------
(***************************************************************************)
(* The weapons of one player in his own process, frame by frame: magazine, *)
(* reload, weapon swap, shooting and grenades (src/player.c, src/input.c,  *)
(* shoot of src/projectile.c) and what the game mode does to them at the   *)
(* end of each frame (sync_players_to_teams, set_player_stats).            *)
(*                                                                         *)
(* Four counters run down independently, a reload and a swap may be under  *)
(* way together, and in gun game the weapon may change under both. What    *)
(* the player kills, and when he dies and returns, is left open: the       *)
(* module Replication models that.                                         *)
(***************************************************************************)
EXTENDS Integers

CONSTANTS
    NumWeapons,      \* NUM_WEAPONS; weapons are numbered from 0, the pistol
    AmmoCount,       \* get_ammo_count: rounds in a full magazine
    ReloadFrames,    \* get_num_reload_frames
    CooldownFrames,  \* get_cooldown_frames: frames between two shots
    SwitchFrames,    \* frames a weapon swap takes (30)
    ThrowFrames,     \* frames between two throws (80)
    NumThrowables,   \* grenades a player starts with (3)
    MaxKills         \* bound: kills the player makes in the match

Pistol == 0
WeaponIds == 0 .. NumWeapons - 1

ASSUME WeaponsAssumption ==
    /\ NumWeapons \in Nat \ {0}
    /\ AmmoCount \in [WeaponIds -> Nat \ {0}]
    /\ ReloadFrames \in [WeaponIds -> Nat \ {0}]
    /\ CooldownFrames \in [WeaponIds -> Nat]
    /\ SwitchFrames \in Nat \ {0}
    /\ ThrowFrames \in Nat /\ NumThrowables \in Nat /\ MaxKills \in Nat

NotSynced == -1

VARIABLES
    stage,          \* the part of the frame that comes next
    weapon, ammo, reloading, throwables, shooting, equipped,
    reloadLeft,     \* remaining_reload_frames
    cooldown,       \* remaining_shooting_cooldown_frames
    throwCooldown,  \* remaining_throwable_cooldown_frames
    switchCooldown, \* weapon_switch_cooldown
    alive,          \* health > 0
    gunGame,        \* the mode of the match is gun game
    kills,          \* num_kills; counted in gun game, where they matter here
    rank,           \* history: the kills at the last synchronisation
    lastShot        \* history: the weapon of the last shot, and the frames
                    \* since then (no more than its cooldown is counted)

gun == <<weapon, ammo, reloading, reloadLeft>>
trigger == <<shooting, equipped>>
fire == <<cooldown, lastShot>>
grenades == <<throwables, throwCooldown>>
match == <<kills, gunGame>>
life == <<alive, rank, match>>
vars == <<stage, gun, trigger, fire, grenades, switchCooldown, life>>

TypeOK ==
    /\ stage \in {"cooldowns", "input", "weapons", "end"}
    /\ weapon \in WeaponIds
    /\ ammo \in Nat
    /\ reloading \in BOOLEAN /\ shooting \in BOOLEAN
    /\ alive \in BOOLEAN /\ gunGame \in BOOLEAN
    /\ equipped \in {"Primary", "Tertiary"}
    /\ throwables \in 0 .. NumThrowables
    /\ reloadLeft \in Nat
    /\ cooldown \in Nat
    /\ throwCooldown \in 0 .. ThrowFrames
    /\ switchCooldown \in 0 .. SwitchFrames
    /\ kills \in 0 .. MaxKills
    /\ rank \in {NotSynced} \union 0 .. MaxKills
    /\ lastShot \in [weapon : WeaponIds, age : Nat]
    /\ lastShot.age <= CooldownFrames[lastShot.weapon]
    /\ reloading => reloadLeft > 0

Init ==
    /\ stage = "cooldowns"
    /\ weapon \in WeaponIds
    /\ ammo = AmmoCount[weapon]
    /\ reloading = FALSE /\ reloadLeft = 0
    /\ shooting = FALSE /\ equipped = "Primary"
    /\ cooldown = 0 /\ throwCooldown = 0 /\ switchCooldown = 0
    /\ throwables = NumThrowables
    /\ alive = TRUE /\ gunGame \in BOOLEAN /\ kills = 0 /\ rank = NotSynced
    /\ lastShot = [weapon |-> weapon, age |-> CooldownFrames[weapon]]

\* Mutant of saturating_sub: it goes below zero.
wrapping_sub(n) == n - 1

saturating_sub(n) == IF n = 0 THEN 0 ELSE n - 1

NextWeapon(w) == IF w = NumWeapons - 1 THEN 0 ELSE w + 1

\* Mutant of AmmoAfter: a swap keeps the rounds.
AmmoKept(loaded, swapped) == IF loaded THEN AmmoCount[weapon] ELSE ammo

\* Mutant of AmmoAfter: a reload loads nothing.
AmmoNotLoaded(loaded, swapped) == IF swapped THEN 0 ELSE ammo

\* A reload that ends fills the magazine of the weapon held by then, a swap that
\* ends empties it.
AmmoAfter(loaded, swapped) ==
    IF swapped THEN 0 ELSE IF loaded THEN AmmoCount[weapon] ELSE ammo

\* update_player_cooldowns
UpdateCooldowns ==
    LET left == IF reloading THEN saturating_sub(reloadLeft) ELSE reloadLeft
        loaded == reloading /\ left = 0
        swapped == switchCooldown = 1
    IN
    /\ stage = "cooldowns" /\ stage' = "input"
    /\ cooldown' = saturating_sub(cooldown)
    /\ throwCooldown' = saturating_sub(throwCooldown)
    /\ switchCooldown' = saturating_sub(switchCooldown)
    /\ reloadLeft' = left
    /\ reloading' = (reloading /\ ~loaded)
    /\ weapon' = IF swapped THEN NextWeapon(weapon) ELSE weapon
    /\ ammo' = AmmoAfter(loaded, swapped)
    /\ lastShot' = IF lastShot.age < CooldownFrames[lastShot.weapon]
                   THEN [lastShot EXCEPT !.age = @ + 1] ELSE lastShot
    /\ UNCHANGED <<trigger, throwables, life>>

\* reload: an empty magazine takes longer than one with rounds left.
ReloadTime ==
    IF ammo > 0 THEN ReloadFrames[weapon] - ReloadFrames[weapon] \div 4
    ELSE ReloadFrames[weapon]

\* Mutant of Reload: a running reload starts anew.
ReloadRestarts ==
    IF ammo >= AmmoCount[weapon] \/ switchCooldown > 0
    THEN UNCHANGED gun
    ELSE /\ reloading' = TRUE /\ reloadLeft' = ReloadTime
         /\ UNCHANGED <<weapon, ammo>>

Reload ==
    IF reloading \/ ammo >= AmmoCount[weapon] \/ switchCooldown > 0
    THEN UNCHANGED gun
    ELSE /\ reloading' = TRUE /\ reloadLeft' = ReloadTime
         /\ UNCHANGED <<weapon, ammo>>

\* keyboard_input: the keys held in this frame. The swap key held for several
\* frames starts the swap anew in each.
KeyboardInput(fireKey, throwKey, reloadKey, switchKey) ==
    /\ stage = "input" /\ stage' = "weapons"
    /\ equipped' = IF throwKey THEN "Tertiary" ELSE IF fireKey THEN "Primary" ELSE equipped
    /\ shooting' = (fireKey \/ throwKey)
    /\ IF reloadKey THEN Reload ELSE UNCHANGED gun
    /\ switchCooldown' = IF switchKey THEN SwitchFrames ELSE switchCooldown
    /\ UNCHANGED <<fire, grenades, life>>

Input == \E f, g, r, s \in BOOLEAN : KeyboardInput(f, g, r, s)

\* What shoot asks of both kinds of weapon, and of the primary one.
CanUse == shooting /\ alive /\ switchCooldown = 0

\* Mutant of CanShoot: the cooldown is not asked.
CanShootAtOnce == CanUse /\ equipped = "Primary" /\ ~reloading

CanShoot == CanUse /\ equipped = "Primary" /\ cooldown = 0 /\ ~reloading

\* Mutant of CanThrow: off by one.
CanThrowButOne == CanUse /\ equipped = "Tertiary" /\ throwCooldown = 0 /\ throwables > 1

CanThrow == CanUse /\ equipped = "Tertiary" /\ throwCooldown = 0 /\ throwables > 0

\* shoot: one round.
Shoot ==
    /\ stage = "weapons" /\ stage' = "end"
    /\ CanShoot /\ ammo > 0
    /\ ammo' = ammo - 1
    /\ cooldown' = CooldownFrames[weapon]
    /\ lastShot' = [weapon |-> weapon, age |-> 0]
    /\ UNCHANGED <<weapon, reloading, reloadLeft, trigger, grenades, switchCooldown, life>>

\* shoot with an empty magazine reloads it.
ShootEmpty ==
    /\ stage = "weapons" /\ stage' = "end"
    /\ CanShoot /\ ammo = 0
    /\ Reload
    /\ UNCHANGED <<trigger, fire, grenades, switchCooldown, life>>

\* shoot: one grenade.
Throw ==
    /\ stage = "weapons" /\ stage' = "end"
    /\ CanThrow
    /\ throwables' = throwables - 1
    /\ throwCooldown' = ThrowFrames
    /\ UNCHANGED <<gun, trigger, fire, switchCooldown, life>>

\* No trigger held, or shoot returns early.
NotUsed ==
    /\ stage = "weapons" /\ stage' = "end"
    /\ ~CanShoot /\ ~CanThrow
    /\ UNCHANGED <<gun, trigger, fire, grenades, switchCooldown, life>>

UseWeapons == Shoot \/ ShootEmpty \/ Throw \/ NotUsed

\* add_kill: a victim dies in a datagram (before use_weapons) or by a
\* projectile (after it).
AddKill ==
    /\ stage \in {"weapons", "end"} /\ gunGame /\ kills < MaxKills
    /\ kills' = kills + 1
    /\ UNCHANGED <<stage, gun, trigger, fire, grenades, switchCooldown, alive, rank, gunGame>>

\* damage_player: the player himself is killed.
Die ==
    /\ stage = "end" /\ alive
    /\ alive' = FALSE
    /\ UNCHANGED <<stage, gun, trigger, fire, grenades, switchCooldown, match, rank>>

\* set_player_stats of gun game: each kill brings the next weapon, with a full
\* magazine; after the last one it is the pistol.
SetPlayerStats ==
    IF kills < NumWeapons
    THEN /\ weapon' = kills
         /\ ammo' = IF weapon # kills THEN AmmoCount[kills] ELSE ammo
    ELSE weapon' = Pistol /\ UNCHANGED ammo

\* respawn_players and sync_players_to_teams. A client has no team before the
\* server gave it one; from then on it is synchronised in every frame.
EndFrame ==
    /\ stage = "end" /\ stage' = "cooldowns"
    /\ \/ /\ rank' = kills
          /\ IF gunGame THEN SetPlayerStats ELSE UNCHANGED <<weapon, ammo>>
       \/ /\ rank = NotSynced
          /\ UNCHANGED <<rank, weapon, ammo>>
    /\ alive' \in {alive, TRUE}
    /\ UNCHANGED <<reloading, reloadLeft, trigger, fire, grenades, switchCooldown, match>>

Next == UpdateCooldowns \/ Input \/ UseWeapons \/ AddKill \/ Die \/ EndFrame

Spec == Init /\ [][Next]_vars

\* The frame loop goes on.
FairSpec ==
    Spec /\ WF_vars(UpdateCooldowns) /\ WF_vars(Input) /\ WF_vars(UseWeapons) /\ WF_vars(EndFrame)

-----------------------------------------------------------------------------
\* The magazine never holds more rounds than the weapon takes, whatever swap,
\* reload or new gun-game weapon comes in between (update_player_cooldowns,
\* shoot, set_player_stats). Only the pistol that comes with the last kill of a
\* gun-game match is handed over with the rounds of the weapon before.
AmmoWithinMagazine ==
    (gunGame => kills < NumWeapons) => ammo <= AmmoCount[weapon]

\* Two shots are as many frames apart as the weapon of the first asks, even if
\* the weapon was swapped or replaced in between (shoot).
ShotSpacing ==
    [][Shoot => lastShot.age >= CooldownFrames[lastShot.weapon]]_vars

\* The gun-game weapon of so many kills.
RankWeapon(k) == IF k < NumWeapons THEN k ELSE Pistol

\* In gun game no swap gets a player a shot of a weapon other than the one his
\* kills earned him by the end of the last frame (set_player_stats).
GunGameShots ==
    [][gunGame /\ rank # NotSynced /\ Shoot => weapon = RankWeapon(rank)]_vars

\* The keys the player holds from some point on.
Holds(index) ==
    <>[](stage = "weapons" =>
            shooting /\ equipped = index /\ alive /\ switchCooldown # SwitchFrames)

\* Who stays alive and holds the fire button shoots again and again: no mix of
\* reload, swap and cooldown leaves him with a weapon that never fires (shoot).
HoldingFireShoots == Holds("Primary") => []<><<Shoot>>_vars

\* Who holds the throw key throws all his grenades (shoot).
HoldingThrowThrows == Holds("Tertiary") => <>(throwables = 0)

\* A reload ends, whatever keys are held (update_player_cooldowns).
ReloadEnds == reloading ~> ~reloading
=============================================================================
