---------------------------- MODULE Projectiles ----------------------------
(***************************************************************************)
(* Projectiles in one process: shoot, update_projectiles, damage_player    *)
(* and add_kill of src/projectile.c, between the datagrams that come       *)
(* before them in a frame and the respawns that come after.                *)
(*                                                                         *)
(* update_projectiles copies the projectiles that fly on into a new list,  *)
(* one by one, and asks for each of them every player, slot by slot: one   *)
(* step is one player asked. Several projectiles may reach a player in one *)
(* frame. Where things are is left open: a projectile may be in a wall,    *)
(* and touch a player, in any frame.                                       *)
(***************************************************************************)
EXTENDS Integers, Sequences, FiniteSets

CONSTANTS
    NumSlots,       \* num_players
    Bots,           \* the slots of the bots, if the process hosts
    Teams,          \* the ids of the teams, not 0
    TeamKilling,    \* team_killing of the game mode
    MaxHealth,      \* PLAYER_MAX_HEALTH
    Damage,         \* of each type: what a hit may take
    NumPellets,     \* NUM_SHOTGUN_PROJECTILES
    FramesTillExplosion,
    MaxProjectiles, \* bound: projectiles in flight
    MaxKills,       \* bound: kills of one player
    Copies          \* bound: the slots that players of other processes come to

Slots == 1 .. NumSlots
Own == 1
Types == {"StandardBullet", "SniperBullet", "GrenadeProj"}
Nobody == 0
NoTeam == 0

ASSUME ProjectilesAssumption ==
    /\ NumSlots \in Nat \ {0}
    /\ Bots \subseteq Slots \ {Own} /\ Copies \subseteq Slots \ ({Own} \cup Bots)
    /\ NoTeam \notin Teams
    /\ TeamKilling \in BOOLEAN
    /\ MaxHealth \in Nat \ {0}
    /\ Damage \in [Types -> SUBSET Nat]
    /\ NumPellets \in Nat \ {0} /\ FramesTillExplosion \in Nat \ {0}
    /\ MaxProjectiles \in Nat /\ MaxKills \in Nat

VARIABLES
    stage,      \* how far the frame is
    flying,     \* the projectiles, in update_projectiles those still to come
    kept,       \* buff_projectile_list
    current,    \* in update_projectiles: the projectile, or none
    slot,       \* the player it asks next
    wall,       \* collided_with_map
    collision,  \* player_collision
    health,
    lastHurt,   \* last_hurt_by
    kills,      \* num_kills
    team, assigned,
    hosting     \* the process hosts the match

lists == <<flying, kept, current>>
loop == <<slot, wall, collision>>
harm == <<health, lastHurt, kills>>
roster == <<team, assigned, hosting>>
vars == <<stage, lists, loop, harm, roster>>

\* hurt is a history: the players it has hurt, unless it is a sniper's. Only the age of grenades is asked.
Projectile ==
    [type : Types, by : Slots, team : Teams \cup {NoTeam}, age : 0 .. FramesTillExplosion,
     hurt : SUBSET Slots]
None == [type |-> "none"]

\* The slots of the players that are not net players.
Mine == IF hosting THEN {Own} \cup Bots ELSE {Own}

TypeOK ==
    /\ stage \in {"network", "weapons", "update", "respawn"}
    /\ flying \in Seq(Projectile) /\ kept \in Seq(Projectile)
    /\ current \in Projectile \cup {None}
    /\ slot \in 1 .. NumSlots + 1
    /\ wall \in BOOLEAN /\ collision \in BOOLEAN
    /\ health \in [Slots -> 0 .. MaxHealth]
    /\ lastHurt \in [Slots -> Slots \cup {Nobody}]
    /\ kills \in [Slots -> 0 .. MaxKills]
    /\ team \in [Slots -> Teams \cup {NoTeam}] /\ assigned \in SUBSET Slots /\ hosting \in BOOLEAN
    /\ stage # "update" => current = None /\ kept = <<>>

\* enter_in_game and add_player_to_team: the host gives himself and the bots a
\* team, a client has none yet. The slots of copies are free.
Init ==
    /\ stage = "network"
    /\ flying = <<>> /\ kept = <<>> /\ current = None
    /\ slot = 1 /\ wall = FALSE /\ collision = FALSE
    /\ hosting \in BOOLEAN /\ assigned = Mine
    /\ health = [p \in Slots |-> IF p \in Mine THEN MaxHealth ELSE 0]
    /\ lastHurt = [p \in Slots |-> Nobody]
    /\ kills = [p \in Slots |-> 0]
    /\ \E given \in [Bots \cup {Own} -> Teams] :
         team = [p \in Slots |-> IF hosting /\ p \in Mine THEN given[p] ELSE NoTeam]

\* add_kill
KillsAfter(victim, killer) ==
    IF killer = victim THEN kills ELSE [kills EXCEPT ![killer] = @ + 1]

KillsInBound(killer) == kills[killer] < MaxKills

(***************************************************************************)
(* Before the projectiles: datagrams and weapons.                          *)
(***************************************************************************)

\* process_net_packets: the record of a copy. It gets a team with its first record
\* and keeps it; a kill is counted when it dies. Whom the record of a living player
\* names is not kept here: nothing asks for it before the next record. (Replication has the
\* records whose killer has no slot.)
Receive(p, h, k, t) ==
    LET dies == health[p] > 0 /\ h = 0 IN
    /\ stage \in {"respawn", "network"} /\ stage' = "network"
    /\ p \in assigned => t = team[p]
    /\ dies => k \in assigned /\ KillsInBound(k)
    /\ assigned' = assigned \cup {p}
    /\ health' = [health EXCEPT ![p] = h]
    /\ lastHurt' = [lastHurt EXCEPT ![p] = IF h = 0 THEN k ELSE Nobody]
    /\ team' = [team EXCEPT ![p] = t]
    /\ kills' = IF dies THEN KillsAfter(p, k) ELSE kills
    /\ UNCHANGED <<lists, loop, hosting>>

\* process_net_packets: the own record tells a client its team.
ReceiveOwn(t) ==
    /\ stage \in {"respawn", "network"} /\ stage' = "network"
    /\ ~hosting /\ team[Own] = NoTeam
    /\ team' = [team EXCEPT ![Own] = t]
    /\ UNCHANGED <<lists, loop, harm, assigned, hosting>>

\* new_projectile: it remembers the shooter and the team he has now.
NewProjectile(p, type) ==
    [type |-> type, by |-> p, team |-> team[p], age |-> 0, hurt |-> {}]

\* shoot, for copies too: a bullet, or all pellets of a shotgun.
Shoot(p, type, n) ==
    /\ stage # "update" /\ stage' = "weapons"
    /\ p \in assigned /\ health[p] > 0
    /\ Len(flying) + n <= MaxProjectiles
    /\ flying' = flying \o [i \in 1 .. n |-> NewProjectile(p, type)]
    /\ UNCHANGED <<kept, current, loop, harm, roster>>

(***************************************************************************)
(* update_projectiles.                                                     *)
(***************************************************************************)
BeginUpdate ==
    /\ stage # "update" /\ stage' = "update"
    /\ UNCHANGED <<lists, loop, harm, roster>>

Explodes(projectile) == projectile.age >= FramesTillExplosion

Older(projectile) ==
    IF projectile.type = "GrenadeProj" THEN [projectile EXCEPT !.age = @ + 1] ELSE projectile

\* The next projectile. A bullet in a wall, or a grenade before its time, asks
\* no player.
NextProjectile ==
    LET next == Older(Head(flying)) IN
    /\ stage = "update" /\ current = None /\ flying # <<>>
    /\ current' = next /\ flying' = Tail(flying)
    /\ wall' \in BOOLEAN /\ collision' = FALSE
    /\ slot' = IF IF next.type = "GrenadeProj" THEN Explodes(next) ELSE ~wall'
               THEN 1 ELSE NumSlots + 1
    /\ UNCHANGED <<stage, kept, harm, roster>>

Asking(p) == stage = "update" /\ current # None /\ slot = p

\* Friends are passed by, unless the game mode allows to kill them.
Enemy(p) == current.team # team[p] \/ TeamKilling

\* The players whose place a bullet is compared with.
LookedAt(p) ==
    /\ health[p] > 0 /\ Enemy(p)
    /\ current.type = "StandardBullet" => p \in assigned

\* Mutant of CanBeDamaged: the dead are damaged too.
DeadCanBeDamaged(p, damage) == p \in Mine /\ p \in assigned /\ damage > 0

\* The early return of damage_player.
CanBeDamaged(p, damage) == health[p] > 0 /\ p \in Mine /\ p \in assigned /\ damage > 0

\* Mutant of HurtBy: it is set before the early return.
HurtByLast(p, damage) == IF p \in Mine THEN current.by ELSE lastHurt[p]

HurtBy(p, damage) == IF CanBeDamaged(p, damage) THEN current.by ELSE lastHurt[p]

\* Mutant of Left: the difference is not saturated.
Wraps(p, damage) == health[p] - damage

\* saturating_sub
Left(p, damage) == IF damage >= health[p] THEN 0 ELSE health[p] - damage

\* A sniper bullet may hit the same player again, if he is back by then.
HurtAfter(p) == IF current.type = "SniperBullet" THEN {} ELSE current.hurt \cup {p}

\* damage_player, with the kill of who dies.
DamagePlayer(p, damage) ==
    /\ lastHurt' = [lastHurt EXCEPT ![p] = HurtBy(p, damage)]
    /\ IF CanBeDamaged(p, damage)
       THEN /\ health' = [health EXCEPT ![p] = Left(p, damage)]
            /\ IF Left(p, damage) = 0
               THEN KillsInBound(current.by) /\ kills' = KillsAfter(p, current.by)
               ELSE kills' = kills
            /\ current' = [current EXCEPT !.hurt = HurtAfter(p)]
       ELSE UNCHANGED <<health, kills, current>>

\* A bullet touches p. A standard one asks nobody else.
BulletHits(p, damage) ==
    /\ Asking(p) /\ current.type # "GrenadeProj"
    /\ LookedAt(p)
    /\ damage \in Damage[current.type]
    /\ DamagePlayer(p, damage)
    /\ collision' = TRUE
    /\ slot' = IF current.type = "StandardBullet" THEN NumSlots + 1 ELSE p + 1
    /\ UNCHANGED <<stage, flying, kept, wall, roster>>

\* A grenade explodes: everybody is damaged by his distance, the dead included.
GrenadeHits(p, damage) ==
    /\ Asking(p) /\ current.type = "GrenadeProj"
    /\ Enemy(p)
    /\ damage \in Damage[current.type]
    /\ DamagePlayer(p, damage)
    /\ slot' = p + 1
    /\ UNCHANGED <<stage, flying, kept, wall, collision, roster>>

\* p is not touched, too far away, or not asked. player_collision holds the
\* answer of the last player asked.
Passes(p) ==
    /\ Asking(p)
    /\ collision' = (collision /\ ~LookedAt(p))
    /\ slot' = p + 1
    /\ UNCHANGED <<stage, lists, wall, harm, roster>>

\* Mutant of ShouldBeCopied: a bullet that hit flies on.
CopiedUnlessWall == IF current.type = "GrenadeProj" THEN ~Explodes(current) ELSE ~wall

\* projectile_should_be_copied: of a bullet that hit nobody and no wall (it is set
\* after the loop over the players), of a grenade that did not explode.
ShouldBeCopied ==
    IF current.type = "GrenadeProj" THEN ~Explodes(current) ELSE ~collision /\ ~wall

EndProjectile ==
    /\ stage = "update" /\ current # None /\ slot = NumSlots + 1
    /\ kept' = IF ShouldBeCopied THEN Append(kept, current) ELSE kept
    /\ current' = None /\ slot' = 1 /\ wall' = FALSE /\ collision' = FALSE
    /\ UNCHANGED <<stage, flying, harm, roster>>

EndUpdate ==
    /\ stage = "update" /\ current = None /\ flying = <<>>
    /\ stage' = "respawn"
    /\ flying' = kept /\ kept' = <<>>
    /\ UNCHANGED <<current, loop, harm, roster>>

\* respawn_players; the frames a player is dead are not counted here.
Respawn(p) ==
    /\ stage = "respawn"
    /\ p \in Mine /\ p \in assigned /\ health[p] = 0
    /\ health' = [health EXCEPT ![p] = MaxHealth]
    /\ UNCHANGED <<stage, lists, loop, lastHurt, kills, roster>>

Ask(p) ==
    \/ Passes(p)
    \/ \E damage \in UNION {Damage[type] : type \in Types} :
         BulletHits(p, damage) \/ GrenadeHits(p, damage)

Network ==
    \/ \E p \in Copies, k \in Slots, h \in 0 .. MaxHealth, t \in Teams : Receive(p, h, k, t)
    \/ \E t \in Teams : ReceiveOwn(t)

UseWeapons ==
    \E p \in Slots :
      \/ \E n \in {1, NumPellets} : Shoot(p, "StandardBullet", n)
      \/ Shoot(p, "SniperBullet", 1)
      \/ Shoot(p, "GrenadeProj", 1)

Next ==
    \/ Network \/ UseWeapons
    \/ BeginUpdate \/ NextProjectile \/ EndProjectile \/ EndUpdate
    \/ \E p \in Slots : Ask(p) \/ Respawn(p)

Spec == Init /\ [][Next]_vars

-----------------------------------------------------------------------------
\* A player is hurt by a standard bullet or a grenade at most once, in all frames it
\* flies, and a standard bullet hurts one player only (update_projectiles). Nothing is
\* said of sniper bullets: one that flies on may hit again, and HurtAfter keeps no
\* history of it.
HurtsOnce(p) ==
    /\ current # None
    /\ p \notin current.hurt
    /\ current.type = "StandardBullet" => current.hurt = {}

HurtOnce == [][\A p \in Mine : health'[p] < health[p] => HurtsOnce(p)]_vars

\* Those who die in a step by k.
DieBy(k) == {v \in Slots \ {k} : health[v] > 0 /\ health'[v] = 0 /\ lastHurt'[v] = k}

\* A death is one kill, however many projectiles reach the dying player in the
\* frame, and there is no kill without a death (damage_player, process_net_packets).
KillPerDeath == [][\A k \in Slots : kills'[k] = kills[k] + Cardinality(DieBy(k))]_vars

\* The dead keep the name of their killer: what still hits or explodes before they
\* are back does not change last_hurt_by, from which every other process will
\* count the kill (damage_player).
KillerIsKept ==
    [][\A p \in Mine : health[p] = 0 /\ health'[p] = 0 => lastHurt'[p] = lastHurt[p]]_vars
=============================================================================
