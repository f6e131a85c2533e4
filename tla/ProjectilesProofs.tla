------------------------- MODULE ProjectilesProofs -------------------------
(***************************************************************************)
(* Proofs about Projectiles, for any number of players and projectiles.    *)
(***************************************************************************)
EXTENDS Projectiles, FiniteSetTheorems, SequenceTheorems, TLAPS

USE DEF vars, lists, loop, harm, roster

LEMMA Constants ==
  /\ NumSlots \in Nat \ {0} /\ Own \in Slots /\ Bots \subseteq Slots /\ Copies \subseteq Slots
  /\ Copies \cap ({Own} \cup Bots) = {}
  /\ MaxHealth \in Nat \ {0} /\ MaxKills \in Nat /\ FramesTillExplosion \in Nat \ {0}
  /\ NumPellets \in Nat \ {0}
  BY ProjectilesAssumption DEF Slots, Own

LEMMA DamageIsNat ==
  ASSUME NEW type \in Types, NEW damage \in Damage[type]
  PROVE  damage \in Nat
  BY ProjectilesAssumption

LEMMA MineAreSlots ==
  /\ Mine \subseteq Slots
  /\ Mine \cap Copies = {}
  BY Constants DEF Mine

LEMMA NoneIsNone == None \notin Projectile
  BY DEF None, Projectile, Types

\* The parts of TypeOK.
HarmType ==
  /\ health \in [Slots -> 0 .. MaxHealth]
  /\ lastHurt \in [Slots -> Slots \cup {Nobody}]
  /\ kills \in [Slots -> 0 .. MaxKills]
RosterType ==
  /\ team \in [Slots -> Teams \cup {NoTeam}] /\ assigned \in SUBSET Slots
  /\ hosting \in BOOLEAN
ListType ==
  /\ flying \in Seq(Projectile) /\ kept \in Seq(Projectile)
  /\ current \in Projectile \cup {None}
LoopType ==
  /\ stage \in {"network", "weapons", "update", "respawn"}
  /\ slot \in 1 .. NumSlots + 1
  /\ wall \in BOOLEAN /\ collision \in BOOLEAN
  /\ stage # "update" => current = None /\ kept = <<>>

LEMMA TypeParts == TypeOK <=> HarmType /\ RosterType /\ ListType /\ LoopType
  BY DEF TypeOK, HarmType, RosterType, ListType, LoopType

LEMMA InitType == Init => TypeOK
  <1> SUFFICES ASSUME Init PROVE HarmType /\ RosterType /\ ListType /\ LoopType
    BY TypeParts
  <1>1. HarmType
    BY Constants DEF Init, HarmType
  <1>2. RosterType
    <2>1. PICK given \in [Bots \cup {Own} -> Teams] :
            team = [p \in Slots |-> IF hosting /\ p \in Mine THEN given[p] ELSE NoTeam]
      BY DEF Init
    <2>2. \A p \in Mine : p \in Bots \cup {Own}
      BY DEF Mine
    <2>3. team \in [Slots -> Teams \cup {NoTeam}]
      BY <2>1, <2>2
    <2>4. QED
      BY <2>3, MineAreSlots DEF Init, RosterType
  <1>3. ListType
    BY DEF Init, ListType
  <1>4. LoopType
    <2>1. slot \in 1 .. NumSlots + 1
      BY Constants DEF Init
    <2>2. QED
      BY <2>1 DEF Init, LoopType
  <1>5. QED
    BY <1>1, <1>2, <1>3, <1>4

-----------------------------------------------------------------------------
\* What a kill does to the counts.
LEMMA KillCounted ==
  ASSUME HarmType, NEW v \in Slots, NEW k \in Slots, KillsInBound(k)
  PROVE  /\ KillsAfter(v, k) \in [Slots -> 0 .. MaxKills]
         /\ \A j \in Slots :
              KillsAfter(v, k)[j] = IF j = k /\ k # v THEN kills[j] + 1 ELSE kills[j]
  BY Constants DEF HarmType, KillsInBound, KillsAfter

\* The player asked, and the projectile that asks him.
LEMMA Asked ==
  ASSUME TypeOK, NEW p \in Slots, Asking(p)
  PROVE  /\ current \in Projectile /\ current.type \in Types /\ current.by \in Slots
         /\ current.hurt \in SUBSET Slots
         /\ p + 1 \in 1 .. NumSlots + 1 /\ stage = "update"
  <1>1. current \in Projectile /\ stage = "update"
    BY DEF TypeOK, Asking
  <1>2. p + 1 \in 1 .. NumSlots + 1
    BY Constants DEF Slots
  <1>3. QED
    BY <1>1, <1>2 DEF Projectile

\* What damage_player does: nothing, or a hit by the current projectile.
LEMMA Damaged ==
  ASSUME TypeOK, NEW p \in Slots, Asking(p), NEW damage \in Nat, DamagePlayer(p, damage)
  PROVE  /\ HarmType' /\ current' \in Projectile
         /\ current'.type = current.type /\ current'.by = current.by
         /\ current'.age = current.age
         /\ current'.hurt \in {current.hurt, HurtAfter(p)}
         /\ \A q \in Slots : health'[q] = IF q = p /\ CanBeDamaged(p, damage)
                                          THEN Left(p, damage) ELSE health[q]
         /\ \A q \in Slots : lastHurt'[q] = IF q = p /\ CanBeDamaged(p, damage)
                                            THEN current.by ELSE lastHurt[q]
         /\ kills' = IF CanBeDamaged(p, damage) /\ Left(p, damage) = 0
                     THEN KillsAfter(p, current.by) ELSE kills
  <1>1. HarmType
    BY TypeParts
  <1>2. current \in Projectile /\ current.by \in Slots /\ current.hurt \in SUBSET Slots
    BY Asked
  <1>3. Left(p, damage) \in 0 .. MaxHealth
    BY <1>1, Constants DEF HarmType, Left
  <1>4. health' \in [Slots -> 0 .. MaxHealth]
    BY <1>1, <1>3 DEF DamagePlayer, HarmType
  <1>5. HurtBy(p, damage) \in Slots \cup {Nobody}
    BY <1>1, <1>2 DEF HurtBy, HarmType
  <1>6. lastHurt' \in [Slots -> Slots \cup {Nobody}]
    BY <1>1, <1>5 DEF DamagePlayer, HarmType
  <1>7. kills' = IF CanBeDamaged(p, damage) /\ Left(p, damage) = 0
                 THEN KillsAfter(p, current.by) ELSE kills
    BY DEF DamagePlayer
  <1>8. kills' \in [Slots -> 0 .. MaxKills]
    <2>1. CASE CanBeDamaged(p, damage) /\ Left(p, damage) = 0
      BY <1>1, <1>2, <1>7, <2>1, KillCounted DEF DamagePlayer
    <2>2. CASE ~(CanBeDamaged(p, damage) /\ Left(p, damage) = 0)
      BY <1>1, <1>7, <2>2 DEF HarmType
    <2>3. QED
      BY <2>1, <2>2
  <1>9. \A q \in Slots : health'[q] = IF q = p /\ CanBeDamaged(p, damage)
                                      THEN Left(p, damage) ELSE health[q]
    BY <1>1 DEF DamagePlayer, HarmType
  <1>10. \A q \in Slots : lastHurt'[q] = IF q = p /\ CanBeDamaged(p, damage)
                                         THEN current.by ELSE lastHurt[q]
    BY <1>1 DEF DamagePlayer, HarmType, HurtBy
  <1>11. HurtAfter(p) \in SUBSET Slots
    BY <1>2 DEF HurtAfter
  <1>12. current' = current \/ current' = [current EXCEPT !.hurt = HurtAfter(p)]
    BY DEF DamagePlayer
  <1>13. /\ current' \in Projectile /\ current'.hurt \in {current.hurt, HurtAfter(p)}
         /\ current'.type = current.type /\ current'.by = current.by
         /\ current'.age = current.age
    BY <1>2, <1>11, <1>12 DEF Projectile
  <1>14. QED
    BY <1>4, <1>6, <1>7, <1>8, <1>9, <1>10, <1>13 DEF HarmType

\* The actions that hurt own players, or none, leave the rest of the types alone.
LEMMA HarmStep ==
  ASSUME TypeOK, [Next]_vars
  PROVE  HarmType'
  <1>1. HarmType
    BY TypeParts
  <1>2. CASE Network
    <2>1. CASE \E t \in Teams : ReceiveOwn(t)
      BY <1>1, <2>1 DEF ReceiveOwn, HarmType
    <2>2. ASSUME NEW p \in Copies, NEW k \in Slots, NEW h \in 0 .. MaxHealth,
                 NEW t \in Teams, Receive(p, h, k, t)
          PROVE  HarmType'
      <3>1. p \in Slots
        BY Constants
      <3>2. health' \in [Slots -> 0 .. MaxHealth]
        BY <1>1, <2>2 DEF Receive, HarmType
      <3>3. lastHurt' \in [Slots -> Slots \cup {Nobody}]
        BY <1>1, <2>2 DEF Receive, HarmType
      <3>4. kills' \in [Slots -> 0 .. MaxKills]
        <4>1. CASE health[p] > 0 /\ h = 0
          <5>1. KillsInBound(k) /\ kills' = KillsAfter(p, k)
            BY <2>2, <4>1 DEF Receive
          <5>2. QED
            BY <1>1, <3>1, <5>1, KillCounted
        <4>2. CASE ~(health[p] > 0 /\ h = 0)
          BY <1>1, <2>2, <4>2 DEF Receive, HarmType
        <4>3. QED
          BY <4>1, <4>2
      <3>5. QED
        BY <3>2, <3>3, <3>4 DEF HarmType
    <2>3. QED
      BY <1>2, <2>1, <2>2 DEF Network
  <1>3. CASE UseWeapons
    BY <1>1, <1>3 DEF UseWeapons, Shoot, HarmType
  <1>4. CASE BeginUpdate \/ NextProjectile \/ EndProjectile \/ EndUpdate
    BY <1>1, <1>4 DEF BeginUpdate, NextProjectile, EndProjectile, EndUpdate, HarmType
  <1>5. ASSUME NEW p \in Slots, Ask(p)
        PROVE  HarmType'
    <2>1. CASE Passes(p)
      BY <1>1, <2>1 DEF Passes, HarmType
    <2>2. ASSUME NEW damage, BulletHits(p, damage) \/ GrenadeHits(p, damage)
          PROVE  HarmType'
      <3>1. Asking(p) /\ DamagePlayer(p, damage) /\ damage \in Damage[current.type]
        BY <2>2 DEF BulletHits, GrenadeHits
      <3>2. QED
        BY <3>1, Asked, DamageIsNat, Damaged
    <2>3. QED
      BY <1>5, <2>1, <2>2 DEF Ask
  <1>6. ASSUME NEW p \in Slots, Respawn(p)
        PROVE  HarmType'
    BY <1>1, <1>6, Constants DEF Respawn, HarmType
  <1>7. CASE UNCHANGED vars
    BY <1>1, <1>7 DEF HarmType
  <1>8. QED
    BY <1>2, <1>3, <1>4, <1>5, <1>6, <1>7 DEF Next

LEMMA RosterStep ==
  ASSUME TypeOK, [Next]_vars
  PROVE  RosterType'
  <1>1. RosterType
    BY TypeParts
  <1>2. CASE Network
    <2>1. ASSUME NEW t \in Teams, ReceiveOwn(t)
          PROVE  RosterType'
      BY <1>1, <2>1 DEF ReceiveOwn, RosterType
    <2>2. ASSUME NEW p \in Copies, NEW k \in Slots, NEW h \in 0 .. MaxHealth,
                 NEW t \in Teams, Receive(p, h, k, t)
          PROVE  RosterType'
      BY <1>1, <2>2, Constants DEF Receive, RosterType
    <2>3. QED
      BY <1>2, <2>1, <2>2 DEF Network
  <1>3. CASE UseWeapons
    BY <1>1, <1>3 DEF UseWeapons, Shoot, RosterType
  <1>4. CASE BeginUpdate \/ NextProjectile \/ EndProjectile \/ EndUpdate
    BY <1>1, <1>4 DEF BeginUpdate, NextProjectile, EndProjectile, EndUpdate, RosterType
  <1>5. ASSUME NEW p \in Slots, Ask(p)
        PROVE  RosterType'
    BY <1>1, <1>5 DEF Ask, Passes, BulletHits, GrenadeHits, RosterType
  <1>6. ASSUME NEW p \in Slots, Respawn(p)
        PROVE  RosterType'
    BY <1>1, <1>6 DEF Respawn, RosterType
  <1>7. CASE UNCHANGED vars
    BY <1>1, <1>7 DEF RosterType
  <1>8. QED
    BY <1>2, <1>3, <1>4, <1>5, <1>6, <1>7 DEF Next

\* What shoot adds.
LEMMA Shot ==
  ASSUME TypeOK, NEW p \in Slots, NEW type \in Types, NEW n \in Nat, Shoot(p, type, n)
  PROVE  /\ NewProjectile(p, type) \in Projectile
         /\ flying' \in Seq(Projectile) /\ Len(flying') = Len(flying) + n
         /\ \A i \in 1 .. Len(flying) : flying'[i] = flying[i]
         /\ \A i \in Len(flying) + 1 .. Len(flying) + n : flying'[i] = NewProjectile(p, type)
  <1> DEFINE shots == [i \in 1 .. n |-> NewProjectile(p, type)]
  <1>1. NewProjectile(p, type) \in Projectile
    <2>1. team[p] \in Teams \cup {NoTeam}
      BY DEF TypeOK
    <2>2. 0 \in 0 .. FramesTillExplosion
      BY Constants
    <2>3. QED
      BY <2>1, <2>2 DEF NewProjectile, Projectile
  <1>2. shots \in Seq(Projectile) /\ Len(shots) = n
    BY <1>1
  <1>3. flying' = flying \o shots /\ flying \in Seq(Projectile)
    BY DEF Shoot, TypeOK
  <1>4. \A i \in 1 .. n : shots[i] = NewProjectile(p, type)
    OBVIOUS
  <1> HIDE DEF shots
  <1>5. /\ flying' \in Seq(Projectile) /\ Len(flying') = Len(flying) + n
        /\ \A i \in 1 .. Len(flying) + n :
             flying'[i] = IF i <= Len(flying) THEN flying[i] ELSE shots[i - Len(flying)]
    BY <1>2, <1>3, ConcatProperties
  <1>6. Len(flying) \in Nat
    BY <1>3
  <1>7. \A i \in 1 .. Len(flying) : flying'[i] = flying[i]
    BY <1>5, <1>6
  <1>8. ASSUME NEW i \in Len(flying) + 1 .. Len(flying) + n
        PROVE  flying'[i] = NewProjectile(p, type)
    <2>1. i - Len(flying) \in 1 .. n /\ i \in 1 .. Len(flying) + n /\ ~(i <= Len(flying))
      BY <1>6
    <2>2. QED
      BY <1>4, <1>5, <2>1
  <1>9. QED
    BY <1>1, <1>5, <1>7, <1>8

LEMMA ShotIn ==
  ASSUME UseWeapons
  PROVE  \E p \in Slots, type \in Types, n \in Nat : Shoot(p, type, n)
  BY Constants DEF UseWeapons, Types

\* The projectile taken off the list.
LEMMA Taken ==
  ASSUME TypeOK, NextProjectile
  PROVE  /\ Head(flying) \in Projectile /\ current' = Older(Head(flying))
         /\ flying' \in Seq(Projectile) /\ Len(flying') = Len(flying) - 1
         /\ \A i \in 1 .. Len(flying') : flying'[i] = flying[i + 1]
         /\ Head(flying) = flying[1] /\ Len(flying) \in Nat \ {0}
  <1>1. flying \in Seq(Projectile) /\ flying # <<>> /\ flying' = Tail(flying)
    BY DEF TypeOK, NextProjectile
  <1>2. QED
    BY <1>1, HeadTailProperties DEF NextProjectile

-----------------------------------------------------------------------------
\* A projectile between two frames has hurt nobody, and a grenade is not due.
IsFresh(projectile) ==
  /\ projectile.hurt = {}
  /\ projectile.type = "GrenadeProj" => projectile.age < FramesTillExplosion
Fresh(list) == \A i \in 1 .. Len(list) : IsFresh(list[i])

\* Whom the current projectile has hurt: a grenade players before the next one,
\* a standard bullet nobody until it has stopped.
HurtSoFar ==
  current # None =>
    /\ current.type = "SniperBullet" => current.hurt = {}
    /\ current.type = "StandardBullet" /\ current.hurt # {} => collision /\ slot = NumSlots + 1
    /\ current.type = "GrenadeProj" => \A q \in current.hurt : q < slot
    /\ current.type = "GrenadeProj" /\ ~Explodes(current) =>
         slot = NumSlots + 1 /\ current.hurt = {}

HurtInv == Fresh(flying) /\ Fresh(kept) /\ HurtSoFar

LEMMA FreshRest ==
  ASSUME TypeOK, Fresh(flying), NextProjectile
  PROVE  Fresh(flying')
  <1> SUFFICES ASSUME NEW i \in 1 .. Len(flying') PROVE IsFresh(flying'[i])
    BY DEF Fresh
  <1>1. flying'[i] = flying[i + 1] /\ i + 1 \in 1 .. Len(flying)
    BY Taken
  <1>2. QED
    BY <1>1 DEF Fresh

LEMMA TakenIsFresh ==
  ASSUME TypeOK, HurtInv, NextProjectile
  PROVE  /\ current' \in Projectile /\ current'.hurt = {}
         /\ Fresh(flying')
  <1>1. Head(flying) \in Projectile /\ IsFresh(Head(flying))
    BY Taken DEF HurtInv, Fresh
  <1>2. CASE Head(flying).type = "GrenadeProj"
    <2> DEFINE g == Head(flying)
    <2>1. g.age \in 0 .. FramesTillExplosion /\ g.age < FramesTillExplosion
      BY <1>1, <1>2 DEF Projectile, IsFresh
    <2>2. g.age + 1 \in 0 .. FramesTillExplosion
      BY <2>1, Constants
    <2>3. current' = [g EXCEPT !.age = @ + 1]
      BY <1>2, Taken DEF Older
    <2>4. current' \in Projectile /\ current'.hurt = g.hurt
      BY <1>1, <2>2, <2>3 DEF Projectile
    <2>5. QED
      BY <1>1, <2>4, FreshRest DEF IsFresh, HurtInv
  <1>3. CASE Head(flying).type # "GrenadeProj"
    <2>1. current' = Head(flying)
      BY <1>3, Taken DEF Older
    <2>2. QED
      BY <1>1, <2>1, FreshRest DEF IsFresh, HurtInv
  <1>4. QED
    BY <1>2, <1>3

LEMMA ListStep ==
  ASSUME TypeOK, HurtInv, [Next]_vars
  PROVE  ListType'
  <1>1. ListType
    BY TypeParts
  <1>2. CASE Network
    BY <1>1, <1>2 DEF Network, Receive, ReceiveOwn, ListType
  <1>3. CASE UseWeapons
    <2>1. flying' \in Seq(Projectile)
      BY <1>3, ShotIn, Shot
    <2>2. kept' = kept /\ current' = current
      BY <1>3 DEF UseWeapons, Shoot
    <2>3. QED
      BY <1>1, <2>1, <2>2 DEF ListType
  <1>4. CASE BeginUpdate
    BY <1>1, <1>4 DEF BeginUpdate, ListType
  <1>5. CASE NextProjectile
    <2>1. kept' = kept
      BY <1>5 DEF NextProjectile
    <2>2. QED
      BY <1>1, <1>5, <2>1, Taken, TakenIsFresh DEF ListType
  <1>6. CASE EndProjectile
    <2>1. current \in Projectile /\ flying' = flying /\ current' = None
      BY <1>1, <1>6 DEF EndProjectile, ListType
    <2>2. kept' \in Seq(Projectile)
      BY <1>1, <1>6, <2>1, AppendProperties DEF EndProjectile, ListType
    <2>3. QED
      BY <1>1, <2>1, <2>2 DEF ListType
  <1>7. CASE EndUpdate
    BY <1>1, <1>7 DEF EndUpdate, ListType
  <1>8. ASSUME NEW p \in Slots, Ask(p)
        PROVE  ListType'
    <2>1. CASE Passes(p)
      BY <1>1, <2>1 DEF Passes, ListType
    <2>2. ASSUME NEW damage, BulletHits(p, damage) \/ GrenadeHits(p, damage)
          PROVE  ListType'
      <3>1. Asking(p) /\ DamagePlayer(p, damage) /\ damage \in Damage[current.type]
        BY <2>2 DEF BulletHits, GrenadeHits
      <3>2. current' \in Projectile
        BY <3>1, Asked, DamageIsNat, Damaged
      <3>3. flying' = flying /\ kept' = kept
        BY <2>2 DEF BulletHits, GrenadeHits
      <3>4. QED
        BY <1>1, <3>2, <3>3 DEF ListType
    <2>3. QED
      BY <1>8, <2>1, <2>2 DEF Ask
  <1>9. ASSUME NEW p \in Slots, Respawn(p)
        PROVE  ListType'
    BY <1>1, <1>9 DEF Respawn, ListType
  <1>10. CASE UNCHANGED vars
    BY <1>1, <1>10 DEF ListType
  <1>11. QED
    BY <1>2, <1>3, <1>4, <1>5, <1>6, <1>7, <1>8, <1>9, <1>10 DEF Next

LEMMA LoopStep ==
  ASSUME TypeOK, [Next]_vars
  PROVE  LoopType'
  <1> USE DEF LoopType
  <1>1. LoopType /\ 1 \in 1 .. NumSlots + 1 /\ NumSlots + 1 \in 1 .. NumSlots + 1
    BY TypeParts, Constants
  <1>2. CASE Network
    BY <1>1, <1>2 DEF Network, Receive, ReceiveOwn
  <1>3. CASE UseWeapons
    BY <1>1, <1>3 DEF UseWeapons, Shoot
  <1>4. CASE BeginUpdate
    BY <1>1, <1>4 DEF BeginUpdate
  <1>5. CASE NextProjectile
    <2>1. slot' \in 1 .. NumSlots + 1
      BY <1>1, <1>5 DEF NextProjectile
    <2>2. wall' \in BOOLEAN /\ collision' \in BOOLEAN /\ stage' = stage /\ stage = "update"
      BY <1>5 DEF NextProjectile
    <2>3. QED
      BY <2>1, <2>2
  <1>6. CASE EndProjectile
    <2>1. slot' \in 1 .. NumSlots + 1
      BY <1>1, <1>6 DEF EndProjectile
    <2>2. wall' \in BOOLEAN /\ collision' \in BOOLEAN /\ stage' = stage /\ stage = "update"
      BY <1>6 DEF EndProjectile
    <2>3. QED
      BY <2>1, <2>2
  <1>7. CASE EndUpdate
    BY <1>1, <1>7 DEF EndUpdate
  <1>8. ASSUME NEW p \in Slots, Ask(p)
        PROVE  LoopType'
    <2>1. Asking(p)
      BY <1>8 DEF Ask, Passes, BulletHits, GrenadeHits
    <2>2. p + 1 \in 1 .. NumSlots + 1 /\ stage = "update"
      BY <2>1, Asked
    <2>3. slot' \in {p + 1, NumSlots + 1}
      BY <1>8 DEF Ask, Passes, BulletHits, GrenadeHits
    <2>4. slot' \in 1 .. NumSlots + 1
      BY <1>1, <2>2, <2>3
    <2>5. collision' \in BOOLEAN
      <3>1. CASE Passes(p)
        BY <1>1, <3>1 DEF Passes
      <3>2. CASE ~Passes(p)
        BY <1>1, <1>8, <3>2 DEF Ask, BulletHits, GrenadeHits
      <3>3. QED
        BY <3>1, <3>2
    <2>6. wall' = wall /\ stage' = stage
      BY <1>8 DEF Ask, Passes, BulletHits, GrenadeHits
    <2>7. QED
      BY <1>1, <2>2, <2>4, <2>5, <2>6
  <1>9. ASSUME NEW p \in Slots, Respawn(p)
        PROVE  LoopType'
    BY <1>1, <1>9 DEF Respawn
  <1>10. CASE UNCHANGED vars
    BY <1>1, <1>10
  <1>11. QED
    BY <1>2, <1>3, <1>4, <1>5, <1>6, <1>7, <1>8, <1>9, <1>10 DEF Next

-----------------------------------------------------------------------------
LEMMA ShotsAreFresh ==
  ASSUME TypeOK, Fresh(flying), UseWeapons
  PROVE  Fresh(flying')
  <1>1. PICK p \in Slots, type \in Types, n \in Nat : Shoot(p, type, n)
    BY ShotIn
  <1>2. IsFresh(NewProjectile(p, type))
    BY Constants DEF IsFresh, NewProjectile
  <1>3. Len(flying) \in Nat
    BY DEF TypeOK
  <1> SUFFICES ASSUME NEW i \in 1 .. Len(flying') PROVE IsFresh(flying'[i])
    BY DEF Fresh
  <1>4. i \in 1 .. Len(flying) \/ i \in Len(flying) + 1 .. Len(flying) + n
    BY <1>1, <1>3, Shot
  <1>5. CASE i \in 1 .. Len(flying)
    BY <1>1, <1>5, Shot DEF Fresh
  <1>6. CASE i \in Len(flying) + 1 .. Len(flying) + n
    BY <1>1, <1>2, <1>6, Shot
  <1>7. QED
    BY <1>4, <1>5, <1>6

\* A projectile that is copied has hurt nobody.
LEMMA CopiedIsFresh ==
  ASSUME TypeOK, HurtInv, EndProjectile
  PROVE  Fresh(kept')
  <1>1. current \in Projectile /\ kept \in Seq(Projectile) /\ current # None
    BY DEF TypeOK, EndProjectile
  <1>2. CASE ~ShouldBeCopied
    BY <1>2 DEF EndProjectile, HurtInv
  <1>3. CASE ShouldBeCopied
    <2>1. IsFresh(current)
      <3>1. current.type \in Types /\ current.age \in 0 .. FramesTillExplosion
        BY <1>1 DEF Projectile
      <3>2. CASE current.type = "GrenadeProj"
        <4>1. ~Explodes(current)
          BY <1>3, <3>2 DEF ShouldBeCopied
        <4>2. current.hurt = {}
          BY <1>1, <3>2, <4>1 DEF HurtInv, HurtSoFar
        <4>3. current.age < FramesTillExplosion
          BY <3>1, <4>1, Constants DEF Explodes
        <4>4. QED
          BY <4>2, <4>3 DEF IsFresh
      <3>3. CASE current.type = "StandardBullet"
        BY <1>1, <1>3, <3>3 DEF ShouldBeCopied, HurtInv, HurtSoFar, IsFresh
      <3>4. CASE current.type = "SniperBullet"
        BY <1>1, <3>4 DEF HurtInv, HurtSoFar, IsFresh
      <3>5. QED
        BY <3>1, <3>2, <3>3, <3>4 DEF Types
    <2>2. kept' = Append(kept, current)
      BY <1>3 DEF EndProjectile
    <2>3. /\ Len(kept') = Len(kept) + 1 /\ kept'[Len(kept) + 1] = current
          /\ \A i \in 1 .. Len(kept) : kept'[i] = kept[i]
      BY <1>1, <2>2, AppendProperties
    <2>4. ASSUME NEW i \in 1 .. Len(kept')
          PROVE  IsFresh(kept'[i])
      <3>1. i \in 1 .. Len(kept) \/ i = Len(kept) + 1
        BY <1>1, <2>3
      <3>2. QED
        BY <2>1, <2>3, <3>1 DEF HurtInv, Fresh
    <2>5. QED
      BY <2>4 DEF Fresh
  <1>4. QED
    BY <1>2, <1>3

\* What a player who is asked does to the history of the current projectile.
LEMMA AskKeepsHurt ==
  ASSUME TypeOK, HurtInv, NEW p \in Slots, Ask(p)
  PROVE  HurtSoFar'
  <1>1. Asking(p) /\ slot = p /\ current # None
    BY DEF Ask, Passes, BulletHits, GrenadeHits, Asking
  <1>2. /\ current \in Projectile /\ current.type \in Types
        /\ current.hurt \in SUBSET Slots /\ p \in Nat /\ NumSlots \in Nat
        /\ p < NumSlots + 1 /\ \A q \in current.hurt : q \in Nat
    BY <1>1, Asked, Constants DEF Slots
  <1>3. HurtSoFar
    BY DEF HurtInv
  <1>4. CASE Passes(p)
    <2>1. current' = current /\ slot' = p + 1
      BY <1>4 DEF Passes
    <2>2. current.type = "StandardBullet" => current.hurt = {}
      BY <1>1, <1>2, <1>3 DEF HurtSoFar
    <2>3. current.type = "GrenadeProj" => Explodes(current)
      BY <1>1, <1>2, <1>3 DEF HurtSoFar
    <2>4. current.type = "GrenadeProj" => \A q \in current.hurt : q < p + 1
      BY <1>1, <1>2, <1>3 DEF HurtSoFar
    <2>5. current.type = "SniperBullet" => current.hurt = {}
      BY <1>1, <1>3 DEF HurtSoFar
    <2>6. QED
      BY <2>1, <2>2, <2>3, <2>4, <2>5 DEF HurtSoFar, Explodes
  <1>5. ASSUME NEW damage, BulletHits(p, damage)
        PROVE  HurtSoFar'
    <2>1. DamagePlayer(p, damage) /\ damage \in Damage[current.type]
      BY <1>5 DEF BulletHits
    <2>2. current'.type = current.type /\ current'.hurt \in {current.hurt, HurtAfter(p)}
      BY <1>1, <1>2, <2>1, DamageIsNat, Damaged
    <2>3. CASE current.type = "StandardBullet"
      <3>1. slot' = NumSlots + 1 /\ collision' = TRUE
        BY <1>5, <2>3 DEF BulletHits
      <3>2. QED
        BY <2>2, <2>3, <3>1 DEF HurtSoFar
    <2>4. CASE current.type = "SniperBullet"
      <3>1. current'.hurt = {}
        BY <1>1, <1>3, <2>2, <2>4 DEF HurtSoFar, HurtAfter
      <3>2. QED
        BY <2>2, <2>4, <3>1 DEF HurtSoFar
    <2>5. QED
      BY <1>2, <1>5, <2>3, <2>4 DEF BulletHits, Types
  <1>6. ASSUME NEW damage, GrenadeHits(p, damage)
        PROVE  HurtSoFar'
    <2>1. /\ DamagePlayer(p, damage) /\ damage \in Damage[current.type]
          /\ slot' = p + 1 /\ current.type = "GrenadeProj"
      BY <1>6 DEF GrenadeHits
    <2>2. /\ current'.type = current.type /\ current'.hurt \in {current.hurt, HurtAfter(p)}
          /\ current'.age = current.age
      BY <1>1, <1>2, <2>1, DamageIsNat, Damaged
    <2>3. Explodes(current)
      BY <1>1, <1>2, <1>3, <2>1 DEF HurtSoFar
    <2>4. \A q \in current.hurt : q < p + 1
      BY <1>1, <1>2, <1>3, <2>1 DEF HurtSoFar
    <2>5. \A q \in current'.hurt : q < p + 1
      BY <1>2, <2>2, <2>4 DEF HurtAfter
    <2>6. Explodes(current')
      BY <2>2, <2>3 DEF Explodes
    <2>7. QED
      BY <2>1, <2>2, <2>5, <2>6 DEF HurtSoFar
  <1>7. QED
    BY <1>4, <1>5, <1>6 DEF Ask

LEMMA HurtStep ==
  ASSUME TypeOK, HurtInv, [Next]_vars
  PROVE  HurtInv'
  <1>1. Fresh(flying) /\ Fresh(kept) /\ HurtSoFar
    BY DEF HurtInv
  <1>2. CASE Network
    BY <1>1, <1>2 DEF Network, Receive, ReceiveOwn, HurtInv, HurtSoFar
  <1>3. CASE UseWeapons
    <2>1. kept' = kept /\ current' = current /\ slot' = slot /\ collision' = collision
      BY <1>3 DEF UseWeapons, Shoot
    <2>2. QED
      BY <1>1, <1>3, <2>1, ShotsAreFresh DEF HurtInv, HurtSoFar
  <1>4. CASE BeginUpdate
    BY <1>1, <1>4 DEF BeginUpdate, HurtInv, HurtSoFar
  <1>5. CASE NextProjectile
    <2>1. Fresh(flying') /\ current'.hurt = {}
      BY <1>5, TakenIsFresh DEF HurtInv
    <2>2. kept' = kept
      BY <1>5 DEF NextProjectile
    <2>3. current'.type = "GrenadeProj" /\ ~Explodes(current') => slot' = NumSlots + 1
      BY <1>5 DEF NextProjectile
    <2>4. QED
      BY <1>1, <2>1, <2>2, <2>3 DEF HurtInv, HurtSoFar, Explodes
  <1>6. CASE EndProjectile
    BY <1>1, <1>6, CopiedIsFresh DEF EndProjectile, HurtInv, HurtSoFar
  <1>7. CASE EndUpdate
    <2>1. kept' = <<>> /\ flying' = kept /\ current' = None
      BY <1>7 DEF EndUpdate
    <2>2. Fresh(kept')
      BY <2>1 DEF Fresh
    <2>3. QED
      BY <1>1, <2>1, <2>2 DEF HurtInv, HurtSoFar
  <1>8. ASSUME NEW p \in Slots, Ask(p)
        PROVE  HurtInv'
    <2>1. flying' = flying /\ kept' = kept
      BY <1>8 DEF Ask, Passes, BulletHits, GrenadeHits
    <2>2. QED
      BY <1>1, <1>8, <2>1, AskKeepsHurt DEF HurtInv
  <1>9. ASSUME NEW p \in Slots, Respawn(p)
        PROVE  HurtInv'
    BY <1>1, <1>9 DEF Respawn, HurtInv, HurtSoFar
  <1>10. CASE UNCHANGED vars
    BY <1>1, <1>10 DEF HurtInv, HurtSoFar
  <1>11. QED
    BY <1>2, <1>3, <1>4, <1>5, <1>6, <1>7, <1>8, <1>9, <1>10 DEF Next

-----------------------------------------------------------------------------
\* A step in which nobody dies, and one in which one player dies.
LEMMA NobodyDies ==
  ASSUME TypeOK, kills' = kills,
         \A v \in Slots : ~(health[v] > 0 /\ health'[v] = 0)
  PROVE  \A k \in Slots : kills'[k] = kills[k] + Cardinality(DieBy(k))
  <1> SUFFICES ASSUME NEW k \in Slots
               PROVE  kills'[k] = kills[k] + Cardinality(DieBy(k))
    OBVIOUS
  <1>1. DieBy(k) = {}
    BY DEF DieBy
  <1>2. Cardinality(DieBy(k)) = 0
    BY <1>1, FS_EmptySet
  <1>3. kills[k] \in Nat
    BY Constants DEF TypeOK
  <1>4. QED
    BY <1>2, <1>3

LEMMA OneDies ==
  ASSUME TypeOK, NEW v \in Slots, NEW j \in Slots, KillsInBound(j),
         kills' = KillsAfter(v, j),
         health[v] > 0, health'[v] = 0, lastHurt'[v] = j,
         \A u \in Slots \ {v} : health'[u] = health[u]
  PROVE  \A k \in Slots : kills'[k] = kills[k] + Cardinality(DieBy(k))
  <1> SUFFICES ASSUME NEW k \in Slots
               PROVE  kills'[k] = kills[k] + Cardinality(DieBy(k))
    OBVIOUS
  <1>1. HarmType
    BY TypeParts
  <1>2. kills'[k] = IF k = j /\ j # v THEN kills[k] + 1 ELSE kills[k]
    BY <1>1, KillCounted
  <1>3. kills[k] \in Nat
    BY <1>1, Constants DEF HarmType
  <1>4. \A u \in Slots \ {v} : ~(health[u] > 0 /\ health'[u] = 0)
    <2> TAKE u \in Slots \ {v}
    <2>1. health[u] \in Nat
      BY <1>1, Constants DEF HarmType
    <2>2. QED
      BY <2>1
  <1>5. CASE k = j /\ j # v
    <2>1. DieBy(k) = {v}
      BY <1>4, <1>5 DEF DieBy
    <2>2. Cardinality(DieBy(k)) = 1
      BY <2>1, FS_Singleton
    <2>3. QED
      BY <1>2, <1>5, <2>2
  <1>6. CASE ~(k = j /\ j # v)
    <2>1. DieBy(k) = {}
      BY <1>4, <1>6 DEF DieBy
    <2>2. Cardinality(DieBy(k)) = 0
      BY <2>1, FS_EmptySet
    <2>3. QED
      BY <1>2, <1>3, <1>6, <2>2
  <1>7. QED
    BY <1>5, <1>6

\* Who is still alive, or was dead, does not die.
LEMMA SameHealth ==
  ASSUME TypeOK, health' = health
  PROVE  \A v \in Slots : ~(health[v] > 0 /\ health'[v] = 0)
  <1> TAKE v \in Slots
  <1>1. health[v] \in Nat
    BY Constants DEF TypeOK
  <1>2. QED
    BY <1>1

LEMMA KillStep ==
  ASSUME TypeOK, [Next]_vars
  PROVE  \A k \in Slots : kills'[k] = kills[k] + Cardinality(DieBy(k))
  <1>0. \A v \in Slots : health[v] \in Nat
    BY Constants DEF TypeOK
  <1>1. ASSUME NEW t \in Teams, ReceiveOwn(t)
        PROVE  health' = health /\ kills' = kills
    BY <1>1 DEF ReceiveOwn
  <1>2. ASSUME NEW p \in Copies, NEW k \in Slots, NEW h \in 0 .. MaxHealth,
               NEW t \in Teams, Receive(p, h, k, t)
        PROVE  \A j \in Slots : kills'[j] = kills[j] + Cardinality(DieBy(j))
    <2>1. p \in Slots /\ health \in [Slots -> 0 .. MaxHealth]
      BY Constants DEF TypeOK
    <2>2. health'[p] = h /\ \A u \in Slots \ {p} : health'[u] = health[u]
      BY <1>2, <2>1 DEF Receive
    <2>3. CASE health[p] > 0 /\ h = 0
      <3>1. KillsInBound(k) /\ kills' = KillsAfter(p, k)
        BY <1>2, <2>3 DEF Receive
      <3>2. lastHurt'[p] = k
        BY <1>2, <2>1, <2>3 DEF Receive, TypeOK
      <3>3. QED
        BY <2>1, <2>2, <2>3, <3>1, <3>2, OneDies
    <2>4. CASE ~(health[p] > 0 /\ h = 0)
      <3>1. kills' = kills
        BY <1>2, <2>4 DEF Receive
      <3>2. \A v \in Slots : ~(health[v] > 0 /\ health'[v] = 0)
        BY <1>0, <2>2, <2>4
      <3>3. QED
        BY <3>1, <3>2, NobodyDies
    <2>5. QED
      BY <2>3, <2>4
  <1>3. ASSUME NEW p \in Slots, NEW damage, BulletHits(p, damage) \/ GrenadeHits(p, damage)
        PROVE  \A j \in Slots : kills'[j] = kills[j] + Cardinality(DieBy(j))
    <2>1. Asking(p) /\ DamagePlayer(p, damage) /\ damage \in Nat
      BY <1>3, Asked, DamageIsNat DEF BulletHits, GrenadeHits
    <2>2. /\ \A q \in Slots : health'[q] = IF q = p /\ CanBeDamaged(p, damage)
                                           THEN Left(p, damage) ELSE health[q]
          /\ \A q \in Slots : lastHurt'[q] = IF q = p /\ CanBeDamaged(p, damage)
                                             THEN current.by ELSE lastHurt[q]
          /\ kills' = IF CanBeDamaged(p, damage) /\ Left(p, damage) = 0
                      THEN KillsAfter(p, current.by) ELSE kills
      BY <2>1, Damaged
    <2>3. CASE CanBeDamaged(p, damage) /\ Left(p, damage) = 0
      <3>1. current.by \in Slots
        BY <2>1, Asked
      <3>2. KillsInBound(current.by)
        BY <2>1, <2>3 DEF DamagePlayer
      <3>3. health[p] > 0
        BY <2>3 DEF CanBeDamaged
      <3>4. /\ health'[p] = 0 /\ lastHurt'[p] = current.by
            /\ \A u \in Slots \ {p} : health'[u] = health[u]
        BY <2>2, <2>3
      <3>5. QED
        BY <2>2, <2>3, <3>1, <3>2, <3>3, <3>4, OneDies
    <2>4. CASE ~(CanBeDamaged(p, damage) /\ Left(p, damage) = 0)
      <3>1. kills' = kills
        BY <2>2, <2>4
      <3>2. \A v \in Slots : ~(health[v] > 0 /\ health'[v] = 0)
        BY <1>0, <2>2, <2>4
      <3>3. QED
        BY <3>1, <3>2, NobodyDies
    <2>5. QED
      BY <2>3, <2>4
  <1>4. ASSUME NEW p \in Slots, Passes(p)
        PROVE  health' = health /\ kills' = kills
    BY <1>4 DEF Passes
  <1>5. ASSUME NEW p \in Slots, Respawn(p)
        PROVE  \A j \in Slots : kills'[j] = kills[j] + Cardinality(DieBy(j))
    <2>1. \A v \in Slots : health'[v] = IF v = p THEN MaxHealth ELSE health[v]
      BY <1>5 DEF Respawn, TypeOK
    <2>2. \A v \in Slots : ~(health[v] > 0 /\ health'[v] = 0)
      BY <1>0, <2>1, Constants
    <2>3. kills' = kills
      BY <1>5 DEF Respawn
    <2>4. QED
      BY <2>2, <2>3, NobodyDies
  <1>6. health' = health /\ kills' = kills =>
          \A j \in Slots : kills'[j] = kills[j] + Cardinality(DieBy(j))
    BY SameHealth, NobodyDies
  <1>7. CASE Network
    BY <1>1, <1>2, <1>6, <1>7 DEF Network
  <1>8. ASSUME NEW p \in Slots, Ask(p)
         PROVE  \A j \in Slots : kills'[j] = kills[j] + Cardinality(DieBy(j))
    BY <1>3, <1>4, <1>6, <1>8 DEF Ask
  <1>9. CASE UseWeapons \/ BeginUpdate \/ NextProjectile \/ EndProjectile \/ EndUpdate
              \/ UNCHANGED vars
    <2>1. health' = health /\ kills' = kills
      BY <1>9 DEF UseWeapons, Shoot, BeginUpdate, NextProjectile, EndProjectile, EndUpdate
    <2>2. QED
      BY <1>6, <2>1
  <1>10. QED
    BY <1>5, <1>7, <1>8, <1>9 DEF Next

-----------------------------------------------------------------------------
\* Own players: hurt by a projectile that has not hurt them yet, and nothing
\* changes who killed them.
LEMMA OwnStep ==
  ASSUME TypeOK, HurtInv, [Next]_vars, NEW p \in Mine
  PROVE  /\ health'[p] < health[p] => HurtsOnce(p)
         /\ health[p] = 0 /\ health'[p] = 0 => lastHurt'[p] = lastHurt[p]
  <1>1. p \in Slots /\ p \notin Copies
    BY MineAreSlots
  <1>2. health[p] \in Nat /\ health[p] <= MaxHealth
    BY <1>1, Constants DEF TypeOK
  <1>3. health'[p] = health[p] /\ lastHurt'[p] = lastHurt[p] => 
          /\ ~(health'[p] < health[p])
          /\ health[p] = 0 /\ health'[p] = 0 => lastHurt'[p] = lastHurt[p]
    BY <1>2
  <1>4. CASE Network
    <2>1. health'[p] = health[p] /\ lastHurt'[p] = lastHurt[p]
      BY <1>1, <1>4 DEF Network, Receive, ReceiveOwn, TypeOK
    <2>2. QED
      BY <1>3, <2>1
  <1>5. CASE UseWeapons \/ BeginUpdate \/ NextProjectile \/ EndProjectile \/ EndUpdate
             \/ UNCHANGED vars
    <2>1. health' = health /\ lastHurt' = lastHurt
      BY <1>5 DEF UseWeapons, Shoot, BeginUpdate, NextProjectile, EndProjectile, EndUpdate
    <2>2. QED
      BY <1>3, <2>1
  <1>6. ASSUME NEW q \in Slots, Passes(q)
        PROVE  health' = health /\ lastHurt' = lastHurt
    BY <1>6 DEF Passes
  <1>7. ASSUME NEW q \in Slots, NEW damage, BulletHits(q, damage) \/ GrenadeHits(q, damage)
        PROVE  /\ health'[p] < health[p] => HurtsOnce(p)
               /\ health[p] = 0 /\ health'[p] = 0 => lastHurt'[p] = lastHurt[p]
    <2>1. Asking(q) /\ DamagePlayer(q, damage) /\ damage \in Nat
      BY <1>7, Asked, DamageIsNat DEF BulletHits, GrenadeHits
    <2>2. /\ health'[p] = IF p = q /\ CanBeDamaged(q, damage)
                          THEN Left(q, damage) ELSE health[p]
          /\ lastHurt'[p] = IF p = q /\ CanBeDamaged(q, damage)
                            THEN current.by ELSE lastHurt[p]
      BY <1>1, <2>1, Damaged
    <2>3. CASE p = q /\ CanBeDamaged(q, damage)
      <3>1. health[p] > 0
        BY <2>3 DEF CanBeDamaged
      <3>2. /\ current # None /\ slot = p /\ current.type \in Types
            /\ NumSlots \in Nat /\ p \in 1 .. NumSlots
        BY <1>1, <2>1, <2>3, Asked, Constants DEF Asking, Slots
      <3>3. HurtSoFar
        BY DEF HurtInv
      <3>4. current.type = "StandardBullet" => current.hurt = {}
        BY <3>2, <3>3 DEF HurtSoFar
      <3>5. current.type = "SniperBullet" => p \notin current.hurt
        BY <3>2, <3>3 DEF HurtSoFar
      <3>6. current.type = "GrenadeProj" => p \notin current.hurt
        BY <3>2, <3>3 DEF HurtSoFar
      <3>7. HurtsOnce(p)
        BY <3>2, <3>4, <3>5, <3>6 DEF HurtsOnce, Types
      <3>8. QED
        BY <3>1, <3>7
    <2>4. CASE ~(p = q /\ CanBeDamaged(q, damage))
      BY <1>3, <2>2, <2>4
    <2>5. QED
      BY <2>3, <2>4
  <1>8. ASSUME NEW q \in Slots, Ask(q)
        PROVE  /\ health'[p] < health[p] => HurtsOnce(p)
               /\ health[p] = 0 /\ health'[p] = 0 => lastHurt'[p] = lastHurt[p]
    BY <1>3, <1>6, <1>7, <1>8 DEF Ask
  <1>9. ASSUME NEW q \in Slots, Respawn(q)
        PROVE  /\ ~(health'[p] < health[p])
               /\ lastHurt'[p] = lastHurt[p]
    <2>1. health'[p] = IF p = q THEN MaxHealth ELSE health[p]
      BY <1>1, <1>9 DEF Respawn, TypeOK
    <2>2. QED
      BY <1>2, <1>9, <2>1, Constants DEF Respawn
  <1>10. QED
    BY <1>4, <1>5, <1>8, <1>9 DEF Next

-----------------------------------------------------------------------------
Inv == TypeOK /\ HurtInv

LEMMA Invariance == Spec => []Inv
  <1>1. Init => Inv
    <2> SUFFICES ASSUME Init PROVE Inv
      OBVIOUS
    <2>1. Fresh(flying) /\ Fresh(kept) /\ current = None
      BY DEF Init, Fresh
    <2>2. QED
      BY <2>1, InitType DEF Inv, HurtInv, HurtSoFar
  <1>2. Inv /\ [Next]_vars => Inv'
    <2> SUFFICES ASSUME Inv, [Next]_vars PROVE Inv'
      OBVIOUS
    <2>1. HarmType' /\ RosterType' /\ ListType' /\ LoopType'
      BY HarmStep, RosterStep, ListStep, LoopStep DEF Inv
    <2>2. TypeOK'
      BY <2>1 DEF TypeOK, HarmType, RosterType, ListType, LoopType
    <2>3. QED
      BY <2>2, HurtStep DEF Inv
  <1>3. QED
    BY <1>1, <1>2, PTL DEF Spec

\* Every variable stays within its type: no grenade flies past its time, and no
\* health falls below zero, whatever reaches a player.
THEOREM ProjectilesTypeCorrect == Spec => []TypeOK
  <1>1. Inv => TypeOK
    BY DEF Inv
  <1>2. QED
    BY <1>1, Invariance, PTL

\* No bullet and no grenade hurts a player twice, and no standard bullet two players.
THEOREM HitsAreSingle == Spec => HurtOnce
  <1>1. Inv /\ [Next]_vars => [\A p \in Mine : health'[p] < health[p] => HurtsOnce(p)]_vars
    BY OwnStep DEF Inv
  <1>2. QED
    BY <1>1, Invariance, PTL DEF Spec, HurtOnce

\* As many kills as deaths, however many projectiles and players there are.
THEOREM KillsArePaid == Spec => KillPerDeath
  <1>1. Inv /\ [Next]_vars
          => [\A k \in Slots : kills'[k] = kills[k] + Cardinality(DieBy(k))]_vars
    BY KillStep DEF Inv
  <1>2. QED
    BY <1>1, Invariance, PTL DEF Spec, KillPerDeath

\* The dead keep the name of their killer until they are back.
THEOREM KillersAreKept == Spec => KillerIsKept
  <1>1. Inv /\ [Next]_vars
          => [\A p \in Mine : health[p] = 0 /\ health'[p] = 0
                                => lastHurt'[p] = lastHurt[p]]_vars
    BY OwnStep DEF Inv
  <1>2. QED
    BY <1>1, Invariance, PTL DEF Spec, KillerIsKept
=============================================================================
