--------------------------- MODULE AbilityProofs ---------------------------
(***************************************************************************)
(* The effect of an ability never outlives its use, and uses are spaced.   *)
(***************************************************************************)
EXTENDS Ability, TLAPS

USE DEF vars

\* The frames since the last use are those of the use that goes on, or cover
\* the use that ended and what has been charged since.
SpacingCounts ==
    IF using
    THEN useFrames <= sinceUse /\ (ability # "Warp" => charge = 0)
    ELSE sinceUse >= MaxUseFrames(ability) + (IF ability = "Warp" THEN 0 ELSE charge)

Inv == TypeOK /\ EffectMatchesUse /\ SpacingCounts

\* The numbers of each ability.
LEMMA AbilityNumbers ==
  /\ MaxCharge("Warp") = 360 /\ MaxUseFrames("Warp") = 15 /\ UsePeriod("Warp") = 15
  /\ MaxCharge("Stim") = 180 /\ MaxUseFrames("Stim") = 180 /\ UsePeriod("Stim") = 360
  /\ MaxCharge("Cloak") = 480 /\ MaxUseFrames("Cloak") = 300 /\ UsePeriod("Cloak") = 780
  BY DEF MaxCharge, MaxUseFrames, UsePeriod

LEMMA AbilityFacts ==
  ASSUME NEW a \in Abilities
  PROVE  /\ MaxCharge(a) \in Nat /\ MaxUseFrames(a) \in Nat \ {0}
         /\ MaxCharge(a) \div 2 \in 0 .. MaxCharge(a)
         /\ UsePeriod(a) = MaxUseFrames(a) + (IF a = "Warp" THEN 0 ELSE MaxCharge(a))
  <1>1. a \in {"Warp", "Stim", "Cloak"}
    BY AbilitiesAssumption
  <1>2. MaxCharge(a) \in {360, 180, 480} /\ MaxUseFrames(a) \in {15, 180, 300}
    BY <1>1, AbilityNumbers
  <1>3. QED
    BY <1>2 DEF UsePeriod

LEMMA InitInv == Init => Inv
  <1> SUFFICES ASSUME Init PROVE Inv
    OBVIOUS
  <1>1. MaxCharge(ability) \in Nat /\ MaxUseFrames(ability) \in Nat \ {0} /\ ability \in Abilities
    BY AbilityFacts DEF Init
  <1>2. TypeOK
    <2>1. charge \in 0 .. MaxCharge(ability) /\ useFrames \in 0 .. MaxUseFrames(ability) - 1
      BY <1>1 DEF Init
    <2>2. sinceUse \in 0 .. UsePeriod(ability) /\ speed \in Int
      BY <1>1, AbilityFacts DEF Init
    <2>3. QED
      BY <1>1, <2>1, <2>2 DEF Init, TypeOK
  <1>3. EffectMatchesUse
    BY DEF Init, EffectMatchesUse
  <1>4. SpacingCounts
    BY <1>1, AbilityFacts DEF Init, SpacingCounts
  <1>5. QED
    BY <1>2, <1>3, <1>4 DEF Inv

LEMMA CooldownsInv ==
  ASSUME Inv, UpdateCooldowns
  PROVE  Inv'
  <1> DEFINE max == MaxUseFrames(ability)
             full == MaxCharge(ability)
             period == UsePeriod(ability)
  <1>1. TypeOK /\ EffectMatchesUse /\ SpacingCounts
    BY DEF Inv
  <1>2. /\ ability' = ability /\ alive' = alive /\ stage' = "input"
        /\ charge' = IF charge < full /\ ~using THEN charge + 1 ELSE charge
        /\ sinceUse' = IF sinceUse < period THEN sinceUse + 1 ELSE sinceUse
    BY DEF UpdateCooldowns, ChargeAfter, UseOver, FramesAfter, SpeedAfter
  <1>3. /\ full \in Nat /\ max \in Nat \ {0}
        /\ period = max + (IF ability = "Warp" THEN 0 ELSE full)
    BY <1>1, AbilityFacts DEF TypeOK
  <1>4. /\ charge \in 0 .. full /\ useFrames \in 0 .. max - 1 /\ sinceUse \in 0 .. period
        /\ using \in BOOLEAN /\ cloaking \in BOOLEAN
    BY <1>1 DEF TypeOK
  <1>5. CASE ~using
    <2>1. /\ using' = FALSE /\ useFrames' = useFrames /\ speed' = speed /\ cloaking' = cloaking
      BY <1>5 DEF UpdateCooldowns, ChargeAfter, UseOver, FramesAfter, SpeedAfter
    <2>2. TypeOK'
      <3>1. charge' \in 0 .. full /\ sinceUse' \in 0 .. period /\ speed' \in Int
        <4> HIDE DEF full, period
        <4>1. speed \in Int
          BY <1>1 DEF TypeOK
        <4>2. QED
          BY <1>2, <1>3, <1>4, <2>1, <4>1
      <3>2. QED
        BY <1>1, <1>2, <1>4, <2>1, <3>1 DEF TypeOK
    <2>3. EffectMatchesUse'
      BY <1>1, <1>2, <1>5, <2>1 DEF EffectMatchesUse
    <2>4. sinceUse >= max + (IF ability = "Warp" THEN 0 ELSE charge)
      BY <1>1, <1>5 DEF SpacingCounts
    <2> HIDE DEF max, full, period
    <2>5. sinceUse' >= max + (IF ability = "Warp" THEN 0 ELSE charge')
      BY <1>2, <1>3, <1>4, <1>5, <2>4
    <2>6. SpacingCounts'
      BY <1>2, <2>1, <2>5 DEF SpacingCounts, max
    <2>7. QED
      BY <2>2, <2>3, <2>6 DEF Inv
  <1>6. CASE using /\ ~(useFrames + 1 >= max)
    <2>1. /\ using' = TRUE /\ useFrames' = useFrames + 1 /\ speed' = speed /\ cloaking' = cloaking
          /\ charge' = charge
      BY <1>6 DEF UpdateCooldowns, ChargeAfter, UseOver, FramesAfter, SpeedAfter
    <2>2. TypeOK'
      BY <1>1, <1>2, <1>3, <1>4, <1>6, <2>1 DEF TypeOK
    <2>3. EffectMatchesUse'
      BY <1>1, <1>2, <1>6, <2>1 DEF EffectMatchesUse
    <2>4. useFrames <= sinceUse /\ (ability # "Warp" => charge = 0)
      BY <1>1, <1>6 DEF SpacingCounts
    <2> HIDE DEF max, full, period
    <2>5. useFrames' <= sinceUse'
      BY <1>2, <1>3, <1>4, <1>6, <2>1, <2>4
    <2>6. SpacingCounts'
      BY <1>2, <2>1, <2>4, <2>5 DEF SpacingCounts
    <2>7. QED
      BY <2>2, <2>3, <2>6 DEF Inv
  <1>7. CASE using /\ useFrames + 1 >= max
    <2>1. /\ using' = FALSE /\ useFrames' = 0 /\ charge' = charge
          /\ speed' = IF ability = "Stim" THEN speed - 1 ELSE speed
          /\ cloaking' = IF ability = "Cloak" THEN FALSE ELSE cloaking
      BY <1>7 DEF UpdateCooldowns, ChargeAfter, UseOver, FramesAfter, SpeedAfter
    <2>2. TypeOK'
      <3>1. /\ charge' \in 0 .. full /\ sinceUse' \in 0 .. period /\ useFrames' \in 0 .. max - 1
            /\ speed' \in Int
        <4> HIDE DEF full, period, max
        <4>1. speed \in Int
          BY <1>1 DEF TypeOK
        <4>2. QED
          BY <1>2, <1>3, <1>4, <2>1, <4>1
      <3>2. cloaking' \in BOOLEAN
        BY <1>4, <2>1, Zenon
      <3>3. QED
        BY <1>1, <1>2, <2>1, <3>1, <3>2 DEF TypeOK
    <2>3. EffectMatchesUse'
      BY <1>1, <1>2, <1>7, <2>1 DEF EffectMatchesUse
    <2>4. useFrames <= sinceUse /\ (ability # "Warp" => charge = 0)
      BY <1>1, <1>7 DEF SpacingCounts
    <2> HIDE DEF max, full, period
    <2>5. sinceUse' >= max + (IF ability = "Warp" THEN 0 ELSE charge')
      BY <1>2, <1>3, <1>4, <1>7, <2>1, <2>4
    <2>6. SpacingCounts'
      BY <1>2, <2>1, <2>5 DEF SpacingCounts, max
    <2>7. QED
      BY <2>2, <2>3, <2>6 DEF Inv
  <1>8. QED
    BY <1>4, <1>5, <1>6, <1>7

LEMMA UseInv ==
  ASSUME Inv, UseAbility
  PROVE  Inv'
  <1>1. TypeOK /\ EffectMatchesUse
    BY DEF Inv
  <1>2. /\ ~using /\ using' = TRUE /\ sinceUse' = 0 /\ stage' = "end"
        /\ ability' = ability /\ useFrames' = useFrames /\ alive' = alive
    BY DEF UseAbility, CanUse
  <1>3. speed = 0 /\ cloaking = FALSE /\ useFrames = 0
    BY <1>1, <1>2 DEF EffectMatchesUse
  <1>4. /\ charge' \in 0 .. MaxCharge(ability)
        /\ ability # "Warp" => charge' = 0
        /\ speed' = IF ability = "Stim" THEN 1 ELSE 0
        /\ cloaking' \in BOOLEAN /\ (cloaking' <=> ability = "Cloak")
    <2>1. /\ charge \in 0 .. MaxCharge(ability) /\ MaxCharge(ability) \in Nat
          /\ MaxCharge(ability) \div 2 \in 0 .. MaxCharge(ability)
      BY <1>1, AbilityFacts DEF TypeOK
    <2>2. CASE UseWarp
      <3>1. ability = "Warp" /\ speed' = 0 /\ cloaking' = FALSE
        BY <1>3, <2>2 DEF UseWarp
      <3>2. charge' \in 0 .. MaxCharge(ability)
        BY <2>1, <2>2 DEF UseWarp
      <3>3. QED
        BY <3>1, <3>2
    <2>3. CASE UseStim
      <3>1. ability = "Stim" /\ charge' = 0 /\ speed' = 1 /\ cloaking' = FALSE
        BY <1>3, <2>3 DEF UseStim
      <3>2. 0 \in 0 .. MaxCharge(ability)
        BY <2>1
      <3>3. charge' \in 0 .. MaxCharge(ability)
        BY <3>1, <3>2
      <3>4. QED
        BY <3>1, <3>3
    <2>4. CASE UseCloak
      BY <1>3, <2>1, <2>4 DEF UseCloak
    <2>5. QED
      BY <2>2, <2>3, <2>4 DEF UseAbility
  <1>5. TypeOK'
    <2>1. UsePeriod(ability) \in Nat
      BY <1>1, AbilityFacts DEF TypeOK
    <2>2. QED
      BY <1>1, <1>2, <1>4, <2>1 DEF TypeOK
  <1>6. EffectMatchesUse' /\ SpacingCounts'
    BY <1>2, <1>3, <1>4 DEF EffectMatchesUse, SpacingCounts
  <1>7. QED
    BY <1>5, <1>6 DEF Inv

LEMMA NextInv ==
  ASSUME Inv, [Next]_vars
  PROVE  Inv'
  <1>1. CASE UpdateCooldowns
    BY <1>1, CooldownsInv
  <1>2. CASE UseAbility
    BY <1>2, UseInv
  <1>3. CASE NotUsed
    BY <1>3 DEF Inv, TypeOK, EffectMatchesUse, SpacingCounts, NotUsed
  <1>4. CASE EndFrame
    BY <1>4 DEF Inv, TypeOK, EffectMatchesUse, SpacingCounts, EndFrame
  <1>5. CASE UNCHANGED vars
    BY <1>5 DEF Inv, TypeOK, EffectMatchesUse, SpacingCounts
  <1>6. QED
    BY <1>1, <1>2, <1>3, <1>4, <1>5 DEF Next

-----------------------------------------------------------------------------
\* Charges, frames and boosts stay within their types, whatever is pressed.
THEOREM AbilityTypeCorrect == Spec => []TypeOK
  <1>1. Inv => TypeOK
    BY DEF Inv
  <1>2. QED
    BY <1>1, InitInv, NextInv, PTL DEF Spec

\* No boost and no cloak outlives its use or ends before it, and none is taken
\* back twice (use_ability, update_player_cooldowns).
THEOREM EffectsEnd == Spec => []EffectMatchesUse
  <1>1. Inv => EffectMatchesUse
    BY DEF Inv
  <1>2. QED
    BY <1>1, InitInv, NextInv, PTL DEF Spec

\* Between two uses the first ends and its cost is charged again (use_ability).
THEOREM UsesAreSpaced == Spec => UseSpacing
  <1>1. Inv /\ UseAbility => sinceUse >= UsePeriod(ability)
    <2> SUFFICES ASSUME Inv, UseAbility PROVE sinceUse >= UsePeriod(ability)
      OBVIOUS
    <2>1. /\ ability \in Abilities /\ sinceUse \in Nat /\ ~using
          /\ sinceUse >= MaxUseFrames(ability) + (IF ability = "Warp" THEN 0 ELSE charge)
      BY DEF Inv, TypeOK, SpacingCounts, UseAbility, CanUse
    <2>2. ability # "Warp" => charge >= MaxCharge(ability)
      BY DEF UseAbility, UseWarp, UseStim, UseCloak
    <2>3. charge \in Nat
      BY DEF Inv, TypeOK
    <2>4. QED
      BY <2>1, <2>2, <2>3, AbilityFacts
  <1>2. QED
    BY <1>1, InitInv, NextInv, PTL DEF Spec, UseSpacing
=============================================================================
