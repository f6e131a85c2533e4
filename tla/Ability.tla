------------------------------ MODULE Ability ------------------------------
(***************************************************************************)
(* The ability of one player in his own process, frame by frame: charging, *)
(* using, and what it does to his speed and visibility (use_ability and    *)
(* update_player_cooldowns of src/player.c). The frame numbers are those   *)
(* of the code.                                                            *)
(*                                                                         *)
(* A use that starts must be undone exactly once, frames later, and by     *)
(* another function; nothing resets it when the player dies in between.    *)
(* Bots use the same function (run_bots).                                  *)
(***************************************************************************)
EXTENDS Integers

CONSTANT Abilities      \* the abilities players choose from

ASSUME AbilitiesAssumption == Abilities \subseteq {"Warp", "Stim", "Cloak"}

\* get_max_ability_charge
MaxCharge(a) == CASE a = "Warp" -> 6 * 60 [] a = "Stim" -> 3 * 60 [] a = "Cloak" -> 8 * 60

\* get_max_ability_use_frames
MaxUseFrames(a) == CASE a = "Warp" -> 15 [] a = "Stim" -> 180 [] a = "Cloak" -> 300

VARIABLES
    stage,      \* the part of the frame that comes next
    ability,
    charge,     \* ability_charge
    using,      \* using_ability
    useFrames,  \* num_frames_ability_in_use
    speed,      \* how often the default speed has been multiplied by 1.75
    cloaking,
    alive,      \* health > 0
    sinceUse    \* history: frames since the last use began, up to UsePeriod

vars == <<stage, ability, charge, using, useFrames, speed, cloaking, alive, sinceUse>>

\* The frames that lie between two uses at least: the first must end, and what
\* it cost be charged again. Half the charge of a warp is left for a second.
UsePeriod(a) == MaxUseFrames(a) + (IF a = "Warp" THEN 0 ELSE MaxCharge(a))

TypeOK ==
    /\ stage \in {"cooldowns", "input", "end"}
    /\ ability \in Abilities
    /\ charge \in 0 .. MaxCharge(ability)
    /\ using \in BOOLEAN /\ cloaking \in BOOLEAN /\ alive \in BOOLEAN
    /\ useFrames \in 0 .. MaxUseFrames(ability) - 1
    /\ speed \in Int
    /\ sinceUse \in 0 .. UsePeriod(ability)

Init ==
    /\ stage = "cooldowns"
    /\ ability \in Abilities
    /\ charge = MaxCharge(ability)
    /\ using = FALSE /\ useFrames = 0
    /\ speed = 0 /\ cloaking = FALSE
    /\ alive = TRUE
    /\ sinceUse = UsePeriod(ability)

\* Mutant of ChargeAfter: it charges while it is used.
AlwaysCharges == IF charge < MaxCharge(ability) THEN charge + 1 ELSE charge

\* The ability charges unless it is used.
ChargeAfter == IF charge < MaxCharge(ability) /\ ~using THEN charge + 1 ELSE charge

\* A use that reaches its time ends, and takes its effect back.
UseOver == using /\ useFrames + 1 >= MaxUseFrames(ability)

\* Mutant of FramesAfter: the time of the dead stands still.
FramesWhileAlive ==
    IF UseOver THEN 0 ELSE IF using /\ alive THEN useFrames + 1 ELSE useFrames

FramesAfter == IF UseOver THEN 0 ELSE IF using THEN useFrames + 1 ELSE useFrames

\* Mutant of SpeedAfter: the dead keep the boost.
SpeedWhileAlive == IF UseOver /\ alive /\ ability = "Stim" THEN speed - 1 ELSE speed

SpeedAfter == IF UseOver /\ ability = "Stim" THEN speed - 1 ELSE speed

\* update_player_cooldowns
UpdateCooldowns ==
    /\ stage = "cooldowns" /\ stage' = "input"
    /\ charge' = ChargeAfter
    /\ using' = (using /\ ~UseOver)
    /\ useFrames' = FramesAfter
    /\ speed' = SpeedAfter
    /\ cloaking' = IF UseOver /\ ability = "Cloak" THEN FALSE ELSE cloaking
    /\ sinceUse' = IF sinceUse < UsePeriod(ability) THEN sinceUse + 1 ELSE sinceUse
    /\ UNCHANGED <<ability, alive>>

CanUse == alive /\ ~using

\* Mutant of UseWarp: the charge is not asked.
WarpUncharged ==
    /\ ability = "Warp"
    /\ charge' = charge - MaxCharge(ability) \div 2
    /\ UNCHANGED <<speed, cloaking>>

\* use_ability: a warp costs half the charge, and is called off if it would
\* end in a wall (either may be the case, positions are not modelled).
UseWarp ==
    /\ ability = "Warp" /\ charge >= MaxCharge(ability) \div 2
    /\ charge' = charge - MaxCharge(ability) \div 2
    /\ UNCHANGED <<speed, cloaking>>

UseStim ==
    /\ ability = "Stim" /\ charge >= MaxCharge(ability)
    /\ charge' = 0
    /\ speed' = speed + 1
    /\ UNCHANGED cloaking

UseCloak ==
    /\ ability = "Cloak" /\ charge >= MaxCharge(ability)
    /\ charge' = 0
    /\ cloaking' = TRUE
    /\ UNCHANGED speed

UseAbility ==
    /\ stage = "input" /\ stage' = "end"
    /\ CanUse
    /\ UseWarp \/ UseStim \/ UseCloak
    /\ using' = TRUE
    /\ sinceUse' = 0
    /\ UNCHANGED <<ability, useFrames, alive>>

\* The key is not held, use_ability returns early, or a warp is called off.
NotUsed ==
    /\ stage = "input" /\ stage' = "end"
    /\ UNCHANGED <<ability, charge, using, useFrames, speed, cloaking, alive, sinceUse>>

\* The player dies (damage_player) or comes back (respawn_players).
EndFrame ==
    /\ stage = "end" /\ stage' = "cooldowns"
    /\ alive' \in BOOLEAN
    /\ UNCHANGED <<ability, charge, using, useFrames, speed, cloaking, sinceUse>>

Next == UpdateCooldowns \/ UseAbility \/ NotUsed \/ EndFrame

Spec == Init /\ [][Next]_vars

\* The frame loop goes on.
FairSpec == Spec /\ WF_vars(UpdateCooldowns) /\ WF_vars(UseAbility \/ NotUsed) /\ WF_vars(EndFrame)

-----------------------------------------------------------------------------
\* The effect of an ability lasts as long as its use, no boost is left behind
\* or taken back twice, whether or not the player dies meanwhile
\* (use_ability, update_player_cooldowns).
EffectMatchesUse ==
    /\ speed = IF using /\ ability = "Stim" THEN 1 ELSE 0
    /\ cloaking <=> using /\ ability = "Cloak"
    /\ ~using => useFrames = 0

\* Between two uses the first ends and its cost is charged again (use_ability).
UseSpacing == [][UseAbility => sinceUse >= UsePeriod(ability)]_vars

\* A use ends, also when the player dies in the middle of it.
UseEnds == using ~> ~using
=============================================================================
