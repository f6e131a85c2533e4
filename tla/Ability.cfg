SPECIFICATION FairSpec
CONSTANT Abilities <- AllAbilities
INVARIANTS TypeOK EffectMatchesUse
PROPERTIES UseSpacing UseEnds
