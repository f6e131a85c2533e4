SPECIFICATION FairSpec
CONSTANTS
  NumWeapons = 4
  AmmoCount <- Magazines
  ReloadFrames <- ReloadTimes
  CooldownFrames <- Cooldowns
  SwitchFrames = 2
  ThrowFrames = 1
  NumThrowables = 1
  MaxKills = 4
INVARIANTS TypeOK AmmoWithinMagazine
PROPERTIES ShotSpacing GunGameShots HoldingFireShoots HoldingThrowThrows ReloadEnds
