SPECIFICATION Spec
CONSTANTS
  NumSlots = 3
  Bots = {2}
  Copies = {3}
  red = red
  blue = blue
  Teams <- TwoTeams
  TeamKilling = FALSE
  MaxHealth = 2
  Damage <- Hits
  NumPellets = 2
  FramesTillExplosion = 2
  MaxProjectiles = 2
  MaxKills = 1
INVARIANT TypeOK
PROPERTIES HurtOnce KillPerDeath KillerIsKept
SYMMETRY SameTeams
