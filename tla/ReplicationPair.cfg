SPECIFICATION Spec
CONSTANTS
  c1 = c1
  c2 = c2
  b1 = b1
  Host = h
  Clients = {c1}
  Bots <- NoBots
  Phantom = ph
  None = none
  Mode = "ffa"
  NumTeams = 2
  MaxHealth = 1
  RespawnFrames = 3
  WinScore = 2
  NumSlots = 2
  HostBacklog = 2
  ClientBacklog = 3
  MaxDeaths = 2
INVARIANTS TypeOK NoDoubleKill VictoryIsReal
PROPERTIES CopiesNeverGoBack ImplementsScoreboard
