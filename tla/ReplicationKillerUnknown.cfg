SPECIFICATION Spec
CONSTANTS
  c1 = c1
  c2 = c2
  b1 = b1
  Host = h
  Clients = {c1, c2}
  Bots <- NoBots
  Phantom = ph
  None = none
  Mode = "ffa"
  NumTeams = 3
  MaxHealth = 1
  RespawnFrames = 2
  WinScore = 2
  NumSlots = 3
  HostBacklog = 2
  ClientBacklog = 1
  MaxDeaths = 1
INVARIANT KillerAlwaysFound
