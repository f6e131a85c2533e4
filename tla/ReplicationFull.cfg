SPECIFICATION Spec
CONSTANTS
  c1 = c1
  c2 = c2
  b1 = b1
  Host = h
  Clients = {c1, c2}
  Bots <- NoBots
  Phantom = ph
  None = none
  Mode = "ffa"
  NumTeams = 3
  MaxHealth = 1
  RespawnFrames = 2
  WinScore = 1
  NumSlots = 3
  HostBacklog = 3
  ClientBacklog = 2
  MaxDeaths = 0
INVARIANT NoSpectators
SYMMETRY SameClients
ACTION_CONSTRAINT FramesInTurn
