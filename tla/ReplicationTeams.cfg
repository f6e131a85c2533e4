SPECIFICATION FairSpec
CONSTANTS
  c1 = c1
  c2 = c2
  b1 = b1
  Host = h
  Clients = {c1}
  Bots <- OneBot
  Phantom = ph
  None = none
  Mode = "ctf"
  NumTeams = 2
  MaxHealth = 1
  RespawnFrames = 2
  WinScore = 2
  NumSlots = 3
  HostBacklog = 1
  ClientBacklog = 2
  MaxDeaths = 2
INVARIANTS TeamAgreement KillsAreDeaths
PROPERTIES DeadComeBack ClientsJoin
