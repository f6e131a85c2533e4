SPECIFICATION Spec
CONSTANTS
  c1 = c1
  c2 = c2
  b1 = b1
  Host = h
  Clients = {c1, c2}
  Bots <- NoBots
  Phantom = ph
  None = none
  Mode = "ctf"
  NumTeams = 2
  MaxHealth = 1
  RespawnFrames = 2
  WinScore = 1
  NumSlots = 4
  HostBacklog = 3
  ClientBacklog = 1
  MaxDeaths = 1
INVARIANTS HostExitsByGarbage NoTeamExit CopiesNotAhead NoFriendlyKills DeadAreCredited
SYMMETRY SameClients
ACTION_CONSTRAINTS FramesInTurn MatchGoesOn NothingLost OnceSeated GarbageIsUnhurt
