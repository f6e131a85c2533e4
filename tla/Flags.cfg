SPECIFICATION FairSpec
CONSTANTS
  NumBots = 1
  NumClients = 1
  Places <- Row
  Walk <- Neighbours
  Corner = 0
  Home <- Homes
  Goal <- Goals
  WinScore = 1
  CountdownFrames = 2
INVARIANTS TypeOK FlagIsWithHolder
PROPERTIES NoTeleport FirstTeamDefends MatchEnds
