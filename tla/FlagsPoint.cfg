SPECIFICATION Spec
CONSTANTS
  NumBots = 1
  NumClients = 0
  Places <- Row
  Walk <- Neighbours
  Corner = 0
  Home <- Homes
  Goal <- Goals
  WinScore = 1
  CountdownFrames = 2
PROPERTY PointsGoToCarriers
