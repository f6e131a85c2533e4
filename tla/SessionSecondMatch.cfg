SPECIFICATION Spec
CONSTANTS
  GameModes = {"deathmatch", "capture_the_flag"}
  Values <- Choices
  Default <- Defaults
  WinScore = 2
INVARIANT TeamHasWon
