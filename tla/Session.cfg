SPECIFICATION Spec
CONSTANTS
  GameModes = {"deathmatch", "gun_game", "capture_the_flag"}
  Values <- Choices
  Default <- Defaults
  WinScore = 2
INVARIANTS TypeOK PlayedModeIsNamed
PROPERTIES ImplementsStore StartShows InterruptedSave
