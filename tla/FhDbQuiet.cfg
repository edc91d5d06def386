SPECIFICATION FairSpec
CONSTANTS
  Streams <- TwoX
  Bootstraps <- Replay
  EndOfSession = FALSE
  MaxFhCrashes = 0
  MaxDbCrashes = 1
  MaxStalls = 0
PROPERTIES
  RestartHeals
CHECK_DEADLOCK FALSE
