SPECIFICATION Spec
CONSTANTS
  Streams <- TwoX
  Bootstraps <- Replay
  EndOfSession = TRUE
  MaxFhCrashes = 0
  MaxDbCrashes = 0
  MaxStalls = 0
INVARIANTS
  TailKept
CHECK_DEADLOCK FALSE
