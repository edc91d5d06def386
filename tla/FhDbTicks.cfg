SPECIFICATION Spec
CONSTANTS
  Streams <- TickThenBook
  Bootstraps <- Replay
  EndOfSession = FALSE
  MaxFhCrashes = 1
  MaxDbCrashes = 0
  MaxStalls = 0
INVARIANTS
  TicksRecovered
CHECK_DEADLOCK FALSE
