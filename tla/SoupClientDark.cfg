SPECIFICATION SoupFairSpec
CONSTANTS
  SoupLast = 3
  MaxSoupDay = 2
  StartSession = 0
  StartSeq = 1
  Authorized = TRUE
  MaxSoupFaults = 1
  DarkLogin = TRUE
  MaxSoupWire = 3
PROPERTY
  SilenceNoticed
CHECK_DEADLOCK FALSE
