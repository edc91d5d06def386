SPECIFICATION FairSpec
CONSTANTS
  SoupLast = 4
  MaxSoupDay = 2
  StartSession = 0
  StartSeq = 1
  Authorized = TRUE
  MaxSoupFaults = 4
  DarkLogin = TRUE
  MaxSoupWire = 3
  FeedLast = 3
  Cut = 1
  SnapLen = 1
  FeedRetries = {0, 2}
  Limits = {0, 2}
  MaxFeedDay = 2
  MaxFeedFaults = 2
  MaxFeedWire = 3
  Socks = {"s1", "s2"}
  Delays = {0, 1}
  MaxTimers = 3
  MaxClock = 1
  CaptureLast = 3
  SeqArgs = {99, 0, 2}
  MaxMessages = {99, 2}
  CaptureRetries = 1
  Every = 2
  MaxRuns = 3
  MaxCaptureFaults = 2
  MaxDays = 2
  Window = 3
  Silence = 2
  WantedSet = {0, 2}
  MaxPackets = 5
INVARIANTS
  TypeOK
  DeliveredExactly
  Lifeline
  AppliedExactly
  OneEnding
  CaptureExact
  ExitCodeHonest
  WaitsKept
  StreamExact
  ManifestExact
  RoundTrip
  DecodesWhole
  FramesDecoded
PROPERTIES
  RunsAsScheduled
  Finishes
CHECK_DEADLOCK FALSE
