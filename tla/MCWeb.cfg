SPECIFICATION FairSpec
CONSTANTS
  Stream <- IdleAfterFirst
  MaxFhCrashes = 0
  MaxDbCrashes = 0
  MaxLost = 0
  MaxLate = 0
  MaxFetchFails = 2
  MaxQueue = 3
  MaxAttempts = 3
  PromptDb = TRUE
  Pages = {"p1", "p2"}
  PushTickers = {"a", "b"}
  MaxBuf = 1
  MaxUpdates = 2
  MaxRestarts = 0
  MaxPushSelects = 2
  MaxDrops = 1
  PanelTickers = {"a", "b"}
  Pieces = 2
  MaxReqs = 2
  MaxPanelSelects = 3
  MaxReloads = 1
INVARIANTS
  TypeOK
  OneIncarnation
  SingleFetch
  GapsAreLosses
  HubMatchesPages
  RowsOfSelected
  AnsweredOnce
PROPERTIES
  MergeKeepsFresh
  EventuallyShown
CHECK_DEADLOCK FALSE
