SPECIFICATION CoreSpec
CONSTANTS
  Streams <- XTX
  Bootstraps <- Replay
  EndOfSession = FALSE
  MaxFhCrashes = 2
  MaxDbCrashes = 1
  MaxStalls = 1
  Numbers <- MCNumbers
  Books <- MCBooks
  Home <- MCHome
  Sides <- OneSide
  Prices <- MCPrices
  Qtys <- MCQtys
  ZeroOrders = {}
  Depth = 1
  QtyMod = 16
INVARIANTS
  OrdersMirrored
  LevelsMatchOrders
  RowsFreshAlone
  MarketExact
  MirrorPrefix
  NoDuplicateUpdates
  DrainedMeansSynced
  Inv
  GapBounded
  MarketConsistent
  SnapshotJoins
PROPERTIES
  RecoverInvisible
  MirrorRefined
  Convergence
CHECK_DEADLOCK FALSE
