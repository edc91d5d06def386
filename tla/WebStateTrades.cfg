SPECIFICATION WebFairSpec
CONSTANTS
  Stream <- TradeThenQuotes
  MaxFhCrashes = 0
  MaxDbCrashes = 0
  MaxLost = 0
  MaxLate = 0
  MaxFetchFails = 0
  MaxQueue = 3
  MaxAttempts = 3
  PromptDb = FALSE
PROPERTY
  SeedsNewTrade
CHECK_DEADLOCK FALSE
