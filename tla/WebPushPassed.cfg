SPECIFICATION PushSpec
CONSTANTS
  Pages = {"p1", "p2"}
  PushTickers = {"a"}
  MaxBuf = 1
  MaxUpdates = 2
  MaxRestarts = 0
  MaxPushSelects = 2
  MaxDrops = 0
INVARIANT
  EverySubscriberPushed
CHECK_DEADLOCK FALSE
