SPECIFICATION CaptureSpec
CONSTANTS
  CaptureLast = 2
  SeqArgs = {99}
  MaxMessages = {99}
  CaptureRetries = 0
  Every = 2
  MaxRuns = 1
  MaxCaptureFaults = 1
  MaxDays = 1
INVARIANT InterruptIsClean
CHECK_DEADLOCK FALSE
