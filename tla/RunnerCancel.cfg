SPECIFICATION FairSpec
CONSTANTS
  Exec = {e1}
  Key <- MCKeys
  Worker = {w1, w2}
  TriggerJob = {t1}
  Canvases <- MCFallbacks
  MaxAttempts = 2
  MaxDeliveries = 2
  MaxStalled = 1
  MaxDepth = 3
  QuotaLimit = 1
  MaxClock = 4
  MaxFaults = 0
  Cancellable = {e1}
  NoKey = NoKey
  NoExec = NoExec
  NoJob = NoJob
  NoWorker = NoWorker
CHECK_DEADLOCK FALSE
PROPERTIES
  CancelledStops
