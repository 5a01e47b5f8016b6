SPECIFICATION FairServiceSpec
CONSTANTS
  Exec = {e1, e2}
  Key <- MCPair
  Worker = {w1, w2}
  TriggerJob = {t1}
  Canvases <- MCHeadless
  MaxAttempts = 2
  MaxDeliveries = 2
  MaxStalled = 1
  MaxDepth = 3
  QuotaLimit = 1
  MaxClock = 3
  MaxFaults = 0
  Cancellable = {}
  Request = {q1}
  NoKey = NoKey
  NoExec = NoExec
  NoJob = NoJob
  NoWorker = NoWorker
CHECK_DEADLOCK FALSE
PROPERTIES
  RunsWithoutTriggerFail
