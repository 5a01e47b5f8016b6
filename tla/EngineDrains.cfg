SPECIFICATION FairServiceSpec
CONSTANTS
  Exec = {e1}
  Key <- MCPair
  Worker = {w1, w2}
  TriggerJob = {}
  Canvases <- MCDirect
  MaxAttempts = 2
  MaxDeliveries = 2
  MaxStalled = 1
  MaxDepth = 3
  QuotaLimit = 1
  MaxClock = 3
  MaxFaults = 1
  Cancellable = {}
  Request = {q1}
  NoKey = NoKey
  NoExec = NoExec
  NoJob = NoJob
  NoWorker = NoWorker
CHECK_DEADLOCK FALSE
PROPERTIES
  QueueDrains

