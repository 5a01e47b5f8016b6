SPECIFICATION ServiceSpec
CONSTANTS
  Exec = {e1}
  Key <- MCKeys
  Worker = {w1, w2}
  TriggerJob = {}
  Canvases <- MCEdits
  MaxAttempts = 2
  MaxDeliveries = 2
  MaxStalled = 1
  MaxDepth = 3
  QuotaLimit = 1
  MaxClock = 4
  MaxFaults = 0
  Cancellable = {}
  Request = {q1}
  NoKey = NoKey
  NoExec = NoExec
  NoJob = NoJob
  NoWorker = NoWorker
SYMMETRY Slots
CHECK_DEADLOCK FALSE
INVARIANTS
  NoOrphans
