SPECIFICATION Spec
CONSTANTS
  Exec = {e1}
  Key <- MCKeys
  Worker = {w1, w2}
  TriggerJob = {t1}
  Canvases <- MCAll
  MaxAttempts = 2
  MaxDeliveries = 2
  MaxStalled = 1
  MaxDepth = 3
  QuotaLimit = 1
  MaxClock = 4
  MaxFaults = 1
  Cancellable = {e1}
  NoKey = NoKey
  NoExec = NoExec
  NoJob = NoJob
  NoWorker = NoWorker
SYMMETRY Slots
CONSTRAINT MCBounds
CHECK_DEADLOCK FALSE
INVARIANTS
  SuccessIsFinal
  JobsAreCaused
  BranchesExclude
  DepthIsSound
  OutcomeHasReason
  QuotaOvershootBounded
PROPERTIES
  ImplementsProgress
