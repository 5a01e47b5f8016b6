SPECIFICATION MCSpec
CONSTANTS
  Event <- MCEvent
  EventData <- MCEventData
  Histories <- MCHistories
  Request = {r1, r2}
  Plan = {"starter", "pro"}
  Starter = "starter"
  MaxFaults = 1
  NoOne = NoOne
  NoEvent = NoEvent
  NoView = NoView
  Exec = {e1}
  Runner = {s1, s2}
  PlanSize = 2
  CostCeiling = 2
  RetryAttempts = 2
  FailureThreshold = 2
  MaxLockLosses = 1
  NoExec = NoExec
  Free = Free
  Orphan = Orphan
  Modes <- MCModes
  MaxDeliveries = 2
  MaxStalled = 1
  MaxAgentFaults = 1
  Delivery = {d1, d2, d3}
  Sender = {p1, p2}
  FailureLimit = 2
  MaxSends = 2
  MaxHookFaults = 1
  MaxEdits = 2
  NoDelivery = NoDelivery
CHECK_DEADLOCK FALSE
INVARIANTS
  AckedWasApplied
  OneChangeUnderTheLock
  StaleCacheHasReason
  OnePlanRunner
  DeliveredWasCharged
  JobOutcomeStored
PROPERTIES
  ImplementsLifecycle
  ResultIsReused
  DisablingHasReason
  DisabledStays
