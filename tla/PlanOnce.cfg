SPECIFICATION FairMCSpec
CONSTANTS
  Event <- MCSmallEvent
  EventData <- MCSmallData
  Histories <- MCSmallHistories
  Request = {r1, r2}
  Plan = {"starter", "pro"}
  Starter = "starter"
  MaxFaults = 1
  NoOne = NoOne
  NoEvent = NoEvent
  NoView = NoView
  Exec = {e1}
  Runner = {s1, s2}
  PlanSize = 1
  CostCeiling = 1
  RetryAttempts = 1
  FailureThreshold = 2
  MaxLockLosses = 0
  NoExec = NoExec
  Free = Free
  Orphan = Orphan
  Modes <- MCModes
  MaxDeliveries = 2
  MaxStalled = 1
  MaxAgentFaults = 1
  Delivery = {d1, d2}
  Sender = {p1, p2}
  FailureLimit = 2
  MaxSends = 2
  MaxHookFaults = 1
  MaxEdits = 2
  NoDelivery = NoDelivery
CHECK_DEADLOCK FALSE
PROPERTIES
  ResultEndsThePlan
