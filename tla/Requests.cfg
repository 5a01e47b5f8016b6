SPECIFICATION MCSpec
CONSTANTS
  Input <- MCInput
  Execution = {x1, x2}
  Payload = {A, B}
  RateMax = 1
  Backpressure = 1
  MaxApiFaults = 1
  NoRun = NoRun
  Pack = {p1, p2}
  PackOp = {o1, o2, o3}
  AgentLimit = 1
  MaxSaves = 2
  NoAgent = NoAgent
  NoPack = NoPack
  Consumer = {c1, c2, c3}
  Cost = {1, 4}
  DefaultLimit = 5
  Limits = {3}
  Person = {u1, u2}
  Founder = u1
  Invite = {i1}
  MemberOp = {m1, m2}
  MaxOps = 2
  ConnOp = {k1, k2, k3}
  NoSession = NoSession
  CrmSync = {h1, h2, h3}
SYMMETRY Alike
CHECK_DEADLOCK FALSE
INVARIANTS
  MCTypeOK
  AcceptsRootedDags
  OrderIsTopological
  ReportsACycle
  RefusedNeverRuns
  RunningIsCarried
  OnlyWorkersOvershoot
  AlertWhileHigh
  ActiveHasTokens
PROPERTIES
  ImplementsAgentLimit
  UninstallKeepsDependents
  PoliciesLostToRacesOnly
  OwnerRemains
  
  SyncKeepsConnection
  OneCompany
