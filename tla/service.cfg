\* Two callers, an adapter platform and a runner platform, two tasks.
SPECIFICATION FairSpec
CONSTANTS
  c1 = c1  c2 = c2  c3 = c3  sc = sc  cb = cb
  s1 = s1  s2 = s2  m1 = m1  m2 = m2
  None = None
  Clients = {c1, c2}
  Platforms = {sc, cb}
  Hardened = {sc}
  Sessions = {s1, m1}
  root <- roots
  firstPlatform = cb
  MaxTasks = 2
  MaxCalls = 2
INVARIANTS
  SessionsStayHome
  NoStaleOutcome
  LeaseHasItsHolder
  StopReachesItsTask
PROPERTIES
  ImplementsDesk
  TaskIsSettled
CHECK_DEADLOCK FALSE
