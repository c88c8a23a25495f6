\* Two sessions of one workspace, one run each, over a seeded live master.
SPECIFICATION Spec
CONSTANTS
  s1 = s1  s2 = s2  r1 = r1  r2 = r2  u1 = u1  u2 = u2  u3 = u3
  final = final  views = views
  NoRun = NoRun
  NoFile = NoFile
  Sessions = {s1, s2}
  Runs = {r1, r2}
  SessionOf <- TwoSessions
  Urls = {u1, u2, u3}
  Findings <- ApartFindings
  Manual = {}
  Blacklist = {}
  Views = {final, views}
  Seeded = TRUE
  SeedUrls = {u1}
  ShadowModes = {FALSE}
  MaxStagings = 2
  MaxCrashes = 2
  MaxFaults = 1
SYMMETRY Interchangeable
INVARIANTS
  NothingVisibleBeforeWitness
  CommittedStagingIsKept
  TornMasterIsRepairable
PROPERTIES
  NoEntryIsLost
  OverwritesAreBackedUp
CHECK_DEADLOCK FALSE
