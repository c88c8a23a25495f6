\* Two runs of one session: the newer one takes over the active and committed pointers.
SPECIFICATION Spec
CONSTANTS
  s1 = s1  s2 = s2  r1 = r1  r2 = r2  u1 = u1  u2 = u2  u3 = u3
  final = final  views = views
  NoRun = NoRun
  NoFile = NoFile
  Sessions = {s1}
  Runs = {r1, r2}
  SessionOf <- OneSession
  Urls = {u1, u2, u3}
  Findings <- TwoFindings
  Manual = {}
  Blacklist = {u3}
  Views = {final, views}
  Seeded = TRUE
  SeedUrls = {u1, u3}
  ShadowModes = {FALSE, TRUE}
  MaxStagings = 2
  MaxCrashes = 1
  MaxFaults = 1
PROPERTIES
  SuccessMeansProjected
  ImplementsLedger
CHECK_DEADLOCK FALSE
