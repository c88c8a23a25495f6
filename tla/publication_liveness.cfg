\* One run, retried after crashes and failed writes.
SPECIFICATION FairSpec
CONSTANTS
  s1 = s1  s2 = s2  r1 = r1  r2 = r2  u1 = u1  u2 = u2  u3 = u3
  final = final  views = views
  NoRun = NoRun
  NoFile = NoFile
  Sessions = {s1}
  Runs = {r1}
  SessionOf <- SingleRun
  Urls = {u1, u2}
  Findings <- OneFinding
  Manual = {}
  Blacklist = {}
  Views = {final, views}
  Seeded = TRUE
  SeedUrls = {u1}
  ShadowModes = {FALSE}
  MaxStagings = 3
  MaxCrashes = 2
  MaxFaults = 2
PROPERTIES
  LeaseIsReleased
  CommittedIsProjected
CHECK_DEADLOCK FALSE
