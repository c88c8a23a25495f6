\* A crash after the witness, and another session publishing before the retry.
SPECIFICATION Spec
CONSTANTS
  s1 = s1  s2 = s2  r1 = r1  r2 = r2  u1 = u1  u2 = u2  u3 = u3
  final = final  views = views
  NoRun = NoRun
  NoFile = NoFile
  Sessions = {s1, s2}
  Runs = {r1, r2}
  SessionOf <- TwoSessions
  Urls = {u1, u2}
  Findings <- OneFinding
  Manual = {}
  Blacklist = {}
  Views = {final, views}
  Seeded = TRUE
  SeedUrls = {u1}
  ShadowModes = {FALSE}
  MaxStagings = 1
  MaxCrashes = 1
  MaxFaults = 0
INVARIANT CommittedNeverConflicts
CHECK_DEADLOCK FALSE
