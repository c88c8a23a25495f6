\* Two pages, one run, batches of one page.
SPECIFICATION FairSpec
CONSTANTS
  u1 = u1  u2 = u2  r1 = r1
  Pages = {u1, u2}
  Online <- lists
  YoungLists = {{}}
  Runs = {r1}
  NoFile = NoFile
  MaxAttempts = 2
  BatchSize = 1
  MaxStarts = 5
  MaxCrashes = 1
  MaxFaults = 1
  MaxStops = 1
  MaxEdits = 1
INVARIANTS
  FinalIsLastVerdict
  VisitsAreBounded
  ResumeFits
PROPERTIES
  StepEnds
CHECK_DEADLOCK FALSE
