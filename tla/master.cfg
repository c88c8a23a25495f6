\* Two pages, two sessions, batches of two.
SPECIFICATION Spec
CONSTANTS
  p1 = p1  p2 = p2  s1 = s1  s2 = s2
  Pages = {p1, p2}
  Listing <- listing
  Day <- day
  Number <- number
  Finds <- finds
  Policies = {"first", "second"}
  NoMaster = NoMaster
  MaxBatch = 2
  MaxRuns = 4
  MaxEdits = 1
  MaxMishaps = 1
INVARIANTS
  BannedStaysOut
PROPERTIES
  TwoLooksRemove
  KnowledgeIsKept
  PendingInTurn
CHECK_DEADLOCK FALSE
