\* Two pages of two, a feed that is renewed twice.
SPECIFICATION FairSpec
CONSTANTS
  m1 = m1  m2 = m2  m3 = m3
  Models = {m1, m2, m3}
  Feeds <- feeds
  Clients = {"stripchat", "chaturbate"}
  PageSize = 2
  MaxPages = 3
  Retries = 1
  MinPasses <- minPasses
  MaxPasses <- maxPasses
  StablePairs = 2
  Jaccard <- half
  Delta <- half
  Doubtful <- quarter
  Repeated <- third
  Unset = Unset
  MaxRolls = 2
  MaxFaults = 2
INVARIANTS
  PassIsExact
  AcceptsWhoIsOnline
PROPERTIES
  CollectionEnds
CHECK_DEADLOCK FALSE
