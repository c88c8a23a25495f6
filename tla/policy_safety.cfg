\* Two processes of one checkout and one of another share the machine.
SPECIFICATION Spec
CONSTANTS
  a1 = a1  a2 = a2  b1 = b1  c1 = c1  c2 = c2
  r1 = r1  r2 = r2  ie = ie  de = de  t1 = t1  t2 = t2
  Off = Off
  None = None
  Legacy = Legacy
  Apps = {a1, a2, b1}
  Checkouts = {c1, c2}
  Relays = {ie, de}
  Runs = {r1, r2}
  Tx = {t1}
  home <- homes
  runHome <- runHomes
  firstRelay <- relays
  Kinds = {"flow", "legacy", "manual", "restore", "reconcile", "plain"}
  MaxCrashes = 1
  MaxFailures = 1
  MaxRelayChanges = 0
SYMMETRY Interchangeable
INVARIANTS
  TouchedIsJournaled
  StepsKeepTheirRoute
PROPERTIES
  OnlyItsOwnerWrites
  ManualRouteStands
  ImplementsFence
CHECK_DEADLOCK FALSE
