\* Two processes of one checkout, flows, explicit restorations and an edit
\* of the relay preference.
SPECIFICATION FairSpec
CONSTANTS
  a1 = a1  a2 = a2  b1 = b1  c1 = c1  c2 = c2
  r1 = r1  r2 = r2  ie = ie  de = de  t1 = t1  t2 = t2
  Off = Off
  None = None
  Legacy = Legacy
  Apps = {a1, a2}
  Checkouts = {c1}
  Relays = {ie, de}
  Runs = {r1}
  Tx = {t1, t2}
  home <- homes
  runHome <- runHomes
  firstRelay <- relays
  Kinds = {"flow", "restore"}
  MaxCrashes = 2
  MaxFailures = 1
  MaxRelayChanges = 1
PROPERTIES
  LeaseComesBack
  PendingIsClosed
CHECK_DEADLOCK FALSE
