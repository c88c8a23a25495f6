\* A page hidden from this connection and two that are not, two sessions.
SPECIFICATION Spec
CONSTANTS
  u1 = u1  u2 = u2  u3 = u3
  Pages = {u1, u2, u3}
  Hidden = {u1}
  NoFile = NoFile
  Torn = Torn
  MaxSessions = 2
  MaxAttempts = 2
  MaxEvents = 4
SYMMETRY Watchable
INVARIANTS
  MasterIsSound
  ListsAgree
PROPERTIES
  CompileKeepsTrack
CHECK_DEADLOCK FALSE
