\* Two candidates, three epochs of two attempts.
SPECIFICATION FairSpec
CONSTANTS
  NoCheckpoint = NoCheckpoint
  Nothing = Nothing
  Candidates = {1, 2}
  MaxEpochs = 3
  Budget = 2
  Confirmations = 2
  MaxCrashes = 2
  MaxStops = 2
  MaxSetbacks = 2
INVARIANTS
  EpochIsNeverRefused
PROPERTIES
  ResumeIsPossible
  ImplementsTriage
  VerificationSettles
CHECK_DEADLOCK FALSE
