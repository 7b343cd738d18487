SPECIFICATION FairSpec
CONSTANTS
  Harness = {h1, h2}
  Other = Other
  Nobody = Nobody
  MaxProbes = 2
  MaxDrains = 2
  MaxSignals = 2
INVARIANTS
  HarnessTypeOK
  NothingLeft
  LedgerOutlivesValidator
  SuccessIsEarned
PROPERTIES
  WorkRunsOut
  Terminates
