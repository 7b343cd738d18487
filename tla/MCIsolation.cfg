SPECIFICATION Spec
CONSTANTS
  Harness = {h1, h2}
  Other = Other
  Nobody = Nobody
  MaxProbes = 2
  MaxDrains = 2
  MaxSignals = 0
INVARIANTS
  IsolatedLedger
