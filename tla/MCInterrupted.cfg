SPECIFICATION Spec
CONSTANTS
  Harness = {h1}
  Other = Other
  Nobody = Nobody
  MaxProbes = 2
  MaxDrains = 2
  MaxSignals = 1
INVARIANTS
  LedgerRemoved
