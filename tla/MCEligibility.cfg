SPECIFICATION Spec
CONSTANTS
  I64Max = 7
  U64Max = 6
  ExpirySlots = 2
  Step = 2
INVARIANTS
  RecencyExact
  ExpiryInWindow
PROPERTY
  LapseFinal
