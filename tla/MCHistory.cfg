SPECIFICATION HistorySpec
CONSTANTS
  I64Max = 5
  U64Max = 3
  ExpirySlots = 1
  Program = {g1}
  Realm = {r1}
  Mint = {m1}
  Admin = {a1}
  Wallet = {w1, w2}
  TrustScore = {1, 2}
  MaxSlot = 3
  InitialRealms <- OneMintRealm
  Nobody = Nobody
  NoMint = NoMint
  NoAccount = NoAccount
  NeverExpires = NeverExpires
  MinTrustScore = {1, 2}
  MaxVerificationAge = {1, 2}
  MaxVoterWeight = {0, 1}
  TagNone = {w1}
  TagSome = {w2}
  Overwritten = Overwritten
  r1 = r1
  m1 = m1
  g1 = g1
  a1 = a1
INVARIANTS
  HistoryTypeOK
  RevocationLag
PROPERTIES
  OwnerConsent
  OverwrittenFrozen
