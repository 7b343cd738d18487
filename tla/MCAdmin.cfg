SPECIFICATION HistorySpec
CONSTANTS
  I64Max = 4
  U64Max = 4
  ExpirySlots = 1
  Program = {g1, g2}
  Realm = {r1}
  Mint = {m1, m2}
  Admin = {a1, a2}
  Wallet = {w1}
  TrustScore = {1}
  MaxSlot = 1
  InitialRealms <- CouncilRealm
  Nobody = Nobody
  NoMint = NoMint
  NoAccount = NoAccount
  NeverExpires = NeverExpires
  MinTrustScore = {1, 2}
  MaxVerificationAge = {0, 1}
  MaxVoterWeight = {0, 1}
  TagNone = {}
  TagSome = {w1}
  Overwritten = Overwritten
  r1 = r1
  m1 = m1
  m2 = m2
  g1 = g1
  g2 = g2
  a1 = a1
  a2 = a2
INVARIANTS
  RegistrarSound
PROPERTIES
  OrphansFrozen
  UngovernedFrozen
  QuorumBaseStays
  AuthorityConsent
