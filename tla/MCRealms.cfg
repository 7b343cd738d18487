SPECIFICATION HistorySpec
CONSTANTS
  I64Max = 4
  U64Max = 4
  ExpirySlots = 1
  Program = {g1, g2}
  Realm = {r1, r2}
  Mint = {m1}
  Admin = {a1, a2}
  Wallet = {w1}
  TrustScore = {1}
  MaxSlot = 1
  InitialRealms <- TwoRealms
  Nobody = Nobody
  NoMint = NoMint
  NoAccount = NoAccount
  NeverExpires = NeverExpires
  MinTrustScore = {1, 2}
  MaxVerificationAge = {1}
  MaxVoterWeight = {1}
  TagNone = {}
  TagSome = {w1}
  Overwritten = Overwritten
  r1 = r1
  r2 = r2
  m1 = m1
  g1 = g1
  g2 = g2
  a1 = a1
  a2 = a2
INVARIANTS
  AddressBinding
  RegistrarSound
PROPERTIES
  AuthorityConsent
  WeightOnlyToEntitled
