SPECIFICATION FairSpec
CONSTANTS
  I64Max = 5
  U64Max = 5
  ExpirySlots = 2
  Program = {g1}
  Realm = {r1}
  Mint = {m1}
  Admin = {a1}
  Wallet = {w1, w2}
  TrustScore = {1, 2}
  MaxSlot = 4
  InitialRealms <- OneMintRealm
  Nobody = Nobody
  NoMint = NoMint
  NoAccount = NoAccount
  NeverExpires = NeverExpires
  MinTrustScore = {1, 2}
  MaxVerificationAge = {0, 1, 2}
  MaxVoterWeight = {1}
  TagNone = {}
  TagSome = {w1}
  Overwritten = Overwritten
  r1 = r1
  m1 = m1
  g1 = g1
  a1 = a1
INVARIANTS
  TypeOK
  GrantWindow
PROPERTIES
  RevocationEnds
  LeasePromise
  WeightOnlyToEntitled
