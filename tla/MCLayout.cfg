SPECIFICATION Spec
CONSTANTS
  Key = {k1, k2, k3}
  TagNone = {k1}
  TagSome = {k2}
  Overwritten = Overwritten
  VoterTag = VoterTag
  MaxTag = MaxTag
  RegistrarTag = RegistrarTag
  IdentityTag = IdentityTag
  OtherTag = OtherTag
  None = None
  Number16 = {0, 200, 65535}
  Number64 = {255, 1700000000}
  U64Max = 1700000050
  IdentitySize = {8, 61, 62, 207}
INVARIANTS
  ReadBack
  SpaceSuffices
  IdentityRead
  ClientsRead
PROPERTY
  StorePromise
