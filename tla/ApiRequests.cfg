CONSTANTS
  h1 = h1
  h2 = h2
  k1 = k1
  k2 = k2
  a = a
  b = b
  NoKey = NoKey
  NoEvent = NoEvent
  Handlers = {h1, h2}
  SigningKeys = {k1, k2}
  Ttl = 1
  FetchTime = 1
  Keys = {a, b}
  PageSize = 1
  MaxCreates = 2
SYMMETRY Symmetry
SPECIFICATION Spec
INVARIANTS
  TypeOK
  VerdictsTimely
  NothingMissed
PROPERTY
  Idempotent
