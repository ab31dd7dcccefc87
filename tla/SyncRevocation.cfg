SPECIFICATION Spec
CONSTANTS
  t1 = t1
  t2 = t2
  b1 = b1
  b2 = b2
  b3 = b3
  Tokens = {t1, t2}
  Bits = {b1, b2, b3}
  Hash <- TwoTokenHash
  TTLs = {1}
  MaxTime = 0
  MaxGen = 0
  FailClosed = TRUE
  RuntimeCredential = TRUE
  NoToken = NoToken
INVARIANTS
  ReadyHoldsAuthoritySet
PROPERTIES
  ImplementsState
CHECK_DEADLOCK FALSE
