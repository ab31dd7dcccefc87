SPECIFICATION Spec
CONSTANTS
  t1 = t1
  t2 = t2
  b1 = b1
  b2 = b2
  c1 = c1
  c2 = c2
  Tokens = {t1, t2}
  Bits = {b1, b2}
  Hash <- MCHash
  NoToken = NoToken
  Credentials = {c1, c2}
  NoCred = NoCred
  TTLs = {1}
  MaxTime = 1
  MaxGen = 1
  MaxActions = 3
SYMMETRY Symmetry
INVARIANT DispatchedAsAWhole
INVARIANT BlockedIsAuditedBlocked
INVARIANT RevokedBatchBlocked
CHECK_DEADLOCK FALSE
