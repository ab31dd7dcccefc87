SPECIFICATION Spec
CONSTANTS
  r1 = r1
  r2 = r2
  t1 = t1
  t2 = t2
  b1 = b1
  a1 = a1
  a2 = a2
  Requests = {r1, r2}
  Tokens = {t1, t2}
  Bits = {b1}
  Hash <- MCHash
  Expiry <- MCExpiry
  Agent <- MCAgent
  PolicyOf <- MCPolicyOf
  NoToken = NoToken
  NoAgent = NoAgent
  TTLs = {1}
  MaxTime = 1
  MaxGen = 2
SYMMETRY Symmetry
INVARIANTS
  RevokedNeverDispatched
  OneGenerationPerCall
  CountsAreDistinct
  AuditMatchesDispatch
  SingleTenant
PROPERTIES
  NoAdmissionOnExpiredPin
  NoDispatchAfterRejection
CHECK_DEADLOCK FALSE
