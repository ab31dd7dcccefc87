SPECIFICATION Spec
CONSTANTS
  s1 = s1
  s2 = s2
  l1 = l1
  l2 = l2
  o1 = o1
  Sessions = {s1, s2}
  Logins = {l1, l2}
  Logouts = {o1}
  None = None
  Attempts = 2
  Plaintext = TRUE
  MaxIssued = 3
  MaxKeys = 2
  MaxFaults = 1
INVARIANTS
  RecordHasItsCredential
  ReusedOnlyAfterTrouble
PROPERTIES
  ReplacedBySuccessor
CHECK_DEADLOCK FALSE
