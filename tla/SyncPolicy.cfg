SPECIFICATION FairSpec
CONSTANTS
  t1 = t1
  t2 = t2
  b1 = b1
  b2 = b2
  b3 = b3
  Tokens = {}
  Bits = {}
  Hash <- NoTokenHash
  TTLs = {1}
  MaxTime = 2
  MaxGen = 2
  FailClosed = TRUE
  RuntimeCredential = TRUE
  NoToken = NoToken
INVARIANTS
  FlagsFollowSnapshot
PROPERTIES
  RejectionTerminal
  FileNeverReorders
  RejectedRunStops
  PublishedIsTaken
  ArmedExpiryIsShown
CHECK_DEADLOCK FALSE
