SPECIFICATION FairSpec
CONSTANTS
  e1 = e1
  e2 = e2
  u1 = u1
  u2 = u2
  Events = {e1, e2}
  Garbage = Garbage
  Runs = {u1, u2}
  NoRun = NoRun
  MaxRecords = 2
  REPLAY_LIMIT = 1
  MaxCrashes = 2
INVARIANTS
  JournaledNeverLost
  DeliveredUnderItsRun
  MemoryMatchesDisk
PROPERTIES
  ImplementsQueue
  PendingIsSettled
CHECK_DEADLOCK FALSE
