SPECIFICATION FairSpec
CONSTANTS
  e1 = e1
  e2 = e2
  e3 = e3
  v = v
  Events = {e1, e2, e3, v}
  Garbage = Garbage
  Evidence = {v}
  Caps = {1, 2}
  QueueCapacity = 1
  Faults = {"write", "read", "compact"}
  MaxCrashes = 1
INVARIANT BufferedStaysUnharmed
INVARIANT LiveAfterReplay
INVARIANT DrainedIsHandled
PROPERTY BufferedIsDelivered
CHECK_DEADLOCK FALSE
