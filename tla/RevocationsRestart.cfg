SPECIFICATION FairSpec
CONSTANTS
  t1 = t1
  t2 = t2
  s1 = s1
  s2 = s2
  Tokens = {t1, t2}
  Commanded = {t1}
  Streams = {s1}
  Ttl = 1
  Skew = 1
  SignalCap = 1
  Absent = Absent
  Bare = Bare
  MaxTime = 3
  MaxStarts = 2
  MaxFaults = 0
PROPERTIES
  RestartServes
CHECK_DEADLOCK FALSE
