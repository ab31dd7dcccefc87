SPECIFICATION StoreSpec
CONSTANTS
  s1 = s1
  s2 = s2
  s3 = s3
  Sessions = {s1, s2, s3}
  None = None
  Capacity = 2
  HISTORY_CAP = 2
  MaxOps = 4
  MaxRestarts = 2
SYMMETRY Symmetry
INVARIANT StateKept
CHECK_DEADLOCK FALSE
