SPECIFICATION Spec
CONSTANTS
  Generations = {g1}
  Detached = {g1}
  Stops = {s1}
  N = 2
  None = None
  MaxFaults = 1
CHECK_DEADLOCK FALSE
PROPERTIES
  EveryoneSettles
  StackFallsTogether
