SPECIFICATION Spec
CONSTANTS
  MaxNum = 1
  MaxNets = 2
  MaxScans = 1
  MaxPauses = 0
INVARIANT
  ListIsComplete
CHECK_DEADLOCK FALSE
