SPECIFICATION Spec
CONSTANTS
  MaxNum = 3
  MaxNets = 5
  MaxScans = 2
  MaxPauses = 1
INVARIANTS
  TypeOK
  ListIsAnswer
  QuietAfter
CHECK_DEADLOCK FALSE
