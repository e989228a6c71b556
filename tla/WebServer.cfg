SPECIFICATION WSpec
CONSTANTS
  Links = {0, 1}
  UdpLinks = {}
  RxSize = 3
  MaxPackets = 2
  MaxLen = 3
  DrainFirst = FALSE
  Ops = {"accept", "status", "available", "read", "write", "stop"}
  MaxPrints = 2
INVARIANTS
  WTypeOK
  WholeRequest
PROPERTIES
  ListensAgain
CHECK_DEADLOCK FALSE
