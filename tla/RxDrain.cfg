SPECIFICATION Spec
CONSTANTS
  Links = {1, 2}
  UdpLinks = {}
  RxSize = 8
  MaxPackets = 2
  MaxLen = 2
  DrainFirst = TRUE
  Ops = {"available", "accept", "read", "readBuf", "peek", "flush"}
PROPERTIES
  ImplementsStreams
INVARIANTS
  Delivering
  ExactlyOnce
CHECK_DEADLOCK FALSE
