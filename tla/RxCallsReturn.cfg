SPECIFICATION FairSpec
CONSTANTS
  Links = {1, 2}
  UdpLinks = {}
  RxSize = 3
  MaxPackets = 2
  MaxLen = 1
  DrainFirst = FALSE
  Ops = {"accept", "read", "readBuf", "flush", "stop", "status"}
PROPERTIES
  CallsReturn
CHECK_DEADLOCK FALSE
