SPECIFICATION Spec
CONSTANTS
  Links = {0, 1, 2}
  UdpLinks = {2}
  RxSize = 9
  MaxPackets = 2
  MaxLen = 2
  DrainFirst = TRUE
  Ops = {"read", "readBuf", "accept", "write", "stop", "udpPeek", "send"}
INVARIANTS
  Framed
  WholePackets
  RemoteIsSender
CHECK_DEADLOCK FALSE
