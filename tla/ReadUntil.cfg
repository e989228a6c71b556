SPECIFICATION RSpec
CONSTANTS
  nl = nl
  cO = cO
  cE = cE
  cC = cC
  cQ = cQ
  cA = cA
  cB = cB
  NUL = NUL
  Char = {nl, cO, cE, cC, cQ, cA, cB, NUL}
  Size = 6
  MaxPushed = 0
  ESPTAGS <- TheTags
  StartTag <- TheStart
  EndTag <- TheEnd
  Replies <- LongReplies
  OutLen = 3
  MaxCalls = 3
INVARIANTS
  RInv
  NoTagGoesBy
  Extracted
CHECK_DEADLOCK FALSE
