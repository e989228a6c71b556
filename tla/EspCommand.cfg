SPECIFICATION FairSpec
CONSTANTS
  MaxCalls = 5
  MaxLate = 2
INVARIANTS
  IInv
  OwnAnswer
  QuietCallOwnAnswer
  PayloadIntact
  WrittenIsSent
PROPERTIES
  CallsEnd
CHECK_DEADLOCK FALSE
