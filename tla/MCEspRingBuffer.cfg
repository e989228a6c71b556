SPECIFICATION Spec
CONSTANTS
  Size = 4
  NUL = NUL
  Char = {a, b, NUL}
  MaxPushed = 7
INVARIANTS
  IInv
  NoTagMissed
  ExactAfterInit
  ExtractsFrontOfTag
