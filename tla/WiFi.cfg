SPECIFICATION Spec
CONSTANTS
  MaxBusy = 5
  MaxLost = 1
  MaxRestarts = 1
  MaxCalls = 4
INVARIANTS
  OnCourse
  InterfaceAsked
  FormKnown
  AddressHolds
  NoAutoStart
  ReadyToServe
PROPERTIES
  AnswersAreCurrent
  SetupEnds
CHECK_DEADLOCK FALSE
