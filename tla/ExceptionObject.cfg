SPECIFICATION Spec
CONSTANTS
  Words = {"left", "NUL", "right"}
  Messages <- MCMessages
  Names = {"", "filename", "line"}
  Values = {"a", "b"}
  Tries <- MCTries
  MaxSets = 2
INVARIANTS
  TypeOK
  LastValueWins
  MessageKept
  NeverPassedOver
CHECK_DEADLOCK FALSE
