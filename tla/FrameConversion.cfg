SPECIFICATION Spec
CONSTANTS
  MaxFile = 5
  Words <- MCWords
  Files <- MCFiles
  Funcs <- MCFuncs
  Outputs <- MCOutputs
INVARIANTS
  FieldsRecovered
  NeverMislabels
CHECK_DEADLOCK FALSE
