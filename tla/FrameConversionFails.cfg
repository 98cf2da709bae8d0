SPECIFICATION Spec
CONSTANTS
  MaxFile = 1
  Words <- MCWords
  Files <- MCFiles
  Funcs <- MCFuncs
  Outputs <- MCOutputs
INVARIANTS
  RawLineWhenConversionFails
CHECK_DEADLOCK FALSE
