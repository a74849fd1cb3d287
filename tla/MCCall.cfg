SPECIFICATION Spec
CONSTANTS
  MaxParameters = 2
  MaxLocals = 2
  LocalSizes = {1, 3}
  MaxArguments = 2
  MaxValues = 3
INVARIANTS
  VariablesApart
  OperandsInPlace
  CallTransparent
  StatementsBalanced
CHECK_DEADLOCK FALSE
