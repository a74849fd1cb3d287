CONSTANTS
  MaxDepth = 2
  Variables <- MCVariables
  Results <- MCResults
SPECIFICATION DeclaredSpec
INVARIANTS
  AcceptsC
  RefusesOthers
  MeansC
  TypesAsInC
  HeldAsTyped
  OperandsInOrder
CHECK_DEADLOCK FALSE
