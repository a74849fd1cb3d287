SPECIFICATION Spec
CONSTANTS
  Lengths = {2, 5}
  Typedefs = {"array", "function"}
  Grouping = FALSE
  MaxWords = 5
  MaxDeclarators = 2
INVARIANTS
  MeansC
  SizesRight
  StaticAsDeclared
CHECK_DEADLOCK FALSE
