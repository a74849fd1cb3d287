SPECIFICATION Spec
CONSTANTS
  Names = {"x", "y"}
  LabelNames = {"l", "m"}
  MaxDecls = 4
  MaxBlocks = 1
  MaxGotos = 2
INVARIANTS
  LookupAgrees
  LocalsHaveSlots
  GotosResolved
CHECK_DEADLOCK FALSE
