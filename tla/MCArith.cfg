CONSTANTS
  CharBits = 2
  IntBits = 3
  LongBits = 5
  Literals = {0, 1, 2}
  VariableTypes = {"char", "int", "long", "pointer"}
  Size = 2
  Elements = 4
SPECIFICATION Spec
CONSTRAINT Followed
INVARIANTS BitsRight PositiveExact VariableHolds
CHECK_DEADLOCK FALSE
