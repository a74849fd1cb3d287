CONSTANTS
  MaxLength = 6
  IntBits = 4
  Sources <- MCSources
SPECIFICATION Spec
INVARIANTS TokensAsInC LiteralsLand
PROPERTY Ends
CHECK_DEADLOCK FALSE
