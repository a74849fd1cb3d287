SPECIFICATION Spec
CONSTANTS
  Types <- MCTypes
  Designated = FALSE
  MaxLength = 3
  MaxString = 4
  MaxTokens = 14
INVARIANTS
  ValuesLand
  LengthTaken
  DataLands
CHECK_DEADLOCK FALSE
