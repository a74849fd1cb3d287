SPECIFICATION Spec
CONSTANTS
  StructTags = {"s"}
  UnionTags = {}
  Sizes = {1, 12}
  Counts = {1, 3}
  ARCH_ALIGNMENT = 16
  Redefined = FALSE
  MaxDepth = 3
  MaxWords = 8
INVARIANTS
  FieldsApart
  OneTypePerTag
  VariablesKept
CHECK_DEADLOCK FALSE
