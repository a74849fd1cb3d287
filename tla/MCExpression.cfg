CONSTANTS
  Sources <- CSources
  MaxOperators = 3
  MaxElements = 2
  BinaryOperators = {"*", "-", "<", "<=", "==", "&", "&&", "=", "+="}
  PrefixOperators = {"-", "*", "&", "++"}
SPECIFICATION Spec
INVARIANTS MeansC EvaluatedOnce
CHECK_DEADLOCK FALSE
