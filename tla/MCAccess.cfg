CONSTANTS
  MaxStatements = 1
  InitialValues <- MCInitialValues
  Programs <- Statements
SPECIFICATION Spec
PROPERTIES ImplementsStore
CHECK_DEADLOCK FALSE
