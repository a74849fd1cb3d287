SPECIFICATION Spec
CONSTANTS
  NoToken = NoToken
  MaxItems = 2
  Programs <- MCPrograms
INVARIANTS
  TypeOK
  Classified
PROPERTIES
  RestoreExact
  ImplementsStream
  ScanEnds
CHECK_DEADLOCK FALSE
