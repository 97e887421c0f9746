SPECIFICATION Spec
CONSTANTS
  MaxRows = 7
  MaxLeaves = 2
  Size = 2
  Filtered = TRUE
CHECK_DEADLOCK FALSE
INVARIANTS
  TypeOK
  MissesBounded
