SPECIFICATION Spec
CONSTANTS
  Values = {1, 2, 3}
  Removed = {1, 3}
INVARIANTS
  ListIsOrdered
PROPERTIES
  ListChangesByOneNode
CHECK_DEADLOCK FALSE
