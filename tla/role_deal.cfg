CONSTANTS
  TableSizes = {1, 2, 3, 4, 5, 6, 7, 8}
SPECIFICATION Spec
CHECK_DEADLOCK FALSE
INVARIANTS
  ShuffleKeepsTheRoles
