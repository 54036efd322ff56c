SPECIFICATION Spec
CONSTANTS
  Tables = 3
  MaxTools = 2
  GroupLimit = 2
INVARIANT ConsolidationWhole
CHECK_DEADLOCK FALSE
