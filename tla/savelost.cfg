SPECIFICATION Spec
CONSTANTS
  NULL = NULL
  JobNum = 2
  EndNum = 1
INVARIANTS NandAccessHappens
CHECK_DEADLOCK FALSE
