SPECIFICATION Spec
CONSTANT
  MaxErrors = 0
INVARIANT NothingLeft
CHECK_DEADLOCK FALSE
