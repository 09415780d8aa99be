SPECIFICATION Spec
CONSTANTS
  Interval = 1
  ManagementStates = {"managed"}
  MaxEvents = 1
INVARIANT CleanUpRequested
CHECK_DEADLOCK FALSE
