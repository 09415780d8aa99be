SPECIFICATION FairSpec
CONSTANTS
  MaxClock = 4
  MaxErrors = 0
  Faults = {"impatient"}
PROPERTY RequestServed
CHECK_DEADLOCK FALSE
