SPECIFICATION FairSpec
CONSTANTS
  MaxClock = 5
  MaxErrors = 2
  Faults = {"crash"}
INVARIANT RestartIsTrue
INVARIANT AtMostOneRestart
INVARIANT RestsWhenDone
PROPERTY LastNeverGoesBack
PROPERTY RequestServed
CHECK_DEADLOCK FALSE
