SPECIFICATION FairSpec
CONSTANTS
  Interval = 1
  ManagementStates = {"managed", "manual"}
  MaxEvents = 1
INVARIANT ReadyIsTrue
PROPERTY ReleasedWhenClean
INVARIANT PoolCleanUpRequested
INVARIANT RestsWhenDone
PROPERTY DeletionCompletes
PROPERTY SettlesReady
PROPERTY SpecSent
CHECK_DEADLOCK FALSE
