SPECIFICATION FairSpec
CONSTANT
  MaxErrors = 2
INVARIANT RestsWhenDone
INVARIANT ReadyMeansReady
PROPERTY NetworkGoesFirst
PROPERTY ReleasedWhenClean
PROPERTY BecomesReady
PROPERTY DeletionCompletes
CHECK_DEADLOCK FALSE
