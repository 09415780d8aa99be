SPECIFICATION FairEdaSpec
CONSTANTS
  MaxJobHistory = 2
  MaxSpec = 1
  MaxLaunches = 2
  MaxErrors = 1
  MaxLives = 2
  Interval = 1
  ManagementStates = {"managed"}
  ProvisionOutcomes = {"successful"}
  DeprovisionOutcomes = {"successful"}
  Faults = {"crash"}
INVARIANT RequestRemembered
INVARIANT JobIDsDistinct
INVARIANT RestsWhenDone
PROPERTY ReleasedByPlaybook
PROPERTY HeldDeletionCompletes
PROPERTY WebhookRequested
CHECK_DEADLOCK FALSE
