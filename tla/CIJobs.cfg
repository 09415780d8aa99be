SPECIFICATION HSpec
CONSTANTS
  MaxJobHistory = 2
  MaxSpec = 1
  MaxLaunches = 2
  MaxErrors = 1
  ManagementStates = {"managed"}
  ProvisionOutcomes = {"successful"}
  DeprovisionOutcomes = {"successful", "failed"}
  Faults = {"stale_read", "lost_reply", "same_second", "purge", "crash", "straggler"}
INVARIANT SerialJobs
INVARIANT NothingLeft
INVARIANT RecordsAreTrue
PROPERTY Provisions
CHECK_DEADLOCK FALSE
