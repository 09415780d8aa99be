SPECIFICATION Spec
CONSTANTS
  MaxJobHistory = 2
  MaxSpec = 1
  MaxLaunches = 3
  MaxErrors = 0
  ManagementStates = {"managed"}
  ProvisionOutcomes = {"successful"}
  DeprovisionOutcomes = {"successful"}
  Faults = {"stale_read"}
INVARIANT NoOrphans
CHECK_DEADLOCK FALSE
