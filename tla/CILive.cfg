SPECIFICATION FairSpec
CONSTANTS
  MaxJobHistory = 2
  MaxSpec = 2
  MaxLaunches = 3
  MaxErrors = 1
  ManagementStates = {"managed"}
  ProvisionOutcomes = {"successful", "failed"}
  DeprovisionOutcomes = {"successful"}
  Faults = {}
PROPERTY DeletionCompletes
PROPERTY OutcomeRecorded
PROPERTY ProvisioningStarts
CHECK_DEADLOCK FALSE
