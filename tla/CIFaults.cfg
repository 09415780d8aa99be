SPECIFICATION Spec
CONSTANTS
  MaxJobHistory = 2
  MaxSpec = 1
  MaxLaunches = 2
  MaxErrors = 1
  ManagementStates = {"managed", "manual"}
  ProvisionOutcomes = {"successful"}
  DeprovisionOutcomes = {"successful", "failed"}
  Faults = {"crash", "lost_reply", "purge", "straggler", "same_second", "tenant_fails"}
INVARIANT TypeOK
INVARIANT RestsWhenDone
PROPERTY ReleaseAfterDeprovision
PROPERTY DeletingIsFinal
CHECK_DEADLOCK FALSE
