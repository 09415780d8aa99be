SPECIFICATION FairSpec
CONSTANTS
  MaxErrors = 1
  Faults = {"crash", "unlabel"}
INVARIANT PhaseReported
INVARIANT SignalAfterRemoval
INVARIANT NotHeldBack
PROPERTY LastPhaseReported
PROPERTY DeletionCompletes
CHECK_DEADLOCK FALSE
