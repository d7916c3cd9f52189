SPECIFICATION FairSpec
CONSTANTS
  Procs = {p}
  Scans = {1, 2}
  ForeignScans = {}
  NumBatches <- MCNumBatches
  DirRank <- MCDirRank
  Mints = TRUE
  FaultBudget <- SoloFaults
  NoScan = NoScan
  NoSpool = NoSpool
INVARIANTS
  StaysDeliverable
  NeverSkips
PROPERTIES
  RemovedOnlyWhenReconciled
  ImplementsDelivery
  EventuallyReconciled
