SPECIFICATION Spec
CONSTANTS
  Procs = {p, q}
  Scans = {1, 4}
  ForeignScans = {4}
  NumBatches <- MCNumBatches
  DirRank <- MCDirRank
  Mints = FALSE
  FaultBudget <- SharedFaults
  NoScan = NoScan
  NoSpool = NoSpool
INVARIANTS
  ExitOKMeansDelivered
PROPERTIES
  ImplementsDelivery
  
