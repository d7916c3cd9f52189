SPECIFICATION FairSpec
CONSTANTS
  Sources = {dpkg}
  NumFormats = 2
  Timeout = 1
  Grace = 1
  WorldBudget = 2
  Files = {f, g}
  Workers = {v, w}
INVARIANTS
  ExitOKMeansComplete
  LostSourceIsLoud
  ReportIsWhole
PROPERTIES
  Terminates
CHECK_DEADLOCK FALSE
