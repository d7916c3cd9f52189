SPECIFICATION Spec
CONSTANTS
  Hosts = {h}
  Inventories = {i, j}
  FullInterval = 2
  Transmits = TRUE
  MaxTime = 3
  Faults <- MCAll
  Unknown = Unknown
INVARIANTS
  UnchangedIsTrue
  UntruthIsBounded
