SPECIFICATION FileSpec
CONSTANTS
  Runs = {1, 2}
  Paths = {1, 2}
  Targets <- MCTargets
  DirSync = TRUE
  Budget <- MCFaults
  NoFile = NoFile
INVARIANTS
  
  SuccessSurvives
  LinkNeverDangles
