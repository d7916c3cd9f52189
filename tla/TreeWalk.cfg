SPECIFICATION Spec
CONSTANTS
  Trees <- MCTrees
  Options <- MCOptions
  Exes <- MCExes
  Revocable <- MCRevocable
  MaxChanges = 1
INVARIANTS AbortNeedsAChange  
