SPECIFICATION Spec
CONSTANTS
  Payloads <- MCPayloads
  Limits <- MCLimits
  MaxTries = 3
INVARIANTS
  ClosedMeansComplete
PROPERTIES
  SameBatchOnResume
