SPECIFICATION RetrySpec
CONSTANTS
  Attempts = 9
  Deadline = 45
  Timeout = 2
  Base = 2
  MaxWait = 6
  Second = 2
  RetryAfterCap = 10
  WordBits = 7
  Asked <- MCAskedSmall
INVARIANTS
  WaitIsBounded

  
CHECK_DEADLOCK FALSE
