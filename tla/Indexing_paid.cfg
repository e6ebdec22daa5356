CONSTANTS
  MaxRetries = 2
  Retries = 1
  Restarts = 1
  None = None
SPECIFICATION FairSpec
INVARIANTS ReadyIsPaid PaidHasIndex
 
CHECK_DEADLOCK FALSE
