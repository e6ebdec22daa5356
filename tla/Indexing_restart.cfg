CONSTANTS
  MaxRetries = 1
  Retries = 1
  Restarts = 1
  None = None
SPECIFICATION FairSpec
PROPERTIES JobResumes
CHECK_DEADLOCK FALSE
