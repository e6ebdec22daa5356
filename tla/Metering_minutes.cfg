CONSTANTS
  user = user other = other
  Callers = {user, other}
  Workers = {w1, w2}
  MaxMinute = 1
  Modes = {"interview", "written"}
  Serves <- MCServes
  Faults = TRUE
  None = None
SPECIFICATION Spec
INVARIANTS NoOrphanMeter 
PROPERTIES NoMinuteAfterEnd PauseLasts
CHECK_DEADLOCK FALSE
