CONSTANTS
  Questions = {q1, q2}
  page = page other = other
  Requests = {page, other}
  Serves <- MCServes
  Tasks = {t1, t2}
  Heard = {"sure"}
  None = None
SPECIFICATION Spec
INVARIANTS OneAtATime  
PROPERTIES NeverResumes
SYMMETRY Swaps
CHECK_DEADLOCK FALSE
