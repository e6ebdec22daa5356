CONSTANTS
  Requests = {c1}
  Jobs = {j1, j2}
  Streams = {s1, s2}
  None = None
SPECIFICATION Spec
INVARIANTS OneStream ChargedWasAnswered CompletedHasAnswer
PROPERTIES RequestStaysEnded
SYMMETRY Swaps
CHECK_DEADLOCK FALSE
