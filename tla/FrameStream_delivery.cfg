CONSTANTS
  Script <- ThreeTurns
  QueueMax = 2
  InFlight = 2
  CoalesceMax = 3
  Backlog = 1
  GapMax = 3
  ResendMax = 1
  Drops = 1
  Refusals = 2
SPECIFICATION FairSpec
INVARIANTS StreamTypeOK  TerminalProcessedOnce
PROPERTIES QueuedTerminalStays OutboxDrains
CHECK_DEADLOCK FALSE
