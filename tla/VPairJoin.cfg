SPECIFICATION Spec
CONSTANTS
  Config <- CfgRandomPair
  MaxOps = 3
  Faults = FALSE
  PollsPerSec = 2
  Sector = 1
  Page = 1
INVARIANTS JoinOnce
