SPECIFICATION Spec
CONSTANTS
  Config <- CfgLatencies
  MaxOps = 2
  Faults = FALSE
  PollsPerSec = 1
  Sector = 1
  Page = 1
INVARIANTS LatencyOfEveryOp
