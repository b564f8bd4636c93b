SPECIFICATION Spec
CONSTANTS
  Config <- CfgLocalOutput
  MaxOps = 3
  Faults = FALSE
  PollsPerSec = 1
  Sector = 1
  Page = 1
INVARIANTS ChecksHold
