SPECIFICATION FairSpec
CONSTANTS
  Config <- CfgInteractive
  MaxOps = 6
  Faults = TRUE
  PollsPerSec = 1
  Sector = 1
  Page = 1
INVARIANTS JoinOnce
