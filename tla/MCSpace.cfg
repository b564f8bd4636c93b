SPECIFICATION FairSpec
CONSTANTS
  Config <- CfgSpace
  MaxOps = 3
  Faults = FALSE
  PollsPerSec = 1
  Sector = 1
  Page = 1
INVARIANTS TypeOK QuotaMet NoCrash
PROPERTIES StopsPromptly ReturnsOk
