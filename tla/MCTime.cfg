SPECIFICATION FairSpec
CONSTANTS
  Config <- CfgLatencies
  MaxOps = 2
  Faults = TRUE
  PollsPerSec = 1
  Sector = 1
  Page = 1
PROPERTIES StopsAll Terminates
