SPECIFICATION FairAio
CONSTANTS
  Configs <- AioConfigs
  MaxOps = 7
  Faults = TRUE
  Sector = 1
  Page = 2
INVARIANTS AioTypeOK Accounting KeepsFull OwnSlot AtExit VolumeNearlyMet
PROPERTIES Leaves
\* The thread leaves, or waits for ever for a trim; the process may end.
CHECK_DEADLOCK FALSE
