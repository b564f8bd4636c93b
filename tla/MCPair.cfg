SPECIFICATION Spec
CONSTANTS
  Config <- CfgPair
  MaxOps = 2
  Faults = FALSE
  PollsPerSec = 1
  Sector = 1
  Page = 1
INVARIANTS IInv FdOpenInUse ReportExact ReportedWork NoLeak
PROPERTIES SamplesForward ImplementsBenchmark
