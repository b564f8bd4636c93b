SPECIFICATION FairCommand
CONSTANTS
  Lines <- CommandLines
  DeviceLength = 7
  Kilo = 4
  IntRange = 256
  Configs <- NoConfigs
  MaxScan = 3
  Sector = 2
  Page = 4
INVARIANTS ScanTypeOK BackwardInside ForwardOvershoot RandomInside Covers CountsTheEnd ReadsSucceed AcceptedIsSound WritesAgreed
PROPERTIES Finishes
\* The program stops: refused, at the end of the region, at a check, at the bound.
CHECK_DEADLOCK FALSE
