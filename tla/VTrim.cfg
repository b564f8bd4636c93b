SPECIFICATION CommandSpec
CONSTANTS
  Lines <- Trims
  DeviceLength = 7
  Kilo = 4
  IntRange = 256
  Configs <- NoConfigs
  MaxScan = 3
  Sector = 2
  Page = 4
INVARIANTS OneBlockEach
\* The program stops: refused, at the end of the region, at a check, at the bound.
CHECK_DEADLOCK FALSE
