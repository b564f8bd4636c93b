SPECIFICATION StatSpec
CONSTANTS
  t1 = t1
  t2 = t2
  Threads = {t1}
  Buckets = 9
  BucketSizeExp = 3
  MaxTicks = 1000000000
  Plans <- ErrorPlans
INVARIANTS EstimationError
CHECK_DEADLOCK FALSE
