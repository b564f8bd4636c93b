SPECIFICATION MeasureSpec
CONSTANTS
  t1 = t1
  t2 = t2
  Threads = {t1, t2}
  Buckets = 3
  BucketSizeExp = 2
  MaxTicks = 1000000
  Plans <- StatPlans
  StepLists <- SampleSteps
  TicksRange = 1000
  MaxTime = 10
INVARIANTS StatTypeOK FreedLate InsideHistogram LossBounded PercentilesNear SamplerTypeOK StepApart LastIsExact
\* Main has printed the last statistics, the program is undefined, or the
\* clock has come to its bound.
CHECK_DEADLOCK FALSE
