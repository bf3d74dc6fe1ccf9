SPECIFICATION SamplerSpec
CONSTANTS
  Cpus = {"c1", "c2"}
  Size = 4
  LostSize = 1
  MaxTime = 2
  MaxEvents = 4
  SampleSize = 2
INVARIANT NoSampleBeforeStart
CHECK_DEADLOCK FALSE
