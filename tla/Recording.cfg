SPECIFICATION LiveSpec
CONSTANTS
  i1 = i1  i2 = i2  i3 = i3
  Instruments = {i1, i2, i3}
  Bundle = i1
  Control = i2
  Spawns = TRUE
  MaxTime = 2
  MaxFollows = 1
  Snapshots = 1
INVARIANTS RecordedOnDisk OpenedIntact
PROPERTIES StopsForAReason StopEnds
CHECK_DEADLOCK FALSE
