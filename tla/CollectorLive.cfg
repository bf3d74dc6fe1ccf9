SPECIFICATION FairSpec
CONSTANTS
  t1 = t1  t2 = t2  t3 = t3  p1 = p1  p2 = p2
  Threads = {t1, t2}
  Procs = {p1}
  Proc <- TwoInOne
  Profiled = {p1}
  Hooked = {p1}
  Rounds = 1
  Rings = {r1, r2}
  Slots = 1
  MaxEvents = 2
  NoThread = NoThread
PROPERTIES GetReturns ClosedRingReleased
