SPECIFICATION Spec
CONSTANTS
  t1 = t1  t2 = t2  t3 = t3  p1 = p1  p2 = p2
  Threads = {t1, t2, t3}
  Procs = {p1, p2}
  Proc <- ThreeInTwo
  Profiled = {p1, p2}
  Hooked = {p2}
  Rounds = 1
  Rings = {r1, r2}
  Slots = 2
  MaxEvents = 2
  NoThread = NoThread
INVARIANTS OneWriter RingIntact IdsAreSources StopKeepsAll AsksOnce LeavesNoRing
SYMMETRY Symmetry
