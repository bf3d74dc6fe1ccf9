SPECIFICATION CatSpec
CONSTANTS
  BufSz = 6
  Align = 1
  Base = 2
  p1 = p1  p2 = p2  n1 = n1  n2 = n2
  Captures <- TimelineOnly
  Paths = {p1, p2}
  Kinds <- TheKinds
  Terms <- TheTerms
  Conditions <- TheConditions
  MaxCalls = 5
  Later <- TimelineAgain
  Mark = 10
  JitMax = 1
  MaxSeq = 4
  Writers <- TheWriters
INVARIANT IndexesWalked
CHECK_DEADLOCK FALSE
