SPECIFICATION FairSpec
CONSTANTS
  Body = 7
  Lens = {2, 3}
  FrameSize = 2
  MaxTries = 2
  MaxEvents = 4
INVARIANTS FifoIntact FinalFrameFits StopLosesNothing
PROPERTIES Refinement EventuallyDelivered AllocateReturns
