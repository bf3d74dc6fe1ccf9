SPECIFICATION UserSpec
CONSTANTS
  Capacity = 12
  FileHeader = 4
  FrameHeader = 3
  Align = 4
  Lens = {4, 8, 12}
  MaxFrames = 3
  PipeSize = 6
INVARIANTS FramesIntact RoomToRead
PROPERTIES UnwinderEnds WritesGoOn
CHECK_DEADLOCK FALSE
