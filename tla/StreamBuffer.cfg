\* Cuts anywhere, two lost notifications, a cap that some schedules pass.
SPECIFICATION Spec
CONSTANTS
  ContentBytes = 2
  BufferMax = 6
  MaxChunk = 6
  MaxFrames = 3
  MaxLost = 2
  MaxRx = 2
INVARIANTS TypeOK
PROPERTIES FramesInOrder PairedYielded
CHECK_DEADLOCK FALSE
