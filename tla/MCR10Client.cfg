\* Any frame in any order, one write fault, replays on both sides of the window.
SPECIFICATION Spec
CONSTANTS
  ShotIds = {1}
  Handles = {1}
  OldHandle = 7
  Window = 2
  ReqIds = 2
  Inputs <- MCInputs
  MaxChunkFrames = 1
  MaxWriteFaults = 1
  MaxRx = 1
  MaxTx = 1
  MaxNow = 3
INVARIANTS TypeOK NoRepeatInWindow SwallowedWasReported
CHECK_DEADLOCK FALSE
