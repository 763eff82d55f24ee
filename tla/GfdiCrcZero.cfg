\* Blocks as in the code.
SPECIFICATION Spec
CONSTANTS
  MaxRun = 254
  MsgTypes = {5000, 5043}
  PayloadBytes = {0, 1, 26}
  MaxPayload = 4
  Mtus = {0, 1, 2, 3, 5, 20, 65535}
  Handle = 1
INVARIANTS EveryFrameCarried
CHECK_DEADLOCK FALSE
