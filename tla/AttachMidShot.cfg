\* A ball is hit before the wake command of the new session is answered.
SPECIFICATION SessionSpec
CONSTANTS
  ShotIds = {1, 2}
  Handles = {3}
  SessionHandle = 3
  Window = 2
  ReqIds = 3
  Inputs = {}
  MaxChunkFrames = 2
  MaxWriteFaults = 0
  MaxRx = 1
  MaxTx = 3
  MaxNow = 0
  AttachStates = {"Standby", "Waiting"}
  EarlySwing = TRUE
  EnvPhases = {}
  MaxTroubles = 1
INVARIANT ViewAtRest
CHECK_DEADLOCK FALSE
