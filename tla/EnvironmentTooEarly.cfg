\* An environment update sent while the client is still registering.
SPECIFICATION SessionSpec
CONSTANTS
  ShotIds = {1}
  Handles = {3}
  SessionHandle = 3
  Window = 1
  ReqIds = 3
  Inputs = {}
  MaxChunkFrames = 2
  MaxWriteFaults = 0
  MaxRx = 0
  MaxTx = 3
  MaxNow = 0
  AttachStates = {"Standby", "Waiting"}
  EarlySwing = FALSE
  EnvPhases = {"Registering"}
  MaxTroubles = 0
PROPERTIES EnvironmentAnswered
CHECK_DEADLOCK FALSE
