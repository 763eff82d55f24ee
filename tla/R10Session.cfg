\* An R10 that is asleep, or armed by an earlier session and left alone until
\* the wake command is answered; an environment update before or during the handshake.
SPECIFICATION SessionSpec
CONSTANTS
  ShotIds = {1, 2}
  Handles = {3}
  SessionHandle = 3
  Window = 1
  ReqIds = 1
  Inputs = {}
  MaxChunkFrames = 2
  MaxWriteFaults = 0
  MaxRx = 2
  MaxTx = 3
  MaxNow = 0
  AttachStates = {"Standby", "Waiting"}
  EarlySwing = FALSE
  EnvPhases = {"Registering", "WaitDeviceInfo"}
  MaxTroubles = 2
INVARIANTS ViewAtRest  SessionAfterHandshake
PROPERTIES BecomesActive Rearmed WakeFailureTold AnsweredOnceRegistered ShotsDelivered
CHECK_DEADLOCK FALSE
