\* Either backend, writes on both characteristics, the link lost anywhere.
SPECIFICATION Spec
CONSTANTS
  Pieces = 2
  MaxWrites = 3
  MaxNotifications = 2
  MaxTries = 2
  SocketCap = 2
  WriteCap = 1
  MaxErrors = 1
INVARIANTS TypeOK NoGap 
PROPERTIES RepliesReceived WriteReturns LossNoticed ThreadEnds SetupEnds
CHECK_DEADLOCK FALSE
