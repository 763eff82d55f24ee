\* A client that only polls never learns that the link is lost.
SPECIFICATION Spec
CONSTANTS
  Pieces = 2
  MaxWrites = 3
  MaxNotifications = 2
  MaxTries = 2
  SocketCap = 2
  WriteCap = 1
  MaxErrors = 1
PROPERTY LinkLossReported
CHECK_DEADLOCK FALSE
