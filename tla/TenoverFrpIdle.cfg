SPECIFICATION LoopSpec
CONSTANTS
  MaxConns = 3
  MaxShots = 1
  MaxErrors = 1
PROPERTIES Reestablished
CHECK_DEADLOCK FALSE
