SPECIFICATION BusySpec
CONSTANTS
  MaxConns = 3
  MaxShots = 2
  MaxErrors = 1
INVARIANTS TypeOK OneConnectionOnItsWay ControllerUpToDate WholeShots
PROPERTIES FirstConnected Reestablished
CHECK_DEADLOCK FALSE
