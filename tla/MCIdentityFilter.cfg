SPECIFICATION Spec
CONSTANTS
  Bytes = {1, 2}
  Excluded <- MCExcluded
  MaxFrameBytes = 3
  MaxHeldChunks = 2
  MaxChunks = 4
  MaxChunkBytes = 3
INVARIANTS TypeOK NoLeak NoLoss 
CHECK_DEADLOCK FALSE
