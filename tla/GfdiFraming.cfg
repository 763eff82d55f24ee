\* Blocks of up to three bytes, so that messages have full ones in every place;
\* the bytes 160 and 19 make an ACK of 5024.
SPECIFICATION Spec
CONSTANTS
  MaxRun = 3
  MsgTypes = {5000, 5024, 5043}
  PayloadBytes = {0, 19, 160}
  MaxPayload = 5
  Mtus = {0, 1, 2, 3, 5, 20, 65535}
  Handle = 1
INVARIANTS CarriedBack StandardCarried  IdentityExcluded
  ChunksCarried  RequestCarried HandshakeCarried
CHECK_DEADLOCK FALSE
