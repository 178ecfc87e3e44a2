SPECIFICATION FairSpec
CONSTANTS
  Bufs = {b1, b2}
  NULL = NULL
  NPROC = 2
  Chunk = 2
  Bells <- Bells1
  obufsiz = 3
  MaxSteps = 1
  MaxKeys = 2
  MaxOut = 2
INVARIANTS
  CopierCredit
  MpxSafety
PROPERTIES
  KeysInOrder
  ShowsOutput
  EverythingEnds
CHECK_DEADLOCK FALSE
