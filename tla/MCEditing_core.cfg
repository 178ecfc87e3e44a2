SPECIFICATION Spec
CONSTANTS
  Tab = 4
  Scenarios <- Instances
  Keys <- TypedKeys
  Outputs <- Contents
  MaxLen = 14
INVARIANTS
  MatchReturns
PROPERTIES
  FormatSound
  BlocksKept
  XcolKnown
CHECK_DEADLOCK FALSE
