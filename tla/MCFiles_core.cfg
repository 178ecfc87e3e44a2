CONSTANTS
  Names = {"a", "b"}
  NoName = "none"
  MaxBufs = 3
  Scenarios <- Core
SPECIFICATION Spec
INVARIANTS
  SignalKeeps
PROPERTIES
  NothingOverwritten
  ClosedSaved
CHECK_DEADLOCK FALSE
