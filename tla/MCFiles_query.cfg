CONSTANTS
  Names = {"a", "b", "c"}
  NoName = "none"
  MaxBufs = 3
  Scenarios <- Query
SPECIFICATION Spec
INVARIANT AllSaved
CHECK_DEADLOCK FALSE
