SPECIFICATION MCSpec
CONSTANTS
  Chunk <- Chunk1
  Kinds = {"minor", "edit", "undo", "notmod"}
  Limit <- Limit2
  UNDOKEEP = 4
  MaxText = 2
  MaxRecs = 5
  MaxUnits = 9
  Forgets = TRUE
INVARIANTS
  PtrInside
PROPERTIES
  ImplementsHistory
