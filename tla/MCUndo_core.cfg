SPECIFICATION MCFairSpec
CONSTANTS
  Chunk <- Chunk2
  Kinds = {"minor", "edit", "undo", "redo", "save"}
  Limit <- Limit2
  UNDOKEEP = 50
  MaxText = 2
  MaxRecs = 4
  MaxUnits = 4
  Forgets = FALSE
INVARIANTS
  TypeOK
  UnitsWellFormed
  UniqueMeansSaved
PROPERTIES
  ImplementsHistory
  RedoRestores
  CommandsEnd
