SPECIFICATION Spec
CONSTANTS
  Letters <- LettersDef
  Lower <- LowerDef
  Scenarios <- Overlaid
INVARIANTS
  PiecesRight
CHECK_DEADLOCK FALSE
