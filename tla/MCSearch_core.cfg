SPECIFICATION Spec
CONSTANTS
  Letters <- LettersDef
  Lower <- LowerDef
  Scenarios <- Core
INVARIANTS
  MatchesExact
  IncrementalDirect
PROPERTIES
  FindsNearest
  ReplacesExact
  StepsBack
CHECK_DEADLOCK FALSE
