SPECIFICATION Spec
CONSTANTS
  Heights = {12, 16}
  HelpLines = 3
  MaxW = 3
  MenuLines = 3
  Buffers = {1, 2, 3}
  NULL = NULL
  Lines = {0, 9}
  NPOS = 3
  Scenarios <- MCScenarios
  FITHEIGHT = 4
INVARIANTS
  WindowsSound
  QuestionRestores
PROPERTIES
  TextKept
CHECK_DEADLOCK FALSE
