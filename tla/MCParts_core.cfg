SPECIFICATION PartsSpec
CONSTANTS
  MaxPages = 3
  Frames = 2
  Data = {0, 1}
  Zero = 0
  Torn = Torn
  MaxLocks = 2
  MaxLost = 1
  MaxLines = 4
  MaxKeys = 7
  MaxEdits = 1
  MaxSteps = 3
  Letters <- YankLetters
  Original <- YankText
  Limit = 3
  MaxCmds = 4
  FileText <- MessagesText
  MaxTextLines = 3
  MaxMessages = 2
  MaxTextEdits = 2
INVARIANTS
  PlainMemory
  ScreenRight
  CursorRight
PROPERTIES
  FileRight
  MacrosRight
  MessagesRight
  PromptsRight
  YankRight
CHECK_DEADLOCK FALSE
