SPECIFICATION PointsSpec
CONSTANTS
  SEGSIZ = 2
  p1 = p1
  p2 = p2
  letter = letter
  Users = {p1}
  NL = NL
  CR = CR
  TAB = TAB
  Blocks <- Letters
  CrlfModes <- Both
  Tab = 3
  Patterns <- Words
  MaxGoal = 2
  Entries = 256
  MaxText = 4
  MaxHdr = 9
INVARIANTS
  PlacesReached
CHECK_DEADLOCK FALSE
