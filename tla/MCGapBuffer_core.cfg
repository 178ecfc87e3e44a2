SPECIFICATION Spec
CONSTANTS
  SEGSIZ = 2
  p1 = p1
  p2 = p2
  letter = letter
  Users = {p1, p2}
  NL = NL
  CR = CR
  Blocks <- Edits
  CrlfModes <- Off
  MaxText = 4
  MaxHdr = 9
SYMMETRY Pointers
INVARIANTS
  SegmentsSound
  TextHandedOver
PROPERTIES
  ImplementsMarks
CHECK_DEADLOCK FALSE
