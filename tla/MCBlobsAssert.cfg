SPECIFICATION Spec
CONSTANTS
  Objs = {b1}
  MaxStrm = 2
  MaxData = 2
  MaxLen = 1
INVARIANTS
  PositionWithinLength
